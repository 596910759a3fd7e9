----------------------------- MODULE MessageRow -----------------------------
(***************************************************************************)
(* The persisted message row of yawac and the two pure operations that     *)
(* change one: `merge` (PersistedMessage+Merge.swift), which folds an      *)
(* incoming, replayed or outgoing message into the row, and `apply`        *)
(* (MessageWriter.swift), which applies one mutation.                      *)
(*                                                                         *)
(* Times are naturals and 0 is the nil timestamp.  Delivery states are     *)
(* their rank in the code's own table.  A location is its sequence number: *)
(* NoLocation, 0 for a location without a sequence, n for sequence n.      *)
(* Fields the properties do not tell apart (push name, album, quote, poll, *)
(* contact, file name, dimensions) are left out of the row.                *)
(***************************************************************************)
EXTENDS Integers

CONSTANTS
    Id,         \* message identifiers
    Chat,       \* canonical chat identifiers
    Text,       \* message bodies
    Ref,        \* media references (the direct path a download uses)
    None        \* the nil of an optional body, reference or row

Time == Nat \ {0}

(* deliveryStatus by rank: sent 0, delivered 1, played 2, read 3 *)
Delivery == 0..3

NoLocation == -1
Location == Nat \cup {NoLocation}

Row ==
    [chat: Chat, text: Text \cup {None}, editedAt: Nat, revokedAt: Nat,
     deleted: BOOLEAN, delivery: Delivery, starredAt: Nat, pinnedAt: Nat,
     viewOnce: BOOLEAN, locked: BOOLEAN, path: BOOLEAN, caption: BOOLEAN,
     ref: Ref \cup {None}, expired: BOOLEAN, location: Location]

Message ==
    [id: Id, chat: Chat, text: Text \cup {None}, viewOnce: BOOLEAN,
     path: BOOLEAN, caption: BOOLEAN, ref: Ref \cup {None}, location: Location]

Mutation ==
         [kind: {"edit"}, id: Id, at: Time, text: Text]
    \cup [kind: {"revoke"}, id: Id, at: Time]
    \cup [kind: {"localDelete", "mediaPath", "viewOnce"}, id: Id]
    \cup [kind: {"star", "messagePin"}, id: Id, at: Time, on: BOOLEAN]
    \cup [kind: {"delivery"}, id: Id, rank: Delivery]
    \cup [kind: {"mediaExpired"}, id: Id, on: BOOLEAN]
    \cup [kind: {"mediaRetry"}, id: Id, ref: Ref]

ASSUME NoneAssumption ==
    /\ None \notin Row
    /\ None \notin Text
    /\ None \notin Ref

-----------------------------------------------------------------------------
(* A row no message has been merged into. *)
BlankRow(c) ==
    [chat |-> c, text |-> None, editedAt |-> 0, revokedAt |-> 0,
     deleted |-> FALSE, delivery |-> 0, starredAt |-> 0, pinnedAt |-> 0,
     viewOnce |-> FALSE, locked |-> FALSE, path |-> FALSE, caption |-> FALSE,
     ref |-> None, expired |-> FALSE, location |-> NoLocation]

(* Mutant: a replay overwrites the text of an edited row. *)
MergeTextOverEdit(r, m) == IF m.text # None THEN m.text ELSE r.text

MergeText(r, m) == IF r.editedAt = 0 /\ m.text # None THEN m.text ELSE r.text

(* Mutant: a replay hands its media back to a consumed view-once row. *)
MergeMediaIgnoringLock(r, m, field) == r[field] \/ m[field]

MergeMedia(r, m, field) == r[field] \/ (~r.locked /\ m[field])

(* A location replaces the stored one unless its sequence is older. *)
MergeLocation(r, m) == IF m.location # NoLocation /\ m.location >= r.location
                       THEN m.location ELSE r.location

NewRef(r, m) == m.ref # None /\ m.ref # r.ref

Merge(r, m) ==
    [r EXCEPT !.chat = m.chat,
              !.text = MergeText(r, m),
              !.viewOnce = r.viewOnce \/ m.viewOnce,
              !.ref = IF NewRef(r, m) THEN m.ref ELSE r.ref,
              !.expired = r.expired /\ ~NewRef(r, m),
              !.path = MergeMedia(r, m, "path"),
              !.caption = MergeMedia(r, m, "caption"),
              !.location = MergeLocation(r, m)]

Searchable(r) == ~r.deleted /\ r.revokedAt = 0

-----------------------------------------------------------------------------
(* Mutant: a receipt is applied whatever the row already knows. *)
ApplyDeliveryLast(r, m) == [r EXCEPT !.delivery = m.rank]

ApplyDelivery(r, m) ==
    IF m.rank > r.delivery THEN [r EXCEPT !.delivery = m.rank] ELSE r

ApplyEdit(r, m) ==
    IF r.editedAt <= m.at
    THEN [r EXCEPT !.text = m.text, !.editedAt = m.at] ELSE r

ApplyRevoke(r, m) ==
    IF r.revokedAt <= m.at THEN [r EXCEPT !.revokedAt = m.at] ELSE r

(* Mutant: consuming clears the media but does not lock the row. *)
ApplyViewOnceWithoutLock(r) ==
    IF r.viewOnce THEN [r EXCEPT !.caption = FALSE, !.path = FALSE] ELSE r

ApplyViewOnce(r) ==
    IF r.viewOnce /\ ~r.locked
    THEN [r EXCEPT !.locked = TRUE, !.caption = FALSE, !.path = FALSE] ELSE r

ApplyMediaRetry(r, m) ==
    IF r.ref # None THEN [r EXCEPT !.ref = m.ref, !.expired = FALSE] ELSE r

Apply(r, m) ==
    CASE m.kind = "delivery"     -> ApplyDelivery(r, m)
      [] m.kind = "mediaPath"    -> [r EXCEPT !.path = r.path \/ ~r.locked]
      [] m.kind = "mediaExpired" -> [r EXCEPT !.expired = m.on]
      [] m.kind = "mediaRetry"   -> ApplyMediaRetry(r, m)
      [] m.kind = "viewOnce"     -> ApplyViewOnce(r)
      [] m.kind = "localDelete"  -> [r EXCEPT !.deleted = TRUE]
      [] m.kind = "revoke"       -> ApplyRevoke(r, m)
      [] m.kind = "messagePin"   -> [r EXCEPT !.pinnedAt = IF m.on THEN m.at ELSE 0]
      [] m.kind = "star"         -> [r EXCEPT !.starredAt = IF m.on THEN m.at ELSE 0]
      [] m.kind = "edit"         -> ApplyEdit(r, m)

-----------------------------------------------------------------------------
(* What a row may never lose: the order on rows every merge and every      *)
(* mutation climbs.                                                        *)
Dominates(new, old) ==
    /\ new.editedAt >= old.editedAt
    /\ new.revokedAt >= old.revokedAt
    /\ old.deleted => new.deleted
    /\ new.delivery >= old.delivery
    /\ old.viewOnce => new.viewOnce
    /\ old.locked => new.locked /\ ~new.path /\ ~new.caption
    /\ new.location >= old.location

(* A consumed row keeps neither its file nor its caption, and only a view- *)
(* once message can be consumed.                                           *)
LockSound(r) == r.locked => r.viewOnce /\ ~r.path /\ ~r.caption

=============================================================================
