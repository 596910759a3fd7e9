------------------------ MODULE MessageWriterProofs ------------------------
(* Theorems about MessageRow and MessageWriter, for every set of inputs,   *)
(* every limit and any number of operations in a write.  First its rows:   *)
(* types, the order on rows, consumed rows.  Then what it promises beyond  *)
(* them: what is held waits only for unknown messages, a chat reported as  *)
(* deleted is empty, a file goes after the lock is saved, an edit stands,  *)
(* a merged chat stays merged.  Last, with room for every target, that a   *)
(* revocation a write accepted is on the row, or held until the row comes. *)
EXTENDS MessageWriter, FiniteSetTheorems, TLAPS

(***************************************************************************)
(* Rows                                                                    *)
(***************************************************************************)

LEMMA BlankRowType == \A c \in Chat : BlankRow(c) \in Row
BY DEF BlankRow, Row, Delivery, Location, NoLocation

LEMMA MergeType ==
    ASSUME NEW r \in Row, NEW m \in Message
    PROVE  Merge(r, m) \in Row
<1> DEFINE viewOnce == r.viewOnce \/ m.viewOnce
           ref == IF NewRef(r, m) THEN m.ref ELSE r.ref
           expired == r.expired /\ ~NewRef(r, m)
           text == MergeText(r, m)
           path == MergeMedia(r, m, "path")
           caption == MergeMedia(r, m, "caption")
           location == MergeLocation(r, m)
<1>1. text \in Text \cup {None} /\ location \in Location
  BY DEF MergeText, MergeLocation, Row, Message
<1>2. path \in BOOLEAN /\ caption \in BOOLEAN
  BY DEF MergeMedia, Row, Message
<1>3. m.chat \in Chat /\ ref \in Ref \cup {None}
  BY DEF Row, Message
<1>4. viewOnce \in BOOLEAN /\ expired \in BOOLEAN
  BY DEF Row, Message
<1>5. Merge(r, m) = [r EXCEPT !.chat = m.chat, !.text = text, !.viewOnce = viewOnce,
                              !.ref = ref, !.expired = expired, !.path = path,
                              !.caption = caption, !.location = location]
  BY DEF Merge
<1> HIDE DEF viewOnce, ref, expired, text, path, caption, location
<1> QED
  BY <1>1, <1>2, <1>3, <1>4, <1>5 DEF Row

LEMMA ApplyType ==
    ASSUME NEW r \in Row, NEW m \in Mutation
    PROVE  Apply(r, m) \in Row
<1>1. CASE m \in [kind: {"edit"}, id: Id, at: Time, text: Text]
  BY <1>1 DEF Apply, ApplyEdit, Row, Time
<1>2. CASE m \in [kind: {"revoke"}, id: Id, at: Time]
  BY <1>2 DEF Apply, ApplyRevoke, Row, Time
<1>3. CASE m \in [kind: {"localDelete", "mediaPath", "viewOnce"}, id: Id]
  BY <1>3 DEF Apply, ApplyViewOnce, Row
<1>4. CASE m \in [kind: {"star", "messagePin"}, id: Id, at: Time, on: BOOLEAN]
  BY <1>4 DEF Apply, Row, Time
<1>5. CASE m \in [kind: {"delivery"}, id: Id, rank: Delivery]
  BY <1>5 DEF Apply, ApplyDelivery, Row
<1>6. CASE m \in [kind: {"mediaExpired"}, id: Id, on: BOOLEAN]
  BY <1>6 DEF Apply, Row
<1>7. CASE m \in [kind: {"mediaRetry"}, id: Id, ref: Ref]
  BY <1>7 DEF Apply, ApplyMediaRetry, Row
<1> QED
  BY <1>1, <1>2, <1>3, <1>4, <1>5, <1>6, <1>7 DEF Mutation

LEMMA DominatesReflexive ==
    ASSUME NEW r \in Row, LockSound(r)
    PROVE  Dominates(r, r)
BY DEF Dominates, LockSound, Row, Delivery, Location, NoLocation

LEMMA DominatesTransitive ==
    ASSUME NEW r \in Row, NEW s \in Row, NEW t \in Row,
           Dominates(s, r), Dominates(t, s)
    PROVE  Dominates(t, r)
BY DEF Dominates, Row, Delivery, Location, NoLocation

(* What merging a message does to the fields the order looks at. *)
LEMMA MergeFields ==
    ASSUME NEW r \in Row, NEW m \in Message
    PROVE  LET n == Merge(r, m)
           IN  /\ n.chat = m.chat
               /\ n.editedAt = r.editedAt /\ n.revokedAt = r.revokedAt
               /\ n.deleted = r.deleted /\ n.delivery = r.delivery
               /\ n.locked = r.locked
               /\ n.viewOnce = (r.viewOnce \/ m.viewOnce)
               /\ n.path = (r.path \/ (~r.locked /\ m.path))
               /\ n.caption = (r.caption \/ (~r.locked /\ m.caption))
               /\ n.location >= r.location
               /\ r.editedAt > 0 => n.text = r.text
<1>1. MergeLocation(r, m) >= r.location
  BY DEF MergeLocation, Row, Message, Location, NoLocation
<1>2. Merge(r, m).location = MergeLocation(r, m) /\ Merge(r, m).text = MergeText(r, m)
  BY DEF Merge, Row
<1>3. r.editedAt > 0 => MergeText(r, m) = r.text
  BY DEF MergeText, Row
<1>4. /\ Merge(r, m).chat = m.chat
      /\ Merge(r, m).editedAt = r.editedAt /\ Merge(r, m).revokedAt = r.revokedAt
      /\ Merge(r, m).deleted = r.deleted /\ Merge(r, m).delivery = r.delivery
      /\ Merge(r, m).locked = r.locked
  BY DEF Merge, Row
<1>5. /\ Merge(r, m).viewOnce = (r.viewOnce \/ m.viewOnce)
      /\ Merge(r, m).path = (r.path \/ (~r.locked /\ m.path))
      /\ Merge(r, m).caption = (r.caption \/ (~r.locked /\ m.caption))
  BY DEF Merge, MergeMedia, Row
<1> QED
  BY <1>1, <1>2, <1>3, <1>4, <1>5

LEMMA MergeClimbs ==
    ASSUME NEW r \in Row, NEW m \in Message, LockSound(r)
    PROVE  LockSound(Merge(r, m)) /\ Dominates(Merge(r, m), r)
<1> DEFINE n == Merge(r, m)
<1>1. n \in Row
  BY MergeType
<1>2. LockSound(n)
  BY MergeFields DEF LockSound
<1>3. /\ n.editedAt >= r.editedAt /\ n.revokedAt >= r.revokedAt
      /\ n.delivery >= r.delivery /\ n.location >= r.location
  BY MergeFields DEF Row, Delivery
<1>4. /\ r.deleted => n.deleted
      /\ r.viewOnce => n.viewOnce
      /\ r.locked => n.locked /\ ~n.path /\ ~n.caption
  BY MergeFields DEF LockSound
<1> QED
  BY <1>2, <1>3, <1>4 DEF Dominates

LEMMA ApplyFields ==
    ASSUME NEW r \in Row, NEW m \in Mutation
    PROVE  LET n == Apply(r, m)
           IN  /\ n.chat = r.chat /\ n.location = r.location
               /\ n.editedAt >= r.editedAt /\ n.revokedAt >= r.revokedAt
               /\ n.delivery >= r.delivery
               /\ r.deleted => n.deleted
               /\ n.viewOnce = r.viewOnce
               /\ r.locked => n.locked
               /\ r.locked /\ ~r.path => ~n.path
               /\ r.locked /\ ~r.caption => ~n.caption
               /\ n.locked /\ ~r.locked => r.viewOnce /\ ~n.path /\ ~n.caption
<1>1. CASE m \in [kind: {"edit"}, id: Id, at: Time, text: Text]
  <2>1. Apply(r, m) = ApplyEdit(r, m)
    BY <1>1 DEF Apply
  <2>2. m.at \in Nat
    BY <1>1 DEF Time
  <2> QED
    BY <2>1, <2>2 DEF ApplyEdit, Row, Delivery
<1>2. CASE m \in [kind: {"revoke"}, id: Id, at: Time]
  <2>1. Apply(r, m) = ApplyRevoke(r, m)
    BY <1>2 DEF Apply
  <2>2. m.at \in Nat
    BY <1>2 DEF Time
  <2> QED
    BY <2>1, <2>2 DEF ApplyRevoke, Row, Delivery

<1>3. CASE m \in [kind: {"localDelete", "mediaPath", "viewOnce"}, id: Id]
  <2>1. CASE m.kind = "localDelete"
    <3>1. Apply(r, m) = [r EXCEPT !.deleted = TRUE]
      BY <2>1 DEF Apply
    <3> QED
      BY <3>1 DEF Row, Delivery
  <2>2. CASE m.kind = "mediaPath"
    <3>1. Apply(r, m) = [r EXCEPT !.path = r.path \/ ~r.locked]
      BY <2>2 DEF Apply
    <3> QED
      BY <3>1 DEF Row, Delivery
  <2>3. CASE m.kind = "viewOnce"
    <3>1. Apply(r, m) = ApplyViewOnce(r)
      BY <2>3 DEF Apply
    <3> QED
      BY <3>1 DEF ApplyViewOnce, Row, Delivery
  <2> QED
    BY <1>3, <2>1, <2>2, <2>3
<1>4. CASE m \in [kind: {"star", "messagePin"}, id: Id, at: Time, on: BOOLEAN]
  <2>1. CASE m.kind = "star"
    <3>1. Apply(r, m) = [r EXCEPT !.starredAt = IF m.on THEN m.at ELSE 0]
      BY <2>1 DEF Apply
    <3> QED
      BY <3>1 DEF Row, Delivery
  <2>2. CASE m.kind = "messagePin"
    <3>1. Apply(r, m) = [r EXCEPT !.pinnedAt = IF m.on THEN m.at ELSE 0]
      BY <2>2 DEF Apply
    <3> QED
      BY <3>1 DEF Row, Delivery
  <2> QED
    BY <1>4, <2>1, <2>2
<1>5. CASE m \in [kind: {"delivery"}, id: Id, rank: Delivery]
  <2>1. Apply(r, m) = ApplyDelivery(r, m)
    BY <1>5 DEF Apply
  <2>2. m.rank \in Int
    BY <1>5 DEF Delivery
  <2> QED
    BY <2>1, <2>2 DEF ApplyDelivery, Row, Delivery
<1>6. CASE m \in [kind: {"mediaExpired"}, id: Id, on: BOOLEAN]
  <2>1. Apply(r, m) = [r EXCEPT !.expired = m.on]
    BY <1>6 DEF Apply
  <2> QED
    BY <2>1 DEF Row, Delivery
<1>7. CASE m \in [kind: {"mediaRetry"}, id: Id, ref: Ref]
  <2>1. Apply(r, m) = ApplyMediaRetry(r, m)
    BY <1>7 DEF Apply
  <2> QED
    BY <2>1 DEF ApplyMediaRetry, Row, Delivery
<1> QED
  BY <1>1, <1>2, <1>3, <1>4, <1>5, <1>6, <1>7 DEF Mutation

LEMMA ApplyClimbs ==
    ASSUME NEW r \in Row, NEW m \in Mutation, LockSound(r)
    PROVE  LockSound(Apply(r, m)) /\ Dominates(Apply(r, m), r)
<1> DEFINE n == Apply(r, m)
<1>1. LockSound(n)
  BY ApplyFields, ApplyType DEF LockSound, Row
<1>2. /\ n.editedAt >= r.editedAt /\ n.revokedAt >= r.revokedAt
      /\ n.delivery >= r.delivery /\ n.location >= r.location
  BY ApplyFields DEF Row, Location, NoLocation
<1>3. /\ r.deleted => n.deleted
      /\ r.viewOnce => n.viewOnce
      /\ r.locked => n.locked /\ ~n.path /\ ~n.caption
  BY ApplyFields DEF LockSound
<1> QED
  BY <1>1, <1>2, <1>3 DEF Dominates


(***************************************************************************)
(* The store and what is held                                              *)
(***************************************************************************)

LEMMA RowUpdate ==
    ASSUME NEW db \in Store, NEW i \in Id, NEW r \in Row \cup {None}
    PROVE  LET new == [db EXCEPT !.rows[i] = r]
           IN  /\ new \in Store
               /\ new.rows = [db.rows EXCEPT ![i] = r]
               /\ new.reactions = db.reactions /\ new.votes = db.votes
               /\ new.chats = db.chats
BY DEF Store

LEMMA MarkUpdate ==
    ASSUME NEW db \in Store, NEW k \in Id \X Sender, NEW x \in Mark \cup {None}
    PROVE  /\ [db EXCEPT !.reactions[k] = x] \in Store
           /\ [db EXCEPT !.reactions[k] = x].rows = db.rows
           /\ [db EXCEPT !.votes[k] = x] \in Store
           /\ [db EXCEPT !.votes[k] = x].rows = db.rows
BY DEF Store

LEMMA MergedType ==
    ASSUME NEW db \in Store, NEW lids \in SUBSET DOMAIN PnOf
    PROVE  Merged(db, lids) \in Store
<1> DEFINE To(c) == IF c \in lids THEN PnOf[c] ELSE c
           Moved(marks) == [k \in Id \X Sender |->
                              IF marks[k] = None THEN None
                              ELSE [marks[k] EXCEPT !.chat = To(@)]]
<1>1. \A c \in Chat : To(c) \in Chat
  BY WriterAssumption
<1>2. ASSUME NEW marks \in [Id \X Sender -> Mark \cup {None}]
      PROVE  Moved(marks) \in [Id \X Sender -> Mark \cup {None}]
  <2>1. ASSUME NEW k \in Id \X Sender, marks[k] # None
        PROVE  [marks[k] EXCEPT !.chat = To(@)] \in Mark
    <3>1. marks[k] \in Mark
      BY <2>1
    <3>2. To(marks[k].chat) \in Chat
      BY <1>1, <3>1 DEF Mark
    <3> QED
      BY <3>1, <3>2 DEF Mark
  <2> QED
    BY <2>1
<1>3. ASSUME NEW i \in Id, db.rows[i] # None
      PROVE  [db.rows[i] EXCEPT !.chat = To(@)] \in Row
  <2>1. db.rows[i] \in Row
    BY <1>3 DEF Store
  <2>2. To(db.rows[i].chat) \in Chat
    BY <1>1, <2>1 DEF Row
  <2> HIDE DEF To
  <2> QED
    BY <2>1, <2>2 DEF Row
<1>4. [i \in Id |-> IF Stored(db, i) THEN [db.rows[i] EXCEPT !.chat = To(@)] ELSE None]
        \in [Id -> Row \cup {None}]
  BY <1>3 DEF Stored
<1>5. {To(c) : c \in db.chats} \in SUBSET Chat
  BY <1>1 DEF Store
<1>6. /\ Moved(db.reactions) \in [Id \X Sender -> Mark \cup {None}]
      /\ Moved(db.votes) \in [Id \X Sender -> Mark \cup {None}]
  BY <1>2 DEF Store
<1>7. Merged(db, lids) =
        [rows |-> [i \in Id |-> IF Stored(db, i) THEN [db.rows[i] EXCEPT !.chat = To(@)]
                                                   ELSE None],
         reactions |-> Moved(db.reactions), votes |-> Moved(db.votes),
         chats |-> {To(c) : c \in db.chats}]
  BY DEF Merged
<1> HIDE DEF Moved, To
<1> QED
  BY <1>4, <1>5, <1>6, <1>7 DEF Store

LEMMA WithoutType ==
    ASSUME NEW s \in Seq(Id), NEW i \in Id
    PROVE  Without(s, i) \in Seq(Id) /\ Len(Without(s, i)) <= Len(s)
<1>1. CASE \E k \in 1..Len(s) : s[k] = i
  <2> DEFINE p == CHOOSE k \in 1..Len(s) : s[k] = i
             w == [j \in 1..(Len(s) - 1) |-> IF j < p THEN s[j] ELSE s[j + 1]]
  <2>1. p \in 1..Len(s) /\ Without(s, i) = w
    BY <1>1 DEF Without
  <2>2. Len(s) - 1 \in Nat
    BY <1>1
  <2>3. \A j \in 1..(Len(s) - 1) : s[j] \in Id /\ s[j + 1] \in Id
    OBVIOUS
  <2> HIDE DEF p
  <2>4. w \in [1..(Len(s) - 1) -> Id]
    BY <2>3
  <2>5. w \in Seq(Id) /\ Len(w) = Len(s) - 1
    BY <2>2, <2>4
  <2> QED
    BY <2>1, <2>5
<1>2. CASE ~ \E k \in 1..Len(s) : s[k] = i
  BY <1>2 DEF Without
<1> QED
  BY <1>1, <1>2

LEMMA IndexedType ==
    ASSUME NEW db \in Store, learned \subseteq DOMAIN PnOf
    PROVE  Indexed(db) \in [Id -> Entry \cup {None}]
<1>1. \A c \in Chat : Canon(c) \in Chat
  BY WriterAssumption DEF Canon
<1>2. ASSUME NEW i \in Id, Stored(db, i)
      PROVE  [chat |-> Canon(db.rows[i].chat), text |-> db.rows[i].text,
              caption |-> db.rows[i].caption] \in Entry
  BY <1>1, <1>2 DEF Stored, Store, Row, Entry
<1> QED
  BY <1>2 DEF Indexed


LEMMA ForgetType ==
    ASSUME TypeOK, NEW i \in Id, Forget(i)
    PROVE  /\ pending' \in [Id -> Seq(Mutation)]
           /\ order' \in Seq(Id)
           /\ Len(order') <= TargetLimit
           /\ \A j \in Id : Len(pending'[j]) <= MutationLimit
<1>1. order' \in Seq(Id) /\ Len(order') <= Len(order)
  BY WithoutType DEF TypeOK, Forget
<1>2. Len(order') <= TargetLimit
  BY <1>1, WriterAssumption DEF TypeOK
<1>3. \A j \in Id : pending'[j] = pending[j] \/ pending'[j] = <<>>
  BY DEF TypeOK, Forget
<1>4. \A j \in Id : Len(pending'[j]) <= MutationLimit
  BY <1>3, WriterAssumption DEF TypeOK
<1>5. pending' \in [Id -> Seq(Mutation)]
  BY DEF TypeOK, Forget
<1> QED
  BY <1>1, <1>2, <1>4, <1>5

LEMMA TrimType ==
    ASSUME NEW s \in Seq(Mutation), NEW m \in Mutation, Len(s) <= MutationLimit
    PROVE  /\ Trim(Append(s, m)) \in Seq(Mutation)
           /\ Len(Trim(Append(s, m))) <= MutationLimit
           /\ Trim(Append(s, m)) # <<>>
<1>1. Append(s, m) \in Seq(Mutation) /\ Len(Append(s, m)) = Len(s) + 1
  OBVIOUS
<1>2. CASE Len(s) + 1 > MutationLimit
  <2>1. Trim(Append(s, m)) = Tail(Append(s, m))
    BY <1>1, <1>2 DEF Trim
  <2>2. Len(s) >= 1
    BY <1>2, WriterAssumption
  <2> QED
    BY <1>1, <2>1, <2>2, WriterAssumption
<1>3. CASE ~(Len(s) + 1 > MutationLimit)
  <2>1. Trim(Append(s, m)) = Append(s, m)
    BY <1>1, <1>3 DEF Trim
  <2>2. Append(s, m) # <<>>
    BY <1>1
  <2> QED
    BY <1>1, <1>3, <2>1, <2>2, WriterAssumption
<1> QED
  BY <1>2, <1>3

LEMMA StashType ==
    ASSUME TypeOK, NEW m \in Mutation, Stash(m)
    PROVE  /\ pending' \in [Id -> Seq(Mutation)]
           /\ order' \in Seq(Id)
           /\ Len(order') <= TargetLimit
           /\ \A j \in Id : Len(pending'[j]) <= MutationLimit
<1> DEFINE listed == IF pending[m.id] = <<>> THEN Append(order, m.id) ELSE order
           kept == [pending EXCEPT ![m.id] = Trim(Append(@, m))]
<1>1. m.id \in Id
  BY DEF Mutation
<1>2. listed \in Seq(Id) /\ Len(listed) <= TargetLimit + 1
  BY <1>1, WriterAssumption DEF TypeOK
<1>3. /\ Trim(Append(pending[m.id], m)) \in Seq(Mutation)
      /\ Len(Trim(Append(pending[m.id], m))) <= MutationLimit
  BY <1>1, TrimType DEF TypeOK
<1>4. kept \in [Id -> Seq(Mutation)] /\ \A j \in Id : Len(kept[j]) <= MutationLimit
  BY <1>1, <1>3 DEF TypeOK
<1>5. \/ /\ Len(listed) > TargetLimit
         /\ order' = Tail(listed)
         /\ pending' = [kept EXCEPT ![Head(listed)] = <<>>]
      \/ ~(Len(listed) > TargetLimit) /\ order' = listed /\ pending' = kept
  BY DEF Stash
<1> HIDE DEF listed, kept
<1>6. CASE /\ Len(listed) > TargetLimit
           /\ order' = Tail(listed)
           /\ pending' = [kept EXCEPT ![Head(listed)] = <<>>]
  <2>1. order' \in Seq(Id) /\ Len(order') <= TargetLimit
    BY <1>2, <1>6, WriterAssumption
  <2>2. \A j \in Id : pending'[j] = kept[j] \/ pending'[j] = <<>>
    BY <1>4, <1>6
  <2> QED
    BY <1>4, <1>6, <2>1, <2>2, WriterAssumption
<1>7. CASE ~(Len(listed) > TargetLimit) /\ order' = listed /\ pending' = kept
  BY <1>2, <1>4, <1>7, WriterAssumption
<1> QED
  BY <1>5, <1>6, <1>7


(***************************************************************************)
(* Type correctness.  A failed write goes back to what was held when it    *)
(* began, so the limits have to hold of that copy too.                     *)
(***************************************************************************)

HeldWithinLimits ==
    /\ Len(held.order) <= TargetLimit
    /\ \A i \in Id : Len(held.pending[i]) <= MutationLimit

TypeInv == TypeOK /\ HeldWithinLimits

LEMMA TypeInvInit == Init => TypeInv
<1> SUFFICES ASSUME Init PROVE TypeInv
  OBVIOUS
<1>1. EmptyStore \in Store
  BY DEF EmptyStore, Store
<1>2. NothingHeld \in [Id -> Seq(Mutation)] /\ \A i \in Id : Len(NothingHeld[i]) = 0
  BY DEF NothingHeld
<1> QED
  BY <1>1, <1>2, WriterAssumption DEF Init, TypeInv, TypeOK, HeldWithinLimits

(* The steps that touch neither the store nor what is held. *)
LEMMA FrameType ==
    ASSUME TypeInv,
           \/ Begin \/ PurgeEnd \/ Save \/ Throw \/ DeleteConsumedFiles
           \/ IndexFails \/ Reconfigure \/ Crash
           \/ \E l \in DOMAIN PnOf : LearnMapping(l)
    PROVE  TypeInv'
<1> USE DEF TypeInv, TypeOK, HeldWithinLimits
<1>1. CASE Begin
  BY <1>1 DEF Begin
<1>2. CASE PurgeEnd
  BY <1>2 DEF PurgeEnd
<1>3. CASE Save
  BY <1>3 DEF Save, memory
<1>4. CASE Throw
  BY <1>4 DEF Throw, Restore
<1>5. CASE DeleteConsumedFiles
  BY <1>5 DEF DeleteConsumedFiles, memory
<1>6. CASE IndexFails
  BY <1>6 DEF IndexFails, memory
<1>7. CASE Reconfigure
  BY <1>7 DEF Reconfigure, memory
<1>8. CASE Crash
  <2>1. NothingHeld \in [Id -> Seq(Mutation)] /\ \A i \in Id : Len(NothingHeld[i]) = 0
    BY DEF NothingHeld
  <2> QED
    BY <1>8, <2>1, WriterAssumption DEF Crash
<1>9. CASE \E l \in DOMAIN PnOf : LearnMapping(l)
  BY <1>9 DEF LearnMapping, memory
<1> QED
  BY <1>1, <1>2, <1>3, <1>4, <1>5, <1>6, <1>7, <1>8, <1>9

LEMMA PurgeChatType ==
    ASSUME TypeInv, NEW c \in Chat, PurgeChat(c)
    PROVE  TypeInv'
<1>1. ctx' \in Store
  BY DEF TypeInv, TypeOK, PurgeChat, Store
<1> QED
  BY <1>1 DEF TypeInv, TypeOK, HeldWithinLimits, PurgeChat, Running

LEMMA PurgeRowType ==
    ASSUME TypeInv, NEW i \in Id, PurgeRow(i)
    PROVE  TypeInv'
<1>1. ctx' \in Store
  BY RowUpdate DEF TypeInv, TypeOK, PurgeRow
<1>2. /\ pending' \in [Id -> Seq(Mutation)]
      /\ order' \in Seq(Id) /\ Len(order') <= TargetLimit
      /\ \A j \in Id : Len(pending'[j]) <= MutationLimit
  BY ForgetType DEF TypeInv, PurgeRow
<1> QED
  BY <1>1, <1>2 DEF TypeInv, TypeOK, HeldWithinLimits, PurgeRow

LEMMA CanonType == TypeOK => \A c \in Chat : Canon(c) \in Chat
BY WriterAssumption DEF TypeOK, Canon

LEMMA PutMessageType ==
    ASSUME TypeInv, NEW m \in Messages, PutMessage(m)
    PROVE  TypeInv'
<1> DEFINE jid == Canon(m.chat)
           old == IF Stored(ctx, m.id) THEN ctx.rows[m.id] ELSE BlankRow(jid)
           msg == [m EXCEPT !.chat = jid]
<1>1. m \in Message /\ m.id \in Id /\ m.chat \in Chat
  BY WriterAssumption DEF Message
<1>2. jid \in Chat
  BY <1>1, CanonType DEF TypeInv
<1>3. msg \in Message
  BY <1>1, <1>2 DEF Message
<1>4. old \in Row
  BY <1>1, <1>2, BlankRowType DEF TypeInv, TypeOK, Store, Stored
<1>5. ctx' = [ctx EXCEPT !.rows[m.id] = Merge(old, msg)]
  BY DEF PutMessage
<1>6. Merge(old, msg) \in Row
  BY <1>3, <1>4, MergeType
<1> HIDE DEF old, msg
<1>7. ctx' \in Store
  BY <1>1, <1>5, <1>6, RowUpdate DEF TypeInv, TypeOK
<1>8. /\ pending' \in [Id -> Seq(Mutation)]
      /\ order' \in Seq(Id) /\ Len(order') <= TargetLimit
      /\ \A j \in Id : Len(pending'[j]) <= MutationLimit
  BY <1>1, ForgetType DEF TypeInv, PutMessage
<1>9. /\ files' \subseteq Id /\ changed' \subseteq Id
      /\ replay' \in Seq(Mutation) /\ deletedChats' \subseteq Chat
      /\ count' \in Nat
  BY <1>1 DEF TypeInv, TypeOK, PutMessage, AliveAgain
<1> QED
  BY <1>7, <1>8, <1>9 DEF TypeInv, TypeOK, HeldWithinLimits, PutMessage, Running

LEMMA ReplayType ==
    ASSUME TypeInv, Replay
    PROVE  TypeInv'
<1> DEFINE m == Head(replay)
<1>1. m \in Mutation /\ Tail(replay) \in Seq(Mutation)
  BY DEF TypeInv, TypeOK, Replay
<1>2. m.id \in Id
  BY <1>1 DEF Mutation
<1>3. ctx' \in Store
  <2>1. CASE Stored(ctx, m.id)
    <3>1. ctx.rows[m.id] \in Row
      BY <1>2, <2>1 DEF TypeInv, TypeOK, Store, Stored
    <3>2. Apply(ctx.rows[m.id], m) \in Row
      BY <1>1, <3>1, ApplyType
    <3>3. ctx' = [ctx EXCEPT !.rows[m.id] = Apply(ctx.rows[m.id], m)]
      BY <2>1 DEF Replay
    <3> QED
      BY <1>2, <3>2, <3>3, RowUpdate DEF TypeInv, TypeOK
  <2>2. CASE ~Stored(ctx, m.id)
    BY <2>2 DEF Replay, TypeInv, TypeOK
  <2> QED
    BY <2>1, <2>2
<1> QED
  BY <1>1, <1>3 DEF TypeInv, TypeOK, HeldWithinLimits, Replay

LEMMA MutateType ==
    ASSUME TypeInv, NEW m \in Mutations, Mutate(m)
    PROVE  TypeInv'
<1>1. m \in Mutation /\ m.id \in Id
  BY WriterAssumption DEF Mutation
<1>2. files' \subseteq Id /\ count' \in Nat
  BY <1>1, WriterAssumption DEF TypeInv, TypeOK, Mutate
<1>3. CASE Stored(ctx, m.id)
  <2>1. Apply(ctx.rows[m.id], m) \in Row
    BY <1>1, <1>3, ApplyType DEF TypeInv, TypeOK, Store, Stored
  <2>2. ctx' = [ctx EXCEPT !.rows[m.id] = Apply(ctx.rows[m.id], m)]
    BY <1>3 DEF Mutate
  <2>3. ctx' \in Store
    BY <1>1, <2>1, <2>2, RowUpdate DEF TypeInv, TypeOK
  <2>4. changed' \subseteq Id /\ consumed' \subseteq Id /\ UNCHANGED <<pending, order>>
    BY <1>1, <1>3 DEF TypeInv, TypeOK, Mutate
  <2> QED
    BY <1>2, <2>3, <2>4 DEF TypeInv, TypeOK, HeldWithinLimits, Mutate, Running
<1>4. CASE ~Stored(ctx, m.id)
  <2>1. /\ pending' \in [Id -> Seq(Mutation)]
        /\ order' \in Seq(Id) /\ Len(order') <= TargetLimit
        /\ \A j \in Id : Len(pending'[j]) <= MutationLimit
    BY <1>1, <1>4, StashType DEF TypeInv, Mutate
  <2>2. UNCHANGED <<ctx, changed, consumed>>
    BY <1>4 DEF Mutate
  <2> QED
    BY <1>2, <2>1, <2>2 DEF TypeInv, TypeOK, HeldWithinLimits, Mutate, Running
<1> QED
  BY <1>3, <1>4

LEMMA ReactType ==
    ASSUME TypeInv, NEW x \in Reactions, React(x)
    PROVE  TypeInv'
<1>1. /\ <<x.id, x.sender>> \in Id \X Sender /\ x.chat \in Chat
      /\ x.emoji \in Emoji \cup {None} /\ x.at \in Time
  BY WriterAssumption DEF Reaction
<1>2. Canon(x.chat) \in Chat
  BY <1>1, CanonType DEF TypeInv
<1>3. ctx' \in Store
  <2> DEFINE k == <<x.id, x.sender>>
             new == IF x.emoji = None THEN None
                    ELSE [chat |-> Canon(x.chat), emoji |-> x.emoji, at |-> x.at]
  <2>1. new \in Mark \cup {None}
    BY <1>1, <1>2 DEF Mark
  <2>2. ctx' = ctx \/ ctx' = [ctx EXCEPT !.reactions[k] = new]
    BY DEF React
  <2>3. k \in Id \X Sender /\ ctx \in Store
    BY <1>1 DEF TypeInv, TypeOK
  <2> HIDE DEF new, k
  <2>4. [ctx EXCEPT !.reactions[k] = new] \in Store
    BY <2>1, <2>3, MarkUpdate
  <2> QED
    BY <2>2, <2>3, <2>4
<1> QED
  BY <1>3 DEF TypeInv, TypeOK, HeldWithinLimits, React, Running

LEMMA CastVoteType ==
    ASSUME TypeInv, NEW v \in Votes, CastVote(v)
    PROVE  TypeInv'
<1>1. /\ <<v.id, v.sender>> \in Id \X Sender /\ v.chat \in Chat
      /\ v.emoji \in Emoji /\ v.at \in Time
  BY WriterAssumption DEF Vote
<1>2. Canon(v.chat) \in Chat
  BY <1>1, CanonType DEF TypeInv
<1>3. ctx' \in Store
  <2> DEFINE k == <<v.id, v.sender>>
             new == [chat |-> Canon(v.chat), emoji |-> v.emoji, at |-> v.at]
  <2>1. new \in Mark
    BY <1>1, <1>2 DEF Mark
  <2>2. ctx' = ctx \/ ctx' = [ctx EXCEPT !.votes[k] = new]
    BY DEF CastVote
  <2>3. k \in Id \X Sender /\ ctx \in Store
    BY <1>1 DEF TypeInv, TypeOK
  <2> HIDE DEF new, k
  <2>4. [ctx EXCEPT !.votes[k] = new] \in Store
    BY <2>1, <2>3, MarkUpdate
  <2> QED
    BY <2>2, <2>3, <2>4
<1> QED
  BY <1>3 DEF TypeInv, TypeOK, HeldWithinLimits, CastVote, Running

LEMMA IndexStepType ==
    ASSUME TypeInv, UpdateIndex \/ Reconcile
    PROVE  TypeInv'
<1>1. index' \in [Id -> Entry \cup {None}]
  <2>1. CASE UpdateIndex
    BY <2>1, IndexedType DEF TypeInv, TypeOK, UpdateIndex, IndexPatch
  <2>2. CASE Reconcile
    BY <2>2, IndexedType DEF TypeInv, TypeOK, Reconcile
  <2> QED
    BY <2>1, <2>2
<1> QED
  BY <1>1 DEF TypeInv, TypeOK, HeldWithinLimits, UpdateIndex, Reconcile, memory

LEMMA SidebarType ==
    ASSUME TypeInv, NEW c \in Chat, SidebarSavesChat(c)
    PROVE  TypeInv'
<1>1. ctx' \in Store /\ disk' \in Store
  BY DEF TypeInv, TypeOK, SidebarSavesChat, Store
<1> QED
  BY <1>1 DEF TypeInv, TypeOK, HeldWithinLimits, SidebarSavesChat, memory

LEMMA MergedStoreType ==
    ASSUME TypeInv, Start \/ \E l \in DOMAIN PnOf : MergeChats(l)
    PROVE  TypeInv'
<1>1. ctx' \in Store /\ disk' = ctx'
  <2>1. CASE Start
    <3>1. learned \cap disk.chats \in SUBSET DOMAIN PnOf
      BY DEF TypeInv, TypeOK
    <3> QED
      BY <2>1, <3>1, MergedType DEF TypeInv, TypeOK, Start
  <2>2. ASSUME NEW l \in DOMAIN PnOf, MergeChats(l)
        PROVE  ctx' \in Store /\ disk' = ctx'
    BY <2>2, MergedType DEF TypeInv, TypeOK, MergeChats
  <2> QED
    BY <2>1, <2>2
<1> QED
  BY <1>1 DEF TypeInv, TypeOK, HeldWithinLimits, Start, MergeChats, memory

LEMMA TypeInvStep == TypeInv /\ [Next]_vars => TypeInv'
<1> SUFFICES ASSUME TypeInv, [Next]_vars PROVE TypeInv'
  OBVIOUS
<1>1. CASE UNCHANGED vars
  BY <1>1 DEF vars, TypeInv, TypeOK, HeldWithinLimits
<1>2. CASE Next
  BY <1>2, FrameType, PurgeChatType, PurgeRowType, PutMessageType, ReplayType,
     MutateType, ReactType, CastVoteType, IndexStepType, SidebarType, MergedStoreType
     DEF Next
<1> QED
  BY <1>1, <1>2

(* Type correctness: the variables of the writer keep their types, and the *)
(* held mutations stay within both limits, also through failed writes.     *)
THEOREM TypeCorrect == Spec => []TypeOK
<1>1. Init => TypeInv
  BY TypeInvInit
<1>2. TypeInv /\ [Next]_vars => TypeInv'
  BY TypeInvStep
<1>3. TypeInv => TypeOK
  BY DEF TypeInv
<1> QED
  BY <1>1, <1>2, <1>3, PTL DEF Spec


(***************************************************************************)
(* What a step does to the rows of the context                             *)
(***************************************************************************)

LocksSound ==
    /\ \A i \in Id : Stored(ctx, i) => LockSound(ctx.rows[i])
    /\ \A i \in Id : Stored(disk, i) => LockSound(disk.rows[i])

(* A row goes up the order, unless its chat is purged. *)
RowStep(i) ==
    /\ ctx'.rows[i] # None => LockSound(ctx'.rows[i])
    /\ ctx.rows[i] # None /\ i \notin removed'
          => ctx'.rows[i] # None /\ Dominates(ctx'.rows[i], ctx.rows[i])

LEMMA SameRowStep ==
    ASSUME TypeInv, LocksSound, NEW i \in Id, ctx'.rows[i] = ctx.rows[i]
    PROVE  RowStep(i)
<1>1. CASE ctx.rows[i] = None
  BY <1>1 DEF RowStep
<1>2. CASE ctx.rows[i] # None
  <2>1. ctx.rows[i] \in Row /\ LockSound(ctx.rows[i])
    BY <1>2 DEF TypeInv, TypeOK, Store, LocksSound, Stored
  <2> QED
    BY <2>1, DominatesReflexive DEF RowStep
<1> QED
  BY <1>1, <1>2

LEMMA SameRows ==
    ASSUME TypeInv,
           \/ PurgeEnd \/ \E c \in Chat : PurgeChat(c)
           \/ \E x \in Reactions : React(x)
           \/ \E v \in Votes : CastVote(v)
           \/ \E c \in Chat : SidebarSavesChat(c)
           \/ \E l \in DOMAIN PnOf : LearnMapping(l)
    PROVE  ctx'.rows = ctx.rows /\ disk'.rows = disk.rows /\ removed' = removed
<1>1. CASE PurgeEnd
  BY <1>1 DEF PurgeEnd
<1>2. ASSUME NEW c \in Chat, PurgeChat(c)
      PROVE  ctx'.rows = ctx.rows /\ disk' = disk /\ removed' = removed
  BY <1>2 DEF PurgeChat, TypeInv, TypeOK, Store
<1>3. ASSUME NEW x \in Reactions, React(x)
      PROVE  ctx'.rows = ctx.rows /\ disk' = disk /\ removed' = removed
  BY <1>3 DEF React, TypeInv, TypeOK, Store
<1>4. ASSUME NEW v \in Votes, CastVote(v)
      PROVE  ctx'.rows = ctx.rows /\ disk' = disk /\ removed' = removed
  BY <1>4 DEF CastVote, TypeInv, TypeOK, Store
<1>5. ASSUME NEW c \in Chat, SidebarSavesChat(c)
      PROVE  ctx'.rows = ctx.rows /\ disk'.rows = disk.rows /\ removed' = removed
  BY <1>5 DEF SidebarSavesChat, TypeInv, TypeOK, Store, memory
<1>6. ASSUME NEW l \in DOMAIN PnOf, LearnMapping(l)
      PROVE  ctx' = ctx /\ disk' = disk /\ removed' = removed
  BY <1>6 DEF LearnMapping, memory
<1> QED
  BY <1>1, <1>2, <1>3, <1>4, <1>5, <1>6

LEMMA PurgeRowStep ==
    ASSUME TypeInv, LocksSound, NEW j \in Id, PurgeRow(j), NEW i \in Id
    PROVE  RowStep(i)
<1>1. ctx'.rows = [ctx.rows EXCEPT ![j] = None] /\ removed' = removed \cup {j}
  BY RowUpdate DEF PurgeRow, TypeInv, TypeOK
<1>2. CASE i = j
  BY <1>1, <1>2 DEF RowStep, TypeInv, TypeOK, Store
<1>3. CASE i # j
  BY <1>1, <1>3, SameRowStep DEF TypeInv, TypeOK, Store
<1> QED
  BY <1>2, <1>3

(* The rows a message, a held mutation and a mutation leave behind. *)
LEMMA PutMessageRows ==
    ASSUME TypeInv, NEW m \in Messages, PutMessage(m)
    PROVE  \E old \in Row, msg \in Message :
              /\ m.id \in Id
              /\ old = IF Stored(ctx, m.id) THEN ctx.rows[m.id]
                                             ELSE BlankRow(Canon(m.chat))
              /\ msg.chat = Canon(m.chat) /\ Canon(m.chat) \in Chat
              /\ ctx'.rows = [ctx.rows EXCEPT ![m.id] = Merge(old, msg)]
<1> DEFINE jid == Canon(m.chat)
           old == IF Stored(ctx, m.id) THEN ctx.rows[m.id] ELSE BlankRow(jid)
           msg == [m EXCEPT !.chat = jid]
<1>1. m \in Message /\ m.id \in Id /\ m.chat \in Chat
  BY WriterAssumption DEF Message
<1>2. jid \in Chat
  BY <1>1, CanonType DEF TypeInv
<1>3. msg \in Message /\ msg.chat = jid
  BY <1>1, <1>2 DEF Message
<1>4. old \in Row
  BY <1>1, <1>2, BlankRowType DEF TypeInv, TypeOK, Store, Stored
<1>5. ctx' = [ctx EXCEPT !.rows[m.id] = Merge(old, msg)]
  BY DEF PutMessage
<1>6. Merge(old, msg) \in Row
  BY <1>3, <1>4, MergeType
<1>7. ctx'.rows = [ctx.rows EXCEPT ![m.id] = Merge(old, msg)]
  <2> HIDE DEF old, msg
  <2> QED
    BY <1>1, <1>5, <1>6, RowUpdate DEF TypeInv, TypeOK
<1> QED
  BY <1>1, <1>2, <1>3, <1>4, <1>7

LEMMA ApplyRows ==
    ASSUME TypeInv, NEW m \in Mutation, Stored(ctx, m.id),
           ctx' = [ctx EXCEPT !.rows[m.id] = Apply(@, m)]
    PROVE  /\ m.id \in Id /\ ctx.rows[m.id] \in Row
           /\ Apply(ctx.rows[m.id], m) \in Row
           /\ ctx'.rows = [ctx.rows EXCEPT ![m.id] = Apply(ctx.rows[m.id], m)]
<1>1. m.id \in Id
  BY DEF Mutation
<1>2. ctx.rows[m.id] \in Row
  BY <1>1 DEF TypeInv, TypeOK, Store, Stored
<1>3. Apply(ctx.rows[m.id], m) \in Row
  BY <1>2, ApplyType
<1> QED
  BY <1>1, <1>2, <1>3, RowUpdate DEF TypeInv, TypeOK

LEMMA PutMessageRowStep ==
    ASSUME TypeInv, LocksSound, NEW m \in Messages, PutMessage(m), NEW i \in Id
    PROVE  RowStep(i)
<1>1. PICK old \in Row, msg \in Message :
         /\ m.id \in Id
         /\ old = IF Stored(ctx, m.id) THEN ctx.rows[m.id] ELSE BlankRow(Canon(m.chat))
         /\ ctx'.rows = [ctx.rows EXCEPT ![m.id] = Merge(old, msg)]
  BY PutMessageRows
<1>2. CASE i # m.id
  BY <1>1, <1>2, SameRowStep DEF TypeInv, TypeOK, Store
<1>3. CASE i = m.id
  <2>1. LockSound(old)
    BY <1>1 DEF LocksSound, BlankRow, LockSound
  <2>2. LockSound(Merge(old, msg)) /\ Dominates(Merge(old, msg), old) /\ Merge(old, msg) \in Row
    BY <2>1, MergeClimbs, MergeType
  <2>3. ctx'.rows[i] = Merge(old, msg)
    BY <1>1, <1>3 DEF TypeInv, TypeOK, Store
  <2> QED
    BY <1>1, <1>3, <2>2, <2>3, NoneAssumption DEF RowStep, Stored
<1> QED
  BY <1>2, <1>3

LEMMA ApplyRowStep ==
    ASSUME TypeInv, LocksSound, NEW m \in Mutation, Stored(ctx, m.id),
           ctx' = [ctx EXCEPT !.rows[m.id] = Apply(@, m)], NEW i \in Id
    PROVE  RowStep(i)
<1>1. /\ m.id \in Id /\ ctx.rows[m.id] \in Row
      /\ Apply(ctx.rows[m.id], m) \in Row
      /\ ctx'.rows = [ctx.rows EXCEPT ![m.id] = Apply(ctx.rows[m.id], m)]
  BY ApplyRows
<1>2. CASE i # m.id
  BY <1>1, <1>2, SameRowStep DEF TypeInv, TypeOK, Store
<1>3. CASE i = m.id
  <2>1. /\ LockSound(Apply(ctx.rows[i], m))
        /\ Dominates(Apply(ctx.rows[i], m), ctx.rows[i])
    BY <1>1, <1>3, ApplyClimbs DEF LocksSound
  <2>2. ctx'.rows[i] = Apply(ctx.rows[i], m)
    BY <1>1, <1>3 DEF TypeInv, TypeOK, Store
  <2> QED
    BY <1>1, <1>3, <2>1, <2>2, NoneAssumption DEF RowStep
<1> QED
  BY <1>2, <1>3

(* Every step that leaves the writer inside a write. *)
RowsClimb == /\ disk'.rows = disk.rows /\ removed \subseteq removed'
             /\ \A i \in Id : RowStep(i)

LEMMA BatchStep ==
    ASSUME TypeInv, LocksSound, Next, phase = "batch", phase' = "batch"
    PROVE  RowsClimb
<1>1. ASSUME \/ PurgeEnd \/ \E c \in Chat : PurgeChat(c)
             \/ \E x \in Reactions : React(x)
             \/ \E v \in Votes : CastVote(v)
             \/ \E c \in Chat : SidebarSavesChat(c)
             \/ \E l \in DOMAIN PnOf : LearnMapping(l)
      PROVE  RowsClimb
  BY <1>1, SameRows, SameRowStep DEF RowsClimb
<1>2. ASSUME NEW i \in Id, PurgeRow(i) PROVE RowsClimb
  BY <1>2, PurgeRowStep DEF PurgeRow, RowsClimb
<1>3. ASSUME NEW m \in Messages, PutMessage(m) PROVE RowsClimb
  BY <1>3, PutMessageRowStep DEF PutMessage, RowsClimb
<1>4. ASSUME Replay PROVE RowsClimb
  <2> DEFINE m == Head(replay)
  <2>1. m \in Mutation
    BY <1>4 DEF TypeInv, TypeOK, Replay
  <2>2. disk' = disk /\ removed' = removed
    BY <1>4 DEF Replay
  <2>3. CASE Stored(ctx, m.id)
    <3>1. ctx' = [ctx EXCEPT !.rows[m.id] = Apply(@, m)]
      BY <1>4, <2>3 DEF Replay
    <3> HIDE DEF m
    <3> QED
      BY <2>1, <2>2, <2>3, <3>1, ApplyRowStep DEF RowsClimb
  <2>4. CASE ~Stored(ctx, m.id)
    BY <1>4, <2>2, <2>4, SameRowStep DEF Replay, RowsClimb
  <2> QED
    BY <2>3, <2>4
<1>5. ASSUME NEW m \in Mutations, Mutate(m) PROVE RowsClimb
  <2>1. m \in Mutation
    BY WriterAssumption
  <2>2. disk' = disk /\ removed' = removed
    BY <1>5 DEF Mutate
  <2>3. CASE Stored(ctx, m.id)
    <3>1. ctx' = [ctx EXCEPT !.rows[m.id] = Apply(@, m)]
      BY <1>5, <2>3 DEF Mutate
    <3> QED
      BY <2>1, <2>2, <2>3, <3>1, ApplyRowStep DEF RowsClimb
  <2>4. CASE ~Stored(ctx, m.id)
    BY <1>5, <2>2, <2>4, SameRowStep DEF Mutate, RowsClimb
  <2> QED
    BY <2>3, <2>4
<1>6. ~ (\/ Begin \/ Save \/ Throw \/ DeleteConsumedFiles \/ UpdateIndex
         \/ IndexFails \/ Reconcile \/ Reconfigure \/ Crash \/ Start
         \/ \E l \in DOMAIN PnOf : MergeChats(l))
  BY DEF Begin, Save, Throw, DeleteConsumedFiles, UpdateIndex, IndexFails, Reconcile,
         Reconfigure, Crash, Start, MergeChats
<1> QED
  BY <1>1, <1>2, <1>3, <1>4, <1>5, <1>6 DEF Next


(***************************************************************************)
(* The rows never go back.  A save compares the context with the store it  *)
(* replaces, so the invariant relates the two while a write is running:    *)
(* the context is above the store, except for rows the write deleted.      *)
(***************************************************************************)

Between == phase # "batch" => ctx = disk /\ replay = <<>> /\ purging = None

ContextAboveStore ==
    phase = "batch" =>
        \A i \in Id \ removed :
            Stored(disk, i) => Stored(ctx, i) /\ Dominates(ctx.rows[i], disk.rows[i])

RowInv == TypeInv /\ LocksSound /\ Between /\ ContextAboveStore

LEMMA RowInvInit == Init => RowInv
BY TypeInvInit DEF Init, RowInv, LocksSound, Between, ContextAboveStore, EmptyStore, Stored

(* A merge moves a row to another chat and changes nothing else of it. *)
LEMMA MergedRow ==
    ASSUME NEW db \in Store, NEW lids \in SUBSET DOMAIN PnOf, NEW i \in Id, Stored(db, i)
    PROVE  /\ db.rows[i] \in Row /\ Merged(db, lids).rows[i] \in Row
           /\ Merged(db, lids).rows[i] =
                 [db.rows[i] EXCEPT !.chat = IF db.rows[i].chat \in lids
                                             THEN PnOf[db.rows[i].chat]
                                             ELSE db.rows[i].chat]
<1>1. Merged(db, lids).rows[i] =
        [db.rows[i] EXCEPT !.chat = IF db.rows[i].chat \in lids
                                    THEN PnOf[db.rows[i].chat] ELSE db.rows[i].chat]
  BY DEF Merged
<1> DEFINE c == IF db.rows[i].chat \in lids THEN PnOf[db.rows[i].chat]
                                            ELSE db.rows[i].chat
<1>2. db.rows[i] \in Row
  BY DEF Store, Stored
<1>3. c \in Chat
  BY <1>2, WriterAssumption DEF Row
<1>4. Merged(db, lids).rows[i] = [db.rows[i] EXCEPT !.chat = c]
  BY <1>1
<1> HIDE DEF c
<1>5. Merged(db, lids).rows[i] \in Row
  BY <1>2, <1>3, <1>4 DEF Row
<1> QED
  BY <1>1, <1>2, <1>5

LEMMA MergedStored ==
    ASSUME NEW db \in Store, NEW lids \in SUBSET DOMAIN PnOf, NEW i \in Id
    PROVE  Stored(Merged(db, lids), i) <=> Stored(db, i)
<1>1. CASE Stored(db, i)
  <2>1. Merged(db, lids).rows[i] \in Row
    BY <1>1, MergedRow
  <2> QED
    BY <1>1, <2>1, NoneAssumption DEF Stored
<1>2. CASE ~Stored(db, i)
  BY <1>2 DEF Merged, Stored
<1> QED
  BY <1>1, <1>2

LEMMA MergedClimbs ==
    ASSUME NEW db \in Store, NEW lids \in SUBSET DOMAIN PnOf, NEW i \in Id,
           Stored(db, i), LockSound(db.rows[i])
    PROVE  /\ LockSound(Merged(db, lids).rows[i])
           /\ Dominates(Merged(db, lids).rows[i], db.rows[i])
<1> DEFINE r == db.rows[i]
           c == IF r.chat \in lids THEN PnOf[r.chat] ELSE r.chat
           new == Merged(db, lids).rows[i]
<1>1. r \in Row /\ new \in Row /\ new = [r EXCEPT !.chat = c]
  BY MergedRow
<1> HIDE DEF c, new, r
<1>2. /\ new.editedAt = r.editedAt /\ new.revokedAt = r.revokedAt
      /\ new.deleted = r.deleted /\ new.delivery = r.delivery
      /\ new.viewOnce = r.viewOnce /\ new.locked = r.locked
      /\ new.path = r.path /\ new.caption = r.caption /\ new.location = r.location
  BY <1>1 DEF Row
<1>3. LockSound(r) /\ Dominates(r, r)
  BY <1>1, DominatesReflexive DEF r
<1>4. LockSound(new) /\ Dominates(new, r)
  BY <1>2, <1>3 DEF LockSound, Dominates
<1> QED
  BY <1>4 DEF new, r

LEMMA MergedLocks ==
    ASSUME TypeInv, LocksSound, NEW lids \in SUBSET DOMAIN PnOf, NEW db \in {ctx, disk},
           ctx' = Merged(db, lids), disk' = ctx'
    PROVE  LocksSound'
<1>1. db \in Store /\ \A i \in Id : Stored(db, i) => LockSound(db.rows[i])
  BY DEF TypeInv, TypeOK, LocksSound
<1> QED
  BY <1>1, MergedStored, MergedClimbs DEF LocksSound

(* A step is inside a write, ends one, or begins outside of any. *)
LEMMA StepsByPhase ==
    ASSUME Next
    PROVE  \/ phase = "batch" /\ phase' = "batch"
           \/ phase = "batch" /\ (Save \/ Throw \/ Crash)
           \/ /\ phase # "batch"
              /\ \/ Begin \/ DeleteConsumedFiles \/ UpdateIndex \/ IndexFails
                 \/ Reconcile \/ Reconfigure \/ Crash \/ Start
                 \/ \E l \in DOMAIN PnOf : MergeChats(l) \/ LearnMapping(l)
                 \/ \E c \in Chat : SidebarSavesChat(c)
BY DEF Next, Begin, PurgeChat, PurgeRow, PurgeEnd, PutMessage, Replay, Mutate,
   React, CastVote, Save, Throw, DeleteConsumedFiles, UpdateIndex, IndexFails, Reconcile,
   Reconfigure, Start, MergeChats, SidebarSavesChat, LearnMapping, Running

LEMMA LocksSoundStep ==
    ASSUME RowInv, [Next]_vars
    PROVE  LocksSound'
<1> USE DEF RowInv
<1>1. CASE UNCHANGED vars
  BY <1>1 DEF vars, LocksSound
<1>2. CASE Next /\ phase = "batch" /\ phase' = "batch"
  BY <1>2, BatchStep DEF RowsClimb, RowStep, LocksSound, Stored
<1>3. CASE Begin \/ DeleteConsumedFiles \/ UpdateIndex \/ IndexFails
           \/ Reconcile \/ Reconfigure
  BY <1>3 DEF Begin, DeleteConsumedFiles, UpdateIndex, IndexFails, Reconcile,
         Reconfigure, LocksSound
<1>4. CASE Save \/ Throw \/ Crash
  BY <1>4 DEF Save, Throw, Crash, LocksSound
<1>5. CASE Start
  <2>1. learned \cap disk.chats \in SUBSET DOMAIN PnOf
    BY DEF TypeInv, TypeOK
  <2> QED
    BY <1>5, <2>1, MergedLocks DEF Start
<1>6. ASSUME NEW l \in DOMAIN PnOf, MergeChats(l)
      PROVE  LocksSound'
  BY <1>6, MergedLocks DEF MergeChats
<1>7. CASE \/ \E c \in Chat : SidebarSavesChat(c)
           \/ \E l \in DOMAIN PnOf : LearnMapping(l)
  BY <1>7, SameRows DEF LocksSound, Stored
<1> QED
  BY <1>1, <1>2, <1>3, <1>4, <1>5, <1>6, <1>7, StepsByPhase

LEMMA BetweenStep ==
    ASSUME RowInv, [Next]_vars
    PROVE  Between'
<1> USE DEF RowInv, Between
<1>1. CASE UNCHANGED vars
  BY <1>1 DEF vars
<1>2. CASE phase' = "batch"
  BY <1>2
<1>3. CASE DeleteConsumedFiles \/ UpdateIndex \/ IndexFails \/ Reconcile \/ Reconfigure
  BY <1>3 DEF DeleteConsumedFiles, UpdateIndex, IndexFails, Reconcile, Reconfigure, memory
<1>4. CASE Save
  BY <1>4 DEF Save, memory
<1>5. CASE Throw \/ Crash
  BY <1>5 DEF Throw, Crash
<1>6. CASE Start
  BY <1>6 DEF Start, memory
<1>7. CASE \E l \in DOMAIN PnOf : MergeChats(l)
  BY <1>7 DEF MergeChats, memory
<1>8. CASE phase # "batch" /\ \E c \in Chat : SidebarSavesChat(c)
  BY <1>8 DEF SidebarSavesChat, memory
<1>9. CASE phase # "batch" /\ \E l \in DOMAIN PnOf : LearnMapping(l)
  BY <1>9 DEF LearnMapping, memory
<1>10. CASE Begin
  BY <1>10 DEF Begin
<1> QED
  BY <1>1, <1>2, <1>3, <1>4, <1>5, <1>6, <1>7, <1>8, <1>9, <1>10, StepsByPhase

LEMMA ContextAboveStoreStep ==
    ASSUME RowInv, [Next]_vars
    PROVE  ContextAboveStore'
<1> USE DEF RowInv
<1>1. CASE UNCHANGED vars
  BY <1>1 DEF vars, ContextAboveStore
<1>2. CASE phase' # "batch"
  BY <1>2 DEF ContextAboveStore
<1>3. CASE Next /\ phase = "batch" /\ phase' = "batch"
  <2>1. SUFFICES ASSUME NEW i \in Id \ removed', disk'.rows[i] # None
                 PROVE  ctx'.rows[i] # None /\ Dominates(ctx'.rows[i], disk'.rows[i])
    BY DEF ContextAboveStore, Stored
  <2>2. /\ disk'.rows[i] = disk.rows[i] /\ i \in Id \ removed
        /\ RowStep(i)
    BY <1>3, <2>1, BatchStep DEF RowsClimb
  <2>3. ctx.rows[i] # None /\ Dominates(ctx.rows[i], disk.rows[i])
    BY <1>3, <2>1, <2>2 DEF ContextAboveStore, Stored
  <2>4. ctx'.rows[i] # None /\ Dominates(ctx'.rows[i], ctx.rows[i])
    BY <2>1, <2>2, <2>3 DEF RowStep
  <2>5. ctx'.rows[i] \in Row /\ ctx.rows[i] \in Row /\ disk.rows[i] \in Row
    BY <1>3, <2>1, <2>2, <2>3, <2>4, TypeInvStep DEF TypeInv, TypeOK, Store
  <2> QED
    BY <2>2, <2>3, <2>4, <2>5, DominatesTransitive
<1>4. CASE Begin
  <2>1. ctx' = disk' /\ ctx' = ctx
    BY <1>4 DEF Begin, Between
  <2>2. ASSUME NEW i \in Id, Stored(ctx, i)
        PROVE  Dominates(ctx.rows[i], ctx.rows[i])
    BY <2>2, DominatesReflexive DEF TypeInv, TypeOK, Store, LocksSound, Stored
  <2> QED
    BY <2>1, <2>2 DEF ContextAboveStore, Stored
<1>5. CASE phase # "batch" /\ phase' = "batch" /\ Next
  <2>1. Begin
    BY <1>5, StepsByPhase DEF DeleteConsumedFiles, UpdateIndex, IndexFails, Reconcile,
       Reconfigure, Crash, Start, MergeChats, SidebarSavesChat, LearnMapping
  <2> QED
    BY <1>4, <2>1
<1> QED
  BY <1>1, <1>2, <1>3, <1>5

LEMMA RowInvStep == RowInv /\ [Next]_vars => RowInv'
BY TypeInvStep, LocksSoundStep, BetweenStep, ContextAboveStoreStep DEF RowInv

LEMMA RowInvariant == Spec => []RowInv
<1>1. Init => RowInv
  BY RowInvInit
<1>2. RowInv /\ [Next]_vars => RowInv'
  BY RowInvStep
<1> QED
  BY <1>1, <1>2, PTL DEF Spec

(* A consumed view-once message has lost its file and its caption, in the  *)
(* context and, so, in every store it was saved to.                        *)
THEOREM ConsumedRowsStayConsumed == Spec => []ConsumedStaysConsumed
<1>1. RowInv => ConsumedStaysConsumed
  BY DEF RowInv, LocksSound, ConsumedStaysConsumed
<1> QED
  BY <1>1, RowInvariant, PTL

(* Replays cannot undo edits, revocation, local deletion, consumed view-   *)
(* once state or receipt progress: in every step, a row that stays stored  *)
(* and was not deleted by the write on the way goes up the order.          *)
THEOREM ReplaysUndoNothing == Spec => ReplayNeverUndoes
<1> DEFINE Step == \A i \in Id : Stored(disk, i) /\ Stored(disk, i)' /\ i \notin removed
                                     => Dominates(disk.rows[i]', disk.rows[i])
<1>1. RowInv /\ [Next]_vars => [Step]_vars
  <2> SUFFICES ASSUME RowInv, Next PROVE Step
    OBVIOUS
  <2>1. ASSUME NEW i \in Id, disk.rows[i] # None
        PROVE  /\ disk.rows[i] \in Row /\ LockSound(disk.rows[i])
               /\ Dominates(disk.rows[i], disk.rows[i])
    BY <2>1, DominatesReflexive DEF RowInv, TypeInv, TypeOK, Store, LocksSound, Stored
  <2>2. CASE disk'.rows = disk.rows
    BY <2>1, <2>2 DEF Stored
  <2>3. CASE Save
    BY <2>3 DEF Save, RowInv, ContextAboveStore, Stored
  <2>4. ASSUME NEW lids \in SUBSET DOMAIN PnOf, disk' = Merged(disk, lids)
        PROVE  Step
    BY <2>1, <2>4, MergedClimbs DEF RowInv, TypeInv, TypeOK, Stored
  <2>5. CASE Start
    <3>1. learned \cap disk.chats \in SUBSET DOMAIN PnOf
      BY DEF RowInv, TypeInv, TypeOK
    <3> QED
      BY <2>4, <2>5, <3>1 DEF Start
  <2>6. ASSUME NEW l \in DOMAIN PnOf, MergeChats(l)
        PROVE  Step
    <3>1. disk' = Merged(disk, {l})
      BY <2>6 DEF MergeChats, RowInv, Between
    <3> QED
      BY <2>4, <3>1
  <2>7. CASE phase = "batch" /\ phase' = "batch"
    BY <2>2, <2>7, BatchStep DEF RowsClimb, RowInv
  <2>8. CASE \/ \E c \in Chat : SidebarSavesChat(c)
             \/ \E l \in DOMAIN PnOf : LearnMapping(l)
    BY <2>2, <2>8, SameRows DEF RowInv
  <2>9. CASE Begin \/ Throw \/ Crash \/ DeleteConsumedFiles \/ UpdateIndex
             \/ IndexFails \/ Reconcile \/ Reconfigure
    BY <2>2, <2>9 DEF Begin, Throw, Crash, DeleteConsumedFiles, UpdateIndex, IndexFails,
       Reconcile, Reconfigure
  <2> HIDE DEF Step
  <2> QED
    BY <2>3, <2>5, <2>6, <2>7, <2>8, <2>9, StepsByPhase
<1> QED
  BY <1>1, RowInvariant, PTL DEF Spec, ReplayNeverUndoes

-----------------------------------------------------------------------------
(***************************************************************************)
(* What the steps of a write do to the rows, by the operation              *)
(***************************************************************************)

(* A mutation leaves every message where it is, and locked if it was. *)
SamePlaces ==
    \A i \in Id : /\ ctx'.rows[i] # None <=> ctx.rows[i] # None
                  /\ ctx.rows[i] # None =>
                        /\ ctx'.rows[i].chat = ctx.rows[i].chat
                        /\ ctx.rows[i].locked => ctx'.rows[i].locked

LEMMA ApplyPlaces ==
    ASSUME TypeInv, NEW m \in Mutation, Stored(ctx, m.id),
           ctx' = [ctx EXCEPT !.rows[m.id] = Apply(@, m)]
    PROVE  SamePlaces
<1>1. /\ m.id \in Id /\ ctx.rows[m.id] \in Row
      /\ Apply(ctx.rows[m.id], m) \in Row
      /\ ctx'.rows = [ctx.rows EXCEPT ![m.id] = Apply(ctx.rows[m.id], m)]
  BY ApplyRows
<1>2. /\ Apply(ctx.rows[m.id], m).chat = ctx.rows[m.id].chat
      /\ ctx.rows[m.id].locked => Apply(ctx.rows[m.id], m).locked
  BY <1>1, ApplyFields
<1>3. ctx.rows \in [Id -> Row \cup {None}]
  BY DEF TypeInv, TypeOK, Store
<1> QED
  BY <1>1, <1>2, <1>3, NoneAssumption DEF SamePlaces

LEMMA ReplayPlaces ==
    ASSUME TypeInv, Replay
    PROVE  SamePlaces
<1> DEFINE m == Head(replay)
<1>1. m \in Mutation
  BY DEF TypeInv, TypeOK, Replay
<1>2. CASE Stored(ctx, m.id)
  <2>1. ctx' = [ctx EXCEPT !.rows[m.id] = Apply(@, m)]
    BY <1>2 DEF Replay
  <2> HIDE DEF m
  <2> QED
    BY <1>1, <1>2, <2>1, ApplyPlaces
<1>3. CASE ~Stored(ctx, m.id)
  BY <1>3 DEF Replay, SamePlaces
<1> QED
  BY <1>2, <1>3

LEMMA MutatePlaces ==
    ASSUME TypeInv, NEW m \in Mutations, Mutate(m)
    PROVE  SamePlaces
<1>1. CASE Stored(ctx, m.id)
  BY <1>1, ApplyPlaces, WriterAssumption DEF Mutate
<1>2. CASE ~Stored(ctx, m.id)
  BY <1>2 DEF Mutate, SamePlaces
<1> QED
  BY <1>1, <1>2

(* A message is stored under its canonical chat, and no other row moves. *)
LEMMA PutPlaces ==
    ASSUME TypeInv, NEW m \in Messages, PutMessage(m)
    PROVE  /\ m.id \in Id /\ Canon(m.chat) \in Chat
           /\ ctx'.rows[m.id] # None /\ ctx'.rows[m.id].chat = Canon(m.chat)
           /\ \A i \in Id \ {m.id} : ctx'.rows[i] = ctx.rows[i]
<1>1. PICK old \in Row, msg \in Message :
         /\ m.id \in Id
         /\ msg.chat = Canon(m.chat) /\ Canon(m.chat) \in Chat
         /\ ctx'.rows = [ctx.rows EXCEPT ![m.id] = Merge(old, msg)]
  BY PutMessageRows
<1>2. Merge(old, msg) \in Row /\ Merge(old, msg).chat = msg.chat
  BY MergeType, MergeFields
<1>3. ctx.rows \in [Id -> Row \cup {None}]
  BY DEF TypeInv, TypeOK, Store
<1> QED
  BY <1>1, <1>2, <1>3, NoneAssumption

LEMMA PurgeRowPlaces ==
    ASSUME TypeInv, NEW j \in Id, PurgeRow(j)
    PROVE  /\ ctx'.rows[j] = None
           /\ \A i \in Id \ {j} : ctx'.rows[i] = ctx.rows[i]
<1>1. ctx'.rows = [ctx.rows EXCEPT ![j] = None]
  BY RowUpdate DEF PurgeRow, TypeInv, TypeOK
<1> QED
  BY <1>1 DEF TypeInv, TypeOK, Store

LEMMA MergedPlaces ==
    ASSUME TypeInv, Between, Start \/ \E l \in DOMAIN PnOf : MergeChats(l)
    PROVE  /\ disk' = ctx'
           /\ \E lids \in SUBSET DOMAIN PnOf : ctx' = Merged(ctx, lids)
           /\ \A i \in Id : ctx'.rows[i] # None <=> ctx.rows[i] # None
<1>1. disk' = ctx' /\ \E lids \in SUBSET DOMAIN PnOf : ctx' = Merged(ctx, lids)
  <2>1. CASE Start
    <3>1. learned \cap disk.chats \in SUBSET DOMAIN PnOf
      BY DEF TypeInv, TypeOK
    <3>2. ctx' = Merged(ctx, learned \cap disk.chats) /\ disk' = ctx'
      BY <2>1 DEF Start, Between
    <3> QED
      BY <3>1, <3>2
  <2>2. ASSUME NEW l \in DOMAIN PnOf, MergeChats(l)
        PROVE  disk' = ctx' /\ ctx' = Merged(ctx, {l}) /\ {l} \in SUBSET DOMAIN PnOf
    BY <2>2 DEF MergeChats
  <2> QED
    BY <2>1, <2>2
<1>2. PICK lids \in SUBSET DOMAIN PnOf : ctx' = Merged(ctx, lids)
  BY <1>1
<1>3. ctx \in Store
  BY DEF TypeInv, TypeOK
<1>4. \A i \in Id : ctx'.rows[i] # None <=> ctx.rows[i] # None
  BY <1>2, <1>3, MergedStored DEF Stored
<1> QED
  BY <1>1, <1>4

(***************************************************************************)
(* Held mutations.  A failed write gives back what was held when it began, *)
(* so what was held then must not wait for a row the store has.            *)
(***************************************************************************)

HeldOnlyForUnsaved ==
    phase = "batch" => \A i \in Id : held.pending[i] # <<>> => disk.rows[i] = None

WaitingInv == PendingOnlyForUnknown /\ HeldOnlyForUnsaved

LEMMA StashOnly ==
    ASSUME TypeInv, NEW m \in Mutation, Stash(m), NEW i \in Id,
           pending'[i] # <<>>
    PROVE  pending[i] # <<>> \/ i = m.id
<1> DEFINE listed == IF pending[m.id] = <<>> THEN Append(order, m.id) ELSE order
           kept == [pending EXCEPT ![m.id] = Trim(Append(@, m))]
<1>1. m.id \in Id /\ pending \in [Id -> Seq(Mutation)]
  BY DEF TypeInv, TypeOK, Mutation
<1>2. i # m.id => kept[i] = pending[i]
  BY <1>1
<1>3. pending' = kept \/ pending' = [kept EXCEPT ![Head(listed)] = <<>>]
  BY DEF Stash
<1>4. kept \in [Id -> {kept[j] : j \in Id}]
  BY <1>1
<1> HIDE DEF listed, kept
<1> QED
  BY <1>2, <1>3, <1>4

LEMMA WaitingInvStep ==
    ASSUME TypeInv, Between, WaitingInv, [Next]_vars
    PROVE  WaitingInv'
<1> USE DEF WaitingInv, PendingOnlyForUnknown, HeldOnlyForUnsaved, Stored
<1>1. CASE UNCHANGED vars
  BY <1>1 DEF vars
<1>2. CASE Begin
  BY <1>2 DEF Begin, Between
<1>3. CASE \/ PurgeEnd \/ \E c \in Chat : PurgeChat(c)
           \/ \E x \in Reactions : React(x)
           \/ \E v \in Votes : CastVote(v)
           \/ \E c \in Chat : SidebarSavesChat(c)
           \/ \E l \in DOMAIN PnOf : LearnMapping(l)
  <2>1. ctx'.rows = ctx.rows /\ disk'.rows = disk.rows
    BY <1>3, SameRows
  <2>2. pending' = pending /\ held' = held /\ (phase' = "batch" <=> phase = "batch")
    BY <1>3 DEF PurgeEnd, PurgeChat, React, CastVote, SidebarSavesChat, LearnMapping, memory
  <2> QED
    BY <2>1, <2>2
<1>4. ASSUME NEW i \in Id, PurgeRow(i) PROVE WaitingInv'
  <2>1. \A j \in Id : pending'[j] # <<>> => pending[j] # <<>>
    BY <1>4 DEF PurgeRow, Forget, TypeInv, TypeOK
  <2>2. disk' = disk /\ held' = held /\ phase' = phase
    BY <1>4 DEF PurgeRow
  <2> QED
    BY <1>4, <2>1, <2>2, PurgeRowPlaces
<1>5. ASSUME NEW m \in Messages, PutMessage(m) PROVE WaitingInv'
  <2>1. /\ m.id \in Id /\ \A i \in Id \ {m.id} : ctx'.rows[i] = ctx.rows[i]
    BY <1>5, PutPlaces
  <2>2. pending' = [pending EXCEPT ![m.id] = <<>>]
    BY <1>5 DEF PutMessage, Forget
  <2>3. disk' = disk /\ held' = held /\ phase' = phase
    BY <1>5 DEF PutMessage
  <2> QED
    BY <2>1, <2>2, <2>3 DEF TypeInv, TypeOK
<1>6. CASE Replay
  <2>1. pending' = pending /\ disk' = disk /\ held' = held /\ phase' = phase
    BY <1>6 DEF Replay
  <2> QED
    BY <1>6, <2>1, ReplayPlaces DEF SamePlaces
<1>7. ASSUME NEW m \in Mutations, Mutate(m) PROVE WaitingInv'
  <2>1. SamePlaces /\ m \in Mutation
    BY <1>7, MutatePlaces, WriterAssumption
  <2>2. disk' = disk /\ held' = held /\ phase' = phase
    BY <1>7 DEF Mutate
  <2>3. CASE Stored(ctx, m.id)
    <3>1. pending' = pending
      BY <1>7, <2>3 DEF Mutate
    <3> QED
      BY <2>1, <2>2, <3>1 DEF SamePlaces
  <2>4. CASE ~Stored(ctx, m.id)
    <3>1. Stash(m)
      BY <1>7, <2>4 DEF Mutate
    <3>2. \A i \in Id : pending'[i] # <<>> => pending[i] # <<>> \/ i = m.id
      BY <2>1, <3>1, StashOnly
    <3> QED
      BY <2>1, <2>2, <2>4, <3>2 DEF SamePlaces
  <2> QED
    BY <2>3, <2>4
<1>8. CASE Save \/ DeleteConsumedFiles \/ UpdateIndex \/ IndexFails \/ Reconcile \/ Reconfigure
  BY <1>8 DEF Save, DeleteConsumedFiles, UpdateIndex, IndexFails, Reconcile, Reconfigure, memory
<1>9. CASE Throw
  BY <1>9 DEF Throw, Restore
<1>10. CASE Crash
  BY <1>10 DEF Crash, NothingHeld
<1>11. CASE Start \/ \E l \in DOMAIN PnOf : MergeChats(l)
  <2>1. pending' = pending /\ phase' = "repair"
    BY <1>11 DEF Start, MergeChats, memory
  <2> QED
    BY <1>11, <2>1, MergedPlaces
<1> QED
  BY <1>1, <1>2, <1>3, <1>4, <1>5, <1>6, <1>7, <1>8, <1>9, <1>10, <1>11 DEF Next

(* A mutation is held only while its message is not stored: no failed      *)
(* write, purge or merge leaves a stored row waiting for one.              *)
THEOREM HeldOnlyForUnknown == Spec => []PendingOnlyForUnknown
<1>1. Init => WaitingInv
  BY DEF Init, WaitingInv, PendingOnlyForUnknown, HeldOnlyForUnsaved, NothingHeld
<1>2. RowInv /\ WaitingInv /\ [Next]_vars => WaitingInv'
  BY WaitingInvStep DEF RowInv
<1>3. WaitingInv => PendingOnlyForUnknown
  BY DEF WaitingInv
<1> QED
  BY <1>1, <1>2, <1>3, RowInvariant, PTL DEF Spec

(***************************************************************************)
(* Deleted chats.  Nothing but a message of the chat puts a row into it,   *)
(* and that message takes the deletion back.                               *)
(***************************************************************************)

LEMMA DeletedChatsStep ==
    ASSUME TypeInv, DeletedChatsAreEmpty, [Next]_vars
    PROVE  DeletedChatsAreEmpty'
<1> USE DEF DeletedChatsAreEmpty, RowsOf, Stored
<1>1. CASE UNCHANGED vars
  BY <1>1 DEF vars
<1>2. CASE Begin
  BY <1>2 DEF Begin
<1>3. ASSUME NEW c \in Chat, PurgeChat(c) PROVE DeletedChatsAreEmpty'
  <2>1. ctx'.rows = ctx.rows
    BY <1>3, SameRows
  <2>2. /\ phase = "batch" /\ purging = None /\ purging' = c
        /\ deletedChats' = deletedChats \cup {c}
    BY <1>3 DEF PurgeChat, Running
  <2>3. None \notin deletedChats
    BY WriterAssumption DEF TypeInv, TypeOK
  <2> QED
    BY <2>1, <2>2, <2>3
<1>4. ASSUME NEW i \in Id, PurgeRow(i) PROVE DeletedChatsAreEmpty'
  BY <1>4, PurgeRowPlaces DEF PurgeRow
<1>5. CASE PurgeEnd
  BY <1>5 DEF PurgeEnd
<1>6. ASSUME NEW m \in Messages, PutMessage(m) PROVE DeletedChatsAreEmpty'
  <2>1. /\ ctx'.rows[m.id].chat = Canon(m.chat)
        /\ \A i \in Id \ {m.id} : ctx'.rows[i] = ctx.rows[i]
    BY <1>6, PutPlaces
  <2>2. /\ phase = "batch" /\ purging' = purging
        /\ deletedChats' = deletedChats \ {Canon(m.chat)}
    BY <1>6 DEF PutMessage, AliveAgain, Running
  <2> QED
    BY <2>1, <2>2
<1>7. CASE Replay \/ \E m \in Mutations : Mutate(m)
  <2>1. SamePlaces
    BY <1>7, ReplayPlaces, MutatePlaces
  <2>2. phase = "batch" /\ purging' = purging /\ deletedChats' = deletedChats
    BY <1>7 DEF Replay, Mutate, Running
  <2> QED
    BY <2>1, <2>2 DEF SamePlaces
<1>8. CASE \/ \E x \in Reactions : React(x)
           \/ \E v \in Votes : CastVote(v)
           \/ \E c \in Chat : SidebarSavesChat(c)
           \/ \E l \in DOMAIN PnOf : LearnMapping(l)
  <2>1. ctx'.rows = ctx.rows
    BY <1>8, SameRows
  <2>2. phase' = phase /\ purging' = purging /\ deletedChats' = deletedChats
    BY <1>8 DEF React, CastVote, SidebarSavesChat, LearnMapping, memory
  <2> QED
    BY <2>1, <2>2
<1>9. CASE Save \/ DeleteConsumedFiles
  BY <1>9 DEF Save, DeleteConsumedFiles, memory
<1>10. CASE \/ Throw \/ UpdateIndex \/ IndexFails \/ Reconcile \/ Reconfigure
            \/ Crash \/ Start \/ \E l \in DOMAIN PnOf : MergeChats(l)
  BY <1>10 DEF Throw, UpdateIndex, IndexFails, Reconcile, Reconfigure, Crash, Start,
     MergeChats
<1> QED
  BY <1>1, <1>2, <1>3, <1>4, <1>5, <1>6, <1>7, <1>8, <1>9, <1>10 DEF Next

(* A chat a write reports as deleted has no message left, whatever the     *)
(* batch held before and after the deletion.                               *)
THEOREM ReportedChatsAreEmpty == Spec => []DeletedChatsAreEmpty
<1>1. Init => DeletedChatsAreEmpty
  BY DEF Init, DeletedChatsAreEmpty
<1>2. RowInv /\ DeletedChatsAreEmpty /\ [Next]_vars => DeletedChatsAreEmpty'
  BY DeletedChatsStep DEF RowInv
<1> QED
  BY <1>1, <1>2, RowInvariant, PTL DEF Spec

(***************************************************************************)
(* Consumed files.  A consumption is the only operation of its write, so   *)
(* nothing purges and refills the row between the lock and the save.       *)
(***************************************************************************)

ConsumedAreLocked ==
    phase \in {"batch", "saved"} =>
        /\ consumed # {} => count >= MaxBatch
        /\ \A i \in consumed : Stored(ctx, i) => ctx.rows[i].locked

LEMMA ConsumedLocksStep ==
    ASSUME RowInv, ConsumedAreLocked, [Next]_vars
    PROVE  ConsumedAreLocked'
<1> USE DEF RowInv, ConsumedAreLocked, Stored
<1>1. CASE UNCHANGED vars
  BY <1>1 DEF vars
<1>2. CASE Begin
  BY <1>2 DEF Begin
<1>3. ASSUME NEW m \in Messages, PutMessage(m) PROVE ConsumedAreLocked'
  <2>1. consumed = {} /\ consumed' = consumed
    BY <1>3, WriterAssumption DEF PutMessage, Running, TypeInv, TypeOK
  <2> QED
    BY <2>1
<1>4. ASSUME NEW m \in Mutations, Mutate(m) PROVE ConsumedAreLocked'
  <2>1. consumed = {} /\ phase' = "batch" /\ m \in Mutation
    BY <1>4, WriterAssumption DEF Mutate, Running, TypeInv, TypeOK
  <2>2. CASE consumed' = {}
    BY <2>2
  <2>3. CASE consumed' # {}
    <3>1. /\ Stored(ctx, m.id) /\ consumed' = {m.id} /\ Consumes(m)
          /\ ctx' = [ctx EXCEPT !.rows[m.id] = Apply(@, m)]
      BY <1>4, <2>1, <2>3 DEF Mutate
    <3>2. count' = MaxBatch
      BY <1>4, <3>1 DEF Mutate, Consumes, CommitOnly
    <3>3. /\ m.id \in Id /\ ctx.rows[m.id] \in Row
          /\ ctx'.rows = [ctx.rows EXCEPT ![m.id] = Apply(ctx.rows[m.id], m)]
      BY <2>1, <3>1, ApplyRows
    <3>4. Apply(ctx.rows[m.id], m) = ApplyViewOnce(ctx.rows[m.id])
      BY <3>1 DEF Apply, Consumes
    <3>5. ApplyViewOnce(ctx.rows[m.id]).locked
      BY <3>1, <3>3 DEF ApplyViewOnce, Consumes, Row
    <3>6. ctx'.rows[m.id].locked
      BY <3>3, <3>4, <3>5 DEF TypeInv, TypeOK, Store
    <3> QED
      BY <3>1, <3>2, <3>6, WriterAssumption
  <2> QED
    BY <2>2, <2>3
<1>5. CASE Replay
  <2>1. phase = "batch" /\ phase' = "batch" /\ consumed' = consumed /\ count' = count
    BY <1>5 DEF Replay
  <2>2. CASE consumed = {}
    BY <2>1, <2>2
  <2>3. CASE consumed # {}
    <3>1. SamePlaces /\ consumed \subseteq Id
      BY <1>5, ReplayPlaces DEF TypeInv, TypeOK
    <3>2. \A i \in consumed : ctx'.rows[i] # None => ctx'.rows[i].locked
      BY <2>1, <3>1 DEF SamePlaces
    <3> QED
      BY <2>1, <2>3, <3>2
  <2> QED
    BY <2>2, <2>3
<1>6. ASSUME NEW i \in Id, PurgeRow(i) PROVE ConsumedAreLocked'
  <2>1. consumed \subseteq Id
    BY DEF TypeInv, TypeOK
  <2> QED
    BY <1>6, <2>1, PurgeRowPlaces DEF PurgeRow
<1>7. CASE \/ PurgeEnd \/ \E c \in Chat : SidebarSavesChat(c)
           \/ \E l \in DOMAIN PnOf : LearnMapping(l)
  <2>1. ctx'.rows = ctx.rows
    BY <1>7, SameRows
  <2>2. phase' = phase /\ consumed' = consumed /\ count' = count
    BY <1>7 DEF PurgeEnd, SidebarSavesChat, LearnMapping, memory
  <2> QED
    BY <2>1, <2>2
<1>8. CASE \/ \E c \in Chat : PurgeChat(c)
           \/ \E x \in Reactions : React(x)
           \/ \E v \in Votes : CastVote(v)
  <2>1. consumed = {} /\ consumed' = consumed
    <3>1. phase = "batch" /\ count < MaxBatch /\ consumed' = consumed
      BY <1>8 DEF PurgeChat, React, CastVote, Running
    <3> QED
      BY <3>1, WriterAssumption DEF TypeInv, TypeOK
  <2> QED
    BY <2>1
<1>9. CASE Save
  BY <1>9 DEF Save, memory
<1>10. CASE \/ Throw \/ DeleteConsumedFiles \/ UpdateIndex \/ IndexFails \/ Reconcile
            \/ Reconfigure \/ Crash \/ Start \/ \E l \in DOMAIN PnOf : MergeChats(l)
  BY <1>10 DEF Throw, DeleteConsumedFiles, UpdateIndex, IndexFails, Reconcile, Reconfigure,
     Crash, Start, MergeChats
<1> QED
  BY <1>1, <1>2, <1>3, <1>4, <1>5, <1>6, <1>7, <1>8, <1>9, <1>10 DEF Next

(* Files only go in DeleteConsumedFiles, when the store is the context the *)
(* locks were written to.                                                  *)
THEOREM FilesGoAfterTheLock == Spec => LockSavedBeforeFileDeleted
<1> DEFINE Step == \A i \in files \ files' : Stored(disk, i) => disk.rows[i].locked
<1>1. Init => ConsumedAreLocked
  BY DEF Init, ConsumedAreLocked
<1>2. RowInv /\ ConsumedAreLocked /\ [Next]_vars => ConsumedAreLocked'
  BY ConsumedLocksStep
<1>3. RowInv /\ ConsumedAreLocked /\ [Next]_vars => [Step]_vars
  <2> SUFFICES ASSUME RowInv, ConsumedAreLocked, Next PROVE Step
    OBVIOUS
  <2>1. CASE DeleteConsumedFiles
    BY <2>1 DEF DeleteConsumedFiles, RowInv, Between, ConsumedAreLocked
  <2>2. CASE ~DeleteConsumedFiles
    <3>1. files \subseteq files'
      BY <2>2 DEF Next, Begin, PurgeChat, PurgeRow, PurgeEnd, PutMessage, Replay, Mutate,
         React, CastVote, Save, Throw, UpdateIndex, IndexFails, Reconcile, Reconfigure,
         Start, MergeChats, SidebarSavesChat, LearnMapping, Crash
    <3> QED
      BY <3>1
  <2> QED
    BY <2>1, <2>2
<1> QED
  BY <1>1, <1>2, <1>3, RowInvariant, PTL DEF Spec, LockSavedBeforeFileDeleted

(***************************************************************************)
(* Merged chats.  Whatever is stored goes under the canonical chat, which  *)
(* is never a LID the bridge can map.                                      *)
(***************************************************************************)

LEMMA CanonElsewhere ==
    ASSUME TypeInv, NEW c \in Chat, NEW l \in learned
    PROVE  Canon(c) # l
BY WriterAssumption DEF TypeInv, TypeOK, Canon

LEMMA MergedElsewhere ==
    ASSUME NEW db \in Store, NEW lids \in SUBSET DOMAIN PnOf, NEW l \in DOMAIN PnOf,
           NothingUnder(db, l)
    PROVE  NothingUnder(Merged(db, lids), l)
<1> DEFINE To(c) == IF c \in lids THEN PnOf[c] ELSE c
           new == Merged(db, lids)
<1>1. ASSUME NEW c \in Chat, c # l PROVE To(c) # l
  BY <1>1, WriterAssumption
<1>2. ASSUME NEW i \in Id, Stored(new, i) PROVE new.rows[i].chat # l
  <2>1. Stored(db, i)
    BY <1>2, MergedStored
  <2>2. db.rows[i] \in Row /\ new.rows[i] = [db.rows[i] EXCEPT !.chat = To(db.rows[i].chat)]
    BY <2>1, MergedRow
  <2>3. db.rows[i].chat \in Chat /\ db.rows[i].chat # l
    BY <2>1, <2>2 DEF NothingUnder, RowsOf, Row
  <2>4. new.rows[i].chat = To(db.rows[i].chat)
    BY <2>2 DEF Row
  <2> QED
    BY <1>1, <2>3, <2>4
<1>3. ASSUME NEW k \in Id \X Sender
      PROVE  /\ new.reactions[k] # None => new.reactions[k].chat # l
             /\ new.votes[k] # None => new.votes[k].chat # l
  <2>1. ASSUME NEW x \in Mark, x.chat # l PROVE [x EXCEPT !.chat = To(@)].chat # l
    <3>1. x.chat \in Chat /\ [x EXCEPT !.chat = To(@)].chat = To(x.chat)
      BY DEF Mark
    <3> QED
      BY <1>1, <2>1, <3>1
  <2>2. /\ new.reactions[k] = IF db.reactions[k] = None THEN None
                              ELSE [db.reactions[k] EXCEPT !.chat = To(@)]
        /\ new.votes[k] = IF db.votes[k] = None THEN None
                          ELSE [db.votes[k] EXCEPT !.chat = To(@)]
    BY DEF Merged
  <2>3. /\ db.reactions[k] # None => db.reactions[k] \in Mark /\ db.reactions[k].chat # l
        /\ db.votes[k] # None => db.votes[k] \in Mark /\ db.votes[k].chat # l
    BY DEF NothingUnder, Store
  <2> HIDE DEF To, new
  <2> QED
    BY <2>1, <2>2, <2>3
<1> QED
  BY <1>2, <1>3 DEF NothingUnder, RowsOf

Stays(l) == NothingUnder(ctx, l) /\ NothingUnder(disk, l)
                => NothingUnder(ctx', l) /\ NothingUnder(disk', l)

(* The steps that move marks or nothing, and leave the rows alone. *)
LEMMA MarksStay ==
    ASSUME TypeInv, NEW l \in learned,
           \/ PurgeEnd \/ \E c \in Chat : PurgeChat(c)
           \/ \E x \in Reactions : React(x)
           \/ \E v \in Votes : CastVote(v)
           \/ \E c \in Chat : SidebarSavesChat(c)
           \/ \E j \in DOMAIN PnOf : LearnMapping(j)
    PROVE  Stays(l)
<1>1. ctx'.rows = ctx.rows /\ disk'.rows = disk.rows
  BY SameRows
<1>2. disk'.reactions = disk.reactions /\ disk'.votes = disk.votes
  BY DEF PurgeEnd, PurgeChat, React, CastVote, SidebarSavesChat, LearnMapping, TypeInv,
     TypeOK, Store
<1>3. ASSUME NEW k \in Id \X Sender
      PROVE  /\ ctx'.reactions[k] # None =>
                   ctx'.reactions[k] = ctx.reactions[k] \/ ctx'.reactions[k].chat # l
             /\ ctx'.votes[k] # None =>
                   ctx'.votes[k] = ctx.votes[k] \/ ctx'.votes[k].chat # l
  <2> USE DEF TypeInv, TypeOK, Store
  <2>1. ASSUME NEW c \in Chat, PurgeChat(c)
        PROVE  /\ ctx'.reactions[k] \in {ctx.reactions[k], None}
               /\ ctx'.votes[k] \in {ctx.votes[k], None}
    BY <2>1 DEF PurgeChat
  <2>2. ASSUME NEW x \in Reactions, React(x)
        PROVE  /\ ctx'.reactions[k] \in {ctx.reactions[k], None} \/ ctx'.reactions[k].chat # l
               /\ ctx'.votes = ctx.votes
    <3>1. x.chat \in Chat
      BY WriterAssumption DEF Reaction
    <3>2. Canon(x.chat) # l
      BY <3>1, CanonElsewhere
    <3> QED
      BY <2>2, <3>2 DEF React
  <2>3. ASSUME NEW v \in Votes, CastVote(v)
        PROVE  /\ ctx'.votes[k] = ctx.votes[k] \/ ctx'.votes[k].chat # l
               /\ ctx'.reactions = ctx.reactions
    <3>1. v.chat \in Chat
      BY WriterAssumption DEF Vote
    <3>2. Canon(v.chat) # l
      BY <3>1, CanonElsewhere
    <3> QED
      BY <2>3, <3>2 DEF CastVote
  <2>4. ASSUME \/ PurgeEnd \/ \E c \in Chat : SidebarSavesChat(c)
               \/ \E j \in DOMAIN PnOf : LearnMapping(j)
        PROVE  ctx'.reactions = ctx.reactions /\ ctx'.votes = ctx.votes
    BY <2>4 DEF PurgeEnd, SidebarSavesChat, LearnMapping
  <2> QED
    BY <2>1, <2>2, <2>3, <2>4
<1> QED
  BY <1>1, <1>2, <1>3 DEF Stays, NothingUnder, RowsOf, Stored

(* The steps that move rows, and leave the marks alone. *)
LEMMA RowsStay ==
    ASSUME TypeInv, NEW l \in learned,
           \/ \E i \in Id : PurgeRow(i)
           \/ \E m \in Messages : PutMessage(m)
           \/ Replay \/ \E m \in Mutations : Mutate(m)
    PROVE  Stays(l)
<1>1. /\ disk' = disk
      /\ ctx'.reactions = ctx.reactions /\ ctx'.votes = ctx.votes
  BY DEF PurgeRow, PutMessage, Replay, Mutate, TypeInv, TypeOK, Store
<1>2. ASSUME NEW i \in Id, ctx'.rows[i] # None
      PROVE  \/ ctx.rows[i] # None /\ ctx'.rows[i].chat = ctx.rows[i].chat
             \/ ctx'.rows[i].chat # l
  <2>1. ASSUME NEW j \in Id, PurgeRow(j)
        PROVE  ctx'.rows[i] = ctx.rows[i]
    BY <1>2, <2>1, PurgeRowPlaces
  <2>2. ASSUME NEW m \in Messages, PutMessage(m)
        PROVE  ctx'.rows[i] = ctx.rows[i] \/ ctx'.rows[i].chat # l
    <3>1. m.chat \in Chat
      BY WriterAssumption DEF Message
    <3> QED
      BY <2>2, <3>1, PutPlaces, CanonElsewhere
  <2>3. ASSUME Replay \/ \E m \in Mutations : Mutate(m)
        PROVE  ctx.rows[i] # None /\ ctx'.rows[i].chat = ctx.rows[i].chat
    BY <1>2, <2>3, ReplayPlaces, MutatePlaces DEF SamePlaces
  <2> QED
    BY <1>2, <2>1, <2>2, <2>3
<1> QED
  BY <1>1, <1>2 DEF Stays, NothingUnder, RowsOf, Stored

(* A conversation merged under its phone number never splits again.        *)
THEOREM MergedChatsStayMerged == Spec => MergedStaysMerged
<1> DEFINE Step == \A l \in learned : NothingUnder(ctx, l) /\ NothingUnder(disk, l)
                        => NothingUnder(ctx, l)' /\ NothingUnder(disk, l)'
<1>1. RowInv /\ [Next]_vars => [Step]_vars
  <2> SUFFICES ASSUME RowInv, Next, NEW l \in learned PROVE Stays(l)
    BY DEF Stays, NothingUnder, RowsOf, Stored
  <2>1. CASE Start \/ \E j \in DOMAIN PnOf : MergeChats(j)
    <3>1. PICK lids \in SUBSET DOMAIN PnOf : ctx' = Merged(ctx, lids) /\ disk' = ctx'
      BY <2>1, MergedPlaces DEF RowInv
    <3>2. l \in DOMAIN PnOf /\ ctx \in Store
      BY DEF RowInv, TypeInv, TypeOK
    <3> QED
      BY <3>1, <3>2, MergedElsewhere DEF Stays
  <2>2. CASE \/ Begin \/ Save \/ Throw \/ DeleteConsumedFiles \/ UpdateIndex \/ IndexFails
             \/ Reconcile \/ Reconfigure \/ Crash
    BY <2>2 DEF Begin, Save, Throw, DeleteConsumedFiles, UpdateIndex, IndexFails, Reconcile,
       Reconfigure, Crash, Stays
  <2> QED
    BY <2>1, <2>2, RowsStay, MarksStay DEF Next, RowInv
<1> QED
  BY <1>1, RowInvariant, PTL DEF Spec, MergedStaysMerged

(***************************************************************************)
(* Edits.  The text of an edited row comes from an edit the bridge         *)
(* delivered, also when the edit was held or given back by a failed write. *)
(***************************************************************************)

(* Row r of message i shows the edit its time names. *)
EditShown(i, r) ==
    r.editedAt > 0 =>
        \E m \in Mutations : /\ m.kind = "edit" /\ m.id = i
                             /\ m.at = r.editedAt /\ m.text = r.text

EditsShown(db) == \A i \in Id : db.rows[i] # None => EditShown(i, db.rows[i])

OnlyDelivered ==
    /\ \A i \in Id : pending[i] \in Seq(Mutations)
    /\ \A i \in Id : held.pending[i] \in Seq(Mutations)
    /\ replay \in Seq(Mutations)

EditInv == EditsShown(ctx) /\ EditsShown(disk) /\ OnlyDelivered

LEMMA ApplyShows ==
    ASSUME NEW r \in Row, NEW m \in Mutations, EditShown(m.id, r)
    PROVE  EditShown(m.id, Apply(r, m))
<1>1. m \in Mutation
  BY WriterAssumption
<1>2. CASE m.kind = "edit"
  <2>1. Apply(r, m) = ApplyEdit(r, m)
    BY <1>2 DEF Apply
  <2>2. CASE r.editedAt <= m.at
    <3>1. Apply(r, m).editedAt = m.at /\ Apply(r, m).text = m.text
      BY <2>1, <2>2 DEF ApplyEdit, Row
    <3> QED
      BY <1>2, <3>1 DEF EditShown
  <2>3. CASE ~(r.editedAt <= m.at)
    BY <2>1, <2>3 DEF ApplyEdit
  <2> QED
    BY <2>2, <2>3
<1>3. CASE m.kind # "edit"
  <2>1. Apply(r, m).editedAt = r.editedAt /\ Apply(r, m).text = r.text
    <3>1. CASE m.kind = "delivery"
      BY <3>1 DEF Apply, ApplyDelivery, Row
    <3>2. CASE m.kind = "viewOnce"
      BY <3>2 DEF Apply, ApplyViewOnce, Row
    <3>3. CASE m.kind = "mediaRetry"
      BY <3>3 DEF Apply, ApplyMediaRetry, Row
    <3>4. CASE m.kind = "revoke"
      BY <3>4 DEF Apply, ApplyRevoke, Row
    <3>5. CASE m.kind \in {"mediaPath", "mediaExpired", "localDelete", "messagePin", "star"}
      BY <3>5 DEF Apply, Row
    <3>6. m.kind \in {"delivery", "viewOnce", "mediaRetry", "revoke", "mediaPath",
                      "mediaExpired", "localDelete", "messagePin", "star"}
      BY <1>1, <1>3 DEF Mutation
    <3> QED
      BY <3>1, <3>2, <3>3, <3>4, <3>5, <3>6
  <2> QED
    BY <2>1 DEF EditShown
<1> QED
  BY <1>2, <1>3

LEMMA MergeShows ==
    ASSUME NEW i \in Id, NEW r \in Row, NEW m \in Message, EditShown(i, r)
    PROVE  EditShown(i, Merge(r, m))
<1>1. Merge(r, m).editedAt = r.editedAt /\ (r.editedAt > 0 => Merge(r, m).text = r.text)
  BY MergeFields
<1> QED
  BY <1>1 DEF EditShown

LEMMA ApplyEditsShown ==
    ASSUME TypeInv, EditsShown(ctx), NEW m \in Mutations, Stored(ctx, m.id),
           ctx' = [ctx EXCEPT !.rows[m.id] = Apply(@, m)]
    PROVE  EditsShown(ctx')
<1>1. m \in Mutation
  BY WriterAssumption
<1>2. /\ m.id \in Id /\ ctx.rows[m.id] \in Row
      /\ ctx'.rows = [ctx.rows EXCEPT ![m.id] = Apply(ctx.rows[m.id], m)]
  BY <1>1, ApplyRows
<1>3. EditShown(m.id, Apply(ctx.rows[m.id], m))
  BY <1>2, ApplyShows DEF EditsShown, Stored
<1>4. ctx.rows \in [Id -> Row \cup {None}]
  BY DEF TypeInv, TypeOK, Store
<1> QED
  BY <1>2, <1>3, <1>4 DEF EditsShown

LEMMA PutEditsShown ==
    ASSUME TypeInv, EditsShown(ctx), NEW m \in Messages, PutMessage(m)
    PROVE  EditsShown(ctx')
<1>1. PICK old \in Row, msg \in Message :
         /\ m.id \in Id
         /\ old = IF Stored(ctx, m.id) THEN ctx.rows[m.id] ELSE BlankRow(Canon(m.chat))
         /\ ctx'.rows = [ctx.rows EXCEPT ![m.id] = Merge(old, msg)]
  BY PutMessageRows
<1>2. EditShown(m.id, old)
  <2>1. CASE Stored(ctx, m.id)
    BY <1>1, <2>1 DEF EditsShown, Stored
  <2>2. CASE ~Stored(ctx, m.id)
    BY <1>1, <2>2 DEF EditShown, BlankRow
  <2> QED
    BY <2>1, <2>2
<1>3. EditShown(m.id, Merge(old, msg))
  BY <1>1, <1>2, MergeShows
<1>4. ctx.rows \in [Id -> Row \cup {None}]
  BY DEF TypeInv, TypeOK, Store
<1> QED
  BY <1>1, <1>3, <1>4 DEF EditsShown

LEMMA MergedEditsShown ==
    ASSUME NEW db \in Store, EditsShown(db), NEW lids \in SUBSET DOMAIN PnOf
    PROVE  EditsShown(Merged(db, lids))
<1> SUFFICES ASSUME NEW i \in Id, Stored(Merged(db, lids), i)
             PROVE  EditShown(i, Merged(db, lids).rows[i])
  BY DEF EditsShown, Stored
<1>1. Stored(db, i)
  BY MergedStored
<1> DEFINE r == db.rows[i]
           c == IF r.chat \in lids THEN PnOf[r.chat] ELSE r.chat
           new == Merged(db, lids).rows[i]
<1>2. r \in Row /\ new = [r EXCEPT !.chat = c] /\ EditShown(i, r)
  BY <1>1, MergedRow DEF EditsShown, Stored
<1> HIDE DEF r, c, new
<1>3. new.editedAt = r.editedAt /\ new.text = r.text
  BY <1>2 DEF Row
<1>4. EditShown(i, new)
  BY <1>2, <1>3 DEF EditShown
<1> QED
  BY <1>4 DEF new

(* The mutations held after a step were held before or have just come. *)
LEMMA StashDelivered ==
    ASSUME TypeInv, OnlyDelivered, NEW m \in Mutations, Stash(m)
    PROVE  \A i \in Id : pending'[i] \in Seq(Mutations)
<1> DEFINE listed == IF pending[m.id] = <<>> THEN Append(order, m.id) ELSE order
           kept == [pending EXCEPT ![m.id] = Trim(Append(@, m))]
<1>1. /\ m.id \in Id /\ pending \in [Id -> Seq(Mutation)]
      /\ \A i \in Id : pending[i] \in Seq(Mutations)
  BY WriterAssumption DEF TypeInv, TypeOK, OnlyDelivered, Mutation
<1>2. Trim(Append(pending[m.id], m)) \in Seq(Mutations)
  <2>1. Append(pending[m.id], m) \in Seq(Mutations) /\ Append(pending[m.id], m) # <<>>
    BY <1>1
  <2>2. Tail(Append(pending[m.id], m)) \in Seq(Mutations)
    BY <2>1
  <2> QED
    BY <2>1, <2>2 DEF Trim
<1>3. \A i \in Id : kept[i] \in Seq(Mutations)
  BY <1>1, <1>2
<1>4. DOMAIN kept = Id
  BY <1>1
<1>5. pending' = kept \/ pending' = [kept EXCEPT ![Head(listed)] = <<>>]
  BY DEF Stash
<1> HIDE DEF listed, kept
<1>6. \A i \in Id : pending'[i] = kept[i] \/ pending'[i] = <<>>
  BY <1>4, <1>5
<1>7. <<>> \in Seq(Mutations)
  OBVIOUS
<1> QED
  BY <1>3, <1>6, <1>7

LEMMA EditInvStep ==
    ASSUME RowInv, EditInv, [Next]_vars
    PROVE  EditInv'
<1> USE DEF EditInv
<1>1. CASE UNCHANGED vars
  BY <1>1 DEF vars, EditsShown, OnlyDelivered
<1>2. CASE Begin
  BY <1>2 DEF Begin, EditsShown, OnlyDelivered
<1>3. CASE \/ PurgeEnd \/ \E c \in Chat : PurgeChat(c)
           \/ \E x \in Reactions : React(x)
           \/ \E v \in Votes : CastVote(v)
           \/ \E c \in Chat : SidebarSavesChat(c)
           \/ \E l \in DOMAIN PnOf : LearnMapping(l)
  <2>1. ctx'.rows = ctx.rows /\ disk'.rows = disk.rows
    BY <1>3, SameRows DEF RowInv
  <2>2. pending' = pending /\ held' = held /\ replay' = replay
    BY <1>3 DEF PurgeEnd, PurgeChat, React, CastVote, SidebarSavesChat, LearnMapping, memory
  <2> QED
    BY <2>1, <2>2 DEF EditsShown, OnlyDelivered
<1>4. ASSUME NEW i \in Id, PurgeRow(i) PROVE EditInv'
  <2>1. EditsShown(ctx')
    BY <1>4, PurgeRowPlaces DEF RowInv, EditsShown
  <2>2. disk' = disk /\ held' = held /\ replay' = replay
    BY <1>4 DEF PurgeRow
  <2>3. \A j \in Id : pending'[j] \in Seq(Mutations)
    BY <1>4 DEF PurgeRow, Forget, RowInv, TypeInv, TypeOK, OnlyDelivered
  <2> QED
    BY <2>1, <2>2, <2>3 DEF EditsShown, OnlyDelivered
<1>5. ASSUME NEW m \in Messages, PutMessage(m) PROVE EditInv'
  <2>1. EditsShown(ctx') /\ m.id \in Id
    BY <1>5, PutEditsShown, PutPlaces DEF RowInv
  <2>2. disk' = disk /\ held' = held /\ replay' = pending[m.id]
    BY <1>5 DEF PutMessage
  <2>3. \A j \in Id : pending'[j] \in Seq(Mutations)
    BY <1>5 DEF PutMessage, Forget, RowInv, TypeInv, TypeOK, OnlyDelivered
  <2> QED
    BY <2>1, <2>2, <2>3 DEF EditsShown, OnlyDelivered
<1>6. CASE Replay
  <2> DEFINE m == Head(replay)
  <2>1. m \in Mutations /\ replay' \in Seq(Mutations)
    BY <1>6 DEF Replay, OnlyDelivered
  <2>2. disk' = disk /\ held' = held /\ pending' = pending
    BY <1>6 DEF Replay
  <2>3. CASE Stored(ctx, m.id)
    <3>1. ctx' = [ctx EXCEPT !.rows[m.id] = Apply(@, m)]
      BY <1>6, <2>3 DEF Replay
    <3> HIDE DEF m
    <3>2. EditsShown(ctx')
      BY <2>1, <2>3, <3>1, ApplyEditsShown DEF RowInv
    <3> QED
      BY <2>1, <2>2, <3>2 DEF EditsShown, OnlyDelivered
  <2>4. CASE ~Stored(ctx, m.id)
    <3>1. ctx' = ctx
      BY <1>6, <2>4 DEF Replay
    <3> QED
      BY <2>1, <2>2, <3>1 DEF EditsShown, OnlyDelivered
  <2> QED
    BY <2>3, <2>4
<1>7. ASSUME NEW m \in Mutations, Mutate(m) PROVE EditInv'
  <2>1. disk' = disk /\ held' = held /\ replay' = replay
    BY <1>7 DEF Mutate
  <2>2. CASE Stored(ctx, m.id)
    <3>1. ctx' = [ctx EXCEPT !.rows[m.id] = Apply(@, m)] /\ pending' = pending
      BY <1>7, <2>2 DEF Mutate
    <3>2. EditsShown(ctx')
      BY <2>2, <3>1, ApplyEditsShown DEF RowInv
    <3> QED
      BY <2>1, <3>1, <3>2 DEF EditsShown, OnlyDelivered
  <2>3. CASE ~Stored(ctx, m.id)
    <3>1. ctx' = ctx /\ Stash(m)
      BY <1>7, <2>3 DEF Mutate
    <3>2. \A i \in Id : pending'[i] \in Seq(Mutations)
      BY <3>1, StashDelivered DEF RowInv
    <3> QED
      BY <2>1, <3>1, <3>2 DEF EditsShown, OnlyDelivered
  <2> QED
    BY <2>2, <2>3
<1>8. CASE Save \/ DeleteConsumedFiles \/ UpdateIndex \/ IndexFails \/ Reconcile \/ Reconfigure
  BY <1>8 DEF Save, DeleteConsumedFiles, UpdateIndex, IndexFails, Reconcile, Reconfigure,
     memory, EditsShown, OnlyDelivered
<1>9. CASE Throw
  BY <1>9 DEF Throw, Restore, EditsShown, OnlyDelivered
<1>10. CASE Crash
  BY <1>10 DEF Crash, NothingHeld, EditsShown, OnlyDelivered
<1>11. CASE Start \/ \E l \in DOMAIN PnOf : MergeChats(l)
  <2>1. pending' = pending /\ held' = held /\ replay' = replay
    BY <1>11 DEF Start, MergeChats, memory
  <2>2. PICK lids \in SUBSET DOMAIN PnOf : ctx' = Merged(ctx, lids) /\ disk' = ctx'
    BY <1>11, MergedPlaces DEF RowInv
  <2>3. EditsShown(ctx') /\ EditsShown(disk')
    BY <2>2, MergedEditsShown DEF RowInv, TypeInv, TypeOK
  <2> QED
    BY <2>1, <2>3 DEF EditsShown, OnlyDelivered
<1> QED
  BY <1>1, <1>2, <1>3, <1>4, <1>5, <1>6, <1>7, <1>8, <1>9, <1>10, <1>11 DEF Next

(* An edited row shows the text of an edit with the row's own edit time.   *)
THEOREM EditsStand == Spec => []EditedTextStands
<1>1. Init => EditInv
  BY DEF Init, EditInv, EditsShown, OnlyDelivered, EmptyStore, NothingHeld
<1>2. RowInv /\ EditInv /\ [Next]_vars => EditInv'
  BY EditInvStep
<1>3. EditInv => EditedTextStands
  BY DEF EditInv, EditsShown, EditShown, EditedTextStands, Stored
<1> QED
  BY <1>1, <1>2, <1>3, RowInvariant, PTL DEF Spec

(***************************************************************************)
(* The two structures of held mutations                                    *)
(***************************************************************************)

Distinct(s) == \A j, k \in 1..Len(s) : s[j] = s[k] => j = k
Listed(s, i) == \E k \in 1..Len(s) : s[k] = i

LEMMA WithoutElements ==
    ASSUME NEW s \in Seq(Id), NEW i \in Id, Distinct(s)
    PROVE  /\ Distinct(Without(s, i))
           /\ \A j \in Id : Listed(Without(s, i), j) <=> Listed(s, j) /\ j # i
<1>1. CASE Listed(s, i)
  <2> DEFINE p == CHOOSE k \in 1..Len(s) : s[k] = i
             w == [j \in 1..(Len(s) - 1) |-> IF j < p THEN s[j] ELSE s[j + 1]]
  <2>1. p \in 1..Len(s) /\ s[p] = i /\ Without(s, i) = w
    BY <1>1 DEF Without, Listed
  <2> HIDE DEF p
  <2>2. Len(s) \in Nat /\ Len(s) >= 1
    BY <2>1
  <2>3. Len(w) = Len(s) - 1
    BY <2>2
  <2>4. /\ \A j \in 1..Len(w) : j < p => w[j] = s[j]
        /\ \A j \in 1..Len(w) : ~(j < p) => w[j] = s[j + 1]
    BY <2>1, <2>3
  <2> HIDE DEF w
  <2>5. Distinct(w)
    <3> SUFFICES ASSUME NEW j \in 1..Len(w), NEW k \in 1..Len(w), w[j] = w[k] PROVE j = k
      BY DEF Distinct
    <3>1. j \in 1..Len(s) /\ j + 1 \in 1..Len(s) /\ k \in 1..Len(s) /\ k + 1 \in 1..Len(s)
      BY <2>2, <2>3
    <3>2. CASE j < p /\ k < p
      <4>1. w[j] = s[j] /\ w[k] = s[k]
        BY <2>4, <3>2
      <4> QED
        BY <3>1, <4>1 DEF Distinct
    <3>3. CASE j < p /\ ~(k < p)
      <4>1. j = k + 1
        BY <2>1, <2>4, <3>1, <3>3 DEF Distinct
      <4> QED
        BY <2>1, <3>1, <3>3, <4>1
    <3>4. CASE ~(j < p) /\ k < p
      <4>1. j + 1 = k
        BY <2>1, <2>4, <3>1, <3>4 DEF Distinct
      <4> QED
        BY <2>1, <3>1, <3>4, <4>1
    <3>5. CASE ~(j < p) /\ ~(k < p)
      <4>1. j + 1 = k + 1
        BY <2>1, <2>4, <3>1, <3>5 DEF Distinct
      <4> QED
        BY <3>1, <4>1
    <3> QED
      BY <3>2, <3>3, <3>4, <3>5
  <2>6. ASSUME NEW j \in Id, Listed(w, j) PROVE Listed(s, j) /\ j # i
    <3>1. PICK k \in 1..Len(w) : w[k] = j
      BY <2>6 DEF Listed
    <3>2. k \in 1..Len(s) /\ k + 1 \in 1..Len(s)
      BY <2>2, <2>3, <3>1
    <3>3. PICK q \in {k, k + 1} : s[q] = j /\ q # p
      BY <2>1, <2>4, <3>1, <3>2
    <3>4. q \in 1..Len(s)
      BY <3>2, <3>3
    <3> QED
      BY <2>1, <3>3, <3>4 DEF Distinct, Listed
  <2>7. ASSUME NEW j \in Id, Listed(s, j), j # i PROVE Listed(w, j)
    <3>1. PICK k \in 1..Len(s) : s[k] = j
      BY <2>7 DEF Listed
    <3>2. k # p
      BY <2>1, <2>7, <3>1
    <3>3. CASE k < p
      <4>1. k \in 1..Len(w)
        BY <2>1, <2>2, <2>3, <3>1, <3>3
      <4> QED
        BY <2>1, <2>4, <3>1, <3>3, <4>1 DEF Listed
    <3>4. CASE k > p
      <4>1. k - 1 \in 1..Len(w) /\ ~(k - 1 < p) /\ (k - 1) + 1 = k
        BY <2>1, <2>2, <2>3, <3>1, <3>4
      <4>2. w[k - 1] = s[k]
        BY <2>1, <2>4, <4>1
      <4> QED
        BY <3>1, <4>1, <4>2 DEF Listed
    <3> QED
      BY <2>1, <3>1, <3>2, <3>3, <3>4
  <2> QED
    BY <2>1, <2>5, <2>6, <2>7
<1>2. CASE ~Listed(s, i)
  <2>1. Without(s, i) = s
    BY <1>2 DEF Without, Listed
  <2> QED
    BY <1>2, <2>1
<1> QED
  BY <1>1, <1>2

LEMMA AppendElements ==
    ASSUME NEW s \in Seq(Id), NEW i \in Id, Distinct(s), ~Listed(s, i)
    PROVE  /\ Distinct(Append(s, i))
           /\ \A j \in Id : Listed(Append(s, i), j) <=> Listed(s, j) \/ j = i
<1> DEFINE a == Append(s, i)
<1>1. /\ Len(s) \in Nat /\ Len(a) = Len(s) + 1 /\ a[Len(s) + 1] = i
      /\ \A k \in 1..Len(s) : a[k] = s[k]
  OBVIOUS
<1> HIDE DEF a
<1>2. \A k \in 1..Len(a) : k \in 1..Len(s) \/ k = Len(s) + 1
  BY <1>1
<1>3. Distinct(a)
  BY <1>1, <1>2 DEF Distinct, Listed
<1>4. \A j \in Id : Listed(a, j) => Listed(s, j) \/ j = i
  BY <1>1, <1>2 DEF Listed
<1>5. \A k \in 1..Len(s) : k \in 1..Len(a)
  BY <1>1
<1>6. Len(s) + 1 \in 1..Len(a)
  BY <1>1
<1>7. \A j \in Id : Listed(s, j) \/ j = i => Listed(a, j)
  BY <1>1, <1>5, <1>6 DEF Listed
<1> QED
  BY <1>3, <1>4, <1>7 DEF a

LEMMA TailElements ==
    ASSUME NEW s \in Seq(Id), s # <<>>, Distinct(s)
    PROVE  /\ Distinct(Tail(s)) /\ Head(s) \in Id
           /\ \A j \in Id : Listed(Tail(s), j) <=> Listed(s, j) /\ j # Head(s)
<1> DEFINE t == Tail(s)
<1>1. /\ Len(s) \in Nat /\ Len(s) >= 1 /\ Len(t) = Len(s) - 1 /\ Head(s) = s[1]
      /\ \A k \in 1..Len(t) : t[k] = s[k + 1]
  OBVIOUS
<1>2. Head(s) \in Id
  OBVIOUS
<1> HIDE DEF t
<1>3. \A k \in 1..Len(t) : k + 1 \in 1..Len(s) /\ k + 1 # 1
  BY <1>1
<1>4. 1 \in 1..Len(s)
  BY <1>1
<1>5. Distinct(t)
  <2> SUFFICES ASSUME NEW j \in 1..Len(t), NEW k \in 1..Len(t), t[j] = t[k] PROVE j = k
    BY DEF Distinct
  <2>1. j + 1 = k + 1
    BY <1>1, <1>3 DEF Distinct
  <2> QED
    BY <2>1
<1>6. \A j \in Id : Listed(t, j) => Listed(s, j) /\ j # Head(s)
  BY <1>1, <1>3, <1>4 DEF Listed, Distinct
<1>7. ASSUME NEW j \in Id, Listed(s, j), j # Head(s) PROVE Listed(t, j)
  <2>1. PICK k \in 1..Len(s) : s[k] = j
    BY <1>7 DEF Listed
  <2>2. k - 1 \in 1..Len(t) /\ (k - 1) + 1 = k
    BY <1>1, <1>7, <2>1
  <2>3. t[k - 1] = s[k]
    BY <1>1, <2>2
  <2> QED
    BY <2>1, <2>2, <2>3 DEF Listed
<1> QED
  BY <1>2, <1>5, <1>6, <1>7 DEF t

LEMMA Agreement ==
    ASSUME NEW p, NEW o
    PROVE  HeldAgrees(p, o) <=> /\ \A i \in Id : p[i] # <<>> <=> Listed(o, i)
                                /\ Distinct(o)
                                /\ \A i \in Id : \A k \in 1..Len(p[i]) : p[i][k].id = i
BY DEF HeldAgrees, Listed, Distinct

LEMMA ForgetAgrees ==
    ASSUME TypeInv, PendingAgrees, NEW i \in Id, Forget(i)
    PROVE  PendingAgrees'
<1>1. /\ order \in Seq(Id) /\ Distinct(order)
      /\ \A j \in Id : pending[j] # <<>> <=> Listed(order, j)
      /\ \A j \in Id : \A k \in 1..Len(pending[j]) : pending[j][k].id = j
  BY Agreement DEF PendingAgrees, TypeInv, TypeOK
<1>2. /\ order' = Without(order, i)
      /\ \A j \in Id : pending'[j] = IF j = i THEN <<>> ELSE pending[j]
  BY DEF Forget, TypeInv, TypeOK
<1>3. Distinct(order') /\ \A j \in Id : pending'[j] # <<>> <=> Listed(order', j)
  BY <1>1, <1>2, WithoutElements
<1>4. \A j \in Id : \A k \in 1..Len(pending'[j]) : pending'[j][k].id = j
  BY <1>1, <1>2
<1> QED
  BY <1>3, <1>4, Agreement DEF PendingAgrees

LEMMA TrimElements ==
    ASSUME NEW s \in Seq(Mutation), NEW m \in Mutation, Len(s) <= MutationLimit,
           \A k \in 1..Len(s) : s[k].id = m.id
    PROVE  \A k \in 1..Len(Trim(Append(s, m))) : Trim(Append(s, m))[k].id = m.id
<1> DEFINE a == Append(s, m)
<1>1. a \in Seq(Mutation) /\ a # <<>> /\ \A k \in 1..Len(a) : a[k].id = m.id
  <2>1. /\ a \in Seq(Mutation) /\ Len(s) \in Nat /\ Len(a) = Len(s) + 1
        /\ a[Len(s) + 1] = m /\ \A k \in 1..Len(s) : a[k] = s[k]
    OBVIOUS
  <2> HIDE DEF a
  <2>2. \A k \in 1..Len(a) : k \in 1..Len(s) \/ k = Len(s) + 1
    BY <2>1
  <2> QED
    BY <2>1, <2>2
<1> HIDE DEF a
<1>2. \A k \in 1..Len(Tail(a)) : k + 1 \in 1..Len(a) /\ Tail(a)[k] = a[k + 1]
  BY <1>1
<1>3. \A k \in 1..Len(Tail(a)) : Tail(a)[k].id = m.id
  BY <1>1, <1>2
<1>4. Trim(a) = Tail(a) \/ Trim(a) = a
  BY DEF Trim
<1> QED
  BY <1>1, <1>3, <1>4 DEF a

LEMMA StashAgrees ==
    ASSUME TypeInv, PendingAgrees, NEW m \in Mutation, Stash(m)
    PROVE  PendingAgrees'
<1> DEFINE listed == IF pending[m.id] = <<>> THEN Append(order, m.id) ELSE order
           kept == [pending EXCEPT ![m.id] = Trim(Append(@, m))]
<1>1. m.id \in Id /\ pending \in [Id -> Seq(Mutation)] /\ order \in Seq(Id)
  BY DEF TypeInv, TypeOK, Mutation
<1>2. /\ Distinct(order)
      /\ \A j \in Id : pending[j] # <<>> <=> Listed(order, j)
      /\ \A j \in Id : \A k \in 1..Len(pending[j]) : pending[j][k].id = j
  BY Agreement DEF PendingAgrees
<1>3. /\ listed \in Seq(Id) /\ Distinct(listed)
      /\ \A j \in Id : Listed(listed, j) <=> Listed(order, j) \/ j = m.id
  BY <1>1, <1>2, AppendElements
<1>4. /\ Trim(Append(pending[m.id], m)) # <<>>
      /\ \A k \in 1..Len(Trim(Append(pending[m.id], m))) :
            Trim(Append(pending[m.id], m))[k].id = m.id
  BY <1>1, <1>2, TrimType, TrimElements DEF TypeInv, TypeOK
<1>5. /\ kept[m.id] = Trim(Append(pending[m.id], m))
      /\ \A j \in Id \ {m.id} : kept[j] = pending[j]
      /\ DOMAIN kept = Id
  BY <1>1
<1>6. \/ /\ Len(listed) > TargetLimit
         /\ order' = Tail(listed)
         /\ pending' = [kept EXCEPT ![Head(listed)] = <<>>]
      \/ order' = listed /\ pending' = kept
  BY DEF Stash
<1> HIDE DEF listed, kept
<1>7. \A j \in Id : kept[j] # <<>> <=> Listed(listed, j)
  BY <1>2, <1>3, <1>4, <1>5
<1>8. \A j \in Id : \A k \in 1..Len(kept[j]) : kept[j][k].id = j
  BY <1>2, <1>4, <1>5
<1>9. CASE order' = listed /\ pending' = kept
  BY <1>3, <1>7, <1>8, <1>9, Agreement DEF PendingAgrees
<1>10. CASE /\ Len(listed) > TargetLimit
            /\ order' = Tail(listed)
            /\ pending' = [kept EXCEPT ![Head(listed)] = <<>>]
  <2>1. listed # <<>>
    BY <1>10, WriterAssumption
  <2>2. /\ Distinct(order') /\ Head(listed) \in Id
        /\ \A j \in Id : Listed(order', j) <=> Listed(listed, j) /\ j # Head(listed)
    BY <1>3, <1>10, <2>1, TailElements
  <2>3. \A j \in Id : pending'[j] = IF j = Head(listed) THEN <<>> ELSE kept[j]
    BY <1>5, <1>10, <2>2
  <2>4. \A j \in Id : pending'[j] # <<>> <=> Listed(order', j)
    BY <1>7, <2>2, <2>3
  <2>5. \A j \in Id : \A k \in 1..Len(pending'[j]) : pending'[j][k].id = j
    BY <1>8, <2>3
  <2> QED
    BY <2>2, <2>4, <2>5, Agreement DEF PendingAgrees
<1> QED
  BY <1>6, <1>9, <1>10

AgreeInv == PendingAgrees /\ HeldAgrees(held.pending, held.order)

LEMMA AgreeInvStep ==
    ASSUME TypeInv, AgreeInv, [Next]_vars
    PROVE  AgreeInv'
<1> USE DEF AgreeInv
<1>1. CASE UNCHANGED vars
  BY <1>1 DEF vars, PendingAgrees, HeldAgrees
<1>2. CASE Begin
  <2>1. pending' = pending /\ order' = order
        /\ held'.pending = pending /\ held'.order = order
    BY <1>2 DEF Begin
  <2> QED
    BY <2>1 DEF PendingAgrees
<1>3. ASSUME NEW i \in Id, PurgeRow(i) PROVE AgreeInv'
  BY <1>3, ForgetAgrees DEF PurgeRow
<1>4. ASSUME NEW m \in Messages, PutMessage(m) PROVE AgreeInv'
  <2>1. m.id \in Id /\ Forget(m.id) /\ held' = held
    BY <1>4, PutPlaces DEF PutMessage
  <2> QED
    BY <2>1, ForgetAgrees
<1>5. ASSUME NEW m \in Mutations, Mutate(m) PROVE AgreeInv'
  <2>1. m \in Mutation /\ held' = held
    BY <1>5, WriterAssumption DEF Mutate
  <2>2. Stash(m) \/ UNCHANGED <<pending, order>>
    BY <1>5 DEF Mutate
  <2> QED
    BY <2>1, <2>2, StashAgrees DEF PendingAgrees
<1>6. CASE Throw
  <2>1. pending' = held.pending /\ order' = held.order /\ held' = held
    BY <1>6 DEF Throw, Restore
  <2> QED
    BY <2>1 DEF PendingAgrees
<1>7. CASE Crash
  BY <1>7 DEF Crash, PendingAgrees, HeldAgrees, NothingHeld
<1>8. CASE \/ PurgeEnd \/ Replay \/ Save \/ DeleteConsumedFiles \/ UpdateIndex
           \/ IndexFails \/ Reconcile \/ Reconfigure \/ Start
           \/ \E c \in Chat : PurgeChat(c)
           \/ \E x \in Reactions : React(x)
           \/ \E v \in Votes : CastVote(v)
           \/ \E c \in Chat : SidebarSavesChat(c)
           \/ \E l \in DOMAIN PnOf : MergeChats(l) \/ LearnMapping(l)
  <2>1. pending' = pending /\ order' = order /\ held' = held
    BY <1>8 DEF PurgeEnd, Replay, Save, DeleteConsumedFiles, UpdateIndex, IndexFails,
       Reconcile, Reconfigure, Start, PurgeChat, React, CastVote, SidebarSavesChat,
       MergeChats, LearnMapping, memory
  <2> QED
    BY <2>1 DEF PendingAgrees
<1> QED
  BY <1>1, <1>2, <1>3, <1>4, <1>5, <1>6, <1>7, <1>8 DEF Next

(* The held mutations and their order always describe the same targets:    *)
(* nothing is held that the limit on targets could not reach, and the      *)
(* limit never throws out a target twice.                                  *)
THEOREM HeldStructuresAgree == Spec => []PendingAgrees
<1>1. Init => AgreeInv
  BY DEF Init, AgreeInv, PendingAgrees, HeldAgrees, NothingHeld
<1>2. RowInv /\ AgreeInv /\ [Next]_vars => AgreeInv'
  BY AgreeInvStep DEF RowInv
<1>3. AgreeInv => PendingAgrees
  BY DEF AgreeInv
<1> QED
  BY <1>1, <1>2, <1>3, RowInvariant, PTL DEF Spec

LEMMA StashTakesOldest ==
    ASSUME TypeInv, PendingAgrees, NEW m \in Mutation, Stash(m)
    PROVE  /\ \/ pending'[m.id] = Append(pending[m.id], m)
              \/ /\ Len(pending[m.id]) = MutationLimit
                 /\ pending'[m.id] = Append(Tail(pending[m.id]), m)
           /\ \A i \in Id \ {m.id} :
                 \/ pending'[i] = pending[i]
                 \/ /\ Len(order) = TargetLimit /\ i = Head(order) /\ pending[m.id] = <<>>
                    /\ pending'[i] = <<>>
<1> DEFINE listed == IF pending[m.id] = <<>> THEN Append(order, m.id) ELSE order
           s == pending[m.id]
           t == Trim(Append(s, m))
           kept == [pending EXCEPT ![m.id] = t]
<1>1. /\ m.id \in Id /\ pending \in [Id -> Seq(Mutation)] /\ order \in Seq(Id)
      /\ s \in Seq(Mutation) /\ Len(s) <= MutationLimit /\ Len(order) <= TargetLimit
      /\ MutationLimit \in Nat \ {0} /\ TargetLimit \in Nat \ {0}
  BY WriterAssumption DEF TypeInv, TypeOK, Mutation, WriterAssumption
<1>2. t = Append(s, m) \/ (Len(s) = MutationLimit /\ t = Append(Tail(s), m))
  <2>1. Len(Append(s, m)) = Len(s) + 1 /\ Len(s) \in Nat
    BY <1>1
  <2>2. Len(s) > 0 => Tail(Append(s, m)) = Append(Tail(s), m)
    BY <1>1
  <2>3. Trim(Append(s, m)) = IF Len(Append(s, m)) > MutationLimit
                             THEN Tail(Append(s, m)) ELSE Append(s, m)
    BY DEF Trim
  <2> HIDE DEF s
  <2>4. Len(Append(s, m)) > MutationLimit => Len(s) = MutationLimit
    BY <1>1, <2>1
  <2> QED
    BY <1>1, <2>2, <2>3, <2>4
<1>3. \/ /\ Len(listed) > TargetLimit
         /\ pending' = [kept EXCEPT ![Head(listed)] = <<>>]
      \/ pending' = kept
  BY DEF Stash
<1>4. /\ kept[m.id] = t /\ DOMAIN kept = Id
      /\ \A i \in Id \ {m.id} : kept[i] = pending[i]
  BY <1>1
<1>5. ASSUME Len(listed) > TargetLimit
      PROVE  /\ s = <<>> /\ Len(order) = TargetLimit
             /\ Head(listed) = Head(order) /\ Head(order) # m.id
  <2>1. s = <<>> /\ listed = Append(order, m.id)
    BY <1>1, <1>5
  <2>2. Len(order) = TargetLimit
    BY <1>1, <1>5, <2>1
  <2>3. Head(listed) = Head(order) /\ Head(order) = order[1] /\ 1 \in 1..Len(order)
    BY <1>1, <2>1, <2>2
  <2>4. ~Listed(order, m.id)
    BY <1>1, <2>1, Agreement DEF PendingAgrees
  <2>5. Head(order) # m.id
    BY <2>3, <2>4 DEF Listed
  <2> QED
    BY <2>1, <2>2, <2>3, <2>5
<1>6. s = pending[m.id]
  OBVIOUS
<1> HIDE DEF listed, kept, s, t
<1>7. CASE pending' = kept
  BY <1>2, <1>4, <1>6, <1>7
<1>8. CASE /\ Len(listed) > TargetLimit
           /\ pending' = [kept EXCEPT ![Head(listed)] = <<>>]
  <2> DEFINE h == Head(listed)
  <2>1. h = Head(order) /\ h # m.id /\ s = <<>> /\ Len(order) = TargetLimit
    BY <1>5, <1>8
  <2>2. pending' = [kept EXCEPT ![h] = <<>>]
    BY <1>8
  <2> HIDE DEF h
  <2>3. \A i \in Id : pending'[i] = IF i = h THEN <<>> ELSE kept[i]
    BY <1>4, <2>2
  <2>4. pending'[m.id] = t
    BY <1>1, <1>4, <2>1, <2>3
  <2>5. \A i \in Id \ {m.id} : pending'[i] = pending[i] \/ (i = h /\ pending'[i] = <<>>)
    BY <1>4, <2>3
  <2> QED
    BY <1>2, <1>6, <2>1, <2>4, <2>5
<1> QED
  BY <1>3, <1>7, <1>8

(* At 256 targets and 32 mutations of a target stash drops what is oldest: *)
(* the newcomer is always held, and no other mutation goes than the first  *)
(* of its full list, or the list of the target that has waited longest.    *)
THEOREM OldestGivesWayToNewest == Spec => OldestGivesWay
<1> DEFINE Step == \A m \in Mutations : Mutate(m) /\ ~Stored(ctx, m.id) =>
          /\ \/ pending'[m.id] = Append(pending[m.id], m)
             \/ /\ Len(pending[m.id]) = MutationLimit
                /\ pending'[m.id] = Append(Tail(pending[m.id]), m)
          /\ \A i \in Id \ {m.id} :
                \/ pending'[i] = pending[i]
                \/ /\ Len(order) = TargetLimit /\ i = Head(order) /\ pending[m.id] = <<>>
                   /\ pending'[i] = <<>>
<1>1. RowInv /\ PendingAgrees => [Step]_vars
  <2> SUFFICES ASSUME RowInv, PendingAgrees, NEW m \in Mutations, Mutate(m), ~Stored(ctx, m.id)
               PROVE  /\ \/ pending'[m.id] = Append(pending[m.id], m)
                         \/ /\ Len(pending[m.id]) = MutationLimit
                            /\ pending'[m.id] = Append(Tail(pending[m.id]), m)
                      /\ \A i \in Id \ {m.id} :
                            \/ pending'[i] = pending[i]
                            \/ /\ Len(order) = TargetLimit /\ i = Head(order)
                               /\ pending[m.id] = <<>> /\ pending'[i] = <<>>
    OBVIOUS
  <2>1. m \in Mutation
    BY WriterAssumption DEF WriterAssumption
  <2>2. Stash(m)
    BY DEF Mutate
  <2>3. TypeInv
    BY DEF RowInv
  <2> QED
    BY <2>1, <2>2, <2>3, StashTakesOldest
<1> QED
  BY <1>1, RowInvariant, HeldStructuresAgree, PTL DEF OldestGivesWay

(***************************************************************************)
(* The search index                                                        *)
(***************************************************************************)

(* Entry e of the index is what row r shows when the LIDs of L are known. *)
CanonIn(L, c) == IF c \in L THEN PnOf[c] ELSE c

Shows(L, e, r) ==
    IF e = None THEN ~(r # None /\ Searchable(r))
    ELSE /\ r # None /\ Searchable(r)
         /\ CanonIn(L, e.chat) = CanonIn(L, r.chat)
         /\ e.text = r.text /\ e.caption = r.caption

LEMMA CanonTwice ==
    ASSUME TypeInv, NEW c \in Chat
    PROVE  Canon(c) \in Chat /\ Canon(Canon(c)) = Canon(c)
BY WriterAssumption DEF TypeInv, TypeOK, Canon

LEMMA ShowsMatches ==
    ASSUME TypeInv, NEW e \in Entry \cup {None}, NEW db \in Store, NEW i \in Id,
           Shows(learned, e, db.rows[i])
    PROVE  IF e = None THEN Indexed(db)[i] = None
           ELSE [e EXCEPT !.chat = Canon(@)] = Indexed(db)[i]
<1> DEFINE r == db.rows[i]
<1>1. CASE e = None
  BY <1>1 DEF Shows, Indexed, Stored
<1>2. CASE e # None
  <2>1. /\ e \in Entry /\ r \in Row /\ Stored(db, i) /\ Searchable(r)
        /\ Canon(e.chat) = Canon(r.chat) /\ e.text = r.text /\ e.caption = r.caption
    BY <1>2 DEF Shows, CanonIn, Canon, Stored, Store
  <2>2. Indexed(db)[i] = [chat |-> Canon(r.chat), text |-> r.text, caption |-> r.caption]
    BY <2>1 DEF Indexed
  <2>3. [e EXCEPT !.chat = Canon(@)] = [chat |-> Canon(e.chat), text |-> e.text,
                                        caption |-> e.caption]
    BY <2>1 DEF Entry
  <2> QED
    BY <1>2, <2>1, <2>2, <2>3
<1> QED
  BY <1>1, <1>2

LEMMA IndexedShows ==
    ASSUME TypeInv, NEW db \in Store, NEW i \in Id
    PROVE  Shows(learned, Indexed(db)[i], db.rows[i])
<1> DEFINE r == db.rows[i]
           e == [chat |-> Canon(r.chat), text |-> r.text, caption |-> r.caption]
<1>1. CASE Stored(db, i) /\ Searchable(r)
  <2>1. r \in Row /\ r.chat \in Chat
    BY <1>1 DEF Stored, Store, Row
  <2>2. Indexed(db)[i] = e /\ e \in Entry
    BY <1>1, <2>1, CanonTwice DEF Indexed, Entry, Row
  <2>3. e # None
    BY <2>2, WriterAssumption
  <2>4. Canon(e.chat) = Canon(r.chat)
    BY <2>1, CanonTwice
  <2> QED
    BY <1>1, <2>2, <2>3, <2>4 DEF Shows, CanonIn, Canon, Stored
<1>2. CASE ~(Stored(db, i) /\ Searchable(r))
  BY <1>2 DEF Indexed, Stored, Shows
<1> QED
  BY <1>1, <1>2

(* What a row shows stays shown when the bridge learns a mapping. *)
LEMMA LearnShows ==
    ASSUME NEW L \in SUBSET DOMAIN PnOf, NEW l \in DOMAIN PnOf,
           NEW e \in Entry \cup {None}, NEW r \in Row \cup {None}, Shows(L, e, r)
    PROVE  Shows(L \cup {l}, e, r)
<1>1. CASE e = None
  BY <1>1 DEF Shows
<1>2. CASE e # None
  <2>1. e.chat \in Chat /\ r.chat \in Chat /\ CanonIn(L, e.chat) = CanonIn(L, r.chat)
    BY <1>2 DEF Shows, Entry, Row
  <2>2. ASSUME NEW a \in Chat, NEW b \in Chat, CanonIn(L, a) = CanonIn(L, b)
        PROVE  CanonIn(L \cup {l}, a) = CanonIn(L \cup {l}, b)
    BY <2>2, WriterAssumption DEF CanonIn
  <2> QED
    BY <1>2, <2>1, <2>2 DEF Shows
<1> QED
  BY <1>1, <1>2

(* While a write runs, the index shows the store, and of the context what  *)
(* the write has not touched; a row it deleted and did not touch again is  *)
(* gone.  Held mutations are applied only to a row the write touched, and  *)
(* never while a chat is purged.                                           *)
ReplayTouched ==
    phase = "batch" =>
        /\ \A k \in 1..Len(replay) : replay[k].id \in changed
        /\ purging # None => replay = <<>>

IndexShowsStore ==
    progress # "failed" /\ phase \in {"idle", "batch"} =>
        \A i \in Id : Shows(learned, index[i], disk.rows[i])

IndexShowsUntouched ==
    progress # "failed" /\ phase \in {"batch", "saved", "index"} =>
        \A i \in Id \ changed : IF i \in removed THEN ctx.rows[i] = None
                                ELSE Shows(learned, index[i], ctx.rows[i])

IndexInv == ReplayTouched /\ IndexShowsStore /\ IndexShowsUntouched

(* A step inside a write disturbs only rows it reports. *)
LEMMA IndexInWrite ==
    ASSUME TypeInv, IndexInv, phase = "batch", phase' = "batch",
           index' = index, learned' = learned, progress' = progress,
           disk'.rows = disk.rows, ReplayTouched',
           removed \subseteq removed',
           \A i \in Id \ changed' :
              \/ i \in removed' /\ ctx'.rows[i] = None
              \/ i \notin changed /\ ctx'.rows[i] = ctx.rows[i] /\ (i \in removed <=> i \in removed')
    PROVE  IndexInv'
<1>1. IndexShowsStore'
  BY DEF IndexInv, IndexShowsStore
<1>2. IndexShowsUntouched'
  BY DEF IndexInv, IndexShowsUntouched
<1> QED
  BY <1>1, <1>2 DEF IndexInv

LEMMA IndexInvStep ==
    ASSUME RowInv, PendingAgrees, IndexInv, [Next]_vars
    PROVE  IndexInv'
<1>1. CASE UNCHANGED vars
  BY <1>1 DEF vars, IndexInv, ReplayTouched, IndexShowsStore, IndexShowsUntouched
<1>2. CASE Begin
  BY <1>2 DEF Begin, RowInv, Between, IndexInv, ReplayTouched, IndexShowsStore,
     IndexShowsUntouched
<1>3. CASE \/ PurgeEnd \/ \E c \in Chat : PurgeChat(c)
           \/ \E x \in Reactions : React(x)
           \/ \E v \in Votes : CastVote(v)
           \/ \E c \in Chat : SidebarSavesChat(c)
  <2>1. ctx'.rows = ctx.rows /\ disk'.rows = disk.rows /\ removed' = removed
    BY <1>3, SameRows DEF RowInv
  <2>2. /\ index' = index /\ learned' = learned /\ progress' = progress
        /\ phase' = phase /\ changed' = changed /\ replay' = replay
        /\ replay = <<>> \/ purging' = purging \/ purging' = None
    BY <1>3 DEF PurgeEnd, PurgeChat, React, CastVote, SidebarSavesChat, memory, Running
  <2> QED
    BY <2>1, <2>2 DEF IndexInv, ReplayTouched, IndexShowsStore, IndexShowsUntouched
<1>4. ASSUME NEW i \in Id, PurgeRow(i) PROVE IndexInv'
  <2>1. /\ index' = index /\ learned' = learned /\ progress' = progress /\ disk' = disk
        /\ phase = "batch" /\ phase' = phase /\ replay' = replay
        /\ removed' = removed \cup {i} /\ changed' = changed \ {i}
    BY <1>4 DEF PurgeRow
  <2>2. ctx'.rows[i] = None /\ \A j \in Id \ {i} : ctx'.rows[j] = ctx.rows[j]
    BY <1>4, PurgeRowPlaces DEF RowInv
  <2>3. ReplayTouched'
    <3>1. purging # None /\ replay = <<>>
      BY <1>4, <2>1 DEF PurgeRow, IndexInv, ReplayTouched
    <3> QED
      BY <2>1, <3>1 DEF ReplayTouched
  <2> QED
    BY <2>1, <2>2, <2>3, IndexInWrite DEF RowInv
<1>5. ASSUME NEW m \in Messages, PutMessage(m) PROVE IndexInv'
  <2>1. m.id \in Id /\ \A j \in Id \ {m.id} : ctx'.rows[j] = ctx.rows[j]
    BY <1>5, PutPlaces DEF RowInv
  <2>2. /\ index' = index /\ learned' = learned /\ progress' = progress /\ disk' = disk
        /\ phase = "batch" /\ phase' = phase /\ replay' = pending[m.id]
        /\ removed' = removed /\ changed' = changed \cup {m.id} /\ purging' = None
    BY <1>5 DEF PutMessage, Running
  <2>3. ReplayTouched'
    <3>1. \A k \in 1..Len(pending[m.id]) : pending[m.id][k].id = m.id
      BY <2>1 DEF PendingAgrees, HeldAgrees
    <3> QED
      BY <2>2, <3>1 DEF ReplayTouched
  <2> QED
    BY <2>1, <2>2, <2>3, IndexInWrite DEF RowInv
<1>6. CASE Replay
  <2> DEFINE m == Head(replay)
  <2>1. /\ index' = index /\ learned' = learned /\ progress' = progress /\ disk' = disk
        /\ phase = "batch" /\ phase' = phase /\ replay' = Tail(replay)
        /\ removed' = removed /\ changed' = changed /\ purging' = purging
    BY <1>6 DEF Replay
  <2>2. m \in Mutation /\ m.id \in changed /\ ReplayTouched'
    <3>1. replay \in Seq(Mutation) /\ replay # <<>>
      BY <1>6 DEF Replay, RowInv, TypeInv, TypeOK
    <3>2. \A k \in 1..Len(replay) : replay[k].id \in changed
      BY <2>1 DEF IndexInv, ReplayTouched
    <3>3. 1 \in 1..Len(replay) /\ m = replay[1]
      BY <3>1
    <3>4. \A k \in 1..Len(Tail(replay)) : k + 1 \in 1..Len(replay)
                                         /\ Tail(replay)[k] = replay[k + 1]
      BY <3>1
    <3>5. \A k \in 1..Len(replay') : replay'[k].id \in changed'
      BY <2>1, <3>2, <3>4
    <3> QED
      BY <2>1, <3>1, <3>2, <3>3, <3>5 DEF IndexInv, ReplayTouched
  <2>3. \A i \in Id \ changed : ctx'.rows[i] = ctx.rows[i]
    <3>1. CASE Stored(ctx, m.id)
      <4>1. ctx' = [ctx EXCEPT !.rows[m.id] = Apply(@, m)]
        BY <1>6, <3>1 DEF Replay
      <4> HIDE DEF m
      <4>2. ctx'.rows = [ctx.rows EXCEPT ![m.id] = Apply(ctx.rows[m.id], m)]
        BY <2>2, <3>1, <4>1, ApplyRows DEF RowInv
      <4> QED
        BY <2>2, <4>2 DEF RowInv, TypeInv, TypeOK, Store
    <3>2. CASE ~Stored(ctx, m.id)
      BY <1>6, <3>2 DEF Replay
    <3> QED
      BY <3>1, <3>2
  <2> QED
    BY <2>1, <2>2, <2>3, IndexInWrite DEF RowInv
<1>7. ASSUME NEW m \in Mutations, Mutate(m) PROVE IndexInv'
  <2>1. /\ index' = index /\ learned' = learned /\ progress' = progress /\ disk' = disk
        /\ phase = "batch" /\ phase' = phase /\ replay' = replay /\ replay = <<>>
        /\ removed' = removed
    BY <1>7 DEF Mutate, Running
  <2>2. ReplayTouched' /\ m \in Mutation
    BY <2>1, WriterAssumption DEF ReplayTouched
  <2>3. CASE Stored(ctx, m.id)
    <3>1. ctx' = [ctx EXCEPT !.rows[m.id] = Apply(@, m)] /\ changed' = changed \cup {m.id}
      BY <1>7, <2>3 DEF Mutate
    <3>2. ctx'.rows = [ctx.rows EXCEPT ![m.id] = Apply(ctx.rows[m.id], m)]
      BY <2>2, <2>3, <3>1, ApplyRows DEF RowInv
    <3>3. \A i \in Id \ changed' : ctx'.rows[i] = ctx.rows[i]
      BY <3>1, <3>2 DEF RowInv, TypeInv, TypeOK, Store
    <3> QED
      BY <2>1, <2>2, <3>1, <3>3, IndexInWrite DEF RowInv
  <2>4. CASE ~Stored(ctx, m.id)
    <3>1. ctx' = ctx /\ changed' = changed
      BY <1>7, <2>4 DEF Mutate
    <3> QED
      BY <2>1, <2>2, <3>1, IndexInWrite DEF RowInv
  <2> QED
    BY <2>3, <2>4
<1>8. CASE Save \/ DeleteConsumedFiles
  BY <1>8 DEF Save, DeleteConsumedFiles, memory, IndexInv, ReplayTouched,
     IndexShowsStore, IndexShowsUntouched
<1>9. CASE Throw
  BY <1>9 DEF Throw, IndexInv, ReplayTouched, IndexShowsStore, IndexShowsUntouched
<1>10. CASE UpdateIndex
  <2>1. /\ phase = "index" /\ phase' = "idle" /\ ctx = disk /\ disk' = disk
        /\ learned' = learned /\ progress' = progress
        /\ index' = [i \in Id |-> IF i \in changed THEN Indexed(ctx)[i]
                                  ELSE IF i \in removed THEN None ELSE index[i]]
    BY <1>10 DEF UpdateIndex, IndexPatch, RowInv, Between
  <2>2. ASSUME progress # "failed", NEW i \in Id
        PROVE  Shows(learned, index'[i], disk.rows[i])
    <3>1. CASE i \in changed
      BY <2>1, <3>1, IndexedShows DEF RowInv, TypeInv, TypeOK
    <3>2. CASE i \notin changed /\ i \in removed
      BY <2>1, <2>2, <3>2 DEF IndexInv, IndexShowsUntouched, Shows
    <3>3. CASE i \notin changed /\ i \notin removed
      BY <2>1, <2>2, <3>3 DEF IndexInv, IndexShowsUntouched
    <3> QED
      BY <3>1, <3>2, <3>3
  <2> QED
    BY <2>1, <2>2 DEF IndexInv, ReplayTouched, IndexShowsStore, IndexShowsUntouched
<1>11. CASE Reconcile
  <2>1. \A i \in Id : Shows(learned, Indexed(disk)[i], disk.rows[i])
    BY IndexedShows DEF RowInv, TypeInv, TypeOK
  <2> QED
    BY <1>11, <2>1 DEF Reconcile, IndexInv, ReplayTouched, IndexShowsStore, IndexShowsUntouched
<1>12. CASE \/ IndexFails \/ Reconfigure \/ Crash \/ Start
            \/ \E l \in DOMAIN PnOf : MergeChats(l)
  BY <1>12 DEF IndexFails, Reconfigure, Crash, Start, MergeChats, IndexInv, ReplayTouched,
     IndexShowsStore, IndexShowsUntouched
<1>13. ASSUME NEW l \in DOMAIN PnOf, LearnMapping(l) PROVE IndexInv'
  <2>1. /\ index' = index /\ learned' = learned \cup {l} /\ progress' = progress
        /\ disk' = disk /\ ctx' = ctx /\ phase' = phase /\ replay' = replay
        /\ removed' = removed /\ changed' = changed /\ purging' = purging
    BY <1>13 DEF LearnMapping, memory
  <2>2. ASSUME NEW i \in Id
        PROVE  /\ index[i] \in Entry \cup {None} /\ learned \in SUBSET DOMAIN PnOf
               /\ disk.rows[i] \in Row \cup {None} /\ ctx.rows[i] \in Row \cup {None}
    BY DEF RowInv, TypeInv, TypeOK, Store
  <2>3. \A i \in Id : /\ Shows(learned, index[i], disk.rows[i])
                            => Shows(learned', index[i], disk.rows[i])
                      /\ Shows(learned, index[i], ctx.rows[i])
                            => Shows(learned', index[i], ctx.rows[i])
    BY <2>1, <2>2, LearnShows
  <2> QED
    BY <2>1, <2>3 DEF IndexInv, ReplayTouched, IndexShowsStore, IndexShowsUntouched
<1> QED
  BY <1>1, <1>2, <1>3, <1>4, <1>5, <1>6, <1>7, <1>8, <1>9, <1>10, <1>11, <1>12, <1>13 DEF Next

(* Between writes the index holds exactly the searchable rows of the       *)
(* store, unless a failure was reported, through purges, held mutations,   *)
(* failed writes, crashes and learned mappings.                            *)
THEOREM IndexFollowsStore == Spec => []IndexMatchesStore
<1>1. Init => IndexInv
  BY DEF Init, IndexInv, ReplayTouched, IndexShowsStore, IndexShowsUntouched
<1>2. RowInv /\ PendingAgrees /\ IndexInv /\ [Next]_vars => IndexInv'
  BY IndexInvStep
<1>3. RowInv /\ IndexInv => IndexMatchesStore
  <2> SUFFICES ASSUME RowInv, IndexInv, phase = "idle", progress # "failed", NEW i \in Id
               PROVE  IF index[i] = None THEN Indexed(disk)[i] = None
                      ELSE [index[i] EXCEPT !.chat = Canon(@)] = Indexed(disk)[i]
    BY DEF IndexMatchesStore
  <2>1. Shows(learned, index[i], disk.rows[i])
    BY DEF IndexInv, IndexShowsStore
  <2>2. index[i] \in Entry \cup {None} /\ disk \in Store
    BY DEF RowInv, TypeInv, TypeOK
  <2> QED
    BY <2>1, <2>2, ShowsMatches DEF RowInv
<1> QED
  BY <1>1, <1>2, <1>3, RowInvariant, HeldStructuresAgree, PTL DEF Spec

-----------------------------------------------------------------------------
(* The ids the property speaks about: only revocations come for them, and  *)
(* there is room to hold something for every id.                           *)
OnlyRevocations(i) == \A m \in Mutations : m.id = i => m.kind = "revoke"
Room == \E o \in [1..TargetLimit -> Id] : Id = {o[k] : k \in 1..TargetLimit}

HoldsRevoke(s) == \E k \in 1..Len(s) : s[k].kind = "revoke"

(***************************************************************************)
(* With room for every target, the limit on targets never throws one out.  *)
(***************************************************************************)

LEMMA RoomForAll ==
    ASSUME NEW s \in Seq(Id), Distinct(s), Room
    PROVE  Len(s) <= TargetLimit
<1> SUFFICES ASSUME Len(s) > TargetLimit PROVE FALSE
  BY WriterAssumption
<1>1. PICK o \in [1..TargetLimit -> Id] : Id = {o[k] : k \in 1..TargetLimit}
  BY DEF Room
<1> DEFINE P == 1..Len(s)
           Q == 1..TargetLimit
           f == [p \in P |-> CHOOSE q \in Q : o[q] = s[p]]
<1>2. \A p \in P : s[p] \in Id
  OBVIOUS
<1>3. \A p \in P : \E q \in Q : o[q] = s[p]
  BY <1>1, <1>2
<1>4. \A p \in P : f[p] \in Q /\ o[f[p]] = s[p]
  BY <1>3
<1>5. f \in [P -> Q]
  BY <1>4
<1>6. /\ IsFiniteSet(P) /\ IsFiniteSet(Q)
      /\ Cardinality(P) = Len(s) /\ Cardinality(Q) = TargetLimit
  <2>1. Len(s) \in Int /\ TargetLimit \in Int /\ 1 \in Int /\ ~(1 > TargetLimit) /\ ~(1 > Len(s))
    BY WriterAssumption
  <2>2. IsFiniteSet(P) /\ Cardinality(P) = IF 1 > Len(s) THEN 0 ELSE Len(s) - 1 + 1
    BY <2>1, FS_Interval
  <2>3. IsFiniteSet(Q) /\ Cardinality(Q) = IF 1 > TargetLimit THEN 0
                                           ELSE TargetLimit - 1 + 1
    BY <2>1, FS_Interval
  <2> HIDE DEF P, Q
  <2> QED
    BY <2>1, <2>2, <2>3
<1>7. Cardinality(Q) < Cardinality(P)
  BY <1>6, WriterAssumption
<1> HIDE DEF f, P, Q
<1>8. \E x, y \in P : x # y /\ f[x] = f[y]
  BY <1>5, <1>6, <1>7, FS_PigeonHole
<1> QED
  BY <1>4, <1>8 DEF Distinct, P

(* What is held for such an id holds a revocation as soon as it holds      *)
(* anything: nothing else comes for it.                                    *)
LEMMA HeldAreRevocations ==
    ASSUME PendingAgrees, OnlyDelivered, NEW i \in Id, OnlyRevocations(i), pending[i] # <<>>
    PROVE  HoldsRevoke(pending[i])
<1>1. pending[i] \in Seq(Mutations) /\ \A k \in 1..Len(pending[i]) : pending[i][k].id = i
  BY DEF OnlyDelivered, PendingAgrees, HeldAgrees
<1>2. 1 \in 1..Len(pending[i]) /\ pending[i][1] \in Mutations
  BY <1>1
<1> QED
  BY <1>1, <1>2 DEF HoldsRevoke, OnlyRevocations

(* Holding one more mutation empties no list, with room for all. *)
LEMMA StashKeeps ==
    ASSUME TypeInv, PendingAgrees, Room, NEW m \in Mutation, Stash(m), NEW i \in Id,
           pending[i] # <<>>
    PROVE  pending'[i] # <<>>
<1> DEFINE listed == IF pending[m.id] = <<>> THEN Append(order, m.id) ELSE order
           kept == [pending EXCEPT ![m.id] = Trim(Append(@, m))]
<1>1. m.id \in Id /\ pending \in [Id -> Seq(Mutation)] /\ order \in Seq(Id)
  BY DEF TypeInv, TypeOK, Mutation
<1>2. Distinct(order) /\ \A j \in Id : pending[j] # <<>> <=> Listed(order, j)
  BY Agreement DEF PendingAgrees
<1>3. listed \in Seq(Id) /\ Distinct(listed)
  BY <1>1, <1>2, AppendElements
<1>4. Len(listed) <= TargetLimit
  BY <1>3, RoomForAll
<1>5. Len(listed) \in Int /\ TargetLimit \in Int
  BY <1>3, WriterAssumption
<1>6. pending' = kept
  BY <1>4, <1>5 DEF Stash
<1>7. Trim(Append(pending[m.id], m)) # <<>>
  BY <1>1, TrimType DEF TypeInv, TypeOK
<1> QED
  BY <1>1, <1>6, <1>7

(***************************************************************************)
(* While a write runs, a revocation the last successful write accepted is  *)
(* on the row of the context, held, or about to be replayed to the row.    *)
(***************************************************************************)

OnItsWay(i) ==
    \/ Revoked(ctx, pending, i)
    \/ Stored(ctx, i) /\ \E k \in 1..Len(replay) : /\ replay[k].kind = "revoke"
                                                    /\ replay[k].id = i

RevocationsKept ==
    phase = "batch" =>
        \A i \in Id \ removed :
            OnlyRevocations(i) /\ Room /\ Revoked(disk, held.pending, i) => OnItsWay(i)

KeepInv == RowInv /\ PendingAgrees /\ EditInv /\ RevocationsKept

LEMMA ApplyRevokes ==
    ASSUME NEW r \in Row, NEW m \in Mutation, m.kind = "revoke"
    PROVE  Apply(r, m).revokedAt > 0
<1>1. m \in [kind: {"revoke"}, id: Id, at: Time]
  BY DEF Mutation
<1>2. Apply(r, m) = ApplyRevoke(r, m)
  BY DEF Apply
<1> QED
  BY <1>1, <1>2 DEF ApplyRevoke, Row, Time

(* A step inside a write that is not the end of the row. *)
LEMMA BatchKeeps ==
    ASSUME KeepInv, Next, phase = "batch", phase' = "batch",
           NEW i \in Id \ removed', OnlyRevocations(i), Room, OnItsWay(i)
    PROVE  OnItsWay(i)'
<1> USE DEF KeepInv
<1>1. RowStep(i) /\ i \in Id
  BY BatchStep DEF RowsClimb, RowInv
<1>2. ASSUME Stored(ctx, i)
      PROVE  /\ ctx'.rows[i] # None
             /\ ctx.rows[i] \in Row /\ ctx'.rows[i] \in Row
             /\ ctx'.rows[i].revokedAt >= ctx.rows[i].revokedAt
  <2>1. ctx'.rows[i] # None /\ Dominates(ctx'.rows[i], ctx.rows[i])
    BY <1>1, <1>2 DEF RowStep, Stored
  <2>2. ctx.rows[i] \in Row /\ ctx'.rows[i] \in Row
    BY <1>1, <1>2, <2>1, TypeInvStep DEF RowInv, TypeInv, TypeOK, Store, Stored
  <2> QED
    BY <2>1, <2>2 DEF Dominates
<1>3. CASE Stored(ctx, i) /\ ctx.rows[i].revokedAt > 0
  <2>1. ctx'.rows[i] # None /\ ctx'.rows[i].revokedAt > 0
    BY <1>2, <1>3 DEF Row
  <2> QED
    BY <2>1 DEF OnItsWay, Revoked, Stored
<1>4. CASE ~Stored(ctx, i) /\ HoldsRevoke(pending[i])
  <2>1. pending[i] # <<>>
    BY <1>4 DEF HoldsRevoke
  <2>2. ASSUME NEW m \in Messages, PutMessage(m) PROVE OnItsWay(i)'
    <3>1. /\ m.id \in Id /\ ctx'.rows[m.id] # None
          /\ \A j \in Id \ {m.id} : ctx'.rows[j] = ctx.rows[j]
      BY <2>2, PutPlaces DEF RowInv
    <3>2. replay' = pending[m.id] /\ pending' = [pending EXCEPT ![m.id] = <<>>]
      BY <2>2 DEF PutMessage, Forget
    <3>3. CASE m.id = i
      <4>1. \A k \in 1..Len(pending[i]) : pending[i][k].id = i
        BY <1>1 DEF PendingAgrees, HeldAgrees
      <4> QED
        BY <1>4, <3>1, <3>2, <3>3, <4>1 DEF OnItsWay, Stored, HoldsRevoke
    <3>4. CASE m.id # i
      <4>1. pending'[i] = pending[i]
        BY <1>1, <3>2, <3>4 DEF RowInv, TypeInv, TypeOK
      <4> QED
        BY <1>1, <1>4, <3>1, <3>4, <4>1 DEF OnItsWay, Revoked, Stored, HoldsRevoke
    <3> QED
      BY <3>3, <3>4
  <2>3. ASSUME pending'[i] = pending[i], ctx'.rows[i] = None PROVE OnItsWay(i)'
    BY <1>4, <2>3 DEF OnItsWay, Revoked, Stored, HoldsRevoke
  <2>4. ASSUME NEW m \in Mutations, Mutate(m) PROVE OnItsWay(i)'
    <3>1. SamePlaces /\ m \in Mutation
      BY <2>4, MutatePlaces, WriterAssumption DEF RowInv
    <3>2. ctx'.rows[i] = None
      BY <1>1, <1>4, <3>1 DEF SamePlaces, Stored
    <3>3. CASE Stored(ctx, m.id)
      BY <2>3, <2>4, <3>2, <3>3 DEF Mutate
    <3>4. CASE ~Stored(ctx, m.id)
      <4>1. Stash(m) /\ OnlyDelivered' /\ PendingAgrees'
        BY <2>4, <3>1, <3>4, EditInvStep, StashAgrees DEF Mutate, EditInv, RowInv
      <4>2. pending'[i] # <<>>
        BY <1>1, <2>1, <3>1, <4>1, StashKeeps DEF RowInv
      <4>3. HoldsRevoke(pending'[i])
        <5>1. /\ pending'[i] \in Seq(Mutations)
              /\ \A k \in 1..Len(pending'[i]) : pending'[i][k].id = i
          BY <1>1, <4>1 DEF OnlyDelivered, PendingAgrees, HeldAgrees
        <5>2. 1 \in 1..Len(pending'[i]) /\ pending'[i][1] \in Mutations
          BY <4>2, <5>1
        <5> QED
          BY <5>1, <5>2 DEF HoldsRevoke, OnlyRevocations
      <4> QED
        BY <3>2, <4>3 DEF OnItsWay, Revoked, Stored, HoldsRevoke
    <3> QED
      BY <3>3, <3>4
  <2>5. ASSUME NEW j \in Id, PurgeRow(j) PROVE OnItsWay(i)'
    <3>1. i # j
      BY <2>5 DEF PurgeRow
    <3>2. pending'[i] = pending[i]
      BY <1>1, <2>5, <3>1 DEF PurgeRow, Forget, RowInv, TypeInv, TypeOK
    <3> QED
      BY <1>1, <1>4, <2>3, <2>5, <3>1, <3>2, PurgeRowPlaces DEF RowInv, Stored
  <2>6. ASSUME Replay PROVE OnItsWay(i)'
    BY <1>1, <1>4, <2>3, <2>6, ReplayPlaces DEF Replay, SamePlaces, RowInv, Stored
  <2>7. ASSUME \/ PurgeEnd \/ \E c \in Chat : PurgeChat(c)
               \/ \E x \in Reactions : React(x)
               \/ \E v \in Votes : CastVote(v)
               \/ \E c \in Chat : SidebarSavesChat(c)
               \/ \E l \in DOMAIN PnOf : LearnMapping(l)
        PROVE  OnItsWay(i)'
    <3>1. ctx'.rows = ctx.rows
      BY <2>7, SameRows DEF RowInv
    <3>2. pending' = pending
      BY <2>7 DEF PurgeEnd, PurgeChat, React, CastVote, SidebarSavesChat, LearnMapping, memory
    <3> QED
      BY <1>4, <2>3, <3>1, <3>2 DEF Stored
  <2>8. ~ (\/ Begin \/ Save \/ Throw \/ DeleteConsumedFiles \/ UpdateIndex
           \/ IndexFails \/ Reconcile \/ Reconfigure \/ Crash \/ Start
           \/ \E l \in DOMAIN PnOf : MergeChats(l))
    BY DEF Begin, Save, Throw, DeleteConsumedFiles, UpdateIndex, IndexFails, Reconcile,
           Reconfigure, Crash, Start, MergeChats
  <2> QED
    BY <2>2, <2>4, <2>5, <2>6, <2>7, <2>8 DEF Next
<1>5. CASE Stored(ctx, i) /\ \E k \in 1..Len(replay) : replay[k].kind = "revoke"
                                                          /\ replay[k].id = i
  <2>1. PICK k \in 1..Len(replay) : replay[k].kind = "revoke" /\ replay[k].id = i
    BY <1>5
  <2>2. replay \in Seq(Mutation) /\ replay # <<>>
    BY <2>1 DEF RowInv, TypeInv, TypeOK
  <2>3. CASE replay' = replay
    BY <1>2, <1>5, <2>3 DEF OnItsWay, Stored
  <2>4. CASE Replay /\ k = 1
    <3> DEFINE m == Head(replay)
    <3>1. m \in Mutation /\ m.kind = "revoke" /\ m.id = i
      BY <2>1, <2>2, <2>4
    <3>2. ctx' = [ctx EXCEPT !.rows[m.id] = Apply(@, m)]
      BY <1>5, <2>4, <3>1 DEF Replay
    <3> HIDE DEF m
    <3>3. ctx.rows[i] \in Row /\ ctx'.rows = [ctx.rows EXCEPT ![i] = Apply(ctx.rows[i], m)]
      BY <1>5, <3>1, <3>2, ApplyRows DEF RowInv
    <3>4. ctx'.rows[i] = Apply(ctx.rows[i], m)
      BY <1>1, <3>3 DEF RowInv, TypeInv, TypeOK, Store
    <3> QED
      BY <1>2, <1>5, <3>1, <3>3, <3>4, ApplyRevokes DEF OnItsWay, Revoked, Stored
  <2>5. CASE Replay /\ k # 1
    <3>1. replay' = Tail(replay)
      BY <2>5 DEF Replay
    <3>2. k - 1 \in 1..Len(replay') /\ replay'[k - 1] = replay[k]
      BY <2>1, <2>2, <2>5, <3>1
    <3> QED
      BY <1>2, <1>5, <2>1, <3>2 DEF OnItsWay, Stored
  <2>6. Replay \/ replay' = replay
    <3>1. ~ (\/ Begin \/ Save \/ Throw \/ DeleteConsumedFiles \/ UpdateIndex
             \/ IndexFails \/ Reconcile \/ Reconfigure \/ Crash \/ Start
             \/ \E l \in DOMAIN PnOf : MergeChats(l)
             \/ \E m \in Messages : PutMessage(m))
      BY <2>2 DEF Begin, Save, Throw, DeleteConsumedFiles, UpdateIndex, IndexFails, Reconcile,
         Reconfigure, Crash, Start, MergeChats, PutMessage, Running
    <3> QED
      BY <3>1 DEF Next, PurgeChat, PurgeRow, PurgeEnd, Mutate, React, CastVote,
         SidebarSavesChat, LearnMapping, memory
  <2> QED
    BY <2>3, <2>4, <2>5, <2>6
<1> QED
  BY <1>3, <1>4, <1>5 DEF OnItsWay, Revoked, HoldsRevoke

LEMMA RevocationsKeptStep ==
    ASSUME KeepInv, [Next]_vars
    PROVE  RevocationsKept'
<1> USE DEF KeepInv
<1>1. CASE UNCHANGED vars
  BY <1>1 DEF vars, RevocationsKept, OnItsWay, Revoked, Stored
<1>2. CASE phase' # "batch"
  BY <1>2 DEF RevocationsKept
<1>3. CASE Begin
  BY <1>3 DEF Begin, RowInv, Between, RevocationsKept, OnItsWay, Revoked, Stored
<1>4. CASE Next /\ phase = "batch" /\ phase' = "batch"
  <2> SUFFICES ASSUME NEW i \in Id \ removed', OnlyRevocations(i), Room,
                      Revoked(disk', held'.pending, i)
               PROVE  OnItsWay(i)'
    BY DEF RevocationsKept, OnlyRevocations, Room, Revoked, Stored
  <2>1. disk'.rows = disk.rows /\ removed \subseteq removed'
    BY <1>4, BatchStep DEF RowInv, RowsClimb
  <2>2. held' = held
    <3>1. ~ (\/ Begin \/ Save \/ Throw \/ DeleteConsumedFiles \/ UpdateIndex
             \/ IndexFails \/ Reconcile \/ Reconfigure \/ Crash \/ Start
             \/ \E l \in DOMAIN PnOf : MergeChats(l))
      BY <1>4 DEF Begin, Save, Throw, DeleteConsumedFiles, UpdateIndex, IndexFails,
         Reconcile, Reconfigure, Crash, Start, MergeChats
    <3> QED
      BY <1>4, <3>1 DEF Next, PurgeChat, PurgeRow, PurgeEnd, PutMessage, Replay, Mutate,
         React, CastVote, SidebarSavesChat, LearnMapping, memory
  <2>3. Revoked(disk, held.pending, i) /\ i \in Id \ removed
    BY <2>1, <2>2 DEF Revoked, Stored
  <2>4. OnItsWay(i)
    BY <1>4, <2>3 DEF RevocationsKept
  <2> QED
    BY <1>4, <2>4, BatchKeeps
<1>5. CASE phase # "batch" /\ phase' = "batch" /\ Next
  <2>1. Begin
    BY <1>5, StepsByPhase DEF DeleteConsumedFiles, UpdateIndex, IndexFails, Reconcile,
       Reconfigure, Crash, Start, MergeChats, SidebarSavesChat, LearnMapping
  <2> QED
    BY <1>3, <2>1
<1> QED
  BY <1>1, <1>2, <1>4, <1>5

LEMMA KeepInvariant == Spec => []KeepInv
<1>1. Init => KeepInv
  <2>1. Init => RevocationsKept
    BY DEF Init, RevocationsKept
  <2>2. Init => PendingAgrees
    BY DEF Init, PendingAgrees, HeldAgrees, NothingHeld
  <2>3. Init => EditInv
    BY DEF Init, EditInv, EditsShown, OnlyDelivered, EmptyStore, NothingHeld
  <2> QED
    BY <2>1, <2>2, <2>3, RowInvInit DEF KeepInv
<1>2. KeepInv /\ PendingAgrees' /\ [Next]_vars => KeepInv'
  BY RowInvStep, EditInvStep, RevocationsKeptStep DEF KeepInv
<1> QED
  BY <1>1, <1>2, HeldStructuresAgree, PTL DEF Spec

(* A merge of chats keeps what rows know. *)
LEMMA MergeKeeps ==
    ASSUME RowInv, NEW i \in Id, Revoked(disk, pending, i), pending' = pending,
           NEW lids \in SUBSET DOMAIN PnOf, disk' = Merged(disk, lids)
    PROVE  Revoked(disk', pending', i)
<1>1. disk \in Store
  BY DEF RowInv, TypeInv, TypeOK
<1>2. Stored(Merged(disk, lids), i) <=> Stored(disk, i)
  BY <1>1, MergedStored
<1>3. CASE Stored(disk, i)
  <2>1. /\ disk.rows[i] \in Row /\ Merged(disk, lids).rows[i] \in Row
        /\ Dominates(Merged(disk, lids).rows[i], disk.rows[i])
    BY <1>1, <1>3, MergedRow, MergedClimbs DEF RowInv, LocksSound
  <2>2. disk.rows[i].revokedAt > 0
    BY <1>3 DEF Revoked
  <2>3. Merged(disk, lids).rows[i].revokedAt > 0
    BY <2>1, <2>2 DEF Dominates, Row
  <2> QED
    BY <1>2, <1>3, <2>3 DEF Revoked
<1>4. CASE ~Stored(disk, i)
  BY <1>2, <1>4 DEF Revoked
<1> QED
  BY <1>3, <1>4

(* A revocation a successful write accepted is never lost, until its chat  *)
(* is purged or the process ends: it is on the row or held, whatever       *)
(* fails, for the ids only revocations come for, with room for each.       *)
THEOREM RevocationsSurvive == Spec => RevocationNotLost
<1> DEFINE Kept(i) == RevocationAccepted(i) => RevocationAccepted(i)'
                                               \/ i \in removed \/ phase' = "down"
           Step == \A i \in Id :
                      /\ \A m \in Mutations : m.id = i => m.kind = "revoke"
                      /\ \E o \in [1..TargetLimit -> Id] : Id = {o[k] : k \in 1..TargetLimit}
                      /\ RevocationAccepted(i)
                      => RevocationAccepted(i)' \/ i \in removed \/ phase' = "down"
<1>1. KeepInv /\ [Next]_vars => [Step]_vars
  <2> SUFFICES ASSUME KeepInv, Next, NEW i \in Id, OnlyRevocations(i), Room
               PROVE  Kept(i)
    BY DEF OnlyRevocations, Room
  <2> USE DEF KeepInv
  <2>1. CASE phase = "batch" /\ phase' = "batch"
    <3>1. disk'.rows = disk.rows
      BY <2>1, BatchStep DEF RowInv, RowsClimb
    <3>2. held' = held
      <4>1. ~ (\/ Begin \/ Save \/ Throw \/ DeleteConsumedFiles \/ UpdateIndex
               \/ IndexFails \/ Reconcile \/ Reconfigure \/ Crash \/ Start
               \/ \E l \in DOMAIN PnOf : MergeChats(l))
        BY <2>1 DEF Begin, Save, Throw, DeleteConsumedFiles, UpdateIndex, IndexFails,
           Reconcile, Reconfigure, Crash, Start, MergeChats
      <4> QED
        BY <4>1 DEF Next, PurgeChat, PurgeRow, PurgeEnd, PutMessage, Replay, Mutate,
           React, CastVote, SidebarSavesChat, LearnMapping, memory
    <3> QED
      BY <2>1, <3>1, <3>2 DEF RevocationAccepted, Revoked, Stored
  <2>2. CASE Save
    <3>1. /\ phase = "batch" /\ replay = <<>> /\ disk' = ctx /\ phase' = "saved"
          /\ pending' = pending
      BY <2>2 DEF Save, memory
    <3>2. ASSUME RevocationAccepted(i), i \notin removed PROVE Revoked(ctx, pending, i)
      BY <3>1, <3>2 DEF RevocationAccepted, RevocationsKept, OnItsWay
    <3> QED
      BY <3>1, <3>2 DEF RevocationAccepted, Revoked, Stored
  <2>3. CASE Throw
    BY <2>3 DEF Throw, Restore, RevocationAccepted, Revoked, Stored
  <2>4. CASE Crash
    BY <2>4 DEF Crash
  <2>5. CASE Begin
    BY <2>5 DEF Begin, RevocationAccepted, Revoked, Stored
  <2>6. CASE \/ DeleteConsumedFiles \/ UpdateIndex \/ IndexFails \/ Reconcile \/ Reconfigure
    BY <2>6 DEF DeleteConsumedFiles, UpdateIndex, IndexFails, Reconcile, Reconfigure,
       memory, RevocationAccepted, Revoked, Stored
  <2>7. CASE \/ \E c \in Chat : SidebarSavesChat(c)
             \/ \E l \in DOMAIN PnOf : LearnMapping(l)
    <3>1. disk'.rows = disk.rows
      BY <2>7, SameRows DEF RowInv
    <3>2. pending' = pending /\ held' = held /\ phase' = phase
      BY <2>7 DEF SidebarSavesChat, LearnMapping, memory
    <3> QED
      BY <3>1, <3>2 DEF RevocationAccepted, Revoked, Stored
  <2>8. ASSUME NEW lids \in SUBSET DOMAIN PnOf, disk' = Merged(disk, lids),
               pending' = pending, phase # "batch", phase' # "batch"
        PROVE  Kept(i)
    BY <2>8, MergeKeeps DEF RevocationAccepted, Revoked, Stored
  <2>9. CASE Start
    <3>1. learned \cap disk.chats \in SUBSET DOMAIN PnOf
      BY DEF RowInv, TypeInv, TypeOK
    <3>2. /\ disk' = Merged(disk, learned \cap disk.chats) /\ pending' = pending
          /\ phase # "batch" /\ phase' # "batch"
      BY <2>9 DEF Start, memory
    <3> HIDE DEF Kept
    <3> QED
      BY <2>8, <3>1, <3>2
  <2>10. ASSUME NEW l \in DOMAIN PnOf, MergeChats(l)
         PROVE  Kept(i)
    <3>1. /\ disk' = Merged(disk, {l}) /\ pending' = pending
          /\ phase # "batch" /\ phase' # "batch"
      BY <2>10 DEF MergeChats, memory, RowInv, Between
    <3> HIDE DEF Kept
    <3> QED
      BY <2>8, <3>1
  <2> HIDE DEF Kept
  <2> QED
    BY <2>1, <2>2, <2>3, <2>4, <2>5, <2>6, <2>7, <2>9, <2>10, StepsByPhase
<1> QED
  BY <1>1, KeepInvariant, PTL DEF Spec, RevocationNotLost
=============================================================================
