--------------------------- MODULE MessageWriter ---------------------------
(***************************************************************************)
(* The serial owner of message persistence (Services/MessageWriter.swift)  *)
(* with the source store it saves, the search index it feeds               *)
(* (Services/MessageIndex.swift) and the view-once files it deletes.       *)
(*                                                                         *)
(* A call of `write` works on a ModelContext (`ctx`), saves it, deletes    *)
(* consumed files and then updates the index.  Nothing can run between two *)
(* operations of one call but the process can end between any two steps,   *)
(* so each operation is a step of its own and a crash may come anywhere.   *)
(* The two loops inside an operation are unrolled in the same way: the     *)
(* mutations held for a message that just arrived (`replay`) and the rows  *)
(* of a chat being purged (`purging`).                                     *)
(***************************************************************************)
EXTENDS MessageRow, Sequences

CONSTANTS
    Sender,         \* senders of reactions, canonical voters of polls
    Emoji,          \* reactions and poll choices
    Messages,       \* the messages the bridge may deliver, replays included
    Mutations,      \* the mutations the bridge or the interface may deliver
    Reactions,      \* the reactions the bridge may deliver
    Votes,          \* the poll votes the bridge may deliver
    PnOf,           \* the phone chat of each privacy (LID) chat
    TargetLimit,    \* unknown targets held at once: 256 in the code
    MutationLimit,  \* mutations held for one target: 32 in the code
    MaxBatch        \* bound of the model: operations in one call of write

Mark == [chat: Chat, emoji: Emoji, at: Time]
Reaction == [id: Id, sender: Sender, chat: Chat, emoji: Emoji \cup {None}, at: Time]
Vote == [id: Id, sender: Sender, chat: Chat, emoji: Emoji, at: Time]
Entry == [chat: Chat, text: Text \cup {None}, caption: BOOLEAN]

ASSUME WriterAssumption ==
    /\ Messages \subseteq Message
    /\ Mutations \subseteq Mutation
    /\ Reactions \subseteq Reaction
    /\ Votes \subseteq Vote
    /\ DOMAIN PnOf \subseteq Chat
    /\ \A l \in DOMAIN PnOf : PnOf[l] \in Chat \ DOMAIN PnOf
    /\ TargetLimit \in Nat \ {0}
    /\ MutationLimit \in Nat \ {0}
    /\ MaxBatch \in Nat
    /\ None \notin Emoji
    /\ None \notin Mark
    /\ None \notin Entry
    /\ None \notin Chat

VARIABLES
    disk,       \* the saved source store: rows, reactions, votes, chats
    ctx,        \* the writer's ModelContext: the store plus unsaved changes
    index,      \* the full-text table, in the same file, another connection
    learned,    \* LID chats whose phone chat the bridge's map knows
    files,      \* messages whose local media file exists
    pending,    \* pendingMutations: what is held for messages not stored
    order,      \* pendingOrder: their targets, oldest first
    held,       \* previousPending and previousOrder of the running write
    changed,    \* ids whose rows this write touched
    removed,    \* ids whose rows this write deleted
    consumed,   \* ids whose files this write deletes after the save
    deletedChats, \* chats this write reports as deleted
    replay,     \* held mutations still to apply to the message just merged
    purging,    \* the chat whose rows are being deleted, or None
    count,      \* operations of this write so far
    phase,      \* down, idle, batch, saved, index, repair
    progress    \* MessageIndex.progress: idle, done, failed

vars == <<disk, ctx, index, learned, files, pending, order, held, changed, removed,
          consumed, deletedChats, replay, purging, count, phase, progress>>
memory == <<pending, order, held, changed, removed, consumed, deletedChats,
            replay, purging, count>>

Store == [rows: [Id -> Row \cup {None}],
          reactions: [Id \X Sender -> Mark \cup {None}],
          votes: [Id \X Sender -> Mark \cup {None}],
          chats: SUBSET Chat]

EmptyStore == [rows |-> [i \in Id |-> None],
               reactions |-> [k \in Id \X Sender |-> None],
               votes |-> [k \in Id \X Sender |-> None],
               chats |-> {}]
NothingHeld == [i \in Id |-> <<>>]

Stored(db, i) == db.rows[i] # None
RowsOf(db, c) == {i \in Id : Stored(db, i) /\ db.rows[i].chat = c}

(* Mutant: the chat of an incoming message is used as the bridge wrote it. *)
RawChat(c) == c

(* JIDNormalize.canonical: a LID stays one until its mapping is learned. *)
Canon(c) == IF c \in learned THEN PnOf[c] ELSE c

(* indexFields of the searchable rows: what a full repair writes *)
Indexed(db) ==
    [i \in Id |->
        IF Stored(db, i) /\ Searchable(db.rows[i])
        THEN [chat |-> Canon(db.rows[i].chat), text |-> db.rows[i].text,
              caption |-> db.rows[i].caption]
        ELSE None]

TypeOK ==
    /\ disk \in Store
    /\ ctx \in Store
    /\ index \in [Id -> Entry \cup {None}]
    /\ learned \subseteq DOMAIN PnOf
    /\ files \subseteq Id
    /\ pending \in [Id -> Seq(Mutation)]
    /\ order \in Seq(Id)
    /\ held \in [pending: [Id -> Seq(Mutation)], order: Seq(Id)]
    /\ changed \subseteq Id
    /\ removed \subseteq Id
    /\ consumed \subseteq Id
    /\ deletedChats \subseteq Chat
    /\ replay \in Seq(Mutation)
    /\ purging \in Chat \cup {None}
    /\ count \in Nat
    /\ phase \in {"down", "idle", "batch", "saved", "index", "repair"}
    /\ progress \in {"idle", "done", "failed"}
    /\ Len(order) <= TargetLimit
    /\ \A i \in Id : Len(pending[i]) <= MutationLimit

Init ==
    /\ disk = EmptyStore
    /\ ctx = EmptyStore
    /\ index = [i \in Id |-> None]
    /\ learned = {}
    /\ files = {}
    /\ pending = NothingHeld
    /\ order = <<>>
    /\ held = [pending |-> NothingHeld, order |-> <<>>]
    /\ changed = {} /\ removed = {} /\ consumed = {} /\ deletedChats = {}
    /\ replay = <<>>
    /\ purging = None
    /\ count = 0
    /\ phase = "down"
    /\ progress = "idle"

-----------------------------------------------------------------------------
(* pendingOrder.removeAll { $0 == id }; an id is in the order at most once *)
Without(s, i) ==
    IF \E k \in 1..Len(s) : s[k] = i
    THEN LET k == CHOOSE k \in 1..Len(s) : s[k] = i
         IN  [j \in 1..(Len(s) - 1) |-> IF j < k THEN s[j] ELSE s[j + 1]]
    ELSE s

(* Mutant: the dictionary entry goes, its place in the order stays. *)
ForgetKeepingOrder(i) ==
    /\ pending' = [pending EXCEPT ![i] = <<>>]
    /\ order' = order

(* Mutant: what is held for an arriving message is read, not taken out. *)
ReadOnly(i) == UNCHANGED <<pending, order>>

Forget(i) ==
    /\ pending' = [pending EXCEPT ![i] = <<>>]
    /\ order' = Without(order, i)

(* Mutant: the held list is cut one mutation too late. *)
TrimOffByOne(s) == IF Len(s) > MutationLimit + 1 THEN Tail(s) ELSE s

Trim(s) == IF Len(s) > MutationLimit THEN Tail(s) ELSE s

(* Mutant: at a limit the newcomer goes, from both structures alike. *)
StashOlder(m) ==
    IF Len(pending[m.id]) = MutationLimit \/ (pending[m.id] = <<>> /\ Len(order) = TargetLimit)
    THEN UNCHANGED <<pending, order>>
    ELSE /\ order' = IF pending[m.id] = <<>> THEN Append(order, m.id) ELSE order
         /\ pending' = [pending EXCEPT ![m.id] = Append(@, m)]

(* Hold a mutation whose target is not stored, within both limits. *)
Stash(m) ==
    LET listed == IF pending[m.id] = <<>> THEN Append(order, m.id) ELSE order
        kept   == [pending EXCEPT ![m.id] = Trim(Append(@, m))]
    IN  IF Len(listed) > TargetLimit
        THEN /\ order' = Tail(listed)
             /\ pending' = [kept EXCEPT ![Head(listed)] = <<>>]
        ELSE /\ order' = listed
             /\ pending' = kept

(* SessionViewModel.commit writes a single operation, and a finished        *)
(* download or a view-once consumption reaches the writer in no other way. *)
CommitOnly == {"mediaPath", "viewOnce"}

Running == phase = "batch" /\ replay = <<>> /\ purging = None /\ count < MaxBatch

-----------------------------------------------------------------------------
(* MessageWriter.write: the call begins by remembering what is held. *)
Begin ==
    /\ phase = "idle"
    /\ phase' = "batch"
    /\ held' = [pending |-> pending, order |-> order]
    /\ changed' = {} /\ removed' = {} /\ consumed' = {} /\ deletedChats' = {}
    /\ count' = 0
    /\ UNCHANGED <<disk, ctx, index, learned, files, pending, order, replay, purging, progress>>

(* case .purgeChat: deleteChatRows fetches the rows, then ... *)
PurgeChat(c) ==
    /\ Running
    /\ ctx' = [ctx EXCEPT
                 !.reactions = [k \in Id \X Sender |->
                                  IF @[k] # None /\ @[k].chat = c THEN None ELSE @[k]],
                 !.votes = [k \in Id \X Sender |->
                                  IF @[k] # None /\ @[k].chat = c THEN None ELSE @[k]],
                 !.chats = @ \ {c}]
    /\ purging' = c
    /\ deletedChats' = deletedChats \cup {c}
    /\ count' = count + 1
    /\ UNCHANGED <<disk, index, learned, files, pending, order, held, changed, removed,
                   consumed, replay, phase, progress>>

(* ... every row goes, with whatever is held for it. *)
PurgeRow(i) ==
    /\ phase = "batch"
    /\ purging # None
    /\ i \in RowsOf(ctx, purging)
    /\ ctx' = [ctx EXCEPT !.rows[i] = None]
    /\ Forget(i)
    /\ removed' = removed \cup {i}
    /\ changed' = changed \ {i}
    /\ UNCHANGED <<disk, index, learned, files, held, consumed, deletedChats, replay,
                   purging, count, phase, progress>>

PurgeEnd ==
    /\ phase = "batch"
    /\ purging # None
    /\ RowsOf(ctx, purging) = {}
    /\ purging' = None
    /\ UNCHANGED <<disk, ctx, index, learned, files, pending, order, held, changed, removed,
                   consumed, deletedChats, replay, count, phase, progress>>

(* Mutant: a message of a purged chat does not take back the deletion. *)
StillDeleted(c) == deletedChats

AliveAgain(c) == deletedChats \ {c}

(* case .message: merge it, then replay in order what was held for it. *)
PutMessage(m) ==
    /\ Running
    /\ LET jid == Canon(m.chat)
           old == IF Stored(ctx, m.id) THEN ctx.rows[m.id] ELSE BlankRow(jid)
       IN  /\ ctx' = [ctx EXCEPT !.rows[m.id] = Merge(old, [m EXCEPT !.chat = jid])]
           /\ deletedChats' = AliveAgain(jid)
    /\ changed' = changed \cup {m.id}
    /\ replay' = pending[m.id]
    /\ Forget(m.id)
    /\ files' = IF m.path THEN files \cup {m.id} ELSE files
    /\ count' = count + 1
    /\ UNCHANGED <<disk, index, learned, held, removed, consumed, purging, phase,
                   progress>>

Replay ==
    /\ phase = "batch"
    /\ replay # <<>>
    /\ LET m == Head(replay)
       IN  ctx' = IF Stored(ctx, m.id)
                  THEN [ctx EXCEPT !.rows[m.id] = Apply(@, m)] ELSE ctx
    /\ replay' = Tail(replay)
    /\ UNCHANGED <<disk, index, learned, files, pending, order, held, changed, removed,
                   consumed, deletedChats, purging, count, phase, progress>>

Consumes(m) == /\ m.kind = "viewOnce"
               /\ ctx.rows[m.id].viewOnce
               /\ ctx.rows[m.id].path

(* case .mutation, and each id of case .receipt: apply to the row or hold. *)
Mutate(m) ==
    /\ Running
    /\ m.kind \in CommitOnly => count = 0
    /\ IF Stored(ctx, m.id)
       THEN /\ ctx' = [ctx EXCEPT !.rows[m.id] = Apply(@, m)]
            /\ changed' = changed \cup {m.id}
            /\ consumed' = IF Consumes(m) THEN consumed \cup {m.id} ELSE consumed
            /\ UNCHANGED <<pending, order>>
       ELSE /\ Stash(m)
            /\ UNCHANGED <<ctx, changed, consumed>>
    /\ files' = IF m.kind = "mediaPath" THEN files \cup {m.id} ELSE files
    /\ count' = IF m.kind \in CommitOnly THEN MaxBatch ELSE count + 1
    /\ UNCHANGED <<disk, index, learned, held, removed, deletedChats, replay,
                   purging, phase, progress>>

(* case .reaction: an older one is ignored, an empty one deletes the row. *)
React(x) ==
    LET k == <<x.id, x.sender>>
        old == ctx.reactions[k]
        new == IF x.emoji = None THEN None
               ELSE [chat |-> Canon(x.chat), emoji |-> x.emoji, at |-> x.at]
    IN  /\ Running
        /\ ctx' = IF old # None /\ old.at > x.at THEN ctx
                  ELSE [ctx EXCEPT !.reactions[k] = new]
        /\ count' = count + 1
        /\ UNCHANGED <<disk, index, learned, files, pending, order, held, changed, removed,
                       consumed, deletedChats, replay, purging, phase, progress>>

(* case .vote: applyVote replaces the voter's row unless it is newer. *)
CastVote(v) ==
    LET k == <<v.id, v.sender>>
        old == ctx.votes[k]
    IN  /\ Running
        /\ ctx' = IF old # None /\ old.at > v.at THEN ctx
                  ELSE [ctx EXCEPT !.votes[k] =
                          [chat |-> Canon(v.chat), emoji |-> v.emoji, at |-> v.at]]
        /\ count' = count + 1
        /\ UNCHANGED <<disk, index, learned, files, pending, order, held, changed, removed,
                       consumed, deletedChats, replay, purging, phase, progress>>

-----------------------------------------------------------------------------
(* context.save *)
Save ==
    /\ phase = "batch" /\ replay = <<>> /\ purging = None
    /\ disk' = ctx
    /\ phase' = "saved"
    /\ UNCHANGED <<ctx, index, learned, files, memory, progress>>

(* Mutant: a failed write keeps the held mutations it consumed. *)
RestoreNothing ==
    /\ pending' = pending
    /\ order' = order

Restore ==
    /\ pending' = held.pending
    /\ order' = held.order

(* Any operation, beforeSave or the save throws: the catch block. *)
Throw ==
    /\ phase = "batch"
    /\ ctx' = disk
    /\ Restore
    /\ replay' = <<>>
    /\ purging' = None
    /\ phase' = "idle"
    /\ UNCHANGED <<disk, index, learned, files, held, changed, removed, consumed,
                   deletedChats, count, progress>>

(* The save succeeded: delete the files of consumed view-once messages. *)
DeleteConsumedFiles ==
    /\ phase = "saved"
    /\ files' = files \ consumed
    /\ phase' = "index"
    /\ UNCHANGED <<disk, ctx, index, learned, memory, progress>>

(* Mutant: rows that stopped being searchable stay in the index. *)
IndexPatchKeepingHidden ==
    [i \in Id |-> IF i \in changed /\ Indexed(ctx)[i] # None THEN Indexed(ctx)[i]
                  ELSE IF i \in removed THEN None ELSE index[i]]

(* index.apply: delete the removed and the changed, insert the searchable *)
IndexPatch ==
    [i \in Id |-> IF i \in changed THEN Indexed(ctx)[i]
                  ELSE IF i \in removed THEN None ELSE index[i]]

UpdateIndex ==
    /\ phase = "index"
    /\ index' = IndexPatch
    /\ phase' = "idle"
    /\ UNCHANGED <<disk, ctx, learned, files, memory, progress>>

(* The index transaction is rolled back and reportFailure notes it. *)
IndexFails ==
    /\ phase \in {"index", "repair"}
    /\ progress' = "failed"
    /\ phase' = "idle"
    /\ UNCHANGED <<disk, ctx, index, learned, files, memory>>

-----------------------------------------------------------------------------
(* What mergeChats makes of a store: a chat moves with all that is in it. *)
Merged(db, lids) ==
    LET To(c) == IF c \in lids THEN PnOf[c] ELSE c
        Moved(marks) == [k \in Id \X Sender |->
                            IF marks[k] = None THEN None
                            ELSE [marks[k] EXCEPT !.chat = To(@)]]
    IN  [rows |-> [i \in Id |-> IF Stored(db, i) THEN [db.rows[i] EXCEPT !.chat = To(@)]
                                                  ELSE None],
         reactions |-> Moved(db.reactions),
         votes |-> Moved(db.votes),
         chats |-> {To(c) : c \in db.chats}]

(* The sidebar's reconcileLIDDuplicates finds a chat under both its names:  *)
(* mergeChats moves everything in one save, then repairs the index.        *)
MergeChats(l) ==
    /\ phase = "idle"
    /\ l \in learned
    /\ {l, PnOf[l]} \subseteq ctx.chats
    /\ ctx' = Merged(ctx, {l})
    /\ disk' = ctx'
    /\ phase' = "repair"
    /\ UNCHANGED <<index, learned, files, memory, progress>>

(* MessageIndex.reconcile: one transaction rebuilds the table from the rows *)
Reconcile ==
    /\ phase = "repair"
    /\ index' = Indexed(disk)
    /\ progress' = "done"
    /\ phase' = "idle"
    /\ UNCHANGED <<disk, ctx, learned, files, memory>>

(* configureIndex under a new identity, when the account's name is learned *)
Reconfigure ==
    /\ phase = "idle"
    /\ phase' = "repair"
    /\ UNCHANGED <<disk, ctx, index, learned, files, memory, progress>>

(* The sidebar's own context saves a chat row, whatever the writer does.   *)
SidebarSavesChat(c) ==
    /\ phase # "down"
    /\ c \notin disk.chats
    /\ disk' = [disk EXCEPT !.chats = @ \cup {c}]
    /\ ctx' = [ctx EXCEPT !.chats = @ \cup {c}]
    /\ UNCHANGED <<index, learned, files, memory, phase, progress>>

(* The bridge learns which phone number a LID stands for, at any moment.   *)
LearnMapping(l) ==
    /\ learned' = learned \cup {l}
    /\ UNCHANGED <<disk, ctx, index, files, memory, phase, progress>>

(* The process ends at any point: only the files on disk survive. *)
Crash ==
    /\ phase # "down"
    /\ phase' = "down"
    /\ ctx' = disk
    /\ pending' = NothingHeld
    /\ order' = <<>>
    /\ held' = [pending |-> NothingHeld, order |-> <<>>]
    /\ changed' = {} /\ removed' = {} /\ consumed' = {} /\ deletedChats' = {}
    /\ replay' = <<>>
    /\ purging' = None
    /\ count' = 0
    /\ progress' = "idle"
    /\ UNCHANGED <<disk, index, learned, files>>

(* SessionViewModel.prepare builds a writer: prepareChats merges the chats *)
(* whose mapping is known by now, configureIndex repairs the index.        *)
Start ==
    /\ phase = "down"
    /\ ctx' = Merged(disk, learned \cap disk.chats)
    /\ disk' = ctx'
    /\ phase' = "repair"
    /\ UNCHANGED <<index, learned, files, memory, progress>>

Next ==
    \/ Begin
    \/ \E c \in Chat : PurgeChat(c)
    \/ \E i \in Id : PurgeRow(i)
    \/ PurgeEnd
    \/ \E m \in Messages : PutMessage(m)
    \/ Replay
    \/ \E m \in Mutations : Mutate(m)
    \/ \E x \in Reactions : React(x)
    \/ \E v \in Votes : CastVote(v)
    \/ Save
    \/ Throw
    \/ DeleteConsumedFiles
    \/ UpdateIndex
    \/ IndexFails
    \/ \E l \in DOMAIN PnOf : MergeChats(l) \/ LearnMapping(l)
    \/ Reconcile
    \/ Reconfigure
    \/ \E c \in Chat : SidebarSavesChat(c)
    \/ Crash
    \/ Start

Spec == Init /\ [][Next]_vars

-----------------------------------------------------------------------------
(* Replays cannot undo edits, revocation, local deletion, consumed view-   *)
(* once state or receipt progress: whatever a write saves, a stored row    *)
(* that the write did not delete on the way only moves up the row order.   *)
ReplayNeverUndoes ==
    [][\A i \in Id :
          Stored(disk, i) /\ Stored(disk, i)' /\ i \notin removed
              => Dominates(disk.rows[i]', disk.rows[i])]_vars

(* An edited row shows the text of an edit with the row's own edit time:   *)
(* neither a replay nor an older edit leaves its text behind.              *)
EditedTextStands ==
    \A i \in Id :
        Stored(ctx, i) /\ ctx.rows[i].editedAt > 0 =>
            \E m \in Mutations :
                /\ m.kind = "edit" /\ m.id = i
                /\ m.at = ctx.rows[i].editedAt
                /\ m.text = ctx.rows[i].text

(* The held mutations and their order describe the same targets: each      *)
(* target once, each with at least one mutation and only its own.          *)
HeldAgrees(p, o) ==
    /\ \A i \in Id : p[i] # <<>> <=> \E k \in 1..Len(o) : o[k] = i
    /\ \A j, k \in 1..Len(o) : o[j] = o[k] => j = k
    /\ \A i \in Id : \A k \in 1..Len(p[i]) : p[i][k].id = i

PendingAgrees == HeldAgrees(pending, order)

(* At the limits the oldest gives way, in both structures: a mutation for  *)
(* an unknown message is held as the newest of its target, and nothing     *)
(* goes but the first of a full list, or all that is held for the target   *)
(* unknown longest when a full order takes in another one.                 *)
OldestGivesWay ==
    [][\A m \in Mutations : Mutate(m) /\ ~Stored(ctx, m.id) =>
          /\ \/ pending'[m.id] = Append(pending[m.id], m)
             \/ /\ Len(pending[m.id]) = MutationLimit
                /\ pending'[m.id] = Append(Tail(pending[m.id]), m)
          /\ \A i \in Id \ {m.id} :
                \/ pending'[i] = pending[i]
                \/ /\ Len(order) = TargetLimit /\ i = Head(order) /\ pending[m.id] = <<>>
                   /\ pending'[i] = <<>>]_vars

(* A mutation is held only while its message is not stored, whatever fails *)
(* or is deleted in between: no stored row waits for a mutation.           *)
PendingOnlyForUnknown ==
    \A i \in Id : pending[i] # <<>> => ~Stored(ctx, i)

(* A consumed view-once message has lost its file and its caption.         *)
ConsumedStaysConsumed ==
    \A i \in Id : Stored(ctx, i) => LockSound(ctx.rows[i])

(* The terminal lock is saved before the media file is deleted: no step    *)
(* removes the file of a row the store still offers for viewing.           *)
LockSavedBeforeFileDeleted ==
    [][\A i \in files \ files' : Stored(disk, i) => disk.rows[i].locked]_vars

(* Between writes the index holds exactly the searchable rows of the       *)
(* store, unless a failure was reported.                                   *)
IndexMatchesStore ==
    phase = "idle" /\ progress # "failed" =>
        \A i \in Id :
            IF index[i] = None THEN Indexed(disk)[i] = None
            ELSE [index[i] EXCEPT !.chat = Canon(@)] = Indexed(disk)[i]

(* A chat a write reports as deleted has no message left in the store.     *)
DeletedChatsAreEmpty ==
    phase \in {"batch", "saved", "index"} =>
        \A c \in deletedChats \ {purging} : RowsOf(ctx, c) = {}

(* A conversation that was merged under its phone number never splits      *)
(* again: once nothing is left under a learned LID, saved or unsaved, no   *)
(* write, failed write or merge puts anything there.                       *)
NothingUnder(db, c) ==
    /\ RowsOf(db, c) = {}
    /\ \A k \in Id \X Sender :
          /\ db.reactions[k] # None => db.reactions[k].chat # c
          /\ db.votes[k] # None => db.votes[k].chat # c

MergedStaysMerged ==
    [][\A l \in learned : NothingUnder(ctx, l) /\ NothingUnder(disk, l)
                              => NothingUnder(ctx, l)' /\ NothingUnder(disk, l)']_vars

(* A revocation a successful write accepted is never lost: until the row   *)
(* carries it, it is held, through failed writes, until the chat is purged *)
(* or the process ends.  (The limits drop held mutations by design, so it  *)
(* is said of the ids for which only revocations may come, with room left  *)
(* for every target.)                                                      *)
Revoked(db, p, i) ==
    \/ Stored(db, i) /\ db.rows[i].revokedAt > 0
    \/ ~Stored(db, i) /\ \E k \in 1..Len(p[i]) : p[i][k].kind = "revoke"

RevocationAccepted(i) ==
    Revoked(disk, IF phase = "batch" THEN held.pending ELSE pending, i)

RevocationNotLost ==
    [][\A i \in Id :
          /\ \A m \in Mutations : m.id = i => m.kind = "revoke"
          /\ \E o \in [1..TargetLimit -> Id] : Id = {o[k] : k \in 1..TargetLimit}
          /\ RevocationAccepted(i)
          => RevocationAccepted(i)' \/ i \in removed \/ phase' = "down"]_vars

=============================================================================
