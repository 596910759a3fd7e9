---------------------------- MODULE ChatDeletion ----------------------------
(***************************************************************************)
(* The deletion of a chat, from the event to the sidebar.  Two parts of    *)
(* yawac keep their own idea of whether a chat exists: the sidebar         *)
(* (ViewModels/ChatListViewModel.swift: its list, its delete tombstones    *)
(* and the chat rows it saves) and the message store, which the session    *)
(* (ViewModels/SessionViewModel.swift) feeds in batches.  Admission looks  *)
(* at the tombstone; the batch is written later; what was written is       *)
(* published later still, and in between anything may happen.              *)
(*                                                                         *)
(* One chat is modelled, of a person or a group.  A message is its         *)
(* timestamp, and replaying it delivers the same message again; the chats  *)
(* merged into this one bring no messages with them.  `now` is this        *)
(* machine's clock, which the timestamps are taken to agree with.          *)
(*                                                                         *)
(* runBootstrap rebuilds the list in steps, at launch and after two names  *)
(* of a person were merged: it takes the tombstones, reads the chat rows   *)
(* in the background, and puts what it read into the list of that moment.  *)
(* At most one rebuild is under way at a time, a bound of the model.       *)
(***************************************************************************)
EXTENDS Integers, Sequences

CONSTANTS
    MaxTime,    \* bound of the model: ticks of the clock
    MaxQueue,   \* bound of the model: operations waiting for the writer
    MayCrash,   \* may the process end and start again?
    MayFail,    \* may a write fail?
    MayMerge    \* may names be merged while the session runs?

ASSUME DeletionAssumption ==
    /\ MaxTime \in Nat \ {0} /\ MaxQueue \in Nat \ {0}
    /\ MayCrash \in BOOLEAN /\ MayFail \in BOOLEAN /\ MayMerge \in BOOLEAN

Time == 1..MaxTime
Operation == [kind: {"message"}, ts: Time] \cup [kind: {"chatDeleted", "purge"}]

VARIABLES
    now,
    group,      \* is it a group's chat?
    admitting,  \* admittingEvents
    tomb,       \* deletedChats[jid], saved at once; 0 when there is none
    listed,     \* is the chat in ChatListViewModel.chats?
    dirty,      \* is it in dirtyChatJIDs?
    chatRow,    \* is its PersistedChat saved?
    rows,       \* messages saved in the store
    queue,      \* pendingWrites
    batch,      \* the batch of the running drain
    survivors,  \* messages of the batch the commit reports as changed
    purged,     \* does the commit report the chat as deleted?
    drain,      \* none, writing, written
    rebuild,    \* none, merging, merged, reading, found, missing
    since,      \* history: messages admitted since the last deletion
    relisted,   \* history: did a rebuild or a history conversation list the
                \* chat since its deletion without asking the tombstone?
    failed,     \* history: did a write fail?
    ended       \* history: did the process end?

sidebar == <<tomb, listed, dirty>>
commit == <<batch, survivors, purged, drain>>
boot == <<group, admitting>>
faults == <<failed, ended>>
vars == <<now, boot, sidebar, chatRow, rows, queue, commit, rebuild, since, relisted, faults>>

TypeOK ==
    /\ now \in Time
    /\ group \in BOOLEAN /\ admitting \in BOOLEAN
    /\ tomb \in 0..MaxTime
    /\ listed \in BOOLEAN /\ dirty \in BOOLEAN /\ chatRow \in BOOLEAN
    /\ rows \subseteq Time
    /\ queue \in Seq(Operation) /\ batch \in Seq(Operation)
    /\ survivors \subseteq Time
    /\ purged \in BOOLEAN
    /\ drain \in {"none", "writing", "written"}
    /\ rebuild \in {"none", "merging", "merged", "reading", "found", "missing"}
    /\ since \subseteq Time
    /\ relisted \in BOOLEAN /\ failed \in BOOLEAN /\ ended \in BOOLEAN

Init ==
    /\ now = 1
    /\ group \in BOOLEAN /\ admitting = TRUE
    /\ tomb = 0 /\ listed = FALSE /\ dirty = FALSE /\ chatRow = FALSE
    /\ rows = {} /\ queue = <<>>
    /\ batch = <<>> /\ survivors = {} /\ purged = FALSE /\ drain = "none"
    /\ rebuild = "none"
    /\ since = {} /\ relisted = FALSE /\ failed = FALSE /\ ended = FALSE

-----------------------------------------------------------------------------
Messages(b) == {b[k].ts : k \in {k \in 1..Len(b) : b[k].kind = "message"}}
Deletions(b) == {k \in 1..Len(b) : b[k].kind # "message"}
LastDeletion(b) == CHOOSE k \in Deletions(b) : \A j \in Deletions(b) : j <= k

(* Mutant: a deletion in a batch takes every message of the batch with it. *)
SurvivorsNone(b) == IF Deletions(b) = {} THEN Messages(b) ELSE {}

(* The messages of a batch that no later deletion in it removes. *)
Survivors(b) ==
    IF Deletions(b) = {} THEN Messages(b)
    ELSE Messages(SubSeq(b, LastDeletion(b) + 1, Len(b)))

Tick ==
    /\ now < MaxTime
    /\ now' = now + 1
    /\ UNCHANGED <<boot, sidebar, chatRow, rows, queue, commit, rebuild, since, relisted, faults>>

(* suppressedByTombstone *)
Suppressed(t) == tomb # 0 /\ t <= tomb

(* receive(.message): ChatListViewModel.accepts, then enqueue. *)
ReceiveMessage(t) ==
    /\ admitting
    /\ t <= now
    /\ Len(queue) < MaxQueue
    /\ IF Suppressed(t)
       THEN UNCHANGED <<tomb, queue, since>>
       ELSE /\ tomb' = 0
            /\ queue' = Append(queue, [kind |-> "message", ts |-> t])
            /\ since' = since \cup {t}
    /\ UNCHANGED <<now, boot, listed, dirty, chatRow, rows, commit, rebuild, relisted, faults>>

(* Mutant: the tombstone is stamped past the clock. *)
HideLate ==
    /\ tomb' = now + 1
    /\ listed' = FALSE
    /\ dirty' = FALSE
    /\ relisted' = FALSE

(* hideDeletedChat: the tombstone carries the clock's time. *)
Hide ==
    /\ tomb' = now
    /\ listed' = FALSE
    /\ dirty' = FALSE
    /\ relisted' = FALSE

(* receive(.chatDeleted): the phone deleted the chat, now or earlier; the   *)
(* event's own time is not looked at.                                      *)
ReceiveDeletion ==
    /\ admitting
    /\ Len(queue) < MaxQueue
    /\ Hide
    /\ queue' = Append(queue, [kind |-> "chatDeleted"])
    /\ since' = {}
    /\ UNCHANGED <<now, boot, chatRow, rows, commit, rebuild, faults>>

(* deleteChat: removeChatLocally hides the chat and queues its purge. *)
DeleteLocally ==
    /\ listed
    /\ Len(queue) < MaxQueue
    /\ Hide
    /\ queue' = Append(queue, [kind |-> "purge"])
    /\ since' = {}
    /\ UNCHANGED <<now, boot, chatRow, rows, commit, rebuild, faults>>

-----------------------------------------------------------------------------
TakeBatch ==
    /\ drain = "none"
    /\ queue # <<>>
    /\ batch' = queue
    /\ queue' = <<>>
    /\ drain' = "writing"
    /\ UNCHANGED <<now, boot, sidebar, chatRow, rows, survivors, purged, rebuild, since, relisted,
                   faults>>

(* MessageWriter.write on the batch. *)
Write ==
    /\ drain = "writing"
    /\ survivors' = Survivors(batch)
    /\ purged' = (Deletions(batch) # {} /\ Survivors(batch) = {})
    /\ rows' = IF Deletions(batch) = {} THEN rows \cup Survivors(batch)
                                        ELSE Survivors(batch)
    /\ chatRow' = (chatRow /\ Deletions(batch) = {})
    /\ drain' = "written"
    /\ UNCHANGED <<now, boot, sidebar, queue, batch, rebuild, since, relisted, faults>>

WriteFails ==
    /\ MayFail
    /\ drain = "writing"
    /\ drain' = "none"
    /\ batch' = <<>>
    /\ failed' = TRUE
    /\ UNCHANGED <<now, boot, sidebar, chatRow, rows, queue, survivors, purged, rebuild, since,
                   relisted, ended>>

(* Mutant: nothing hides the chat again once its deletion is written. *)
HidesNothing == FALSE

(* publish hides the chats of commit.deletedChats, and applyPresentation   *)
(* hides the chat once more for each .chatDeleted event of the batch.      *)
Hides == purged \/ \E k \in 1..Len(batch) : batch[k].kind = "chatDeleted"

(* Mutant: a chat shown again is not marked for saving. *)
ShownClean == UNCHANGED dirty

ShownDirty == dirty' = TRUE

(* publish: applyCommittedMessages puts the surviving messages in the list. *)
Publish ==
    /\ drain = "written"
    /\ IF Hides THEN Hide
       ELSE IF survivors # {}
            THEN listed' = TRUE /\ ShownDirty /\ UNCHANGED <<tomb, relisted>>
       ELSE UNCHANGED <<sidebar, relisted>>
    /\ drain' = "none"
    /\ batch' = <<>> /\ survivors' = {} /\ purged' = FALSE
    /\ UNCHANGED <<now, boot, chatRow, rows, queue, rebuild, since, faults>>

-----------------------------------------------------------------------------
(* flushDirtyChats, 80 ms after the chat became dirty. *)
SaveChatRow ==
    /\ dirty
    /\ dirty' = FALSE
    /\ chatRow' = (chatRow \/ listed)
    /\ UNCHANGED <<now, boot, tomb, listed, rows, queue, commit, rebuild, since, relisted, faults>>

(* A chat is put in the list and saved, its tombstone taken away or not. *)
ListAndSave ==
    /\ listed' = TRUE
    /\ chatRow' = TRUE
    /\ UNCHANGED <<now, boot, dirty, rows, queue, commit, rebuild, since, faults>>

(* upsertStubChat: the user starts the chat. *)
StartChat ==
    /\ ~listed
    /\ tomb' = 0
    /\ ListAndSave
    /\ UNCHANGED relisted

(* mergeContacts and mergeGroups: a contact or group whose chat is not     *)
(* tombstoned gets a row.                                                  *)
MergeContacts ==
    /\ admitting
    /\ ~listed /\ tomb = 0
    /\ ListAndSave
    /\ UNCHANGED <<tomb, relisted>>

(* mergeGroups, pins, mutes, names and reading: a listed chat is saved. *)
UpdateListed ==
    /\ listed
    /\ ListAndSave
    /\ UNCHANGED <<tomb, relisted>>

(* mergeJoinedGroup: this account was added to the group (again). *)
JoinGroup ==
    /\ admitting /\ group
    /\ tomb' = 0
    /\ ListAndSave
    /\ UNCHANGED relisted

(* applyHistoryConversation: presented at once, and nothing asks for the   *)
(* tombstone.  A listed group is saved only if the conversation is newer,  *)
(* which is UpdateListed.                                                  *)
HistoryConversation ==
    /\ admitting /\ group
    /\ ~listed
    /\ ListAndSave
    /\ relisted' = (relisted \/ tomb # 0)
    /\ UNCHANGED tomb

-----------------------------------------------------------------------------
(* runBootstrap takes the tombstones and then awaits the rows. *)
RebuildBegins == rebuild' = IF tomb # 0 THEN "missing" ELSE "reading"

(* reconcileLIDDuplicates, for a pair of names with this chat in it. *)
Reconcile ==
    /\ MayMerge
    /\ admitting /\ ~group /\ listed
    /\ rebuild = "none"
    /\ rebuild' = "merging"
    /\ UNCHANGED <<now, boot, sidebar, chatRow, rows, queue, commit, since, relisted, faults>>

(* mergeChats: the row of the other name is merged into this chat's, or    *)
(* becomes it where this chat has none.                                    *)
WriterMerges ==
    /\ rebuild = "merging"
    /\ rebuild' = "merged"
    /\ chatRow' \in {chatRow, TRUE}
    /\ UNCHANGED <<now, boot, sidebar, rows, queue, commit, since, relisted, faults>>

(* mergeChats throws: the list is left as it is. *)
MergeFails ==
    /\ MayFail
    /\ rebuild = "merging"
    /\ rebuild' = "none"
    /\ UNCHANGED <<now, boot, sidebar, chatRow, rows, queue, commit, since, relisted, faults>>

(* The merged chats are dropped from the list, which is then rebuilt. *)
DropMerged ==
    /\ rebuild = "merged"
    /\ listed' = FALSE
    /\ RebuildBegins
    /\ UNCHANGED <<now, boot, tomb, dirty, chatRow, rows, queue, commit, since, relisted, faults>>

(* The names of other chats were merged: this one stays in the list. *)
OthersMerged ==
    /\ MayMerge
    /\ admitting
    /\ rebuild = "none"
    /\ RebuildBegins
    /\ UNCHANGED <<now, boot, sidebar, chatRow, rows, queue, commit, since, relisted, faults>>

(* buildBootstrap, in the background. *)
ReadRows ==
    /\ rebuild = "reading"
    /\ rebuild' = IF chatRow THEN "found" ELSE "missing"
    /\ UNCHANGED <<now, boot, sidebar, chatRow, rows, queue, commit, since, relisted, faults>>

(* The chats read are added to the list; prepare then admits events. *)
ApplyRebuild ==
    /\ rebuild \in {"found", "missing"}
    /\ listed' = (listed \/ rebuild = "found")
    /\ relisted' = (relisted \/ (~listed /\ rebuild = "found" /\ (tomb # 0 \/ ~chatRow)))
    /\ rebuild' = "none"
    /\ admitting' = TRUE
    /\ UNCHANGED <<now, group, tomb, dirty, chatRow, rows, queue, commit, since, faults>>

(* The process ends and starts again, with the tombstones and the store:   *)
(* prepare makes an empty list and rebuilds it before it admits events.    *)
Relaunch ==
    /\ MayCrash
    /\ admitting' = FALSE
    /\ listed' = FALSE /\ dirty' = FALSE
    /\ queue' = <<>> /\ batch' = <<>> /\ survivors' = {} /\ purged' = FALSE
    /\ drain' = "none"
    /\ RebuildBegins
    /\ ended' = TRUE
    /\ UNCHANGED <<now, group, tomb, chatRow, rows, since, relisted, failed>>

Next ==
    \/ Tick
    \/ \E t \in Time : ReceiveMessage(t)
    \/ ReceiveDeletion \/ DeleteLocally
    \/ TakeBatch \/ Write \/ WriteFails \/ Publish
    \/ SaveChatRow \/ StartChat \/ MergeContacts \/ UpdateListed
    \/ JoinGroup \/ HistoryConversation
    \/ Reconcile \/ WriterMerges \/ MergeFails \/ DropMerged \/ OthersMerged
    \/ ReadRows \/ ApplyRebuild \/ Relaunch

Spec == Init /\ [][Next]_vars

-----------------------------------------------------------------------------
(* Nothing waits to be written, written or published, and no rebuild of    *)
(* the list is under way.                                                  *)
Settled == queue = <<>> /\ drain = "none" /\ rebuild = "none"

(* However messages, replays and deletions of a chat are cut into batches, *)
(* the store ends with exactly the messages admitted since the last        *)
(* deletion (unless a write failed or the process ended on the way).       *)
StoreFollowsAdmission == Settled /\ ~failed /\ ~ended => rows = since

(* A deleted chat stays out of the sidebar while no message was admitted   *)
(* since, over relaunches and rebuilds too: one that was on its way when   *)
(* the chat was deleted may show it for a moment, but not once the         *)
(* deletion is written and published.  Only a history conversation of a    *)
(* group, or a rebuild that read the chat row before the deletion, lists   *)
(* it past its tombstone.                                                  *)
DeletedChatStaysHidden ==
    Settled /\ ~failed /\ tomb # 0 /\ since = {} => ~listed \/ relisted

(* A listed chat is saved or about to be, even after failed writes: a      *)
(* relaunch finds it again, although the writer deletes the chat row       *)
(* behind the sidebar's back, unless a rebuild listed a row read before    *)
(* that deletion.                                                          *)
ListedChatIsSaved == Settled /\ listed => chatRow \/ dirty \/ relisted

(* ChatListViewModel.swift: "A newer message means the conversation is     *)
(* alive again, so lift the tombstone and ingest normally".                *)
LiveChatIsListed == Settled => (rows # {} => listed)
=============================================================================
