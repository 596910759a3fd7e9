--------------------------- MODULE MediaDownload ---------------------------
(***************************************************************************)
(* The media of one view-once message: downloads of the open conversation  *)
(* (ViewModels/ConversationViewModel.swift), the shared MediaCache, the    *)
(* phone that is asked to upload again (bridge/mediaretry.go), and the row *)
(* in which paths, references, expiry and consumption are saved.           *)
(*                                                                         *)
(* A download task waits for the cache and then for its commit; the user   *)
(* may retry, reveal a view-once message or leave the conversation at any  *)
(* of these points.  Operations are saved by the writer one by one (`ops`) *)
(* and published on the main actor later (`done`).                         *)
(***************************************************************************)
EXTENDS Naturals, Sequences

CONSTANTS
    Task,       \* bound of the model: download tasks at a time
    MaxOps,     \* bound of the model: operations waiting for the writer
    MayFail     \* may a commit fail?

ASSUME DownloadAssumption == MaxOps \in Nat \ {0} /\ MayFail \in BOOLEAN

Ref == {1, 2}       \* mediaRefJSON: as first sent, and with a new direct path
Stage == {"none", "start", "wait", "got", "gone", "failed", "commit"}
Operation == [kind: {"message", "expired", "valid", "retried", "refused", "viewOnce"}, ref: Ref]
             \cup [kind: {"path"}, task: Task \cup {0}]
Presence == {"absent", "shown", "locked"}

VARIABLES
    row,        \* the stored row
    alive,      \* the references for which the server has the bytes
    file,       \* is the file in the media cache?
    inflight,   \* MediaCache.inflight: the reference being downloaded, or 0
    phone,      \* a retry receipt the phone has not answered
    attempted,  \* session.mediaRetryAttempted
    asks,       \* history: retry receipts sent
    ops, done,  \* operations not yet saved; saved ones not yet published
    open,       \* the conversation is open
    load,       \* its history load
    kept,       \* changesDuringHistory: the row as last published
    presence,   \* the row among `messages`
    path,       \* localPaths
    error,      \* downloadErrors has an entry
    tasks,      \* download tasks: stage and reference
    registered, \* downloadTasks has an entry
    asked,      \* retriesRequested
    refetch,    \* refetchExpiredMedia waits for the history response
    batch,      \* autoRefetchExpiredBatch waits for it
    resume      \* applyMediaRetry reads the new reference

stored == <<row, alive, file>>
outside == <<inflight, phone, attempted, asks>>
queue == <<ops, done>>
history == <<load, kept>>
timers == <<refetch, batch, resume>>
view == <<open, presence, path, error, tasks, registered, asked>>
vars == <<stored, outside, queue, history, timers, view>>

Idle == [stage |-> "none", ref |-> 1]
NoLoad == [stage |-> "none", path |-> FALSE, locked |-> FALSE, then |-> "none", ref |-> 1]

TypeOK ==
    /\ row \in [ref: Ref, expired: BOOLEAN, locked: BOOLEAN, path: BOOLEAN]
    /\ {file, phone, attempted, open, path, error, registered, asked,
        refetch, batch, resume} \subseteq BOOLEAN
    /\ alive \subseteq Ref /\ inflight \in Ref \cup {0}
    /\ asks \in Nat
    /\ \A k \in 1..Len(ops) : ops[k] \in Operation
    /\ \A k \in 1..Len(done) : done[k].op \in Operation /\ done[k].locked \in BOOLEAN
    /\ load \in [stage: {"none", "build", "built", "done"}, path: BOOLEAN, locked: BOOLEAN,
                 then: {"none", "download", "expired"}, ref: Ref]
    /\ kept \in Presence /\ presence \in Presence
    /\ tasks \in [Task -> [stage: Stage, ref: Ref]]
    /\ (\E t \in Task : tasks[t].stage \notin {"none", "commit"}) => open

Init ==
    /\ row = [ref |-> 1, expired |-> FALSE, locked |-> FALSE, path |-> FALSE]
    /\ alive \in {{}, {2}, Ref}
    /\ file = FALSE /\ inflight = 0 /\ phone = FALSE /\ attempted = FALSE /\ asks = 0
    /\ ops = <<>> /\ done = <<>>
    /\ open = FALSE /\ load = NoLoad /\ kept = "absent"
    /\ presence = "absent" /\ path = FALSE /\ error = FALSE
    /\ tasks = [t \in Task |-> Idle] /\ registered = FALSE /\ asked = FALSE
    /\ refetch = FALSE /\ batch = FALSE /\ resume = FALSE

-----------------------------------------------------------------------------
(* The bound MaxOps, with one place kept for what the tasks add. *)
Room == Len(ops) < MaxOps
LastRoom == Len(ops) <= MaxOps
Op(k) == [kind |-> k, ref |-> 1]
Locked(b) == IF b THEN "locked" ELSE "shown"

(* Mutant: the new task is not remembered. *)
StartUnregistered(t, r) ==
    /\ tasks[t].stage = "none"
    /\ tasks' = [tasks EXCEPT ![t] = [stage |-> "start", ref |-> r]]
    /\ UNCHANGED registered

(* ensureDownloadFromHistory: a new task takes the place of the old one.   *)
Start(t, r) ==
    /\ tasks[t].stage = "none"
    /\ tasks' = [tasks EXCEPT ![t] = [stage |-> "start", ref |-> r]]
    /\ registered' = TRUE

(* The conversation is opened, and its history is loaded.                  *)
Open ==
    /\ ~open
    /\ open' = TRUE
    /\ load' = [NoLoad EXCEPT !.stage = "build"]
    /\ UNCHANGED <<stored, outside, queue, kept, timers, presence, path, error, tasks,
                   registered, asked>>

(* Mutant: the tasks keep the view model alive. *)
TasksKept == tasks

TasksAfterClose == [t \in Task |-> Idle]

(* It is closed.  The tasks see that their view model is gone, but for     *)
(* those whose commit is under way: it goes on, and nobody looks.          *)
Close ==
    /\ open
    /\ open' = FALSE
    /\ load' = NoLoad /\ kept' = "absent" /\ presence' = "absent"
    /\ path' = FALSE /\ error' = FALSE /\ registered' = FALSE /\ asked' = FALSE
    /\ tasks' = TasksAfterClose
    /\ refetch' = FALSE /\ batch' = FALSE /\ resume' = FALSE
    /\ ops' = [k \in 1..Len(ops) |-> IF ops[k].kind = "path" THEN [kind |-> "path", task |-> 0]
                                                              ELSE ops[k]]
    /\ done' = [k \in 1..Len(done) |->
                   IF done[k].op.kind = "path"
                   THEN [done[k] EXCEPT !.op = [kind |-> "path", task |-> 0]] ELSE done[k]]
    /\ UNCHANGED <<stored, outside>>

(* buildHistorySnapshot: a file is shown, an expired row is not tried.     *)
BuildSnapshot ==
    /\ load.stage = "build"
    /\ load' = [stage |-> "built", path |-> file, locked |-> row.locked, ref |-> row.ref,
                then |-> IF file THEN "none" ELSE IF row.expired THEN "expired" ELSE "download"]
    /\ UNCHANGED <<stored, outside, queue, kept, timers, view>>

(* Mutant: what was published during the load does not count. *)
MergedStale == Locked(load.locked)

(* The row as published during the load or shown wins over the snapshot's. *)
Merged == IF kept # "absent" THEN kept
          ELSE IF presence # "absent" THEN presence
          ELSE Locked(load.locked)

(* Mutant: the snapshot's path is taken for a consumed message. *)
PathKept == path \/ load.path

PathAfterLoad == (path \/ load.path) /\ Merged # "locked"

ApplySnapshot ==
    /\ load.stage = "built"
    /\ load' = [NoLoad EXCEPT !.stage = "done"] /\ kept' = "absent"
    /\ presence' = Merged
    /\ path' = PathAfterLoad
    /\ IF load.then = "expired" THEN error' = TRUE /\ batch' \in BOOLEAN
                                ELSE UNCHANGED <<error, batch>>
    /\ IF load.then = "download" /\ Merged # "locked" /\ ~registered /\ ~path
       THEN \E t \in Task : Start(t, load.ref)
       ELSE UNCHANGED <<tasks, registered>>
    /\ UNCHANGED <<stored, outside, queue, refetch, resume, open, asked>>

-----------------------------------------------------------------------------
(* MediaCache.ensure: the file, or a download, which tasks share.          *)
Ensure(t) ==
    /\ tasks[t].stage = "start"
    /\ tasks' = [tasks EXCEPT ![t] = [Idle EXCEPT !.stage = IF file THEN "got" ELSE "wait"]]
    /\ inflight' = IF ~file /\ inflight = 0 THEN tasks[t].ref ELSE inflight
    /\ UNCHANGED <<stored, phone, attempted, asks, queue, history, timers, open, presence,
                   path, error, registered, asked>>

(* The download ends: with the bytes, with an error that says they are     *)
(* gone, or with another one.                                              *)
DownloadEnds ==
    /\ inflight # 0
    /\ inflight' = 0
    /\ \E e \in {"failed"} \cup (IF inflight \in alive THEN {"got"} ELSE {"gone"}) :
          /\ file' = (file \/ e = "got")
          /\ tasks' = [t \in Task |-> IF tasks[t].stage = "wait"
                                      THEN [tasks[t] EXCEPT !.stage = e] ELSE tasks[t]]
    /\ UNCHANGED <<row, alive, phone, attempted, asks, queue, history,
                   timers, open, presence, path, error, registered, asked>>

(* The task goes on: it commits the path ...                               *)
CommitPath(t) ==
    /\ tasks[t].stage = "got" /\ LastRoom
    /\ tasks' = [tasks EXCEPT ![t].stage = "commit"]
    /\ ops' = Append(ops, [kind |-> "path", task |-> t])
    /\ UNCHANGED <<stored, outside, done, history, timers, open, presence, path, error,
                   registered, asked>>

(* Mutant: only this conversation remembers that the phone was asked. *)
MayAskForgetful == ~asked

(* tryRequestMediaRetry: the phone is asked once in a session.             *)
MayAsk == ~asked /\ ~attempted

(* ... or it says why it failed.  A first failure with lost bytes asks the *)
(* phone (the bridge may refuse), a second marks the media as expired.     *)
Report(t) ==
    /\ tasks[t].stage \in {"gone", "failed"} /\ LastRoom
    /\ tasks' = [tasks EXCEPT ![t] = Idle]
    /\ registered' = FALSE
    /\ LET gone == tasks[t].stage = "gone"
       IN  \/ /\ gone /\ asked
              /\ error' = TRUE
              /\ ops' = Append(ops, Op("expired"))
              /\ UNCHANGED <<asked, attempted, asks, phone>>
           \/ /\ gone /\ MayAsk
              /\ asked' = TRUE /\ attempted' = TRUE /\ asks' = asks + 1
              /\ phone' \in {phone, TRUE}
              /\ error' = TRUE
              /\ UNCHANGED ops
           \/ /\ ~gone \/ (~asked /\ ~MayAsk)
              /\ error' = TRUE
              /\ UNCHANGED <<asked, attempted, asks, phone, ops>>
    /\ UNCHANGED <<stored, inflight, done, history, timers, open, presence, path>>

-----------------------------------------------------------------------------
(* The row after one operation of the writer (see MessageRow).             *)
Applied(op) ==
    CASE op.kind = "path" -> [row EXCEPT !.path = @ \/ ~row.locked]
      [] op.kind = "expired" -> [row EXCEPT !.expired = TRUE]
      [] op.kind = "refused" -> [row EXCEPT !.expired = TRUE]
      [] op.kind = "valid" -> [row EXCEPT !.expired = FALSE]
      [] op.kind = "retried" -> [row EXCEPT !.ref = 2, !.expired = FALSE]
      [] op.kind = "message" -> [row EXCEPT !.ref = op.ref, !.expired = @ /\ row.ref = op.ref]
      [] op.kind = "viewOnce" -> [row EXCEPT !.locked = TRUE, !.path = FALSE]

(* The writer saves; consuming a message deletes the file its row names.   *)
Save ==
    /\ ops # <<>> /\ done = <<>>
    /\ row' = Applied(Head(ops))
    /\ file' = (file /\ ~(Head(ops).kind = "viewOnce" /\ ~row.locked /\ row.path))
    /\ ops' = Tail(ops)
    /\ done' = <<[op |-> Head(ops), locked |-> row'.locked]>>
    /\ UNCHANGED <<alive, outside, history, timers, view>>

(* It throws.  A task that waited for it ends and stays registered.        *)
SaveFails ==
    /\ MayFail
    /\ ops # <<>> /\ done = <<>>
    /\ ops' = Tail(ops)
    /\ tasks' = IF Head(ops).kind = "path" /\ Head(ops).task # 0
                THEN [tasks EXCEPT ![Head(ops).task] = Idle] ELSE tasks
    /\ UNCHANGED <<row, alive, file, done, outside, history, timers, open, presence,
                   path, error, registered, asked>>

Committed == done[1].op

(* applyCommitted: a shown row is replaced, and kept for a load under way; *)
(* a consumed one loses its path.                                          *)
RowPublished ==
    LET now == Locked(done[1].locked)
    IN  /\ presence' = IF presence # "absent" \/ Committed.kind = "message" THEN now ELSE presence
        /\ kept' = IF load.stage \in {"build", "built"} THEN now ELSE kept

PathPublished == path /\ ~done[1].locked

Publishes(kinds) ==
    /\ done # <<>> /\ Committed.kind \in kinds
    /\ done' = <<>>

(* The task whose path was saved belongs to a conversation that is closed. *)
TaskGone == Committed.kind = "path" /\ Committed.task = 0

(* Only the row changes: the open conversation is published to, also what  *)
(* a task of an earlier one committed.                                     *)
PublishRow ==
    /\ Publishes({"expired", "valid", "viewOnce", "path"})
    /\ Committed.kind = "path" => TaskGone
    /\ RowPublished /\ path' = PathPublished
    /\ UNCHANGED <<stored, outside, ops, load, timers, open, error, tasks, registered, asked>>

(* A message that came again is downloaded, unless it is or was consumed.  *)
PublishMessage ==
    /\ Publishes({"message"})
    /\ RowPublished /\ path' = PathPublished
    /\ IF ~done[1].locked /\ ~path /\ ~registered
       THEN \E t \in Task : Start(t, Committed.ref)
       ELSE UNCHANGED <<tasks, registered>>
    /\ UNCHANGED <<stored, outside, ops, load, timers, open, error, asked>>

(* The task whose path was saved shows the file, unless the row was        *)
(* consumed meanwhile: then it ends where it is and stays registered.      *)
PublishPath ==
    /\ Publishes({"path"}) /\ ~TaskGone
    /\ RowPublished
    /\ IF presence' = "locked"
       THEN /\ path' = PathPublished
            /\ UNCHANGED <<error, registered>>
       ELSE /\ path' = TRUE
            /\ error' = FALSE /\ registered' = FALSE
    /\ tasks' = [tasks EXCEPT ![Committed.task] = Idle]
    /\ UNCHANGED <<stored, outside, ops, load, timers, open, asked>>

(* applyMediaRetry: the phone refused, or there is a new reference.        *)
PublishAnswer ==
    /\ Publishes({"refused", "retried"})
    /\ RowPublished /\ path' = PathPublished
    /\ IF Committed.kind = "refused" THEN error' = TRUE /\ UNCHANGED resume
                                     ELSE resume' = TRUE /\ UNCHANGED error
    /\ UNCHANGED <<stored, outside, ops, load, refetch, batch, open, tasks, registered, asked>>

(* Nobody looks. *)
PublishUnseen ==
    /\ done # <<>>
    /\ done' = <<>>
    /\ UNCHANGED <<stored, outside, ops, history, timers, view>>

Publish ==
    IF open
    THEN PublishRow \/ PublishMessage \/ PublishPath \/ PublishAnswer
    ELSE PublishUnseen

(* The second half of applyMediaRetry: read the reference and try again.   *)
Resume ==
    /\ resume
    /\ resume' = FALSE
    /\ IF row.locked THEN UNCHANGED <<error, tasks, registered>>
       ELSE error' = FALSE /\ \E t \in Task : Start(t, row.ref)
    /\ UNCHANGED <<stored, outside, queue, history, refetch, batch, open, presence, path, asked>>

-----------------------------------------------------------------------------
(* The phone answers, with a new path or a refusal; the event is admitted. *)
PhoneAnswers ==
    /\ phone /\ Room
    /\ phone' = FALSE
    /\ \E kind \in {"retried", "refused"} : ops' = Append(ops, Op(kind))
    /\ UNCHANGED <<stored, inflight, attempted, asks, done, history, timers, view>>

(* The message is delivered again, by history or as it was.                *)
Redelivered(r) ==
    /\ Room
    /\ ops' = Append(ops, [kind |-> "message", ref |-> r])
    /\ UNCHANGED <<stored, outside, done, history, timers, view>>

Retryable == open /\ presence = "shown" /\ ~path /\ error

(* retryDownload: a tap on Retry forgets that this conversation asked.     *)
RetryDownload(t) ==
    /\ Retryable /\ ~row.expired /\ Room
    /\ error' = FALSE /\ asked' = FALSE
    /\ ops' = Append(ops, Op("valid"))
    /\ Start(t, row.ref)
    /\ UNCHANGED <<stored, outside, done, history, timers, open, presence, path>>

(* refetchExpiredMedia: ask for the history around it, which may fail ...  *)
RefetchExpiredMedia ==
    /\ Retryable /\ row.expired /\ ~refetch /\ ~batch /\ Room
    /\ ops' = Append(ops, Op("valid"))
    /\ refetch' \in BOOLEAN
    /\ error' = TRUE
    /\ UNCHANGED <<stored, outside, done, history, batch, resume, open, presence, path, tasks,
                   registered, asked>>

(* ... and ten seconds later try again. *)
Refetched(t) ==
    /\ refetch
    /\ refetch' = FALSE
    /\ asked' = FALSE
    /\ Start(t, row.ref)
    /\ UNCHANGED <<stored, outside, queue, history, batch, resume, open, presence, path, error>>

(* autoRefetchExpiredBatch does the same once after a history load.        *)
BatchRefetched(t) ==
    /\ batch /\ LastRoom
    /\ batch' = FALSE
    /\ asked' = FALSE /\ error' = FALSE
    /\ ops' = Append(ops, Op("valid"))
    /\ Start(t, row.ref)
    /\ UNCHANGED <<stored, outside, done, history, refetch, resume, open, presence, path>>

(* revealViewOnce *)
Reveal ==
    /\ open /\ presence = "shown" /\ Room
    /\ ops' = Append(ops, Op("viewOnce"))
    /\ UNCHANGED <<stored, outside, done, history, timers, view>>

Next ==
    \/ Open \/ Close \/ BuildSnapshot \/ ApplySnapshot
    \/ DownloadEnds
    \/ \E t \in Task : \/ Ensure(t) \/ CommitPath(t) \/ Report(t)
                       \/ RetryDownload(t) \/ Refetched(t) \/ BatchRefetched(t)
    \/ Save \/ SaveFails \/ Publish \/ Resume
    \/ PhoneAnswers \/ RefetchExpiredMedia \/ Reveal
    \/ \E r \in Ref : Redelivered(r)

Spec == Init /\ [][Next]_vars

-----------------------------------------------------------------------------
(* A consumed message shows no file.  docs/ARCHITECTURE.md: "A stale       *)
(* snapshot cannot restore consumed media paths", nor may a download that  *)
(* ends after the message was revealed.                                    *)
ConsumedNotShown == presence = "locked" => ~path

(* The file of a shown path exists, once nothing is on its way to the      *)
(* conversation: a path never outlives the file the writer deleted.        *)
ShownFileExists == presence = "shown" /\ path /\ ops = <<>> /\ done = <<>> => file

(* The phone is asked to upload a message again at most once in a session, *)
(* however often its conversation is opened (it wakes the phone).          *)
AskedOnce == asks <= 1

(* No message is shown as downloading while nothing downloads it: when its *)
(* tasks have ended it has its file or an error, however tasks, retries,   *)
(* history responses and answers of the phone overlap, unless the commit   *)
(* of its path failed, which leaves it registered.                         *)
DownloadsSettle ==
    /\ presence = "shown" /\ load.stage = "done" /\ ~resume
    /\ \A t \in Task : tasks[t] = Idle
    => path \/ error \/ registered

(* ConversationViewModel.swift: "User-tap retry clears the once-per-session *)
(* MediaRetry guard so the phone can be re-asked."                         *)
TapAsksAgain == [][\A t \in Task : RetryDownload(t) => MayAsk']_vars
=============================================================================
