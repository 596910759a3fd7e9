------------------------ MODULE MediaDownloadProofs ------------------------
(***************************************************************************)
(* The types of MediaDownload, that the phone is asked once, that a        *)
(* consumed message shows no file, and that a shown path has its file.     *)
(* The last one is about two facts that are learnt at different times: the *)
(* writer deletes the file when it saves the consumption (`FileInv`: who   *)
(* holds a path has a file, or the row is locked), and the conversation    *)
(* hears of it when that save is published (`LockInv`).                    *)
(***************************************************************************)
EXTENDS MediaDownload, TLAPS

Saved == [op: Operation, locked: BOOLEAN]
TaskState == [stage: Stage, ref: Ref]
Load == [stage: {"none", "build", "built", "done"}, path: BOOLEAN, locked: BOOLEAN,
         then: {"none", "download", "expired"}, ref: Ref]
Row == [ref: Ref, expired: BOOLEAN, locked: BOOLEAN, path: BOOLEAN]

(* At most one save waits for its publication. *)
QueueOk ==
    /\ ops \in Seq(Operation) /\ done \in Seq(Saved)
    /\ done = <<>> \/ Len(done) = 1
    /\ done # <<>> => done[1] \in Saved /\ done[1].locked = row.locked

ViewOk ==
    /\ row \in Row /\ load \in Load
    /\ tasks \in [Task -> TaskState]
    /\ kept \in Presence /\ presence \in Presence

AskInv == attempted \in BOOLEAN /\ asks = IF attempted THEN 1 ELSE 0

(* A closed conversation shows nothing. *)
ClosedInv ==
    ~open => /\ presence = "absent" /\ kept = "absent" /\ load.stage = "none" /\ ~path
             /\ ~refetch /\ ~batch /\ ~resume
             /\ \A t \in Task : tasks[t].stage \in {"none", "commit"}

-----------------------------------------------------------------------------
(* The actions, those of tasks apart. *)
TaskStep(t) ==
    \/ Ensure(t) \/ CommitPath(t) \/ Report(t)
    \/ RetryDownload(t) \/ Refetched(t) \/ BatchRefetched(t)

OtherStep ==
    \/ Open \/ Close \/ BuildSnapshot \/ ApplySnapshot \/ DownloadEnds \/ Save \/ SaveFails
    \/ open /\ (PublishRow \/ PublishMessage \/ PublishPath \/ PublishAnswer)
    \/ ~open /\ PublishUnseen
    \/ Resume \/ PhoneAnswers \/ RefetchExpiredMedia \/ Reveal
    \/ \E r \in Ref : Redelivered(r)

LEMMA Steps == Next => OtherStep \/ \E t \in Task : TaskStep(t)
  BY DEF Next, OtherStep, TaskStep, Publish

(* The operations that are enqueued. *)
LEMMA Operations ==
    /\ \A k \in {"expired", "valid", "retried", "refused", "viewOnce"} : Op(k) \in Operation
    /\ \A r \in Ref : [kind |-> "message", ref |-> r] \in Operation
    /\ \A t \in Task \cup {0} : [kind |-> "path", task |-> t] \in Operation
    /\ \A op \in Operation : op.kind \notin {"path"} => op.ref \in Ref
  BY DEF Op, Operation, Ref

-----------------------------------------------------------------------------
LEMMA RowType ==
    ASSUME ViewOk, QueueOk, Next
    PROVE  row' \in Row
<1>1. row \in Row
  BY DEF ViewOk
<1>2. CASE Save
  <2>1. PICK op \in Operation : op = Head(ops)
    BY <1>2 DEF Save, QueueOk
  <2>2. row' = Applied(op)
    BY <1>2, <2>1 DEF Save
  <2>3. op.kind # "path" => op.ref \in Ref
    BY Operations
  <2>4. op.kind \in {"path", "expired", "refused", "valid", "retried", "message", "viewOnce"}
    BY DEF Operation
  <2> QED
    BY <1>1, <2>2, <2>3, <2>4 DEF Applied, Row, Ref
<1>3. CASE ~Save
  <2>1. UNCHANGED row
    BY <1>3, Steps DEF OtherStep, TaskStep, stored, Open, Close, BuildSnapshot, ApplySnapshot,
       DownloadEnds, SaveFails, PublishRow, PublishMessage, PublishPath, PublishAnswer,
       PublishUnseen, Resume, PhoneAnswers, RefetchExpiredMedia, Reveal, Redelivered,
       Ensure, CommitPath, Report, RetryDownload, Refetched, BatchRefetched
  <2> QED
    BY <1>1, <2>1
<1> QED
  BY <1>2, <1>3

LEMMA StartType ==
    ASSUME ViewOk, NEW t \in Task, NEW r \in Ref, Start(t, r)
    PROVE  tasks' \in [Task -> TaskState]
<1>1. [stage |-> "start", ref |-> r] \in TaskState
  BY DEF TaskState, Stage
<1> QED
  BY <1>1 DEF Start, ViewOk

LEMMA TasksType ==
    ASSUME ViewOk, QueueOk, Next
    PROVE  tasks' \in [Task -> TaskState]
<1>1. tasks \in [Task -> TaskState] /\ row.ref \in Ref
  BY DEF ViewOk, Row
<1>2. Idle \in TaskState /\ \A stage \in Stage : [Idle EXCEPT !.stage = stage] \in TaskState
  BY DEF Idle, TaskState, Stage, Ref
<1>3. \A s \in TaskState, stage \in Stage : [s EXCEPT !.stage = stage] \in TaskState
  BY DEF TaskState
<1>4. {"got", "wait", "gone", "failed", "commit"} \subseteq Stage
  BY DEF Stage
<1>5. CASE OtherStep
  <2>1. CASE Close
    BY <1>2, <2>1 DEF Close, TasksAfterClose
  <2>2. CASE DownloadEnds
    <3>1. PICK e \in {"failed", "got", "gone"} :
             tasks' = [t \in Task |-> IF tasks[t].stage = "wait"
                                      THEN [tasks[t] EXCEPT !.stage = e] ELSE tasks[t]]
      BY <2>2 DEF DownloadEnds
    <3> QED
      BY <1>1, <1>3, <1>4, <3>1
  <2>3. CASE ApplySnapshot \/ Resume
    <3>1. load.ref \in Ref
      BY DEF ViewOk, Load
    <3> QED
      BY <1>1, <2>3, <3>1, StartType DEF ApplySnapshot, Resume
  <2>4. CASE PublishMessage
    <3>1. Committed.ref \in Ref
      BY <2>4, Operations DEF PublishMessage, Publishes, Committed, QueueOk, Saved
    <3> QED
      BY <1>1, <2>4, <3>1, StartType DEF PublishMessage
  <2>5. CASE SaveFails
    BY <1>1, <1>2, <2>5 DEF SaveFails
  <2>6. CASE PublishPath
    BY <1>1, <1>2, <2>6 DEF PublishPath
  <2>7. CASE UNCHANGED tasks
    BY <1>1, <2>7
  <2> QED
    BY <1>5, <2>1, <2>2, <2>3, <2>4, <2>5, <2>6, <2>7
       DEF OtherStep, view, Open, BuildSnapshot, Save, PublishRow, PublishAnswer, PublishUnseen,
           PhoneAnswers, RefetchExpiredMedia, Reveal, Redelivered
<1>6. ASSUME NEW t \in Task, TaskStep(t)
      PROVE  tasks' \in [Task -> TaskState]
  <2>1. CASE RetryDownload(t) \/ Refetched(t) \/ BatchRefetched(t)
    BY <1>1, <1>6, <2>1, StartType DEF RetryDownload, Refetched, BatchRefetched
  <2>2. CASE Ensure(t)
    BY <1>1, <1>2, <1>4, <1>6, <2>2 DEF Ensure
  <2>3. CASE CommitPath(t)
    <3>1. tasks' = [tasks EXCEPT ![t] = [tasks[t] EXCEPT !.stage = "commit"]]
      BY <2>3 DEF CommitPath
    <3> QED
      BY <1>1, <1>3, <1>4, <1>6, <3>1
  <2>4. CASE Report(t)
    BY <1>1, <1>2, <1>6, <2>4 DEF Report
  <2> QED
    BY <1>6, <2>1, <2>2, <2>3, <2>4 DEF TaskStep
<1> QED
  BY <1>5, <1>6, Steps

LEMMA ViewType ==
    ASSUME ViewOk, QueueOk, file \in BOOLEAN, Next
    PROVE  ViewOk'
<1> DEFINE Types == load' \in Load /\ kept' \in Presence /\ presence' \in Presence
<1>1. \A b : Locked(b) \in Presence
  BY DEF Locked, Presence
<1>2. load \in Load /\ kept \in Presence /\ presence \in Presence /\ "absent" \in Presence
  BY DEF ViewOk, Presence
<1>3. NoLoad \in Load /\ \A stage \in {"none", "build", "built", "done"} :
                            [NoLoad EXCEPT !.stage = stage] \in Load
  BY DEF NoLoad, Load, Ref
<1>4. ASSUME OtherStep
      PROVE  Types
  <2>1. CASE Open \/ Close
    BY <1>2, <1>3, <2>1 DEF Open, Close, view
  <2>2. CASE BuildSnapshot
    <3>1. UNCHANGED <<kept, presence>>
      BY <2>2 DEF BuildSnapshot, view
    <3>2. row.locked \in BOOLEAN /\ row.ref \in Ref
      BY DEF ViewOk, Row
    <3>3. load' \in Load
      BY <2>2, <3>2 DEF BuildSnapshot, Load
    <3> QED
      BY <1>2, <3>1, <3>3
  <2>3. CASE ApplySnapshot
    BY <1>1, <1>2, <1>3, <2>3 DEF ApplySnapshot, Merged
  <2>4. CASE PublishRow \/ PublishMessage \/ PublishPath \/ PublishAnswer
    <3>1. RowPublished /\ UNCHANGED load
      BY <2>4 DEF PublishRow, PublishMessage, PublishPath, PublishAnswer
    <3> QED
      BY <1>1, <1>2, <3>1 DEF RowPublished
  <2>5. CASE UNCHANGED <<load, kept, presence>>
    BY <1>2, <2>5
  <2> QED
    BY <1>4, <2>1, <2>2, <2>3, <2>4, <2>5
       DEF OtherStep, view, history, DownloadEnds, Save, SaveFails, PublishUnseen, Resume,
           PhoneAnswers, RefetchExpiredMedia, Reveal, Redelivered
<1>5. ASSUME NEW t \in Task, TaskStep(t)
      PROVE  Types
  BY <1>2, <1>5 DEF TaskStep, history, view, Ensure, CommitPath, Report, RetryDownload,
     Refetched, BatchRefetched
<1>6. Types
  BY <1>4, <1>5, Steps
<1> QED
  BY <1>6, RowType, TasksType DEF ViewOk

(* What is enqueued is an operation, and one save is published at a time.  *)
LEMMA QueueType ==
    ASSUME ViewOk, QueueOk, Next
    PROVE  QueueOk'
<1>1. ops \in Seq(Operation) /\ done \in Seq(Saved) /\ (done = <<>> \/ Len(done) = 1)
  BY DEF QueueOk
<1>2. CASE Save
  <2>1. PICK op \in Operation : op = Head(ops)
    BY <1>1, <1>2 DEF Save
  <2>2. row'.locked \in BOOLEAN
    BY RowType DEF Row
  <2>3. done' = <<[op |-> op, locked |-> row'.locked]>> /\ ops' = Tail(ops)
    BY <1>2, <2>1 DEF Save
  <2>4. [op |-> op, locked |-> row'.locked] \in Saved
    BY <2>2 DEF Saved
  <2> QED
    BY <1>1, <1>2, <2>3, <2>4 DEF QueueOk, Save
<1>3. CASE Close
  <2>1. \A k \in 1..Len(ops) : ops[k] \in Operation
    BY <1>1
  <2>2. ops' \in Seq(Operation)
    <3>1. PICK n \in Nat : n = Len(ops)
      BY <1>1
    <3>2. ops' = [k \in 1..n |-> IF ops[k].kind = "path" THEN [kind |-> "path", task |-> 0]
                                                        ELSE ops[k]]
      BY <1>3, <3>1 DEF Close
    <3>3. ops' \in [1..n -> Operation]
      BY <2>1, <3>1, <3>2, Operations
    <3> QED
      BY <3>1, <3>3
  <2>3. CASE done = <<>>
    <3>1. done' = <<>>
      BY <1>3, <2>3 DEF Close
    <3> QED
      BY <2>2, <3>1 DEF QueueOk
  <2>4. CASE done # <<>>
    <3>1. Len(done) = 1 /\ done[1] \in Saved /\ done[1].locked = row.locked
      BY <1>1, <2>4 DEF QueueOk
    <3> DEFINE new == IF done[1].op.kind = "path"
                      THEN [done[1] EXCEPT !.op = [kind |-> "path", task |-> 0]] ELSE done[1]
    <3>2. new \in Saved /\ new.locked = row.locked
      BY <3>1, Operations DEF Saved
    <3>3. done' = [k \in 1..1 |-> IF done[k].op.kind = "path"
                      THEN [done[k] EXCEPT !.op = [kind |-> "path", task |-> 0]] ELSE done[k]]
      BY <1>3, <3>1 DEF Close
    <3>4. done' = [k \in 1..1 |-> new]
      BY <3>3
    <3> HIDE DEF new
    <3>5. done' \in Seq(Saved) /\ Len(done') = 1 /\ done'[1] = new
      BY <3>2, <3>4
    <3>6. UNCHANGED row
      BY <1>3 DEF Close, stored
    <3> QED
      BY <2>2, <3>2, <3>5, <3>6 DEF QueueOk
  <2> QED
    BY <2>3, <2>4
<1>4. CASE OtherStep /\ ~Save /\ ~Close
  <2>1. UNCHANGED row
    BY <1>4 DEF OtherStep, stored, Open, BuildSnapshot, ApplySnapshot,
       DownloadEnds, SaveFails, PublishRow, PublishMessage, PublishPath, PublishAnswer,
       PublishUnseen, Resume, PhoneAnswers, RefetchExpiredMedia, Reveal, Redelivered
  <2>2. \/ UNCHANGED ops
        \/ ops # <<>> /\ ops' = Tail(ops)
        \/ \E op \in Operation : ops' = Append(ops, op)
    <3>1. CASE UNCHANGED ops
      BY <3>1
    <3>2. CASE SaveFails
      BY <3>2 DEF SaveFails
    <3>3. CASE PhoneAnswers \/ RefetchExpiredMedia \/ Reveal
      BY <3>3, Operations DEF PhoneAnswers, RefetchExpiredMedia, Reveal
    <3>4. CASE \E r \in Ref : Redelivered(r)
      BY <3>4, Operations DEF Redelivered
    <3> QED
      BY <1>4, <3>1, <3>2, <3>3, <3>4 DEF OtherStep, queue, Open, BuildSnapshot, ApplySnapshot,
         DownloadEnds, PublishRow, PublishMessage, PublishPath, PublishAnswer, PublishUnseen,
         Resume
  <2>3. UNCHANGED done \/ done' = <<>>
    <3>1. CASE PublishRow \/ PublishMessage \/ PublishPath \/ PublishAnswer \/ PublishUnseen
      BY <3>1 DEF PublishRow, PublishMessage, PublishPath, PublishAnswer, PublishUnseen, Publishes
    <3>2. CASE Open \/ BuildSnapshot \/ ApplySnapshot \/ DownloadEnds \/ Resume
      BY <3>2 DEF queue, Open, BuildSnapshot, ApplySnapshot, DownloadEnds, Resume
    <3>3. CASE SaveFails \/ PhoneAnswers \/ RefetchExpiredMedia \/ Reveal
      BY <3>3 DEF SaveFails, PhoneAnswers, RefetchExpiredMedia, Reveal
    <3>4. CASE \E r \in Ref : Redelivered(r)
      BY <3>4 DEF Redelivered
    <3> QED
      BY <1>4, <3>1, <3>2, <3>3, <3>4 DEF OtherStep
  <2>4. ops' \in Seq(Operation)
    <3>1. CASE UNCHANGED ops
      BY <1>1, <3>1
    <3>2. CASE ops # <<>> /\ ops' = Tail(ops)
      BY <1>1, <3>2
    <3>3. CASE \E op \in Operation : ops' = Append(ops, op)
      BY <1>1, <3>3
    <3> QED
      BY <2>2, <3>1, <3>2, <3>3
  <2>5. CASE done' = <<>>
    BY <2>4, <2>5 DEF QueueOk
  <2>6. CASE UNCHANGED done
    BY <2>1, <2>4, <2>6 DEF QueueOk
  <2> QED
    BY <2>3, <2>5, <2>6
<1>5. ASSUME NEW t \in Task, TaskStep(t)
      PROVE  QueueOk'
  <2>1. UNCHANGED <<row, done>>
    BY <1>5 DEF TaskStep, stored, queue, Ensure, CommitPath, Report, RetryDownload,
       Refetched, BatchRefetched
  <2>2. UNCHANGED ops \/ \E op \in Operation : ops' = Append(ops, op)
    BY <1>5, Operations DEF TaskStep, queue, Ensure, CommitPath, Report, RetryDownload,
       Refetched, BatchRefetched
  <2> QED
    BY <1>1, <2>1, <2>2 DEF QueueOk
<1> QED
  BY <1>2, <1>3, <1>4, <1>5, Steps

LEMMA AskStep ==
    ASSUME AskInv, Next
    PROVE  AskInv'
<1>1. CASE OtherStep
  <2>1. UNCHANGED <<attempted, asks>>
    BY <1>1 DEF OtherStep, outside, Open, Close, BuildSnapshot, ApplySnapshot,
       DownloadEnds, Save, SaveFails, PublishRow, PublishMessage, PublishPath, PublishAnswer,
       PublishUnseen, Resume, PhoneAnswers, RefetchExpiredMedia, Reveal, Redelivered
  <2> QED
    BY <2>1, Zenon DEF AskInv
<1>2. ASSUME NEW t \in Task, TaskStep(t)
      PROVE  AskInv'
  <2>1. \/ UNCHANGED <<attempted, asks>>
        \/ ~attempted /\ attempted' = TRUE /\ asks' = asks + 1
    BY <1>2 DEF TaskStep, outside, Ensure, CommitPath, Report, RetryDownload, Refetched,
       BatchRefetched, MayAsk
  <2>2. CASE UNCHANGED <<attempted, asks>>
    BY <2>2, Zenon DEF AskInv
  <2>3. CASE ~attempted /\ attempted' = TRUE /\ asks' = asks + 1
    BY <2>3 DEF AskInv
  <2> QED
    BY <2>1, <2>2, <2>3
<1> QED
  BY <1>1, <1>2, Steps

LEMMA ClosedStep ==
    ASSUME ViewOk, QueueOk, open \in BOOLEAN, ClosedInv, Next
    PROVE  ClosedInv'
<1>1. CASE open
  <2>1. CASE Close
    BY <2>1 DEF Close, NoLoad, TasksAfterClose, Idle, ClosedInv
  <2>2. CASE ~Close
    <3>1. UNCHANGED open \/ open' = TRUE
      BY <2>2, Steps DEF OtherStep, TaskStep, view, Open, BuildSnapshot, ApplySnapshot,
         DownloadEnds, Save, SaveFails, PublishRow, PublishMessage, PublishPath, PublishAnswer,
         PublishUnseen, Resume, PhoneAnswers, RefetchExpiredMedia, Reveal, Redelivered,
         Ensure, CommitPath, Report, RetryDownload, Refetched, BatchRefetched
    <3> QED
      BY <1>1, <3>1 DEF ClosedInv
  <2> QED
    BY <2>1, <2>2
<1>2. CASE ~open
  <2>1. /\ presence = "absent" /\ kept = "absent" /\ load.stage = "none" /\ ~path
        /\ ~refetch /\ ~batch /\ ~resume
        /\ \A t \in Task : tasks[t].stage \in {"none", "commit"}
    BY <1>2 DEF ClosedInv
  <2>2. \A t \in Task : ~TaskStep(t)
    BY <1>2, <2>1 DEF TaskStep, Ensure, CommitPath, Report, RetryDownload, Retryable, Refetched,
       BatchRefetched
  <2>3. \/ open'
        \/ DownloadEnds \/ Save \/ SaveFails \/ PublishUnseen \/ PhoneAnswers
        \/ \E r \in Ref : Redelivered(r)
    BY <1>2, <2>1, <2>2, Steps DEF OtherStep, Open, Close, BuildSnapshot, ApplySnapshot,
       Resume, RefetchExpiredMedia, Retryable, Reveal
  <2>4. CASE open'
    BY <2>4 DEF ClosedInv
  <2>5. CASE PublishUnseen \/ Save \/ PhoneAnswers \/ \E r \in Ref : Redelivered(r)
    BY <2>1, <2>5 DEF PublishUnseen, Save, PhoneAnswers, Redelivered, history, timers, view, ClosedInv
  <2>6. CASE DownloadEnds \/ SaveFails
    <3>1. UNCHANGED <<history, timers, presence, path>>
      BY <2>6 DEF DownloadEnds, SaveFails
    <3>2. \A t \in Task : tasks'[t].stage \in {"none", "commit"}
      BY <2>1, <2>6 DEF DownloadEnds, SaveFails, ViewOk, Idle
    <3> QED
      BY <2>1, <3>1, <3>2 DEF history, timers, ClosedInv
  <2> QED
    BY <2>3, <2>4, <2>5, <2>6
<1> QED
  BY <1>1, <1>2

-----------------------------------------------------------------------------
(* The Boolean variables, and the server and the cache. *)
Flags ==
    /\ file \in BOOLEAN /\ phone \in BOOLEAN /\ open \in BOOLEAN
    /\ path \in BOOLEAN /\ error \in BOOLEAN /\ registered \in BOOLEAN /\ asked \in BOOLEAN
    /\ refetch \in BOOLEAN /\ batch \in BOOLEAN /\ resume \in BOOLEAN
    /\ alive \subseteq Ref /\ inflight \in Ref \cup {0}

LEMMA PublicationFlags ==
    ASSUME ViewOk, QueueOk, Flags, PublishRow \/ PublishMessage \/ PublishPath \/ PublishAnswer
    PROVE  Flags'
<1>1. UNCHANGED <<file, phone, open, asked, refetch, batch, alive, inflight>>
  BY DEF PublishRow, PublishMessage, PublishPath, PublishAnswer, stored, outside, timers
<1>2. path' \in BOOLEAN /\ error' \in BOOLEAN /\ resume' \in BOOLEAN
  <2>1. PathPublished \in BOOLEAN
    BY Zenon DEF PathPublished
  <2> QED
    BY <2>1, Zenon DEF Flags, PublishRow, PublishMessage, PublishPath, PublishAnswer, timers
<1>3. registered' \in BOOLEAN
  BY Zenon DEF Flags, PublishRow, PublishMessage, PublishPath, PublishAnswer, Start
<1> QED
  BY <1>1, <1>2, <1>3 DEF Flags

LEMMA FlagsStep ==
    ASSUME ViewOk, QueueOk, Flags, Next
    PROVE  Flags'
<1>1. CASE OtherStep
  <2>1. CASE PublishRow \/ PublishMessage \/ PublishPath \/ PublishAnswer
    BY <2>1, PublicationFlags
  <2>2. CASE Open
    BY <2>2, Zenon DEF Flags, Open, stored, outside, timers
  <2>8. CASE Close
    BY <2>8, Zenon DEF Flags, Close, stored, outside
  <2>9. CASE Resume
    BY <2>9, Zenon DEF Flags, Resume, Start, stored, outside
  <2>3. CASE ApplySnapshot
    <3>1. path' \in BOOLEAN
      BY <2>3, Zenon DEF ApplySnapshot, PathAfterLoad
    <3> QED
      BY <2>3, <3>1, Zenon DEF Flags, ApplySnapshot, Start, stored, outside
  <2>4. CASE DownloadEnds
    <3>1. file' \in BOOLEAN
      BY <2>4, Zenon DEF DownloadEnds
    <3> QED
      BY <2>4, <3>1 DEF Flags, DownloadEnds, timers
  <2>5. CASE Save
    <3>1. file' \in BOOLEAN
      BY <2>5, Zenon DEF Save
    <3> QED
      BY <2>5, <3>1, Zenon DEF Flags, Save, outside, timers, view
  <2>6. CASE SaveFails \/ PublishUnseen \/ BuildSnapshot \/ Reveal
             \/ \E r \in Ref : Redelivered(r)
    <3>1. UNCHANGED <<file, phone, alive, inflight, open, path, error, registered, asked, timers>>
      BY <2>6 DEF SaveFails, PublishUnseen, BuildSnapshot, Reveal, Redelivered,
         stored, outside, view
    <3> QED
      BY <3>1 DEF Flags, timers
  <2>7. CASE PhoneAnswers \/ RefetchExpiredMedia
    BY <2>7 DEF Flags, PhoneAnswers, RefetchExpiredMedia, stored, outside, timers, view
  <2> QED
    BY <1>1, <2>1, <2>2, <2>3, <2>4, <2>5, <2>6, <2>7, <2>8, <2>9 DEF OtherStep
<1>2. ASSUME NEW t \in Task, TaskStep(t)
      PROVE  Flags'
  <2>1. CASE Ensure(t)
    <3>1. tasks[t].ref \in Ref
      BY <1>2 DEF ViewOk, TaskState
    <3>2. inflight' \in Ref \cup {0}
      BY <2>1, <3>1 DEF Ensure, Flags
    <3> QED
      BY <2>1, <3>2, Zenon DEF Ensure, Flags, stored, timers
  <2>2. CASE CommitPath(t)
    BY <2>2, Zenon DEF CommitPath, Flags, stored, outside, timers
  <2>3. CASE Report(t)
    BY <2>3, Zenon DEF Report, Flags, stored, outside, timers
  <2>4. CASE RetryDownload(t) \/ Refetched(t) \/ BatchRefetched(t)
    BY <2>4, Zenon DEF RetryDownload, Refetched, BatchRefetched, Start, Flags, stored, outside, timers
  <2> QED
    BY <1>2, <2>1, <2>2, <2>3, <2>4 DEF TaskStep
<1> QED
  BY <1>1, <1>2, Steps

-----------------------------------------------------------------------------
(* Whoever holds a path has a file, unless the row is locked. *)
NoHolder ==
    /\ ~path /\ ~load.path
    /\ \A t \in Task : tasks[t].stage # "got"
    /\ \A k \in 1..Len(ops) : ops[k].kind # "path"
    /\ done # <<>> => done[1].op.kind # "path"

FileInv == row.locked \/ file \/ NoHolder

LEMMA LocksStay ==
    ASSUME ViewOk, QueueOk, Next
    PROVE  /\ row.locked => row'.locked
           /\ file => file' \/ row'.locked
<1>1. CASE Save
  <2>1. PICK op \in Operation : op = Head(ops)
    BY <1>1 DEF Save, QueueOk
  <2>2. row' = Applied(op) /\ file' = (file /\ ~(op.kind = "viewOnce" /\ ~row.locked /\ row.path))
    BY <1>1, <2>1 DEF Save
  <2>3. op.kind \in {"path", "expired", "refused", "valid", "retried", "message", "viewOnce"}
    BY DEF Operation
  <2>4. row \in Row
    BY DEF ViewOk
  <2>5. IF op.kind = "viewOnce" THEN row'.locked ELSE row'.locked = row.locked
    BY <2>2, <2>3, <2>4 DEF Applied, Row
  <2> QED
    BY <2>2, <2>5
<1>2. CASE ~Save
  <2>1. CASE DownloadEnds
    <3>1. UNCHANGED row
      BY <2>1 DEF DownloadEnds
    <3>2. file => file'
      BY <2>1, Zenon DEF DownloadEnds
    <3> QED
      BY <3>1, <3>2
  <2>2. CASE OtherStep /\ ~DownloadEnds
    <3>1. UNCHANGED <<row, file>>
      BY <1>2, <2>2 DEF OtherStep, stored, Open, Close, BuildSnapshot, ApplySnapshot,
         SaveFails, PublishRow, PublishMessage, PublishPath, PublishAnswer,
         PublishUnseen, Resume, PhoneAnswers, RefetchExpiredMedia, Reveal, Redelivered
    <3> QED
      BY <3>1
  <2>3. ASSUME NEW t \in Task, TaskStep(t)
        PROVE  UNCHANGED <<row, file>>
    BY <2>3 DEF TaskStep, stored, Ensure, CommitPath, Report, RetryDownload, Refetched,
       BatchRefetched
  <2> QED
    BY <2>1, <2>2, <2>3, Steps
<1> QED
  BY <1>1, <1>2

LEMMA FileStep ==
    ASSUME ViewOk, QueueOk, Flags, FileInv, Next
    PROVE  FileInv'
<1> SUFFICES ASSUME ~row'.locked, ~file'
             PROVE  NoHolder'
  BY DEF FileInv
<1>1. ~file /\ NoHolder
  BY LocksStay DEF FileInv
<1>2. /\ ~path /\ ~load.path /\ (\A t \in Task : tasks[t].stage # "got")
      /\ (\A k \in 1..Len(ops) : ops[k].kind # "path")
      /\ (done # <<>> => done[1].op.kind # "path")
      /\ ops \in Seq(Operation) /\ tasks \in [Task -> TaskState]
  BY <1>1 DEF NoHolder, QueueOk, ViewOk
<1>3. ~path' /\ ~load'.path
  <2>1. \A s : [NoLoad EXCEPT !.stage = s].path = FALSE
    BY DEF NoLoad
  <2>2. CASE Open \/ Close
    BY <1>2, <2>1, <2>2 DEF Open, Close, view, NoLoad
  <2>3. CASE BuildSnapshot
    BY <1>1, <1>2, <2>3 DEF BuildSnapshot, view, Flags
  <2>4. CASE ApplySnapshot
    BY <1>2, <2>1, <2>4 DEF ApplySnapshot, PathAfterLoad
  <2>5. CASE PublishRow \/ PublishMessage \/ PublishAnswer
    BY <1>2, <2>5 DEF PublishRow, PublishMessage, PublishAnswer, PathPublished
  <2>6. CASE PublishPath
    BY <1>2, <2>6 DEF PublishPath, Publishes, Committed
  <2>7. CASE UNCHANGED <<path, load>>
    BY <1>2, <2>7
  <2>8. ASSUME NEW t \in Task, TaskStep(t)
        PROVE  UNCHANGED <<path, load>>
    BY <2>8 DEF TaskStep, history, view, Ensure, CommitPath, Report, RetryDownload, Refetched,
       BatchRefetched
  <2> QED
    BY <2>2, <2>3, <2>4, <2>5, <2>6, <2>7, <2>8, Steps
       DEF OtherStep, history, view, DownloadEnds, Save, SaveFails, PublishUnseen, Resume,
           PhoneAnswers, RefetchExpiredMedia, Reveal, Redelivered
<1>4. ASSUME NEW t \in Task
      PROVE  tasks'[t].stage # "got"
  <2>1. \A u \in Task : \A r : Start(u, r) => tasks'[t].stage # "got"
    BY <1>2 DEF Start
  <2>2. CASE UNCHANGED tasks
    BY <1>2, <2>2
  <2>3. CASE Close \/ SaveFails \/ PublishPath
    BY <1>2, <2>3 DEF Close, TasksAfterClose, SaveFails, PublishPath, Idle
  <2>4. CASE ApplySnapshot \/ PublishMessage \/ Resume
    BY <1>2, <2>1, <2>4 DEF ApplySnapshot, PublishMessage, Resume
  <2>5. CASE DownloadEnds
    <3>1. PICK e \in {"failed", "got", "gone"} :
             /\ file' = (file \/ e = "got")
             /\ tasks' = [u \in Task |-> IF tasks[u].stage = "wait"
                                         THEN [tasks[u] EXCEPT !.stage = e] ELSE tasks[u]]
      BY <2>5 DEF DownloadEnds
    <3>2. e # "got"
      BY <3>1, Zenon
    <3>3. tasks'[t] = IF tasks[t].stage = "wait" THEN [tasks[t] EXCEPT !.stage = e] ELSE tasks[t]
      BY <3>1
    <3> QED
      BY <1>2, <3>2, <3>3 DEF TaskState
  <2>6. ASSUME NEW u \in Task, TaskStep(u)
        PROVE  tasks'[t].stage # "got"
    <3>1. CASE Ensure(u)
      BY <1>1, <1>2, <3>1 DEF Ensure, Idle
    <3>2. CASE CommitPath(u)
      BY <1>2, <3>2 DEF CommitPath
    <3>3. CASE Report(u)
      BY <1>2, <3>3 DEF Report, Idle
    <3>4. CASE RetryDownload(u) \/ Refetched(u) \/ BatchRefetched(u)
      BY <2>1, <2>6, <3>4 DEF RetryDownload, Refetched, BatchRefetched
    <3> QED
      BY <2>6, <3>1, <3>2, <3>3, <3>4 DEF TaskStep
  <2> QED
    BY <2>2, <2>3, <2>4, <2>5, <2>6, Steps
       DEF OtherStep, view, Open, BuildSnapshot, Save, PublishRow, PublishAnswer, PublishUnseen,
           PhoneAnswers, RefetchExpiredMedia, Reveal, Redelivered
<1>5. ASSUME NEW k \in 1..Len(ops')
      PROVE  ops'[k].kind # "path"
  <2>1. CASE UNCHANGED ops
    BY <1>2, <1>5, <2>1
  <2>2. CASE ops # <<>> /\ ops' = Tail(ops)
    <3>1. Len(ops') = Len(ops) - 1 /\ Len(ops) \in Nat
      BY <1>2, <2>2
    <3>2. k + 1 \in 1..Len(ops) /\ ops'[k] = ops[k + 1]
      BY <1>2, <1>5, <2>2, <3>1
    <3> QED
      BY <1>2, <3>2
  <2>3. ASSUME NEW op, op.kind # "path", ops' = Append(ops, op)
        PROVE  ops'[k].kind # "path"
    <3>1. Len(ops') = Len(ops) + 1 /\ ops'[Len(ops) + 1] = op
          /\ \A j \in 1..Len(ops) : ops'[j] = ops[j]
      BY <1>2, <2>3
    <3>2. k \in 1..Len(ops) \/ k = Len(ops) + 1
      BY <1>2, <1>5, <3>1
    <3> QED
      BY <1>2, <2>3, <3>1, <3>2
  <2>4. CASE Close
    <3>1. ops' = [j \in 1..Len(ops) |-> IF ops[j].kind = "path" THEN [kind |-> "path", task |-> 0]
                                                              ELSE ops[j]]
      BY <2>4 DEF Close
    <3>2. k \in 1..Len(ops)
      BY <1>2, <1>5, <3>1
    <3> QED
      BY <1>2, <3>1, <3>2
  <2>5. CASE OtherStep /\ ~Close
    <3>1. CASE Save \/ SaveFails
      BY <2>2, <3>1 DEF Save, SaveFails
    <3>2. CASE PhoneAnswers \/ RefetchExpiredMedia \/ Reveal
      BY <2>3, <3>2 DEF PhoneAnswers, RefetchExpiredMedia, Reveal, Op
    <3>3. CASE \E r \in Ref : Redelivered(r)
      BY <2>3, <3>3 DEF Redelivered
    <3> QED
      BY <2>1, <2>5, <3>1, <3>2, <3>3 DEF OtherStep, queue, Open, BuildSnapshot, ApplySnapshot,
         DownloadEnds, PublishRow, PublishMessage, PublishPath, PublishAnswer, PublishUnseen,
         Resume
  <2>6. ASSUME NEW t \in Task, TaskStep(t)
        PROVE  ops'[k].kind # "path"
    <3>1. ~CommitPath(t)
      BY <1>2, <2>6 DEF CommitPath
    <3>2. CASE Report(t) \/ RetryDownload(t) \/ BatchRefetched(t)
      BY <2>1, <2>3, <3>2 DEF Report, RetryDownload, BatchRefetched, Op
    <3> QED
      BY <2>1, <2>6, <3>1, <3>2 DEF TaskStep, Ensure, Refetched, queue
  <2> QED
    BY <2>4, <2>5, <2>6, Steps
<1>6. done' # <<>> => done'[1].op.kind # "path"
  <2>1. CASE Save
    <3>1. ops # <<>> /\ done'[1].op = Head(ops)
      BY <2>1 DEF Save
    <3> QED
      BY <1>2, <3>1
  <2>2. CASE Close
    <3>1. CASE done = <<>>
      BY <2>2, <3>1 DEF Close
    <3>2. CASE done # <<>>
      <4>1. Len(done) = 1
        BY <3>2 DEF QueueOk
      <4>2. done' = [j \in 1..1 |-> IF done[j].op.kind = "path"
                      THEN [done[j] EXCEPT !.op = [kind |-> "path", task |-> 0]] ELSE done[j]]
        BY <2>2, <4>1 DEF Close
      <4>3. done'[1] = done[1]
        BY <1>2, <3>2, <4>2
      <4> QED
        BY <1>2, <3>2, <4>3
    <3> QED
      BY <3>1, <3>2
  <2>3. CASE OtherStep /\ ~Save /\ ~Close
    <3>1. UNCHANGED done \/ done' = <<>>
      BY <2>3 DEF OtherStep, queue, Open, BuildSnapshot, ApplySnapshot, Publishes,
         DownloadEnds, SaveFails, PublishRow, PublishMessage, PublishPath, PublishAnswer,
         PublishUnseen, Resume, PhoneAnswers, RefetchExpiredMedia, Reveal, Redelivered
    <3> QED
      BY <1>2, <3>1
  <2>4. ASSUME NEW t \in Task, TaskStep(t)
        PROVE  UNCHANGED done
    BY <2>4 DEF TaskStep, queue, Ensure, CommitPath, Report, RetryDownload, Refetched,
       BatchRefetched
  <2> QED
    BY <1>2, <2>1, <2>2, <2>3, <2>4, Steps
<1> QED
  BY <1>3, <1>4, <1>5, <1>6 DEF NoHolder

-----------------------------------------------------------------------------
(* The conversation knows that the row is locked, or is about to hear.     *)
Untold == done # <<>> /\ done[1].op.kind = "viewOnce"

Knows ==
    /\ presence # "shown" /\ kept # "shown"
    /\ load.stage = "built" => load.locked \/ kept = "locked"

LockInv ==
    /\ load.stage \notin {"build", "built"} => kept = "absent"
    /\ row.locked /\ ~Untold => Knows

(* What is published tells it. *)
LEMMA PublicationTells ==
    ASSUME QueueOk, LockInv, PublishRow \/ PublishMessage \/ PublishPath \/ PublishAnswer
    PROVE  LockInv' /\ UNCHANGED row
<1>1. RowPublished /\ UNCHANGED <<row, load>>
  BY DEF PublishRow, PublishMessage, PublishPath, PublishAnswer, stored
<1>2. done # <<>> /\ done[1].locked = row.locked
  BY DEF QueueOk, PublishRow, PublishMessage, PublishPath, PublishAnswer, Publishes
<1>3. load'.stage \notin {"build", "built"} => kept' = "absent"
  BY <1>1 DEF RowPublished, LockInv
<1>4. row.locked => Knows'
  <2> SUFFICES ASSUME row.locked PROVE Knows'
    OBVIOUS
  <2>1. Locked(done[1].locked) = "locked"
    BY <1>2 DEF Locked
  <2>2. presence' # "shown"
    BY <1>1, <2>1 DEF RowPublished
  <2>3. IF load.stage \in {"build", "built"} THEN kept' = "locked" ELSE kept' = "absent"
    BY <1>1, <2>1 DEF RowPublished, LockInv
  <2> QED
    BY <1>1, <2>2, <2>3 DEF Knows
<1> QED
  BY <1>1, <1>3, <1>4 DEF LockInv

LEMMA LockStep ==
    ASSUME ViewOk, QueueOk, Flags, ClosedInv, LockInv, Next
    PROVE  LockInv'
<1>1. CASE Open \/ Close
  <2>1. /\ presence' = "absent" /\ kept' = "absent" /\ load'.stage # "built"
    BY <1>1 DEF Open, Close, NoLoad, ClosedInv
  <2> QED
    BY <2>1 DEF LockInv, Knows
<1>2. CASE BuildSnapshot
  <2>1. UNCHANGED <<row, done, kept, presence>> /\ load.stage = "build"
        /\ load'.stage = "built" /\ load'.locked = row.locked
    BY <1>2 DEF BuildSnapshot, stored, queue, view
  <2> QED
    BY <2>1 DEF LockInv, Knows, Untold
<1>3. CASE ApplySnapshot
  <2>1. UNCHANGED <<row, done>> /\ load.stage = "built" /\ load'.stage = "done"
        /\ kept' = "absent" /\ presence' = Merged
    BY <1>3 DEF ApplySnapshot, stored, queue, NoLoad
  <2>2. row.locked /\ ~Untold => Merged # "shown"
    BY <2>1 DEF LockInv, Knows, Merged, Locked
  <2> QED
    BY <2>1, <2>2 DEF LockInv, Knows, Untold
<1>4. CASE open /\ (PublishRow \/ PublishMessage \/ PublishPath \/ PublishAnswer)
  BY <1>4, PublicationTells
<1>5. CASE ~open /\ PublishUnseen
  <2>1. UNCHANGED <<row, load, kept, presence>> /\ done # <<>> /\ done' = <<>>
    BY <1>5 DEF PublishUnseen, stored, history, view
  <2>2. CASE open
    <3>1. ~Untold
      BY <1>5, <2>2 DEF Untold, Committed
    <3> QED
      BY <2>1, <3>1 DEF LockInv, Knows
  <2>3. CASE ~open
    BY <2>1, <2>3 DEF LockInv, Knows, ClosedInv
  <2> QED
    BY <2>2, <2>3 DEF Flags
<1>6. CASE Save
  <2>1. UNCHANGED <<load, kept, presence>> /\ done = <<>> /\ ops # <<>>
    BY <1>6 DEF Save, history, view
  <2>2. PICK op \in Operation : op = Head(ops) /\ row' = Applied(op) /\ done'[1].op = op
                                /\ done' # <<>>
    BY <1>6 DEF Save, QueueOk
  <2>3. CASE op.kind = "viewOnce"
    BY <2>1, <2>2, <2>3 DEF LockInv, Untold
  <2>4. CASE op.kind # "viewOnce"
    <3>1. op.kind \in {"path", "expired", "refused", "valid", "retried", "message", "viewOnce"}
      BY DEF Operation
    <3>2. row'.locked = row.locked
      BY <2>2, <2>4, <3>1 DEF Applied, ViewOk, Row
    <3> QED
      BY <2>1, <3>2 DEF LockInv, Knows, Untold
  <2> QED
    BY <2>3, <2>4
<1>7. CASE UNCHANGED <<row, done, load, kept, presence>>
  BY <1>7 DEF LockInv, Knows, Untold
<1>8. ASSUME NEW t \in Task, TaskStep(t)
      PROVE  UNCHANGED <<row, done, load, kept, presence>>
  BY <1>8 DEF TaskStep, stored, queue, history, view, Ensure, CommitPath, Report, RetryDownload,
     Refetched, BatchRefetched
<1> QED
  BY <1>1, <1>2, <1>3, <1>4, <1>5, <1>6, <1>7, <1>8, Steps
     DEF OtherStep, stored, queue, history, view, DownloadEnds, SaveFails, Resume, PhoneAnswers,
         RefetchExpiredMedia, Reveal, Redelivered

(* A locked row that is shown has lost its path. *)
LEMMA ShownStep ==
    ASSUME ViewOk, QueueOk, ConsumedNotShown, Next
    PROVE  ConsumedNotShown'
<1> USE DEF ConsumedNotShown
<1>1. CASE PublishRow \/ PublishMessage \/ PublishAnswer
  <2>1. RowPublished /\ path' = PathPublished
    BY <1>1 DEF PublishRow, PublishMessage, PublishAnswer
  <2> QED
    BY <2>1 DEF RowPublished, PathPublished, Locked
<1>2. CASE PublishPath
  BY <1>2 DEF PublishPath, RowPublished, PathPublished, Locked
<1>3. CASE ApplySnapshot
  BY <1>3 DEF ApplySnapshot, PathAfterLoad
<1>4. CASE Close
  BY <1>4 DEF Close
<1>5. CASE UNCHANGED <<presence, path>>
  BY <1>5
<1>6. ASSUME NEW t \in Task, TaskStep(t)
      PROVE  UNCHANGED <<presence, path>>
  BY <1>6 DEF TaskStep, view, Ensure, CommitPath, Report, RetryDownload, Refetched, BatchRefetched
<1> QED
  BY <1>1, <1>2, <1>3, <1>4, <1>5, <1>6, Steps
     DEF OtherStep, view, Open, BuildSnapshot, DownloadEnds, Save, SaveFails, PublishUnseen,
         Resume, PhoneAnswers, RefetchExpiredMedia, Reveal, Redelivered

-----------------------------------------------------------------------------
(* A shown message has its file, an error, or a registered task; what the  *)
(* conversation takes for consumed is.                                     *)
SettleInv ==
    /\ presence = "locked" \/ kept = "locked" \/ load.locked => row.locked
    /\ load.stage = "built" /\ load.then = "none" => load.path
    /\ presence = "shown" /\ load.stage = "done" => path \/ error \/ registered

LEMMA TakenForLocked ==
    ASSUME ViewOk, QueueOk, Flags, SettleInv, Next
    PROVE  presence' = "locked" \/ kept' = "locked" \/ load'.locked => row'.locked
<1>1. CASE ~row.locked
  <2>1. presence # "locked" /\ kept # "locked" /\ ~load.locked
    BY <1>1 DEF SettleInv
  <2>2. NoLoad.locked = FALSE /\ \A st : [NoLoad EXCEPT !.stage = st].locked = FALSE
    BY DEF NoLoad
  <2>3. CASE Open \/ Close
    BY <2>1, <2>2, <2>3 DEF Open, Close, view
  <2>8. CASE BuildSnapshot
    <3>1. load'.locked = row.locked /\ UNCHANGED <<kept, presence>>
      BY <2>8 DEF BuildSnapshot, view
    <3> QED
      BY <1>1, <2>1, <3>1
  <2>4. CASE ApplySnapshot
    BY <2>1, <2>2, <2>4 DEF ApplySnapshot, Merged, Locked
  <2>5. CASE PublishRow \/ PublishMessage \/ PublishPath \/ PublishAnswer
    <3>1. RowPublished /\ UNCHANGED load /\ done # <<>>
      BY <2>5 DEF PublishRow, PublishMessage, PublishPath, PublishAnswer, Publishes
    <3>2. Locked(done[1].locked) = "shown"
      BY <1>1, <3>1 DEF QueueOk, Locked
    <3> QED
      BY <2>1, <3>1, <3>2 DEF RowPublished
  <2>6. CASE UNCHANGED <<load, kept, presence>>
    BY <2>1, <2>6
  <2>7. ASSUME NEW t \in Task, TaskStep(t)
        PROVE  UNCHANGED <<load, kept, presence>>
    BY <2>7 DEF TaskStep, history, view, Ensure, CommitPath, Report, RetryDownload, Refetched,
       BatchRefetched
  <2> QED
    BY <2>3, <2>4, <2>5, <2>6, <2>7, <2>8, Steps
       DEF OtherStep, history, view, DownloadEnds, Save, SaveFails, PublishUnseen, Resume,
           PhoneAnswers, RefetchExpiredMedia, Reveal, Redelivered
<1>2. CASE row.locked
  BY <1>2, LocksStay
<1> QED
  BY <1>1, <1>2

LEMMA SettleStep ==
    ASSUME ViewOk, QueueOk, Flags, SettleInv, Next
    PROVE  SettleInv'
<1> DEFINE Has == path \/ error \/ registered
<1>1. /\ (presence = "locked" => row.locked)
      /\ (load.stage = "built" /\ load.then = "none" => load.path)
      /\ (presence = "shown" /\ load.stage = "done" => Has)
  BY DEF SettleInv
<1>2. \A t, r : Start(t, r) => registered'
  BY DEF Start
<1>3. /\ (load'.stage = "built" /\ load'.then = "none" => load'.path)
      /\ (presence' = "shown" /\ load'.stage = "done" => Has')
  <2>1. CASE Open \/ Close
    BY <2>1 DEF Open, Close, NoLoad
  <2>2. CASE BuildSnapshot
    BY <2>2 DEF BuildSnapshot
  <2>3. CASE ApplySnapshot
    <3>1. load'.stage = "done" /\ presence' = Merged /\ path' = PathAfterLoad /\ load.stage = "built"
      BY <2>3 DEF ApplySnapshot, NoLoad
    <3> SUFFICES ASSUME Merged = "shown" PROVE Has'
      BY <3>1
    <3>2. path \/ load.path => path'
      BY <3>1 DEF PathAfterLoad
    <3>3. CASE load.then = "expired"
      BY <2>3, <3>3 DEF ApplySnapshot
    <3>4. CASE load.then = "none"
      BY <1>1, <3>1, <3>2, <3>4
    <3>5. CASE load.then = "download"
      <4>1. CASE registered \/ path
        BY <2>3, <3>2, <4>1, <1>2 DEF ApplySnapshot
      <4>2. CASE ~registered /\ ~path
        BY <1>2, <2>3, <3>5, <4>2 DEF ApplySnapshot
      <4> QED
        BY <4>1, <4>2
    <3> QED
      BY <3>3, <3>4, <3>5 DEF ViewOk, Load
  <2>4. CASE PublishRow \/ PublishMessage \/ PublishPath \/ PublishAnswer
    <3>1. RowPublished /\ UNCHANGED load /\ done # <<>> /\ done[1].locked = row.locked
      BY <2>4 DEF PublishRow, PublishMessage, PublishPath, PublishAnswer, Publishes, QueueOk
    <3> SUFFICES ASSUME presence' = "shown", load.stage = "done" PROVE Has'
      BY <1>1, <3>1
    <3>2. presence = "shown" \/ (Committed.kind = "message" /\ presence = "absent")
      <4>1. presence # "locked"
        <5>1. CASE presence = "locked"
          BY <1>1, <3>1, <5>1 DEF RowPublished, Locked
        <5> QED
          BY <5>1
      <4> QED
        BY <3>1, <4>1 DEF RowPublished, ViewOk, Presence
    <3>3. ~done[1].locked
      BY <3>1, <3>2 DEF RowPublished, Locked
    <3>4. CASE PublishMessage
      <4>1. path' = PathPublished /\ (~path /\ ~registered => registered')
        BY <1>2, <3>3, <3>4 DEF PublishMessage
      <4>2. registered => registered'
        BY <1>2, <3>4 DEF PublishMessage
      <4> QED
        BY <3>3, <4>1, <4>2 DEF PathPublished
    <3>5. CASE PublishPath
      BY <3>5 DEF PublishPath
    <3>6. CASE PublishRow \/ PublishAnswer
      <4>1. presence = "shown"
        BY <3>2, <3>6 DEF PublishRow, PublishAnswer, Publishes
      <4>2. path => path'
        BY <3>3, <3>6 DEF PublishRow, PublishAnswer, PathPublished
      <4>3. (error => error') /\ (registered => registered')
        BY <3>6 DEF PublishRow, PublishAnswer
      <4> QED
        BY <1>1, <4>1, <4>2, <4>3
    <3> QED
      BY <2>4, <3>4, <3>5, <3>6
  <2>5. CASE Resume
    BY <1>1, <1>2, <2>5 DEF Resume, history
  <2>6. CASE RefetchExpiredMedia
    BY <1>1, <2>6 DEF RefetchExpiredMedia, history
  <2>7. CASE UNCHANGED <<load, presence, path, error, registered>>
    BY <1>1, <2>7
  <2>8. ASSUME NEW t \in Task, TaskStep(t)
        PROVE  UNCHANGED <<load, presence>> /\ (Has => Has')
    <3>1. CASE Report(t)
      BY <3>1 DEF Report, history
    <3>2. CASE RetryDownload(t) \/ Refetched(t) \/ BatchRefetched(t)
      BY <1>2, <3>2 DEF RetryDownload, Refetched, BatchRefetched, history
    <3>3. CASE Ensure(t) \/ CommitPath(t)
      BY <3>3 DEF Ensure, CommitPath, history
    <3> QED
      BY <2>8, <3>1, <3>2, <3>3 DEF TaskStep
  <2>9. CASE \E t \in Task : TaskStep(t)
    BY <1>1, <2>8, <2>9
  <2> QED
    BY <2>1, <2>2, <2>3, <2>4, <2>5, <2>6, <2>7, <2>9, Steps
       DEF OtherStep, history, view, DownloadEnds, Save, SaveFails, PublishUnseen,
           PhoneAnswers, Reveal, Redelivered
<1> QED
  BY <1>3, TakenForLocked DEF SettleInv

-----------------------------------------------------------------------------
Inv ==
    /\ ViewOk /\ QueueOk /\ Flags /\ AskInv /\ ClosedInv
    /\ FileInv /\ LockInv /\ ConsumedNotShown /\ SettleInv

LEMMA InitInv == Init => Inv
<1> SUFFICES ASSUME Init PROVE Inv
  OBVIOUS
<1>1. ViewOk
  BY DEF Init, ViewOk, Row, Load, NoLoad, TaskState, Stage, Idle, Presence, Ref
<1>2. QueueOk
  BY DEF Init, QueueOk
<1>3. Flags
  BY DEF Init, Flags, Ref
<1>4. AskInv /\ ClosedInv
  BY DEF Init, AskInv, ClosedInv, NoLoad, Idle
<1>5. FileInv /\ LockInv /\ ConsumedNotShown /\ SettleInv
  BY DEF Init, FileInv, NoHolder, LockInv, NoLoad, Idle, ConsumedNotShown, SettleInv
<1> QED
  BY <1>1, <1>2, <1>3, <1>4, <1>5 DEF Inv

LEMMA StutterInv ==
    ASSUME Inv, UNCHANGED vars
    PROVE  Inv'
<1> USE DEF Inv, vars, stored, outside, queue, history, timers, view
<1>1. ViewOk' /\ QueueOk' /\ Flags' /\ ClosedInv'
  BY DEF ViewOk, QueueOk, Flags, ClosedInv
<1>2. AskInv'
  BY Zenon DEF AskInv
<1>3. FileInv' /\ LockInv' /\ ConsumedNotShown' /\ SettleInv'
  BY DEF FileInv, NoHolder, LockInv, Untold, Knows, ConsumedNotShown, SettleInv
<1> QED
  BY <1>1, <1>2, <1>3

(* The conversation's parts of the invariant hold in every reachable state. *)
THEOREM DownloadInvariant == Spec => []Inv
<1>1. ASSUME Inv, Next
      PROVE  Inv'
  <2>1. ViewOk /\ QueueOk /\ Flags /\ AskInv /\ ClosedInv /\ FileInv /\ LockInv
        /\ ConsumedNotShown /\ SettleInv /\ file \in BOOLEAN /\ open \in BOOLEAN
    BY <1>1 DEF Inv, Flags
  <2> QED
    BY <1>1, <2>1, ViewType, QueueType, FlagsStep, AskStep, ClosedStep, FileStep, LockStep,
       ShownStep, SettleStep DEF Inv
<1>2. Inv /\ [Next]_vars => Inv'
  BY <1>1, StutterInv
<1> QED
  BY InitInv, <1>2, PTL DEF Spec

(* The row, the queue of operations, the load and the tasks keep their     *)
(* types, and only tasks whose commit is under way outlive a conversation. *)
THEOREM DownloadTypes == Spec => []TypeOK
<1>1. Inv => TypeOK
  <2> SUFFICES ASSUME Inv PROVE TypeOK
    OBVIOUS
  <2>1. asks \in Nat
    BY DEF Inv, AskInv
  <2>2. attempted \in BOOLEAN
    BY DEF Inv, AskInv
  <2>3. \A k \in 1..Len(ops) : ops[k] \in Operation
    BY DEF Inv, QueueOk
  <2>4. \A k \in 1..Len(done) : done[k].op \in Operation /\ done[k].locked \in BOOLEAN
    <3>1. \A k \in 1..Len(done) : done[k] \in Saved
      BY DEF Inv, QueueOk
    <3> QED
      BY <3>1 DEF Saved
  <2>5. (\E t \in Task : tasks[t].stage \notin {"none", "commit"}) => open
    BY DEF Inv, ClosedInv
  <2>6. {file, phone, attempted, open, path, error, registered, asked,
         refetch, batch, resume} \subseteq BOOLEAN
    BY <2>2 DEF Inv, Flags
  <2> QED
    BY <2>1, <2>3, <2>4, <2>5, <2>6
       DEF Inv, TypeOK, ViewOk, Flags, Row, Load, TaskState
<1> QED
  BY DownloadInvariant, <1>1, PTL

(* tryRequestMediaRetry asks the phone at most once in a session, whatever *)
(* conversations and taps do.                                              *)
THEOREM PhoneAskedOnce == Spec => []AskedOnce
<1>1. Inv => AskedOnce
  BY DEF Inv, AskInv, AskedOnce
<1> QED
  BY DownloadInvariant, <1>1, PTL

(* Neither a stale snapshot nor a download that ends late gives a consumed *)
(* message its path back.                                                  *)
THEOREM ConsumedStayHidden == Spec => []ConsumedNotShown
<1>1. Inv => ConsumedNotShown
  BY DEF Inv
<1> QED
  BY DownloadInvariant, <1>1, PTL

(* The writer deletes the file of a consumed message before the            *)
(* conversation hears of it; once it has heard, no shown path is without   *)
(* its file.                                                               *)
THEOREM ShownFilesExist == Spec => []ShownFileExists
<1>1. Inv => ShownFileExists
  <2> SUFFICES ASSUME Inv, presence = "shown", path, done = <<>>
               PROVE  file
    BY DEF ShownFileExists
  <2>1. ~row.locked
    BY DEF Inv, LockInv, Untold, Knows
  <2> QED
    BY <2>1 DEF Inv, FileInv, NoHolder
<1> QED
  BY DownloadInvariant, <1>1, PTL

(* However tasks, retries and answers overlap, a shown message without its *)
(* file has an error or a registered task: none hangs unseen.              *)
THEOREM NoneHangsUnseen == Spec => []DownloadsSettle
<1>1. Inv => DownloadsSettle
  BY DEF Inv, SettleInv, DownloadsSettle
<1> QED
  BY DownloadInvariant, <1>1, PTL
=============================================================================
