------------------------------ MODULE Session ------------------------------
(***************************************************************************)
(* The session's write queue (ViewModels/SessionViewModel.swift): events   *)
(* are admitted into `pendingWrites`, drained in batches into the current  *)
(* MessageWriter and published when they are saved; local operations wait  *)
(* for the queue before they write; the session may end and be replaced.   *)
(*                                                                         *)
(* Everything here runs on the main actor, which is given up only at an    *)
(* `await` that really waits: for a timer, for a task, or for the writer.  *)
(* Each action is one uninterrupted run from such a point to the next.  A  *)
(* call of flushWrites that returns to its caller keeps the main actor, so *)
(* a process in "flushed" goes on before anything else does.               *)
(*                                                                         *)
(* An event stands for the operation it carries, numbered by admission;    *)
(* timer e is the flush task whose sleep the admission of event e began.   *)
(* Clients and writers are numbered by the session that made them.         *)
(***************************************************************************)
EXTENDS Integers, Sequences, FiniteSets

CONSTANTS
    Committer,   \* callers of SessionViewModel.commit
    Sender,      \* callers of recordOutgoing
    Sampler,     \* the history run, which flushes before it samples anchors
    Stop,        \* the call of stopSessionWork
    MaxEvents,   \* bound of the model: events admitted
    MaxCalls,    \* bound of the model: commits and sends
    MaxSessions  \* bound of the model: sessions, one after the other

Event == 1..MaxEvents
Generation == 1..MaxSessions
Caller == Committer \cup Sender \cup Sampler
Flusher == Caller \cup {Stop}
Process == Event \cup Flusher
None == 0

ASSUME SessionAssumption ==
    /\ MaxEvents \in Nat /\ MaxCalls \in Nat
    /\ MaxSessions \in Nat \ {0}
    /\ Committer \cap Sender = {} /\ Committer \cap Sampler = {}
    /\ Sender \cap Sampler = {}
    /\ Stop \notin Caller
    /\ Flusher \cap Int = {}

VARIABLES
    admitting,      \* admittingEvents
    client,         \* the session whose client is current, or None
    writer,         \* the session whose writer is current, or None
    stage,          \* run, stop, logout, restop, prepare
    pendingWrites,
    writeFlushTask, \* the timer it refers to, or None
    writing,
    pc,             \* where each process is
    awaits,         \* the timer a flushPendingWrites waits for
    batch,          \* the batch a drain took from the queue
    target,         \* the writer a drain holds on to
    source,         \* the client a caller began with
    captured,       \* the writer a caller took before its flush, or None
    admitted,       \* events admitted so far
    origin,         \* history: the session that admitted each event
    saved,          \* history: what writers saved, in order
    lost,           \* history: events of batches that could not be saved
    shown           \* history: what was published, in order, and to whom

session == <<admitting, client, writer, stage>>
queue == <<pendingWrites, writeFlushTask, writing, batch>>
history == <<saved, lost, shown>>
admission == <<admitted, origin>>
vars == <<session, queue, pc, awaits, target, source, captured, admission, history>>

Answers == {"drain saved", "drain failed"}
Step == {"idle", "sleeping", "drain", "flushed", "done", "network", "awaiting",
         "writing", "written", "history"} \cup Answers

TypeOK ==
    /\ admitting \in BOOLEAN
    /\ client \in Generation \cup {None}
    /\ writer \in Generation \cup {None}
    /\ stage \in {"run", "stop", "logout", "restop", "prepare"}
    /\ pendingWrites \in Seq(Event)
    /\ writeFlushTask \in Event \cup {None}
    /\ writing \in BOOLEAN
    /\ pc \in [Process -> Step]
    /\ awaits \in [Flusher -> Event \cup {None}]
    /\ batch \in [Process -> Seq(Event)]
    /\ target \in [Process -> Generation \cup {None}]
    /\ source \in [Caller -> Generation \cup {None}]
    /\ captured \in [Caller -> Generation \cup {None}]
    /\ admitted \in 0..MaxEvents
    /\ origin \in [Event -> Generation \cup {None}]
    /\ saved \in Seq([what: Event \cup Caller, by: Generation])
    /\ lost \subseteq Event
    /\ shown \in Seq([what: Event \cup Caller, to: Generation])

(* A first session that `prepare` has just finished setting up. *)
Init ==
    /\ admitting = TRUE
    /\ client = 1 /\ writer = 1
    /\ stage = "run"
    /\ pendingWrites = <<>>
    /\ writeFlushTask = None
    /\ writing = FALSE
    /\ pc = [p \in Process |-> "idle"]
    /\ awaits = [p \in Flusher |-> None]
    /\ batch = [p \in Process |-> <<>>]
    /\ target = [p \in Process |-> None]
    /\ source = [p \in Caller |-> None]
    /\ captured = [p \in Caller |-> None]
    /\ admitted = 0
    /\ origin = [e \in Event |-> None]
    /\ saved = <<>> /\ lost = {} /\ shown = <<>>

(* The main actor is not held by a call that just returned from flushWrites. *)
Free == \A p \in Flusher : pc[p] # "flushed"

Elements(s) == {s[k] : k \in 1..Len(s)}

-----------------------------------------------------------------------------
(* enqueue: the first event in an idle queue starts the batching timer. *)
Enqueue(e) ==
    /\ pendingWrites' = Append(pendingWrites, e)
    /\ IF writeFlushTask = None
       THEN writeFlushTask' = e /\ pc' = [pc EXCEPT ![e] = "sleeping"]
       ELSE UNCHANGED <<writeFlushTask, pc>>

Admit(by) ==
    /\ Free
    /\ admitted < MaxEvents
    /\ admitted' = admitted + 1
    /\ origin' = [origin EXCEPT ![admitted'] = by]
    /\ Enqueue(admitted')
    /\ UNCHANGED <<session, writing, batch, awaits, target, source, captured, history>>

(* receive: an event of the current client's stream, while admission is open *)
Receive == admitting /\ Admit(client)

(* purgeChat: the sidebar deletes a chat; admission is not asked. *)
LocalDelete == stage \in {"run", "stop"} /\ Admit(client)

(* Mutant: the end of a drain does not forget the timer that began it. *)
EndDrainKeepingTask(p) ==
    /\ writing' = FALSE
    /\ pc' = [pc EXCEPT ![p] = IF p \in Event THEN "done" ELSE "flushed"]
    /\ batch' = [batch EXCEPT ![p] = <<>>]
    /\ target' = [target EXCEPT ![p] = None]
    /\ UNCHANGED <<pendingWrites, writeFlushTask>>

(* What flushWrites does last: `defer`, and the return to its caller. *)
EndDrain(p) ==
    /\ writing' = FALSE
    /\ writeFlushTask' = None
    /\ pc' = [pc EXCEPT ![p] = IF p \in Event THEN "done" ELSE "flushed"]
    /\ batch' = [batch EXCEPT ![p] = <<>>]
    /\ target' = [target EXCEPT ![p] = None]
    /\ UNCHANGED pendingWrites

(* The head of its loop: take everything, and call the writer. *)
NextBatch(p) ==
    IF pendingWrites # <<>> /\ writer # None
    THEN /\ writing' = TRUE
         /\ batch' = [batch EXCEPT ![p] = pendingWrites]
         /\ pendingWrites' = <<>>
         /\ target' = [target EXCEPT ![p] = writer]
         /\ pc' = [pc EXCEPT ![p] = "drain"]
         /\ UNCHANGED writeFlushTask
    ELSE EndDrain(p)

(* Mutant: a timer drains although a drain is under way. *)
TimerFiresUnguarded(e) ==
    /\ Free
    /\ pc[e] = "sleeping"
    /\ NextBatch(e)
    /\ UNCHANGED <<session, awaits, source, captured, admission, history>>

(* A timer fires: `guard !writing`, then drain. *)
TimerFires(e) ==
    /\ Free
    /\ pc[e] = "sleeping"
    /\ IF writing
       THEN pc' = [pc EXCEPT ![e] = "done"] /\ UNCHANGED <<queue, target>>
       ELSE NextBatch(e)
    /\ UNCHANGED <<session, awaits, source, captured, admission, history>>

(* The second half of flushPendingWrites. *)
FlushWhatIsLeft(p) ==
    IF pendingWrites # <<>> /\ ~writing
    THEN NextBatch(p)
    ELSE pc' = [pc EXCEPT ![p] = "flushed"] /\ UNCHANGED <<queue, target>>

(* flushPendingWrites: wait for the flush task, then flush what is left. *)
FlushPendingWrites(p) ==
    /\ IF writeFlushTask # None /\ pc[writeFlushTask] # "done"
       THEN /\ pc' = [pc EXCEPT ![p] = "awaiting"]
            /\ awaits' = [awaits EXCEPT ![p] = writeFlushTask]
            /\ UNCHANGED <<queue, target>>
       ELSE /\ FlushWhatIsLeft(p)
            /\ UNCHANGED awaits

Woken(p) ==
    /\ Free
    /\ pc[p] = "awaiting"
    /\ pc[awaits[p]] = "done"
    /\ awaits' = [awaits EXCEPT ![p] = None]
    /\ FlushWhatIsLeft(p)
    /\ UNCHANGED <<session, source, captured, admission, history>>

(* The writer saves the batch of a drain, or throws and loses it. *)
WriterSavesBatch(p) ==
    /\ pc[p] = "drain"
    /\ saved' = saved \o [k \in 1..Len(batch[p]) |->
                            [what |-> batch[p][k], by |-> target[p]]]
    /\ pc' = [pc EXCEPT ![p] = "drain saved"]
    /\ UNCHANGED <<session, queue, awaits, target, source, captured, admission,
                   lost, shown>>

WriterThrowsBatch(p) ==
    /\ pc[p] = "drain"
    /\ lost' = lost \cup Elements(batch[p])
    /\ pc' = [pc EXCEPT ![p] = "drain failed"]
    /\ UNCHANGED <<session, queue, awaits, target, source, captured, admission,
                   saved, shown>>

SameSession(p) == writer = target[p]

(* Back on the main actor: publish, present, and go round the loop. *)
DrainPublishes(p) ==
    /\ Free
    /\ pc[p] = "drain saved"
    /\ IF SameSession(p)
       THEN /\ shown' = shown \o [k \in 1..Len(batch[p]) |->
                                    [what |-> batch[p][k], to |-> writer]]
            /\ NextBatch(p)
       ELSE EndDrain(p) /\ UNCHANGED shown
    /\ UNCHANGED <<session, awaits, source, captured, admission, saved, lost>>

DrainReportsError(p) ==
    /\ Free
    /\ pc[p] = "drain failed"
    /\ NextBatch(p)
    /\ UNCHANGED <<session, awaits, source, captured, admission, history>>

-----------------------------------------------------------------------------
(* The bound MaxCalls. *)
MayCall(p) ==
    p \in Sampler \/ Cardinality({q \in Committer \cup Sender : pc[q] # "idle"}) < MaxCalls

(* A send or another local operation starts with the client of the day ... *)
StartCall(p) ==
    /\ Free
    /\ pc[p] = "idle"
    /\ MayCall(p)
    /\ stage = "run"
    /\ source' = [source EXCEPT ![p] = client]
    /\ pc' = [pc EXCEPT ![p] = "network"]
    /\ UNCHANGED <<session, queue, awaits, target, captured, admission, history>>

(* Mutant: only admission is asked, not whose session it is. *)
SameClientAnyClient(p) == admitting

(* `guard admittingEvents, client === source`.  The history run is cancelled *)
(* by the stop that closes admission.                                       *)
SameClient(p) == admitting /\ client = source[p]

(* Every caller but the history run takes hold of the writer it will use.   *)
Captures(p) ==
    captured' = IF p \in Sampler THEN captured ELSE [captured EXCEPT ![p] = writer]

(* Mutant: the history run does not notice that it was cancelled. *)
CallReturnsUncancelled(p) ==
    /\ Free
    /\ pc[p] = "network"
    /\ SameClient(p) /\ writer # None
    /\ FlushPendingWrites(p)
    /\ Captures(p)
    /\ UNCHANGED <<session, source, admission, history>>

(* ... and comes back from the bridge, to the guards before the flush. *)
CallReturns(p) ==
    /\ Free
    /\ pc[p] = "network"
    /\ IF SameClient(p) /\ (p \in Sampler \/ writer # None)
       THEN FlushPendingWrites(p) /\ Captures(p)
       ELSE /\ pc' = [pc EXCEPT ![p] = "done"]
            /\ UNCHANGED <<queue, target, awaits, captured>>
    /\ UNCHANGED <<session, source, admission, history>>

(* The guards after the flush; only a commit asks for its writer again. *)
MayWrite(p) == SameClient(p) /\ (p \in Committer => writer = captured[p])

CallGoesOn(p) ==
    /\ pc[p] = "flushed"
    /\ p \in Caller
    /\ pc' = [pc EXCEPT ![p] = IF p \notin Sampler /\ MayWrite(p) THEN "writing"
                                                                 ELSE "done"]
    /\ UNCHANGED <<session, queue, awaits, target, source, captured, admission,
                   history>>

WriterSavesCall(p) ==
    /\ pc[p] = "writing"
    /\ saved' = Append(saved, [what |-> p, by |-> captured[p]])
    /\ pc' = [pc EXCEPT ![p] = "written"]
    /\ UNCHANGED <<session, queue, awaits, target, source, captured, admission,
                   lost, shown>>

WriterThrowsCall(p) ==
    /\ pc[p] = "writing"
    /\ pc' = [pc EXCEPT ![p] = "done"]
    /\ UNCHANGED <<session, queue, awaits, target, source, captured, admission,
                   history>>

(* Mutant: the result is published whatever became of the session. *)
MayPublishAlways(p) == TRUE

MayPublish(p) == /\ writer = captured[p]
                 /\ p \in Committer => client = source[p]

CallPublishes(p) ==
    /\ Free
    /\ pc[p] = "written"
    /\ shown' = IF MayPublish(p) THEN Append(shown, [what |-> p, to |-> writer])
                                 ELSE shown
    /\ pc' = [pc EXCEPT ![p] = "done"]
    /\ UNCHANGED <<session, queue, awaits, target, source, captured, admission,
                   saved, lost>>

-----------------------------------------------------------------------------
(* logout: stopSessionWork closes admission, cancels the history run ... *)
Logout ==
    /\ Free
    /\ stage = "run" /\ admitting
    /\ client < MaxSessions
    /\ admitting' = FALSE
    /\ stage' = "stop"
    /\ pc' = [pc EXCEPT ![Stop] = "history"]
    /\ UNCHANGED <<client, writer, queue, awaits, target, source, captured,
                   admission, history>>

(* ... waits for it to end, and flushes. *)
HistoryRunEnded ==
    /\ Free
    /\ pc[Stop] = "history"
    /\ \A p \in Sampler : pc[p] \in {"idle", "done"}
    /\ FlushPendingWrites(Stop)
    /\ UNCHANGED <<session, source, captured, admission, history>>

(* stopSessionWork returns: logout drops the writer and unlinks the device. *)
LogoutGoesOn ==
    /\ pc[Stop] = "flushed" /\ stage = "stop"
    /\ writer' = None
    /\ stage' = "logout"
    /\ pc' = [pc EXCEPT ![Stop] = "idle"]
    /\ UNCHANGED <<admitting, client, queue, awaits, target, source, captured,
                   admission,
                   history>>

(* boot: prepare calls stopSessionWork once more, with no writer. *)
Boot ==
    /\ Free
    /\ stage = "logout"
    /\ stage' = "restop"
    /\ FlushPendingWrites(Stop)
    /\ UNCHANGED <<admitting, client, writer, source, captured, admission, history>>

PrepareGoesOn ==
    /\ pc[Stop] = "flushed" /\ stage = "restop"
    /\ client' = client + 1
    /\ writer' = client + 1
    /\ stage' = "prepare"
    /\ pc' = [pc EXCEPT ![Stop] = "idle"]
    /\ UNCHANGED <<admitting, queue, awaits, target, source, captured, admission,
                   history>>

(* The store is repaired and the sidebar loaded: admission opens. *)
Prepared ==
    /\ Free
    /\ stage = "prepare"
    /\ stage' = "run"
    /\ admitting' = TRUE
    /\ UNCHANGED <<client, writer, queue, pc, awaits, target, source, captured,
                   admission,
                   history>>

-----------------------------------------------------------------------------
(* All events and calls of the model are used up and nothing is under way. *)
Finished ==
    /\ stage = "run" /\ client = MaxSessions /\ admitted = MaxEvents
    /\ \A p \in Process : pc[p] \in {"idle", "done"}
    /\ \A p \in Caller : pc[p] = "done" \/ ~MayCall(p)
    /\ UNCHANGED vars

Next ==
    \/ Receive \/ LocalDelete
    \/ \E e \in Event : TimerFires(e)
    \/ \E p \in Flusher : Woken(p)
    \/ \E p \in Process :
          \/ WriterSavesBatch(p) \/ WriterThrowsBatch(p)
          \/ DrainPublishes(p) \/ DrainReportsError(p)
    \/ \E p \in Caller :
          \/ StartCall(p) \/ CallReturns(p) \/ CallGoesOn(p)
          \/ WriterSavesCall(p) \/ WriterThrowsCall(p) \/ CallPublishes(p)
    \/ Logout \/ HistoryRunEnded \/ LogoutGoesOn
    \/ Boot \/ PrepareGoesOn \/ Prepared
    \/ Finished

(* Timers fire, tasks that may run do run, the writer answers every call,   *)
(* and a bridge call returns: the history run's, and the one that unlinks   *)
(* the device, which logout waits for before it boots.                      *)
Fairness ==
    /\ \A e \in Event : WF_vars(TimerFires(e))
    /\ \A p \in Flusher : WF_vars(Woken(p))
    /\ \A p \in Process :
          /\ WF_vars(WriterSavesBatch(p) \/ WriterThrowsBatch(p))
          /\ WF_vars(DrainPublishes(p) \/ DrainReportsError(p))
    /\ \A p \in Caller : WF_vars(CallGoesOn(p))
    /\ \A p \in Sampler : WF_vars(CallReturns(p))
    /\ WF_vars(HistoryRunEnded \/ LogoutGoesOn \/ Boot \/ PrepareGoesOn \/ Prepared)

Spec == Init /\ [][Next]_vars

(* The main queue is first in, first out: a task that was woken runs before *)
(* a timer whose sleep had not ended by then.                              *)
WokenFirst ==
    (\E p \in Flusher : pc[p] = "awaiting" /\ pc[awaits[p]] = "done")
        => \A e \in Event : pc[e] = "sleeping" => pc'[e] = "sleeping"

FifoSpec == Init /\ [][Next /\ WokenFirst]_vars
FairSpec == Spec /\ Fairness

-----------------------------------------------------------------------------
Waiting(e) == e \in Elements(pendingWrites)
Draining(e) == \E p \in Process : e \in Elements(batch[p]) /\ pc[p] = "drain"

(* The events that were kept or dropped: all but those in the queue and in *)
(* the batch the writer has.                                               *)
WithWriter ==
    IF \E p \in Process : pc[p] = "drain"
    THEN Len(batch[CHOOSE p \in Process : pc[p] = "drain"]) ELSE 0

Settled == admitted - Len(pendingWrites) - WithWriter

Log == INSTANCE EventLog WITH Local <- Caller, Owner <- Generation,
           accepted <- admitted, settled <- Settled, kept <- saved, dropped <- lost

(* "Messages and durable updates share one queue ... A source save must    *)
(* succeed before the session publishes its result" (docs/ARCHITECTURE.md): *)
(* however timers, callers, a logout and a restart interleave their drains,*)
(* the queue is a log.  Every event is settled once and in the order of    *)
(* admission, kept or dropped with its whole batch; only what was saved is *)
(* shown, once, in order, and to the session that saved it.                *)
ImplementsLog == Log!Spec

(* A commit or a send that waited for the bridge and for a flush writes     *)
(* into the store through the writer of the session it was begun in, never  *)
(* through one that a logout and a new session put in its place: the guards *)
(* ask for the client, and the writer is taken before the flush.            *)
CallsStayInTheirSession ==
    \A k \in 1..Len(saved) : saved[k].what \in Caller => saved[k].by = source[saved[k].what]

(* While the first session lasts, every admitted event reaches the writer: *)
(* no interleaving of timers and direct flushes leaves the queue           *)
(* unattended.  (A session that replaced one whose shutdown did not drain  *)
(* starts with a queue in disorder: see ShutdownDrains.)                   *)
QueueDrains ==
    \A e \in Event : (Waiting(e) /\ client = 1) ~> (~Waiting(e) \/ stage # "run")

(* A logout that began gets to a session that admits events: stopSessionWork *)
(* is not kept waiting for good by the history run, a timer or a drain,     *)
(* neither the first time nor when prepare calls it again.                  *)
LogoutEnds == (stage = "stop") ~> (stage = "run")

(* docs/ARCHITECTURE.md: "Session shutdown closes admission, cancels       *)
(* recovery scheduling, and drains admitted writes."                       *)
ShutdownDrains ==
    stage = "logout" => \A e \in 1..admitted : ~Waiting(e) /\ ~Draining(e)

=============================================================================
