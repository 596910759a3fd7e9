----------------------------- MODULE HistoryRun -----------------------------
(***************************************************************************)
(* History and gap recovery (ViewModels/SessionViewModel.swift): the one   *)
(* retained run that asks the phone for older messages round by round, its *)
(* silence watchdog, what `.connected` starts (the initial backfill and    *)
(* the gap sweep), and the logout and restart that end them.               *)
(*                                                                         *)
(* Everything is on the main actor; an action is one uninterrupted run     *)
(* from an `await` that waits to the next.  Bridge calls run detached: the *)
(* cancellation of a task does not reach them.  A task that is cancelled   *)
(* finds out where the code asks, or when its sleep throws.                *)
(*                                                                         *)
(* A flush is only a wait here (Session has the queue), and the age of the *)
(* oldest stored row of a chat is an input whenever the anchors are read:  *)
(* rows are saved and deleted in between.                                  *)
(***************************************************************************)
EXTENDS Integers, FiniteSets

CONSTANTS
    Chat,
    Depth,       \* bound of the model: ages of the oldest row, 0 the oldest
    MaxRounds,   \* 30 in the code
    MaxRefs,     \* 15 in the code: resend requests of one gap sweep
    MaxRuns,     \* bound of the model: history runs
    MaxConnects, \* bound of the model: `.connected` events
    MaxSessions, \* bound of the model: sessions, one after the other
    None

Run == 1..MaxRuns
Connect == 1..MaxConnects
Generation == 1..MaxSessions
Age == 0..Depth
Reason == {"Timed out", "Session ended"}

ASSUME HistoryAssumption ==
    /\ Depth \in Nat /\ MaxRefs \in Nat /\ MaxRuns \in Nat /\ MaxConnects \in Nat
    /\ MaxRounds \in Nat \ {0} /\ MaxSessions \in Nat \ {0}
    /\ None \notin Nat

VARIABLES
    sessions,     \* sessions so far
    client,       \* the session whose client is current, or None
    stage,        \* how far a logout, or the restart after it, is
    awaited,      \* the run whose end stopSessionWork waits for, or None
    backfillDone, \* historyBackfillCompleted
    fullSyncRun,  \* the current run with its task's local state, or None
    runs,         \* runs started so far
    timeout,      \* the run's watchdog: off, sleeping, or over and yet to run
    staleTimers,  \* runs of cancelled watchdogs that were over and yet to run
    sweeps,       \* the gap sweep of each `.connected`
    initial,      \* initial backfill tasks that have yet to run
    connects,     \* `.connected` events so far
    heard,        \* history: a contentful chunk came since a sleep last ended
    asked         \* history: the last request: whose client, and the one current then

session == <<sessions, client, stage, awaited>>
watchdog == <<timeout, staleTimers>>
sweeping == <<sweeps, initial, connects>>
vars == <<session, backfillDone, fullSyncRun, runs, watchdog, sweeping, heard, asked>>

RunState ==
    [id : Run, source : Generation, cancelled : BOOLEAN, reason : Reason \cup {None},
     pc : {"created", "full", "flush", "sample", "older", "pause", "wait",
           "flush again", "compare"},
     round : 0..MaxRounds, todo : SUBSET Chat, before : [Chat -> Age \cup {None}],
     stableRounds : [Chat -> 0..2], inactiveChats : SUBSET Chat]

ASSUME NoneAssumption == None \notin RunState /\ None \notin Reason

Sweep == [pc : {"off", "created", "settling", "scanning", "pausing"},
          cancelled : BOOLEAN, by : Generation \cup {None}, left : 0..MaxRefs]

Request == [by : Generation, at : Generation \cup {None}]

TypeOK ==
    /\ client \in Generation \cup {None}
    /\ sessions \in Generation
    /\ stage \in {"up", "stop", "flush", "logout", "restop", "reflush", "prepare"}
    /\ awaited \in Run \cup {None}
    /\ backfillDone \in BOOLEAN
    /\ fullSyncRun \in RunState \cup {None}
    /\ runs \in 0..MaxRuns
    /\ timeout \in {"off", "sleeping", "over"}
    /\ staleTimers \subseteq Run
    /\ sweeps \in [Connect -> Sweep]
    /\ initial \in 0..MaxConnects
    /\ connects \in 0..MaxConnects
    /\ heard \in BOOLEAN
    /\ asked \in Request \cup {None}

NoSweep == [pc |-> "off", cancelled |-> FALSE, by |-> None, left |-> 0]

(* A first session that admits events, with some history in the store. *)
Init ==
    /\ sessions = 1 /\ client = 1 /\ stage = "up" /\ awaited = None
    /\ backfillDone \in BOOLEAN
    /\ fullSyncRun = None /\ runs = 0
    /\ timeout = "off" /\ staleTimers = {}
    /\ sweeps = [k \in Connect |-> NoSweep]
    /\ initial = 0 /\ connects = 0
    /\ heard = FALSE /\ asked = None

Asked(by) == asked' = [by |-> by, at |-> client]

-----------------------------------------------------------------------------
(* run.timeout?.cancel(): if its sleep is over, the watchdog has yet to run. *)
CancelTimer == staleTimers' = IF timeout = "over" THEN staleTimers \cup {fullSyncRun.id}
                                                  ELSE staleTimers
ArmFullSyncTimeout == CancelTimer /\ timeout' = "sleeping"
Disarm == CancelTimer /\ timeout' = "off"

(* 300 seconds without a contentful chunk. *)
SleepOver ==
    /\ timeout = "sleeping"
    /\ timeout' = "over"
    /\ heard' = FALSE
    /\ UNCHANGED <<session, backfillDone, fullSyncRun, runs, staleTimers,
                   sweeping, asked>>

CancelRun(why) == fullSyncRun' = [fullSyncRun EXCEPT !.cancelled = TRUE, !.reason = why]

TimedOut ==
    /\ timeout = "over"
    /\ CancelRun("Timed out")
    /\ timeout' = "off"
    /\ UNCHANGED <<session, backfillDone, runs, staleTimers, sweeping, heard, asked>>

(* Mutant: a watchdog asks only whether its run is still the current one.  *)
StaleTimerCancels(r) ==
    /\ r \in staleTimers
    /\ staleTimers' = staleTimers \ {r}
    /\ IF fullSyncRun # None /\ fullSyncRun.id = r
       THEN CancelRun("Timed out") ELSE UNCHANGED fullSyncRun
    /\ UNCHANGED <<session, backfillDone, runs, timeout, sweeping,
                   heard, asked>>

(* `guard !Task.isCancelled`: a watchdog that was replaced does nothing. *)
StaleTimer(r) ==
    /\ r \in staleTimers
    /\ staleTimers' = staleTimers \ {r}
    /\ UNCHANGED <<session, backfillDone, fullSyncRun, runs, timeout, sweeping, heard, asked>>

(* A contentful history chunk, while events are admitted: it re-arms the   *)
(* watchdog of a run, also of one that was cancelled.                      *)
Chunk ==
    /\ stage = "up"
    /\ backfillDone' = TRUE
    /\ heard' = TRUE
    /\ IF fullSyncRun # None THEN ArmFullSyncTimeout ELSE UNCHANGED watchdog
    /\ UNCHANGED <<session, fullSyncRun, runs, sweeping, asked>>

-----------------------------------------------------------------------------
(* startFullHistorySync: a tap in the account panel, while there is a client. *)
StartFullHistorySync ==
    /\ fullSyncRun = None /\ client # None
    /\ runs < MaxRuns
    /\ runs' = runs + 1
    /\ backfillDone' = FALSE
    /\ fullSyncRun' = [id |-> runs', source |-> client, cancelled |-> FALSE,
                       reason |-> None, pc |-> "created", round |-> 0, todo |-> {},
                       before |-> [c \in Chat |-> None],
                       stableRounds |-> [c \in Chat |-> 0], inactiveChats |-> {}]
    /\ timeout' = "sleeping" /\ heard' = FALSE
    /\ UNCHANGED <<session, staleTimers, sweeping, asked>>

At(step) == fullSyncRun # None /\ fullSyncRun.pc = step
Goto(step) == fullSyncRun' = [fullSyncRun EXCEPT !.pc = step]
GoOn == UNCHANGED watchdog

(* The end of the run's task, with its `defer`. *)
End ==
    /\ fullSyncRun' = None
    /\ Disarm

(* The task begins by asking the phone for everything; it does not look     *)
(* whether it was cancelled before it began.                                *)
RunBegins ==
    /\ At("created")
    /\ Asked(fullSyncRun.source)
    /\ Goto("full") /\ GoOn
    /\ UNCHANGED <<session, backfillDone, runs, sweeping, heard>>

(* The next round, in the loop's own state. *)
Begin(run, round) ==
    fullSyncRun' = [run EXCEPT !.round = round, !.pc = "flush", !.todo = {},
                               !.before = [c \in Chat |-> None]]

(* Mutant: rounds are not counted. *)
NextRoundForever(run) ==
    IF run.cancelled THEN End ELSE Begin(run, run.round) /\ GoOn

(* Mutant: one round more. *)
NextRoundOneMore(run) ==
    IF run.round > MaxRounds \/ run.cancelled THEN End
    ELSE Begin(run, run.round + 1) /\ GoOn

NextRound(run) ==
    IF run.round = MaxRounds \/ run.cancelled THEN End
    ELSE Begin(run, run.round + 1) /\ GoOn

(* The request for everything was answered, or failed: both go on. *)
FullAnswered ==
    /\ At("full")
    /\ NextRound(fullSyncRun)
    /\ UNCHANGED <<session, backfillDone, runs, sweeping, heard, asked>>

Flushed ==
    /\ At("flush") \/ At("flush again")
    /\ Goto(IF At("flush") THEN "sample" ELSE "compare") /\ GoOn
    /\ UNCHANGED <<session, backfillDone, runs, sweeping, heard, asked>>

MayAsk == ~fullSyncRun.cancelled

(* The loop over the anchors: one more request, or the long wait.  A sleep *)
(* that begins or goes on after the cancellation throws.                   *)
NextAnchor(run) ==
    IF ~MayAsk THEN End /\ UNCHANGED asked
    ELSE IF run.todo = {}
    THEN fullSyncRun' = [run EXCEPT !.pc = "wait"] /\ GoOn /\ UNCHANGED asked
    ELSE /\ \E c \in run.todo :
               fullSyncRun' = [run EXCEPT !.todo = @ \ {c}, !.pc = "older"]
         /\ Asked(run.source)
         /\ GoOn

(* historyAnchors, read in the background, has returned. *)
Sampled(oldest) ==
    /\ At("sample")
    /\ LET active == {c \in Chat : oldest[c] # None} \ fullSyncRun.inactiveChats
       IN  IF active = {}
           THEN End /\ UNCHANGED asked
           ELSE NextAnchor([fullSyncRun EXCEPT
                    !.todo = active,
                    !.before = [c \in Chat |-> IF c \in active THEN oldest[c] ELSE None]])
    /\ UNCHANGED <<session, backfillDone, runs, sweeping, heard>>

OlderAnswered ==
    /\ At("older")
    /\ IF fullSyncRun.cancelled THEN End ELSE Goto("pause") /\ GoOn
    /\ UNCHANGED <<session, backfillDone, runs, sweeping, heard, asked>>

(* The bridge refuses an anchor request, or the anchors cannot be read. *)
Fails ==
    /\ At("older") \/ At("sample") \/ At("compare")
    /\ End
    /\ UNCHANGED <<session, backfillDone, runs, sweeping, heard, asked>>

(* The 100 ms between requests are over, or cut short. *)
Paused ==
    /\ At("pause")
    /\ NextAnchor(fullSyncRun)
    /\ UNCHANGED <<session, backfillDone, runs, sweeping, heard>>

(* The 60 seconds for the phone's answers are over, or cut short. *)
Waited ==
    /\ At("wait")
    /\ IF fullSyncRun.cancelled THEN End
       ELSE Goto("flush again") /\ GoOn
    /\ UNCHANGED <<session, backfillDone, runs, sweeping, heard, asked>>

(* The anchors after the round are compared with those before it. *)
Compared(oldest) ==
    /\ At("compare")
    /\ LET active == {c \in Chat : fullSyncRun.before[c] # None}
           deeper == {c \in active : /\ oldest[c] # None
                                     /\ oldest[c] < fullSyncRun.before[c]}
           stable == [c \in Chat |->
                         IF c \in deeper THEN 0
                         ELSE IF c \in active THEN fullSyncRun.stableRounds[c] + 1
                         ELSE fullSyncRun.stableRounds[c]]
       IN  IF deeper = {}
           THEN End
           ELSE NextRound([fullSyncRun EXCEPT
                    !.stableRounds = stable,
                    !.inactiveChats = @ \cup {c \in active : stable[c] >= 2}])
    /\ UNCHANGED <<session, backfillDone, runs, sweeping, heard, asked>>

-----------------------------------------------------------------------------
(* What `.connected` starts: the initial backfill and the gap sweep. *)
SweepCancelled == [k \in Connect |->
    [sweeps[k] EXCEPT !.cancelled = @ \/ (k = connects /\ sweeps[k].pc # "off")]]

Connected ==
    /\ stage = "up"
    /\ connects < MaxConnects
    /\ connects' = connects + 1
    /\ initial' = initial + 1
    /\ sweeps' = [SweepCancelled EXCEPT ![connects'].pc = "created"]
    /\ UNCHANGED <<session, backfillDone, fullSyncRun, runs, watchdog, heard, asked>>

(* requestHistoryBackfillIfNeeded, whether its task was cancelled or not. *)
InitialBackfill ==
    /\ initial > 0
    /\ IF ~backfillDone /\ client # None
       THEN Asked(client) ELSE UNCHANGED asked
    /\ initial' = initial - 1
    /\ UNCHANGED <<session, backfillDone, fullSyncRun, runs, watchdog, sweeps, connects, heard>>

(* runGapSweepIfNeeded; a sweep less than a day ago is an input. *)
SweepBegins(k) ==
    /\ sweeps[k].pc = "created"
    /\ \E sweptToday \in BOOLEAN :
          sweeps' = IF backfillDone /\ ~sweptToday /\ client # None
                    THEN [sweeps EXCEPT ![k].pc = "settling", ![k].by = client]
                    ELSE [sweeps EXCEPT ![k] = NoSweep]
    /\ UNCHANGED <<session, backfillDone, fullSyncRun, runs, watchdog, initial, connects, heard, asked>>

MaySweep(k) == client = sweeps[k].by /\ ~sweeps[k].cancelled

(* The 45 seconds are over, or cut short. *)
SweepSettled(k) ==
    /\ sweeps[k].pc = "settling"
    /\ sweeps' = IF sweeps[k].cancelled \/ client # sweeps[k].by
                 THEN [sweeps EXCEPT ![k] = NoSweep]
                 ELSE [sweeps EXCEPT ![k].pc = "scanning"]
    /\ UNCHANGED <<session, backfillDone, fullSyncRun, runs, watchdog, initial, connects, heard, asked>>

(* The loop over the missing messages: ask for one, and sleep. *)
NextRef(k, left) ==
    IF left > 0 /\ MaySweep(k)
    THEN /\ sweeps' = [sweeps EXCEPT ![k].pc = "pausing", ![k].left = left - 1]
         /\ Asked(sweeps[k].by)
    ELSE /\ sweeps' = [sweeps EXCEPT ![k] = NoSweep]
         /\ UNCHANGED asked

SweepScanned(k) ==
    /\ sweeps[k].pc = "scanning"
    /\ \E n \in 0..MaxRefs : NextRef(k, n)
    /\ UNCHANGED <<session, backfillDone, fullSyncRun, runs, watchdog, initial, connects, heard>>

SweepPaused(k) ==
    /\ sweeps[k].pc = "pausing"
    /\ NextRef(k, IF sweeps[k].cancelled THEN 0 ELSE sweeps[k].left)
    /\ UNCHANGED <<session, backfillDone, fullSyncRun, runs, watchdog, initial, connects, heard>>

-----------------------------------------------------------------------------
(* stopSessionWork up to its first wait. *)
StopSessionWork ==
    /\ sweeps' = SweepCancelled
    /\ IF fullSyncRun = None
       THEN awaited' = None /\ UNCHANGED <<fullSyncRun, watchdog>>
       ELSE awaited' = fullSyncRun.id /\ CancelRun("Session ended") /\ Disarm
    /\ UNCHANGED <<runs, initial, connects, heard, asked>>

Logout ==
    /\ stage = "up"
    /\ sessions < MaxSessions
    /\ stage' = "stop"
    /\ StopSessionWork
    /\ UNCHANGED <<sessions, client, backfillDone>>

(* Mutant: the stop does not wait for the run. *)
RunGoneAlways == TRUE

(* The task that was current when the wait began has ended. *)
RunGone == ~(fullSyncRun # None /\ fullSyncRun.id = awaited)

StopGoesOn ==
    /\ stage \in {"stop", "restop"}
    /\ RunGone
    /\ awaited' = None
    /\ stage' = IF stage = "stop" THEN "flush" ELSE "reflush"
    /\ UNCHANGED <<sessions, client, backfillDone, fullSyncRun, runs, watchdog,
                   sweeping, heard, asked>>

(* The flush is over: logout unlinks the device, which takes a while ... *)
LogoutGoesOn ==
    /\ stage = "flush"
    /\ stage' = "logout"
    /\ backfillDone' = FALSE
    /\ UNCHANGED <<sessions, client, awaited, fullSyncRun, runs, watchdog,
                   sweeping, heard, asked>>

(* ... and drops the client; boot calls prepare, which stops once more. *)
Boot ==
    /\ stage = "logout"
    /\ stage' = "restop"
    /\ client' = None
    /\ StopSessionWork
    /\ UNCHANGED <<sessions, backfillDone>>

PrepareGoesOn ==
    /\ stage = "reflush"
    /\ stage' = "prepare"
    /\ sessions' = sessions + 1
    /\ client' = sessions'
    /\ UNCHANGED <<awaited, backfillDone, fullSyncRun, runs, watchdog, sweeping, heard, asked>>

Prepared ==
    /\ stage = "prepare"
    /\ stage' = "up"
    /\ UNCHANGED <<sessions, client, awaited, backfillDone, fullSyncRun, runs,
                   watchdog, sweeping, heard, asked>>

-----------------------------------------------------------------------------
RunStep ==
    \/ RunBegins \/ FullAnswered \/ Flushed \/ OlderAnswered \/ Fails \/ Paused \/ Waited
    \/ \E oldest \in [Chat -> Age \cup {None}] : Sampled(oldest) \/ Compared(oldest)

Next ==
    \/ StartFullHistorySync \/ RunStep
    \/ SleepOver \/ TimedOut \/ Chunk
    \/ \E r \in Run : StaleTimer(r)
    \/ Connected \/ InitialBackfill
    \/ \E k \in Connect :
          \/ SweepBegins(k) \/ SweepSettled(k)
          \/ SweepScanned(k) \/ SweepPaused(k)
    \/ Logout \/ StopGoesOn \/ LogoutGoesOn \/ Boot \/ PrepareGoesOn \/ Prepared

(* Bridge calls return, sleeps end, flushes end, and tasks that may run do. *)
Fairness == WF_vars(RunStep)

Spec == Init /\ [][Next]_vars
FairSpec == Spec /\ Fairness

-----------------------------------------------------------------------------
(* Every task that asks the phone is over before another session has a     *)
(* client: none asks with the client of a session that was replaced,       *)
(* although a run may begin during a logout and bridge calls cannot be     *)
(* cancelled.                                                              *)
RequestsStayInSession == asked # None => asked.at \in {asked.by, None}

(* A run times out only after 300 seconds without a contentful chunk: not  *)
(* through a watchdog that was replaced or belongs to an earlier run.      *)
HasTimedOut(run) == run # None /\ run.reason = "Timed out"

TimedOutOnlyIfSilent ==
    [][HasTimedOut(fullSyncRun') /\ ~HasTimedOut(fullSyncRun) => ~heard]_vars

(* A run ends, whatever the phone sends and however its messages come and  *)
(* go in the store: the limit of rounds holds.                             *)
Current(r) == fullSyncRun # None /\ fullSyncRun.id = r

RunEnds == \A r \in Run : Current(r) ~> ~Current(r)
=============================================================================
