-------------------------- MODULE HistoryRunProofs --------------------------
(***************************************************************************)
(* HistoryRun keeps its types; its requests stay in their session; and a   *)
(* run times out only after silence.  `Progress` says what a step of the   *)
(* run's task does, and `Inv` why no request can meet a client of another  *)
(* session: the run that a restart waits for is the only one there can be  *)
(* once the client is gone.                                                *)
(***************************************************************************)
EXTENDS HistoryRun, TLAPS

(* What the loop relies on: a chat whose anchors are compared is not       *)
(* inactive, and only inactive chats were stable twice.                    *)
Counted(run) == \A c \in Chat : c \notin run.inactiveChats => run.stableRounds[c] < 2
Compares(run) == \A c \in Chat : run.before[c] # None => c \notin run.inactiveChats

(* A run that goes on is still the same run. *)
SameRun(old, new) ==
    /\ new \in RunState /\ Counted(new)
    /\ new.id = old.id /\ new.source = old.source /\ new.reason = old.reason
    /\ new.cancelled = old.cancelled

RunInv ==
    fullSyncRun # None =>
        /\ fullSyncRun \in RunState /\ Counted(fullSyncRun) /\ Compares(fullSyncRun)
        /\ client \in {fullSyncRun.source, None}
        /\ stage = "restop" => fullSyncRun.id = awaited
        /\ stage # "reflush"

SessionInv ==
    /\ IF stage \in {"restop", "reflush"} THEN client = None ELSE client = sessions
    /\ stage \in {"stop", "flush", "logout", "restop", "reflush"} => sessions < MaxSessions

TimerInv ==
    /\ timeout = "over" => ~heard
    /\ timeout # "off" => fullSyncRun # None

SweepInv ==
    /\ initial <= connects
    /\ \A k \in Connect : sweeps[k].pc \in {"settling", "scanning", "pausing"} =>
          sweeps[k].by \in Generation

AskedInv == RequestsStayInSession

Inv == TypeOK /\ RunInv /\ SessionInv /\ TimerInv /\ SweepInv /\ AskedInv

-----------------------------------------------------------------------------
LEMMA Values ==
    /\ None \notin Nat /\ None \notin Run /\ None \notin Generation /\ None \notin Age
    /\ MaxRounds \in Nat \ {0} /\ Run \subseteq Nat /\ Generation \subseteq Nat
    /\ MaxConnects \in Nat /\ MaxRuns \in Nat /\ MaxSessions \in Nat \ {0}
    /\ 1 \in Generation /\ MaxRefs \in Nat /\ Age \subseteq Nat
  BY HistoryAssumption DEF Run, Generation, Age

(* The loop's own changes to its run. *)
LEMMA GotoRun ==
    ASSUME NEW r \in RunState, Counted(r), Compares(r),
           NEW step \in {"full", "flush", "sample", "older", "pause", "wait", "flush again", "compare"},
           NEW new, new = [r EXCEPT !.pc = step]
    PROVE  SameRun(r, new) /\ Compares(new)
  BY DEF RunState, SameRun, Counted, Compares

LEMMA BeginRun ==
    ASSUME NEW r \in RunState, Counted(r), r.round # MaxRounds, NEW new,
           new = [r EXCEPT !.round = r.round + 1, !.pc = "flush", !.todo = {},
                           !.before = [c \in Chat |-> None]]
    PROVE  SameRun(r, new) /\ Compares(new)
<1>1. r.round + 1 \in 0..MaxRounds
  <2>1. r.round \in 0..MaxRounds
    BY DEF RunState
  <2> QED
    BY <2>1, Values
<1> DEFINE n == r.round + 1
           b == [c \in Chat |-> None]
<1>2. b \in [Chat -> Age \cup {None}] /\ \A c \in Chat : b[c] = None
  OBVIOUS
<1> HIDE DEF n, b
<1>3. new = [r EXCEPT !.round = n, !.pc = "flush", !.todo = {}, !.before = b] /\ n \in 0..MaxRounds
  BY <1>1 DEF n, b
<1>4. new \in RunState
  BY <1>2, <1>3 DEF RunState
<1>5. new.before = b /\ new.stableRounds = r.stableRounds
      /\ new.inactiveChats = r.inactiveChats
  BY <1>3 DEF RunState
<1> QED
  BY <1>2, <1>3, <1>4, <1>5 DEF RunState, SameRun, Counted, Compares

LEMMA AnchorRun ==
    ASSUME NEW r \in RunState, NEW c \in r.todo, NEW new,
           new = [r EXCEPT !.todo = @ \ {c}, !.pc = "older"], Counted(r), Compares(r)
    PROVE  SameRun(r, new) /\ Compares(new)
  BY DEF RunState, SameRun, Counted, Compares

LEMMA SampledRun ==
    ASSUME NEW r \in RunState, Counted(r), NEW oldest \in [Chat -> Age \cup {None}],
           NEW active, active = {c \in Chat : oldest[c] # None} \ r.inactiveChats, NEW new,
           new = [r EXCEPT !.todo = active,
                     !.before = [c \in Chat |-> IF c \in active THEN oldest[c] ELSE None]]
    PROVE  SameRun(r, new) /\ Compares(new)
<1> DEFINE b == [c \in Chat |-> IF c \in active THEN oldest[c] ELSE None]
<1>1. active \in SUBSET Chat /\ b \in [Chat -> Age \cup {None}]
  OBVIOUS
<1>2. \A c \in Chat : b[c] # None => c \notin r.inactiveChats
  OBVIOUS
<1> HIDE DEF b
<1>3. new = [r EXCEPT !.todo = active, !.before = b]
  BY DEF b
<1> QED
  BY <1>1, <1>2, <1>3 DEF RunState, SameRun, Counted, Compares

(* The parts of a comparison. *)
Asking(r) == {c \in Chat : r.before[c] # None}
StableAfter(r, active, deeper) ==
    [c \in Chat |-> IF c \in deeper THEN 0
                    ELSE IF c \in active THEN r.stableRounds[c] + 1
                    ELSE r.stableRounds[c]]
Marked(r, active, stable) ==
    [r EXCEPT !.stableRounds = stable,
              !.inactiveChats = @ \cup {c \in active : stable[c] >= 2}]

LEMMA ComparedRun ==
    ASSUME NEW r \in RunState, Counted(r), Compares(r), NEW active, NEW deeper,
           NEW stable, NEW new, active = Asking(r),
           stable = StableAfter(r, active, deeper), new = Marked(r, active, stable)
    PROVE  SameRun(r, new)
<1> DEFINE inactive == r.inactiveChats \cup {c \in active : stable[c] >= 2}
<1>1. r.stableRounds \in [Chat -> 0..2] /\ r.inactiveChats \subseteq Chat
  BY DEF RunState
<1>2. \A c \in active : c \in Chat /\ r.stableRounds[c] < 2
  BY DEF Counted, Compares, Asking
<1>3. stable \in [Chat -> 0..2]
  BY <1>1, <1>2 DEF StableAfter
<1>4. \A c \in Chat : c \notin inactive => stable[c] < 2
  BY <1>1, <1>2, <1>3 DEF Counted, StableAfter
<1>5. inactive \in SUBSET Chat
  BY <1>1, <1>2
<1> HIDE DEF inactive
<1>6. new = [r EXCEPT !.stableRounds = stable, !.inactiveChats = inactive]
  BY DEF inactive, Marked
<1> QED
  BY <1>3, <1>4, <1>5, <1>6 DEF RunState, SameRun, Counted

-----------------------------------------------------------------------------
(* What a step of the run's task does: it ends, or goes on, and what it    *)
(* asks for is of its own session and before any cancellation.             *)
Progress ==
    /\ fullSyncRun # None
    /\ \/ End
       \/ SameRun(fullSyncRun, fullSyncRun') /\ Compares(fullSyncRun') /\ GoOn
    /\ \/ UNCHANGED asked
       \/ asked' = [by |-> fullSyncRun.source, at |-> client]
    /\ UNCHANGED <<session, backfillDone, runs, sweeping, heard>>

LEMMA NextRoundProgress ==
    ASSUME fullSyncRun \in RunState, NEW run, SameRun(fullSyncRun, run), NextRound(run)
    PROVE  \/ End
           \/ SameRun(fullSyncRun, fullSyncRun') /\ Compares(fullSyncRun') /\ GoOn
<1>1. CASE End
  BY <1>1
<1>2. CASE ~End
  <2>1. run.round # MaxRounds /\ Begin(run, run.round + 1) /\ GoOn
    BY <1>2 DEF NextRound
  <2>2. run \in RunState /\ Counted(run)
    BY DEF SameRun
  <2>3. SameRun(run, fullSyncRun') /\ Compares(fullSyncRun')
    BY <2>1, <2>2, BeginRun DEF Begin
  <2> QED
    BY <2>1, <2>3 DEF SameRun
<1> QED
  BY <1>1, <1>2

LEMMA NextAnchorProgress ==
    ASSUME fullSyncRun \in RunState, NEW run, SameRun(fullSyncRun, run), Compares(run),
           NextAnchor(run)
    PROVE  /\ \/ End
              \/ SameRun(fullSyncRun, fullSyncRun') /\ Compares(fullSyncRun') /\ GoOn
           /\ \/ UNCHANGED asked
              \/ asked' = [by |-> fullSyncRun.source, at |-> client]
<1>0. run \in RunState /\ Counted(run) /\ run.source = fullSyncRun.source
      /\ run.cancelled = fullSyncRun.cancelled /\ run.cancelled \in BOOLEAN
  BY DEF SameRun, RunState
<1>1. CASE ~MayAsk
  BY <1>1 DEF NextAnchor
<1>2. CASE MayAsk /\ run.todo = {}
  <2>1. fullSyncRun' = [run EXCEPT !.pc = "wait"] /\ GoOn /\ UNCHANGED asked
    BY <1>2 DEF NextAnchor
  <2>2. SameRun(run, fullSyncRun') /\ Compares(fullSyncRun')
    BY <1>0, <2>1, GotoRun
  <2> QED
    BY <2>1, <2>2 DEF SameRun
<1>3. CASE MayAsk /\ run.todo # {}
  <2>1. PICK c \in run.todo : fullSyncRun' = [run EXCEPT !.todo = @ \ {c}, !.pc = "older"]
    BY <1>3 DEF NextAnchor
  <2>2. SameRun(run, fullSyncRun') /\ Compares(fullSyncRun')
    BY <1>0, <2>1, AnchorRun
  <2>3. GoOn /\ Asked(run.source)
    BY <1>3 DEF NextAnchor
  <2> QED
    BY <1>0, <2>2, <2>3 DEF SameRun, Asked
<1> QED
  BY <1>1, <1>2, <1>3

LEMMA RunProgress ==
    ASSUME Inv, RunStep
    PROVE  Progress
<1>0. fullSyncRun # None =>
        /\ fullSyncRun \in RunState /\ Counted(fullSyncRun) /\ Compares(fullSyncRun)
        /\ SameRun(fullSyncRun, fullSyncRun)
  BY DEF Inv, RunInv, SameRun
<1>1. CASE RunBegins
  <2>1. fullSyncRun # None /\ Goto("full") /\ GoOn
    BY <1>1 DEF RunBegins, At
  <2>2. SameRun(fullSyncRun, fullSyncRun') /\ Compares(fullSyncRun')
    BY <1>0, <2>1, GotoRun DEF Goto
  <2> QED
    BY <1>1, <2>1, <2>2 DEF Progress, RunBegins, Asked
<1>2. CASE FullAnswered
  <2>1. fullSyncRun # None /\ NextRound(fullSyncRun)
    BY <1>2 DEF FullAnswered, At
  <2> QED
    BY <1>0, <1>2, <2>1, NextRoundProgress DEF FullAnswered, Progress
<1>3. CASE Flushed
  <2>1. PICK step \in {"sample", "compare"} : Goto(step)
    BY <1>3 DEF Flushed
  <2>2. fullSyncRun # None /\ GoOn
    BY <1>3 DEF Flushed, At
  <2>3. SameRun(fullSyncRun, fullSyncRun') /\ Compares(fullSyncRun')
    BY <1>0, <2>1, <2>2, GotoRun DEF Goto
  <2> QED
    BY <1>3, <2>2, <2>3 DEF Progress, Flushed
<1>4. CASE OlderAnswered \/ Waited
  <2>1. fullSyncRun # None /\ UNCHANGED asked
    BY <1>4 DEF OlderAnswered, Waited, At
  <2>2. End \/ (GoOn /\ \E step \in {"pause", "flush again"} : Goto(step))
    BY <1>4 DEF OlderAnswered, Waited
  <2>3. \A step \in {"pause", "flush again"} :
           Goto(step) => SameRun(fullSyncRun, fullSyncRun') /\ Compares(fullSyncRun')
    BY <1>0, <2>1, GotoRun DEF Goto
  <2> QED
    BY <1>4, <2>1, <2>2, <2>3 DEF OlderAnswered, Waited, Progress
<1>5. CASE Fails
  BY <1>5 DEF Fails, At, Progress
<1>6. CASE Paused
  <2>1. fullSyncRun # None /\ NextAnchor(fullSyncRun)
    BY <1>6 DEF Paused, At
  <2> QED
    BY <1>0, <1>6, <2>1, NextAnchorProgress DEF Paused, Progress
<1>7. ASSUME NEW oldest \in [Chat -> Age \cup {None}], Sampled(oldest)
      PROVE  Progress
  <2> DEFINE active == {c \in Chat : oldest[c] # None} \ fullSyncRun.inactiveChats
             run == [fullSyncRun EXCEPT
                       !.todo = active,
                       !.before = [c \in Chat |-> IF c \in active THEN oldest[c] ELSE None]]
  <2>1. fullSyncRun # None
    BY <1>7 DEF Sampled, At
  <2>2. (End /\ UNCHANGED asked) \/ NextAnchor(run)
    BY <1>7 DEF Sampled
  <2>3. SameRun(fullSyncRun, run) /\ Compares(run)
    BY <1>0, <2>1, SampledRun
  <2> HIDE DEF run
  <2>4. NextAnchor(run) =>
           /\ End \/ (SameRun(fullSyncRun, fullSyncRun') /\ Compares(fullSyncRun') /\ GoOn)
           /\ UNCHANGED asked
              \/ asked' = [by |-> fullSyncRun.source, at |-> client]
    BY <1>0, <2>1, <2>3, NextAnchorProgress
  <2> QED
    BY <1>7, <2>1, <2>2, <2>4 DEF Sampled, Progress
<1>8. ASSUME NEW oldest \in [Chat -> Age \cup {None}], Compared(oldest)
      PROVE  Progress
  <2> DEFINE active == Asking(fullSyncRun)
             deeper == {c \in active : /\ oldest[c] # None
                                       /\ oldest[c] < fullSyncRun.before[c]}
             stable == StableAfter(fullSyncRun, active, deeper)
             run == Marked(fullSyncRun, active, stable)
  <2>1. fullSyncRun # None
    BY <1>8 DEF Compared, At
  <2>2. End \/ NextRound(run)
    BY <1>8 DEF Compared, Asking, StableAfter, Marked
  <2>3. SameRun(fullSyncRun, run)
    <3> HIDE DEF deeper
    <3> QED
      BY <1>0, <2>1, ComparedRun
  <2> HIDE DEF run
  <2>4. NextRound(run) =>
           End \/ (SameRun(fullSyncRun, fullSyncRun') /\ Compares(fullSyncRun') /\ GoOn)
    BY <1>0, <2>1, <2>3, NextRoundProgress
  <2> QED
    BY <1>8, <2>1, <2>2, <2>4 DEF Compared, Progress
<1> QED
  BY <1>1, <1>2, <1>3, <1>4, <1>5, <1>6, <1>7, <1>8 DEF RunStep

-----------------------------------------------------------------------------
LEMMA InitInv == Init => Inv
<1> SUFFICES ASSUME Init PROVE Inv
  OBVIOUS
<1> USE DEF Init
<1>1. TypeOK
  <2>1. NoSweep \in Sweep
    BY Values DEF NoSweep, Sweep
  <2>2. client \in Generation \cup {None} /\ sessions \in Generation
    BY Values
  <2>3. runs \in 0..MaxRuns /\ initial \in 0..MaxConnects /\ connects \in 0..MaxConnects
    BY Values
  <2> QED
    BY <2>1, <2>2, <2>3 DEF TypeOK
<1>2. SweepInv
  BY DEF SweepInv, NoSweep
<1> QED
  BY <1>1, <1>2 DEF Inv, RunInv, SessionInv, TimerInv, AskedInv,
     RequestsStayInSession

(* What was asked, when it is new. *)
LEMMA AskedStays ==
    ASSUME Inv, NEW by \in Generation,
           \/ UNCHANGED asked
           \/ asked' = [by |-> by, at |-> client] /\ client \in {by, None}
    PROVE  asked' \in Request \cup {None} /\ AskedInv'
<1> USE DEF AskedInv, RequestsStayInSession
<1>1. CASE UNCHANGED asked
  BY <1>1 DEF Inv, TypeOK
<1>2. CASE asked' = [by |-> by, at |-> client] /\ client \in {by, None}
  BY <1>2 DEF Request
<1> QED
  BY <1>1, <1>2

(* A watchdog that is replaced belongs to the current run. *)
LEMMA TimersStay ==
    ASSUME Inv, CancelTimer
    PROVE  staleTimers' \subseteq Run
<1>1. timeout = "over" => fullSyncRun.id \in Run
  BY DEF Inv, TimerInv, RunInv, RunState
<1> QED
  BY <1>1 DEF Inv, TypeOK, CancelTimer

LEMMA RunStepInv ==
    ASSUME Inv, RunStep
    PROVE  Inv'
<1>0. Progress
  BY RunProgress
<1>1. fullSyncRun # None /\ UNCHANGED <<session, backfillDone, runs, sweeping, heard>>
  BY <1>0 DEF Progress
<1>2. fullSyncRun \in RunState /\ client \in {fullSyncRun.source, None}
      /\ fullSyncRun.source \in Generation
      /\ (stage = "restop" => fullSyncRun.id = awaited) /\ stage # "reflush"
  BY <1>1 DEF Inv, RunInv, RunState
<1>3. asked' \in Request \cup {None} /\ AskedInv'
  BY <1>0, <1>2, AskedStays DEF Progress
<1>4. CASE End
  <2>1. fullSyncRun' = None /\ timeout' = "off" /\ staleTimers' \subseteq Run
    BY <1>4, TimersStay DEF End, Disarm
  <2>2. TypeOK'
    BY <1>1, <1>3, <2>1 DEF Inv, TypeOK, session, sweeping
  <2> QED
    BY <1>1, <1>3, <2>1, <2>2 DEF Inv, RunInv, SessionInv, TimerInv, SweepInv, session, sweeping
<1>5. CASE SameRun(fullSyncRun, fullSyncRun') /\ Compares(fullSyncRun') /\ GoOn
  <2>1. fullSyncRun' \in RunState /\ Counted(fullSyncRun') /\ Compares(fullSyncRun')
        /\ fullSyncRun'.id = fullSyncRun.id /\ fullSyncRun'.source = fullSyncRun.source
    BY <1>5 DEF SameRun
  <2>2. UNCHANGED watchdog
    BY <1>5 DEF GoOn
  <2>3. TypeOK'
    BY <1>1, <1>3, <2>1, <2>2 DEF Inv, TypeOK, session, sweeping, watchdog
  <2>4. RunInv'
    BY <1>1, <1>2, <2>1 DEF RunInv, session, Counted, Compares
  <2>5. fullSyncRun' # None
    BY <2>1, NoneAssumption
  <2> QED
    BY <1>1, <1>3, <2>2, <2>3, <2>4, <2>5
       DEF Inv, SessionInv, TimerInv, SweepInv, session, sweeping, watchdog
<1> QED
  BY <1>0, <1>4, <1>5 DEF Progress

(* The run of a cancellation. *)
LEMMA CancelledRun ==
    ASSUME Inv, fullSyncRun # None, NEW why \in Reason, CancelRun(why)
    PROVE  /\ fullSyncRun' \in RunState /\ Counted(fullSyncRun') /\ Compares(fullSyncRun')
           /\ fullSyncRun'.id = fullSyncRun.id /\ fullSyncRun'.source = fullSyncRun.source
           /\ fullSyncRun' # None
<1>1. fullSyncRun \in RunState /\ Counted(fullSyncRun) /\ Compares(fullSyncRun)
  BY DEF Inv, RunInv
<1>2. fullSyncRun' \in RunState /\ Counted(fullSyncRun') /\ Compares(fullSyncRun')
      /\ fullSyncRun'.id = fullSyncRun.id /\ fullSyncRun'.source = fullSyncRun.source
  BY <1>1 DEF CancelRun, RunState, Counted, Compares
<1> QED
  BY <1>2, NoneAssumption

LEMMA StartInv ==
    ASSUME Inv, StartFullHistorySync
    PROVE  Inv'
<1> DEFINE zero == [c \in Chat |-> 0]
           none == [c \in Chat |-> None]
<1>1. runs + 1 \in Run /\ runs + 1 \in 0..MaxRuns
  <2>1. runs \in 0..MaxRuns /\ runs < MaxRuns
    BY DEF Inv, TypeOK, StartFullHistorySync
  <2> QED
    BY <2>1, Values DEF Run
<1>2. client \in Generation /\ stage \notin {"restop", "reflush"}
  BY DEF Inv, TypeOK, SessionInv, StartFullHistorySync
<1>3. zero \in [Chat -> 0..2] /\ none \in [Chat -> Age \cup {None}]
      /\ (\A c \in Chat : zero[c] < 2 /\ none[c] = None)
  OBVIOUS
<1>4. 0 \in 0..MaxRounds
  BY Values
<1> HIDE DEF zero, none
<1>5. PICK n : n = runs + 1
  OBVIOUS
<1>6. fullSyncRun' = [id |-> n, source |-> client, cancelled |-> FALSE,
                      reason |-> None, pc |-> "created", round |-> 0, todo |-> {},
                      before |-> none, stableRounds |-> zero, inactiveChats |-> {}]
  BY <1>5 DEF StartFullHistorySync, zero, none
<1>7. fullSyncRun' \in RunState
  BY ONLY <1>1, <1>2, <1>3, <1>4, <1>5, <1>6 DEF RunState
<1>8. Counted(fullSyncRun') /\ Compares(fullSyncRun') /\ fullSyncRun' # None
  BY <1>3, <1>6, <1>7, NoneAssumption DEF Counted, Compares
<1>9. runs' \in 0..MaxRuns /\ fullSyncRun'.source = client
  BY <1>1, <1>6 DEF StartFullHistorySync
<1>10. UNCHANGED <<session, staleTimers, sweeping, asked>> /\ timeout' = "sleeping"
       /\ heard' = FALSE /\ backfillDone' = FALSE
  BY DEF StartFullHistorySync
<1>11. TypeOK'
  BY <1>7, <1>9, <1>10 DEF Inv, TypeOK, session, sweeping
<1>12. RunInv'
  BY <1>2, <1>7, <1>8, <1>9, <1>10 DEF RunInv, session, Counted, Compares
<1> QED
  BY <1>8, <1>10, <1>11, <1>12 DEF Inv, SessionInv, TimerInv, SweepInv, AskedInv,
     RequestsStayInSession, session, sweeping

(* The watchdog, and the chunks that re-arm it. *)
LEMMA WatchdogInv ==
    ASSUME Inv, SleepOver \/ TimedOut \/ Chunk \/ \E r \in Run : StaleTimer(r)
    PROVE  Inv'
<1> USE DEF session, sweeping, watchdog
<1>0. AskedInv /\ UNCHANGED asked => AskedInv'
  BY DEF AskedInv, RequestsStayInSession
<1>1. CASE SleepOver
  BY <1>0, <1>1 DEF SleepOver, Inv, TypeOK, RunInv, Counted, Compares, SessionInv, TimerInv, SweepInv
<1>2. CASE TimedOut
  <2>1. fullSyncRun # None /\ CancelRun("Timed out")
    BY <1>2 DEF TimedOut, Inv, TimerInv
  <2>2. /\ fullSyncRun' \in RunState /\ Counted(fullSyncRun') /\ Compares(fullSyncRun')
        /\ fullSyncRun'.id = fullSyncRun.id /\ fullSyncRun'.source = fullSyncRun.source
        /\ fullSyncRun' # None
    BY <2>1, CancelledRun DEF Reason
  <2>3. TypeOK'
    BY <1>2, <2>2 DEF TimedOut, Inv, TypeOK
  <2>4. RunInv'
    BY <1>2, <2>1, <2>2 DEF TimedOut, Inv, RunInv, Counted, Compares
  <2> QED
    BY <1>0, <1>2, <2>2, <2>3, <2>4 DEF TimedOut, Inv, SessionInv, TimerInv, SweepInv
<1>3. CASE Chunk
  <2>1. UNCHANGED <<session, fullSyncRun, runs, sweeping, asked>> /\ stage = "up"
        /\ heard' = TRUE /\ backfillDone' = TRUE
    BY <1>3 DEF Chunk
  <2>2. IF fullSyncRun # None THEN staleTimers' \subseteq Run /\ timeout' = "sleeping"
                              ELSE UNCHANGED watchdog
    BY <1>3, TimersStay DEF Chunk, ArmFullSyncTimeout
  <2>3. TypeOK'
    BY <2>1, <2>2 DEF Inv, TypeOK
  <2> QED
    BY <1>0, <2>1, <2>2, <2>3
       DEF Inv, RunInv, Counted, Compares, SessionInv, TimerInv, SweepInv
<1>4. CASE \E r \in Run : StaleTimer(r)
  <2>1. staleTimers' \subseteq Run
    BY <1>4 DEF StaleTimer, Inv, TypeOK
  <2>2. UNCHANGED <<session, backfillDone, fullSyncRun, runs, timeout, sweeping, heard, asked>>
    BY <1>4 DEF StaleTimer
  <2> QED
    BY <1>0, <2>1, <2>2
       DEF Inv, TypeOK, RunInv, Counted, Compares, SessionInv, TimerInv, SweepInv
<1> QED
  BY <1>1, <1>2, <1>3, <1>4

-----------------------------------------------------------------------------
(* The sweeps. *)
Asks(k) == sweeps[k].pc \in {"settling", "scanning", "pausing"}
SweepsOk == sweeps \in [Connect -> Sweep] /\ \A k \in Connect : Asks(k) => sweeps[k].by \in Generation

LEMMA SweepCancelledOk ==
    ASSUME SweepsOk
    PROVE  /\ SweepCancelled \in [Connect -> Sweep]
           /\ \A k \in Connect : SweepCancelled[k].pc = sweeps[k].pc
                                 /\ SweepCancelled[k].by = sweeps[k].by
<1>1. ASSUME NEW k \in Connect
      PROVE  /\ SweepCancelled[k] \in Sweep
             /\ SweepCancelled[k].pc = sweeps[k].pc /\ SweepCancelled[k].by = sweeps[k].by
  <2>1. sweeps[k] \in Sweep
    BY <1>1 DEF SweepsOk
  <2>2. SweepCancelled[k] = [sweeps[k] EXCEPT !.cancelled =
                                @ \/ (k = connects /\ sweeps[k].pc # "off")]
    BY <1>1 DEF SweepCancelled
  <2>3. PICK b \in BOOLEAN : b = (sweeps[k].cancelled \/ (k = connects /\ sweeps[k].pc # "off"))
    <3>1. (sweeps[k].cancelled \/ (k = connects /\ sweeps[k].pc # "off")) \in BOOLEAN
      BY Zenon
    <3> QED
      BY <3>1, Zenon
  <2>4. SweepCancelled[k] = [sweeps[k] EXCEPT !.cancelled = b]
    BY <2>2, <2>3, Zenon
  <2> QED
    BY ONLY <2>1, <2>4 DEF Sweep
<1> QED
  BY <1>1 DEF SweepCancelled

LEMMA SweepTypes ==
    ASSUME NEW s \in Sweep, NEW left \in 0..MaxRefs, NEW by \in Generation
    PROVE  /\ [s EXCEPT !.pc = "created"] \in Sweep
           /\ [s EXCEPT !.pc = "scanning"] \in Sweep
           /\ [s EXCEPT !.pc = "settling", !.by = by] \in Sweep
           /\ [s EXCEPT !.pc = "pausing", !.left = left] \in Sweep
  BY DEF Sweep

LEMMA NoSweepOk == NoSweep \in Sweep /\ NoSweep.pc = "off"
  BY Values DEF NoSweep, Sweep

(* Replacing one sweep. *)
LEMMA OneSweep ==
    ASSUME SweepsOk, NEW k \in Connect, NEW s \in Sweep,
           s.pc \in {"settling", "scanning", "pausing"} => s.by \in Generation,
           sweeps' = [sweeps EXCEPT ![k] = s]
    PROVE  SweepsOk'
  BY DEF SweepsOk, Asks

LEMMA NextRefOk ==
    ASSUME Inv, SweepsOk, NEW k \in Connect, Asks(k), NEW left \in 0..MaxRefs, NextRef(k, left)
    PROVE  /\ SweepsOk'
           /\ asked' \in Request \cup {None} /\ AskedInv'
<1>1. CASE left > 0 /\ MaySweep(k)
  <2>1. sweeps[k] \in Sweep /\ sweeps[k].by \in Generation
    BY DEF SweepsOk
  <2>2. left - 1 \in 0..MaxRefs
    BY <1>1, Values
  <2> DEFINE s == [sweeps[k] EXCEPT !.pc = "pausing", !.left = left - 1]
  <2>3. s \in Sweep /\ s.by = sweeps[k].by
    BY <2>1, <2>2, SweepTypes DEF Sweep
  <2>4. sweeps' = [sweeps EXCEPT ![k] = s]
    BY <1>1 DEF NextRef, SweepsOk
  <2>5. Asked(sweeps[k].by)
    BY <1>1 DEF NextRef
  <2>6. client = sweeps[k].by
    BY <1>1, <2>1 DEF MaySweep, Sweep
  <2>7. asked' = [by |-> sweeps[k].by, at |-> client]
    BY <2>5, <2>6 DEF Asked
  <2>8. asked' \in Request \cup {None} /\ AskedInv'
    BY <2>1, <2>6, <2>7, AskedStays
  <2> HIDE DEF s
  <2>9. SweepsOk'
    BY <2>1, <2>3, <2>4, OneSweep
  <2> QED
    BY <2>8, <2>9
<1>2. CASE ~(left > 0 /\ MaySweep(k))
  <2>1. sweeps' = [sweeps EXCEPT ![k] = NoSweep] /\ UNCHANGED asked
    BY <1>2 DEF NextRef
  <2>2. SweepsOk'
    BY <2>1, NoSweepOk, OneSweep
  <2>3. asked' \in Request \cup {None} /\ AskedInv'
    <3>1. 1 \in Generation
      BY Values
    <3> QED
      BY <2>1, <3>1, AskedStays
  <2> QED
    BY <2>2, <2>3
<1> QED
  BY <1>1, <1>2

(* An action that leaves the session, the run and its watchdog alone. *)
LEMMA SweepingInv ==
    ASSUME Inv, UNCHANGED <<session, backfillDone, fullSyncRun, runs, watchdog, heard>>,
           SweepsOk', initial' \in 0..MaxConnects, connects' \in 0..MaxConnects,
           initial' <= connects', asked' \in Request \cup {None}, AskedInv'
    PROVE  Inv'
<1> USE DEF session, watchdog
<1>1. TypeOK'
  BY DEF Inv, TypeOK, SweepsOk
<1>2. RunInv' /\ SessionInv' /\ TimerInv'
  BY DEF Inv, RunInv, Counted, Compares, SessionInv, TimerInv
<1>3. SweepInv'
  BY DEF SweepInv, SweepsOk, Asks
<1> QED
  BY <1>1, <1>2, <1>3 DEF Inv

LEMMA SweepActionsInv ==
    ASSUME Inv,
           \/ Connected \/ InitialBackfill
           \/ \E k \in Connect : \/ SweepBegins(k) \/ SweepSettled(k)
                                 \/ SweepScanned(k) \/ SweepPaused(k)
    PROVE  Inv'
<1>1. SweepsOk /\ initial \in 0..MaxConnects /\ connects \in 0..MaxConnects /\ initial <= connects
      /\ client \in Generation \cup {None}
  BY DEF Inv, TypeOK, SweepInv, SweepsOk, Asks
<1>2. UNCHANGED asked => asked' \in Request \cup {None} /\ AskedInv'
  BY Values, AskedStays
<1>3. CASE Connected
  <2>1. connects + 1 \in Connect /\ connects + 1 \in 0..MaxConnects
        /\ initial + 1 \in 0..MaxConnects /\ initial + 1 <= connects + 1
    BY <1>1, <1>3, Values DEF Connected, Connect
  <2>2. PICK k \in Connect : k = connects + 1
    BY <2>1
  <2>3. sweeps' = [SweepCancelled EXCEPT ![k] = [SweepCancelled[k] EXCEPT !.pc = "created"]]
    BY <1>3, <2>2 DEF Connected
  <2>4. SweepsOk'
    <3>1. PICK old : old = SweepCancelled
      OBVIOUS
    <3>2. /\ old \in [Connect -> Sweep]
          /\ \A j \in Connect : old[j].pc = sweeps[j].pc /\ old[j].by = sweeps[j].by
      BY <1>1, <3>1, SweepCancelledOk
    <3> DEFINE new == [old[k] EXCEPT !.pc = "created"]
    <3>3. new \in Sweep /\ new.pc = "created"
      BY <3>2 DEF Sweep
    <3>4. sweeps' = [old EXCEPT ![k] = new]
      BY <2>3, <3>1
    <3> HIDE DEF new
    <3>5. ASSUME NEW j \in Connect, sweeps'[j].pc \in {"settling", "scanning", "pausing"}
          PROVE  sweeps'[j].by \in Generation
      <4>1. j # k /\ sweeps'[j] = old[j]
        BY <3>2, <3>3, <3>4, <3>5
      <4> QED
        BY <1>1, <3>2, <3>5, <4>1 DEF SweepsOk, Asks
    <3> QED
      BY <3>2, <3>3, <3>4, <3>5 DEF SweepsOk, Asks
  <2> QED
    BY <1>1, <1>2, <1>3, <2>1, <2>4, SweepingInv DEF Connected
<1>4. CASE InitialBackfill
  <2>1. UNCHANGED <<session, backfillDone, fullSyncRun, runs, watchdog, sweeps, connects, heard>>
        /\ initial' = initial - 1 /\ initial > 0
    BY <1>4 DEF InitialBackfill
  <2>2. initial' \in 0..MaxConnects /\ initial' <= connects'
    BY <1>1, <2>1, Values
  <2>3. SweepsOk'
    BY <1>1, <2>1 DEF SweepsOk, Asks
  <2>4. asked' \in Request \cup {None} /\ AskedInv'
    <3>1. CASE ~backfillDone /\ client # None
      <4>1. asked' = [by |-> client, at |-> client]
        BY <1>4, <3>1 DEF InitialBackfill, Asked
      <4> QED
        BY <1>1, <3>1, <4>1, AskedStays
    <3> QED
      BY <1>2, <1>4, <3>1 DEF InitialBackfill
  <2> QED
    BY <1>1, <2>1, <2>2, <2>3, <2>4, SweepingInv
<1>5. ASSUME NEW k \in Connect, SweepBegins(k) \/ SweepSettled(k)
      PROVE  Inv'
  <2>1. UNCHANGED <<session, backfillDone, fullSyncRun, runs, watchdog, initial, connects,
                    heard, asked>>
    BY <1>5 DEF SweepBegins, SweepSettled
  <2>2. sweeps[k] \in Sweep
    BY <1>1 DEF SweepsOk
  <2>3. \/ sweeps' = [sweeps EXCEPT ![k] = NoSweep]
        \/ /\ client # None
           /\ sweeps' = [sweeps EXCEPT ![k] = [sweeps[k] EXCEPT !.pc = "settling", !.by = client]]
        \/ /\ sweeps[k].pc = "settling"
           /\ sweeps' = [sweeps EXCEPT ![k] = [sweeps[k] EXCEPT !.pc = "scanning"]]
    BY <1>1, <1>5 DEF SweepBegins, SweepSettled, SweepsOk
  <2>4. SweepsOk'
    <3>1. CASE sweeps' = [sweeps EXCEPT ![k] = NoSweep]
      BY <1>1, <3>1, NoSweepOk, OneSweep
    <3>2. CASE /\ client # None
               /\ sweeps' = [sweeps EXCEPT ![k] = [sweeps[k] EXCEPT !.pc = "settling", !.by = client]]
      <4> DEFINE s == [sweeps[k] EXCEPT !.pc = "settling", !.by = client]
      <4>1. s \in Sweep /\ s.by \in Generation
        BY <1>1, <2>2, <3>2 DEF Sweep
      <4>2. sweeps' = [sweeps EXCEPT ![k] = s]
        BY <3>2
      <4> HIDE DEF s
      <4> QED
        BY <1>1, <1>5, <4>1, <4>2, OneSweep
    <3>3. CASE /\ sweeps[k].pc = "settling"
               /\ sweeps' = [sweeps EXCEPT ![k] = [sweeps[k] EXCEPT !.pc = "scanning"]]
      <4> DEFINE s == [sweeps[k] EXCEPT !.pc = "scanning"]
      <4>1. s \in Sweep /\ s.by \in Generation
        BY <1>1, <1>5, <2>2, <3>3 DEF Sweep, SweepsOk, Asks
      <4>2. sweeps' = [sweeps EXCEPT ![k] = s]
        BY <3>3
      <4> HIDE DEF s
      <4> QED
        BY <1>1, <1>5, <4>1, <4>2, OneSweep
    <3> QED
      BY <2>3, <3>1, <3>2, <3>3
  <2> QED
    BY <1>1, <1>2, <2>1, <2>4, SweepingInv
<1>6. ASSUME NEW k \in Connect, SweepScanned(k) \/ SweepPaused(k)
      PROVE  Inv'
  <2>1. UNCHANGED <<session, backfillDone, fullSyncRun, runs, watchdog, initial, connects, heard>>
    BY <1>6 DEF SweepScanned, SweepPaused
  <2>2. PICK left \in 0..MaxRefs : NextRef(k, left)
    <3>1. sweeps[k].left \in 0..MaxRefs /\ 0 \in 0..MaxRefs
      BY <1>1, <1>6, Values DEF SweepsOk, Sweep
    <3> QED
      BY <1>6, <3>1 DEF SweepScanned, SweepPaused
  <2>3. Asks(k)
    BY <1>6 DEF SweepScanned, SweepPaused, Asks
  <2>4. SweepsOk' /\ asked' \in Request \cup {None} /\ AskedInv'
    BY <1>1, <1>6, <2>2, <2>3, NextRefOk
  <2> QED
    BY <1>1, <2>1, <2>4, SweepingInv
<1> QED
  BY <1>3, <1>4, <1>5, <1>6

-----------------------------------------------------------------------------
(* The end of a session, and the next one. *)
LEMMA StopSessionWorkOk ==
    ASSUME Inv, StopSessionWork
    PROVE  /\ SweepsOk'
           /\ awaited' \in Run \cup {None}
           /\ staleTimers' \subseteq Run /\ timeout' = "off"
           /\ IF fullSyncRun = None THEN fullSyncRun' = None
              ELSE /\ fullSyncRun' \in RunState /\ Counted(fullSyncRun') /\ Compares(fullSyncRun')
                   /\ fullSyncRun'.id = awaited' /\ fullSyncRun'.source = fullSyncRun.source
                   /\ fullSyncRun' # None
<1>1. SweepsOk'
  <2>1. SweepsOk
    BY DEF Inv, TypeOK, SweepInv, SweepsOk, Asks
  <2>2. sweeps' = SweepCancelled
    BY DEF StopSessionWork
  <2> QED
    BY <2>1, <2>2, SweepCancelledOk DEF SweepsOk, Asks
<1>2. CASE fullSyncRun = None
  <2>1. awaited' = None /\ fullSyncRun' = None /\ UNCHANGED watchdog
    BY <1>2 DEF StopSessionWork
  <2>2. timeout = "off" /\ staleTimers \subseteq Run
    BY <1>2 DEF Inv, TimerInv, TypeOK
  <2> QED
    BY <1>1, <1>2, <2>1, <2>2 DEF watchdog
<1>3. CASE fullSyncRun # None
  <2>1. awaited' = fullSyncRun.id /\ CancelRun("Session ended") /\ Disarm
    BY <1>3 DEF StopSessionWork
  <2>2. fullSyncRun.id \in Run
    BY <1>3 DEF Inv, RunInv, RunState
  <2> QED
    BY <1>1, <1>3, <2>1, <2>2, TimersStay, CancelledRun DEF Disarm, Reason
<1> QED
  BY <1>2, <1>3

LEMMA StopInv ==
    ASSUME Inv, Logout \/ Boot
    PROVE  Inv'
<1>1. StopSessionWork /\ sessions' = sessions
  BY DEF Logout, Boot
<1>2. stage' \in {"stop", "restop"} /\ client' \in {client, None}
      /\ (IF stage' = "restop" THEN client' = None ELSE client' = sessions)
      /\ sessions < MaxSessions
      /\ backfillDone' = backfillDone
  BY DEF Logout, Boot, Inv, SessionInv
<1>3. UNCHANGED <<runs, initial, connects, heard, asked>>
  BY <1>1 DEF StopSessionWork
<1>4. /\ SweepsOk'
      /\ awaited' \in Run \cup {None}
      /\ staleTimers' \subseteq Run /\ timeout' = "off"
      /\ IF fullSyncRun = None THEN fullSyncRun' = None
         ELSE /\ fullSyncRun' \in RunState /\ Counted(fullSyncRun') /\ Compares(fullSyncRun')
              /\ fullSyncRun'.id = awaited' /\ fullSyncRun'.source = fullSyncRun.source
              /\ fullSyncRun' # None
  BY <1>1, StopSessionWorkOk
<1>5. TypeOK'
  BY <1>1, <1>2, <1>3, <1>4 DEF Inv, TypeOK, SweepsOk
<1>6. RunInv'
  BY <1>2, <1>4 DEF Inv, RunInv, Counted, Compares
<1>7. SweepInv'
  BY <1>3, <1>4 DEF Inv, SweepInv, SweepsOk, Asks
<1> QED
  BY <1>1, <1>2, <1>3, <1>4, <1>5, <1>6, <1>7
     DEF Inv, SessionInv, TimerInv, AskedInv, RequestsStayInSession

LEMMA RestartInv ==
    ASSUME Inv, StopGoesOn \/ LogoutGoesOn \/ PrepareGoesOn \/ Prepared
    PROVE  Inv'
<1> USE DEF sweeping, watchdog
<1>1. UNCHANGED <<fullSyncRun, runs, watchdog, sweeping, heard, asked>>
  BY DEF StopGoesOn, LogoutGoesOn, PrepareGoesOn, Prepared
<1>2. AskedInv' /\ TimerInv' /\ SweepInv'
  BY <1>1 DEF Inv, AskedInv, RequestsStayInSession, TimerInv, SweepInv
<1>3. CASE StopGoesOn
  <2>1. awaited' = None /\ UNCHANGED <<sessions, client, backfillDone>>
        /\ \/ (stage = "stop" /\ stage' = "flush")
           \/ (stage = "restop" /\ stage' = "reflush")
    BY <1>3 DEF StopGoesOn
  <2>2. stage = "restop" => fullSyncRun = None
    BY <1>3 DEF StopGoesOn, RunGone, Inv, RunInv
  <2>3. TypeOK' /\ SessionInv'
    BY <1>1, <2>1 DEF Inv, TypeOK, SessionInv
  <2>4. RunInv'
    BY <1>1, <2>1, <2>2 DEF Inv, RunInv, Counted, Compares
  <2> QED
    BY <1>2, <2>3, <2>4 DEF Inv
<1>4. CASE LogoutGoesOn
  <2>1. stage = "flush" /\ stage' = "logout" /\ backfillDone' = FALSE
        /\ UNCHANGED <<sessions, client, awaited>>
    BY <1>4 DEF LogoutGoesOn
  <2> QED
    BY <1>1, <1>2, <2>1 DEF Inv, TypeOK, SessionInv, RunInv, Counted, Compares
<1>5. CASE PrepareGoesOn
  <2>1. stage = "reflush" /\ stage' = "prepare" /\ sessions' = sessions + 1
        /\ client' = sessions + 1 /\ UNCHANGED <<awaited, backfillDone>>
    BY <1>5 DEF PrepareGoesOn
  <2>2. sessions + 1 \in Generation
    <3>1. sessions \in Generation /\ sessions < MaxSessions
      BY <2>1 DEF Inv, TypeOK, SessionInv
    <3> QED
      BY <3>1, Values DEF Generation
  <2>3. fullSyncRun = None
    BY <2>1 DEF Inv, RunInv
  <2> QED
    BY <1>1, <1>2, <2>1, <2>2, <2>3 DEF Inv, TypeOK, SessionInv, RunInv
<1>6. CASE Prepared
  <2>1. stage = "prepare" /\ stage' = "up" /\ UNCHANGED <<sessions, client, awaited, backfillDone>>
    BY <1>6 DEF Prepared
  <2> QED
    BY <1>1, <1>2, <2>1 DEF Inv, TypeOK, SessionInv, RunInv, Counted, Compares
<1> QED
  BY <1>3, <1>4, <1>5, <1>6

LEMMA StutterInv ==
    ASSUME Inv, UNCHANGED vars
    PROVE  Inv'
  BY DEF Inv, TypeOK, RunInv, Counted, Compares, SessionInv, TimerInv, SweepInv, AskedInv,
     RequestsStayInSession, vars, session, watchdog, sweeping

LEMMA Inductive == Inv /\ [Next]_vars => Inv'
  BY RunStepInv, StartInv, WatchdogInv, SweepActionsInv, StopInv, RestartInv, StutterInv DEF Next

(* The run that exists belongs to the current client, or to the one that   *)
(* was just dropped, and then the restart waits for it.                    *)
THEOREM HistoryInvariant == Spec => []Inv
<1>1. Inv /\ [Next]_vars => Inv'
  BY Inductive
<1> QED
  BY InitInv, <1>1, PTL DEF Spec

(* Every variable keeps to its domain: an asked request names a session,   *)
(* the rounds of a run stay within the limit, and no chat is counted       *)
(* stable more than twice, whatever the phone and the store do.            *)
THEOREM HistoryTypes == Spec => []TypeOK
<1>1. Inv => TypeOK
  BY DEF Inv
<1> QED
  BY HistoryInvariant, <1>1, PTL

(* A run, a gap sweep or an initial backfill never asks with the client of *)
(* a session that was replaced: stopSessionWork waits for the run before a *)
(* new client is made, and a sweep compares the clients.                   *)
THEOREM RequestsKeepTheirSession == Spec => []RequestsStayInSession
<1>1. Inv => RequestsStayInSession
  BY DEF Inv, AskedInv
<1> QED
  BY HistoryInvariant, <1>1, PTL

-----------------------------------------------------------------------------
(* Only the watchdog that is armed gives a run the reason "Timed out".     *)
LEMMA OnlyTheWatchdog ==
    ASSUME Inv, Next, HasTimedOut(fullSyncRun'), ~HasTimedOut(fullSyncRun)
    PROVE  ~heard
<1> USE DEF HasTimedOut
<1>1. CASE TimedOut
  BY <1>1 DEF TimedOut, Inv, TimerInv
<1>2. CASE RunStep
  <2>1. Progress
    BY <1>2, RunProgress
  <2> QED
    BY <2>1 DEF Progress, End, SameRun
<1>3. CASE StartFullHistorySync
  BY <1>3, NoneAssumption DEF StartFullHistorySync, Reason
<1>4. CASE Logout \/ Boot
  <2>1. StopSessionWork
    BY <1>4 DEF Logout, Boot
  <2> QED
    BY <2>1 DEF StopSessionWork, CancelRun, Inv, RunInv, RunState
<1>5. CASE UNCHANGED fullSyncRun
  BY <1>5
<1> QED
  BY <1>1, <1>2, <1>3, <1>4, <1>5 DEF Next, SleepOver, Chunk, StaleTimer, Connected,
     InitialBackfill, SweepBegins, SweepSettled, SweepScanned, SweepPaused, StopGoesOn,
     LogoutGoesOn, PrepareGoesOn, Prepared

(* A run times out only after its watchdog slept through without a         *)
(* contentful chunk: a watchdog that was replaced, or belongs to an        *)
(* earlier run, never gives it that reason.                                *)
THEOREM TimeoutsAreSilence == Spec => TimedOutOnlyIfSilent
<1>1. Inv /\ [Next]_vars => [HasTimedOut(fullSyncRun') /\ ~HasTimedOut(fullSyncRun) => ~heard]_vars
  BY OnlyTheWatchdog DEF vars
<1> QED
  BY HistoryInvariant, <1>1, PTL DEF Spec, TimedOutOnlyIfSilent
=============================================================================
