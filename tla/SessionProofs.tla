--------------------------- MODULE SessionProofs ---------------------------
(***************************************************************************)
(* What Session promises, for any number of events, callers and sessions:  *)
(* its types, that calls stay in their session, and that the queue is the  *)
(* log of EventLog.  StepKinds classifies the actions by what they do to   *)
(* the queue, the callers and the histories; the parts of the inductive    *)
(* invariant and the step of the refinement go through that classification.*)
(***************************************************************************)
EXTENDS Session, SequenceTheorems, TLAPS

InDrain(p) == pc[p] \in {"drain", "drain saved", "drain failed"}

(* A caller is past the guards before its flush, and has not ended. *)
Under(p) == pc[p] \notin {"idle", "network", "done"}

(* The types, and what must have one where it is used. *)
TypeInv ==
    /\ TypeOK
    /\ client \in Generation
    /\ stage \in {"stop", "logout", "restop"} => client < MaxSessions
    /\ \A p \in Caller : pc[p] # "idle" => source[p] \in Generation
    /\ \A p \in Process : InDrain(p) => target[p] \in Generation
    /\ \A p \in Caller \ Sampler : Under(p) => captured[p] \in Generation
    /\ \A p \in Sampler : pc[p] \notin {"writing", "written"}

-----------------------------------------------------------------------------
(* Facts about sequences and processes. *)

LEMMA MadeSeq ==
    ASSUME NEW S, NEW n \in Nat, NEW f \in [1..n -> S]
    PROVE  f \in Seq(S) /\ Len(f) = n
  OBVIOUS

LEMMA Processes ==
    /\ Event \cap Flusher = {}
    /\ Caller \subseteq Flusher /\ Stop \in Flusher /\ Stop \notin Caller
    /\ Flusher \subseteq Process /\ Event \subseteq Process
    /\ Process = Event \cup Flusher
    /\ Event \subseteq Nat /\ None \notin Event
  BY SessionAssumption DEF Event, Process, Flusher, None

(* A step that concerns process p leaves the others where they are. *)
Others(p) ==
    \A q \in Process \ {p} :
        pc'[q] = pc[q] /\ batch'[q] = batch[q] /\ target'[q] = target[q]

QueueTypes ==
    /\ pendingWrites \in Seq(Event)
    /\ writeFlushTask \in Event \cup {None}
    /\ writing \in BOOLEAN
    /\ pc \in [Process -> Step]
    /\ batch \in [Process -> Seq(Event)]
    /\ target \in [Process -> Generation \cup {None}]

Takes(p) ==
    /\ pendingWrites # <<>>
    /\ pendingWrites' = <<>>
    /\ batch'[p] = pendingWrites
    /\ target'[p] = writer /\ writer \in Generation
    /\ pc'[p] = "drain"
    /\ writing' = TRUE

Ends(p) ==
    /\ pendingWrites' = pendingWrites
    /\ pc'[p] \in {"done", "flushed"}
    /\ writing' = FALSE

Leaves(p) ==
    /\ UNCHANGED <<queue, target>>
    /\ pc'[p] \in {"done", "flushed", "awaiting"}

LEMMA EndDrainCases ==
    ASSUME TypeInv, NEW p \in Process, EndDrain(p)
    PROVE  QueueTypes' /\ Others(p) /\ Ends(p)
<1>1. QueueTypes
  BY DEF TypeInv, TypeOK, QueueTypes
<1>2. Ends(p) /\ Others(p)
  BY <1>1 DEF EndDrain, Ends, Others, QueueTypes
<1>3. QueueTypes'
  BY <1>1, EmptySeq DEF EndDrain, QueueTypes, Step
<1> QED
  BY <1>2, <1>3

LEMMA NextBatchCases ==
    ASSUME TypeInv, NEW p \in Process, NextBatch(p)
    PROVE  QueueTypes' /\ Others(p) /\ (Takes(p) \/ Ends(p))
<1>1. QueueTypes /\ writer \in Generation \cup {None}
  BY DEF TypeInv, TypeOK, QueueTypes
<1>2. CASE pendingWrites # <<>> /\ writer # None
  <2>1. writer \in Generation
    BY <1>1, <1>2
  <2>2. Takes(p) /\ Others(p)
    BY <1>1, <1>2, <2>1 DEF NextBatch, Takes, Others, QueueTypes
  <2>3. QueueTypes'
    BY <1>1, <1>2, <2>1, EmptySeq DEF NextBatch, QueueTypes, Step
  <2> QED
    BY <2>2, <2>3
<1>3. CASE ~(pendingWrites # <<>> /\ writer # None)
  <2>1. EndDrain(p)
    BY <1>3 DEF NextBatch
  <2> QED
    BY <2>1, EndDrainCases
<1> QED
  BY <1>2, <1>3

(* What a flush of what is left does. *)
LEMMA FlushCases ==
    ASSUME TypeInv, NEW p \in Process, FlushWhatIsLeft(p)
    PROVE  /\ QueueTypes' /\ Others(p)
           /\ (Takes(p) /\ ~writing) \/ (Ends(p) /\ ~writing) \/ Leaves(p)
<1>1. CASE pendingWrites # <<>> /\ ~writing
  <2>1. NextBatch(p)
    BY <1>1 DEF FlushWhatIsLeft
  <2> QED
    BY <1>1, <2>1, NextBatchCases
<1>2. CASE ~(pendingWrites # <<>> /\ ~writing)
  <2>1. pc' = [pc EXCEPT ![p] = "flushed"] /\ UNCHANGED <<queue, target>>
    BY <1>2 DEF FlushWhatIsLeft
  <2>2. QueueTypes
    BY DEF TypeInv, TypeOK, QueueTypes
  <2> QED
    BY <2>1, <2>2 DEF QueueTypes, Others, Leaves, queue, Step
<1> QED
  BY <1>1, <1>2

LEMMA FlushPendingCases ==
    ASSUME TypeInv, NEW p \in Flusher, FlushPendingWrites(p)
    PROVE  /\ QueueTypes' /\ Others(p) /\ awaits' \in [Flusher -> Event \cup {None}]
           /\ (Takes(p) /\ ~writing) \/ (Ends(p) /\ ~writing) \/ Leaves(p)
<1>0. QueueTypes /\ p \in Process /\ awaits \in [Flusher -> Event \cup {None}]
  BY Processes DEF TypeInv, TypeOK, QueueTypes
<1>1. CASE writeFlushTask # None /\ pc[writeFlushTask] # "done"
  <2>1. /\ pc' = [pc EXCEPT ![p] = "awaiting"]
        /\ awaits' = [awaits EXCEPT ![p] = writeFlushTask]
        /\ UNCHANGED <<queue, target>>
    BY <1>1 DEF FlushPendingWrites
  <2> QED
    BY <1>0, <2>1 DEF QueueTypes, Others, Leaves, queue, Step
<1>2. CASE ~(writeFlushTask # None /\ pc[writeFlushTask] # "done")
  BY <1>0, <1>2, FlushCases DEF FlushPendingWrites
<1> QED
  BY <1>1, <1>2

-----------------------------------------------------------------------------
(* The part of TypeInv that is not about the queue. *)
OtherTypes ==
    /\ admitting \in BOOLEAN
    /\ client \in Generation
    /\ writer \in Generation \cup {None}
    /\ stage \in {"run", "stop", "logout", "restop", "prepare"}
    /\ stage \in {"stop", "logout", "restop"} => client < MaxSessions
    /\ awaits \in [Flusher -> Event \cup {None}]
    /\ source \in [Caller -> Generation \cup {None}]
    /\ captured \in [Caller -> Generation \cup {None}]
    /\ admitted \in 0..MaxEvents
    /\ origin \in [Event -> Generation \cup {None}]

HistoryTypes ==
    /\ saved \in Seq([what: Event \cup Caller, by: Generation])
    /\ lost \subseteq Event
    /\ shown \in Seq([what: Event \cup Caller, to: Generation])

Begun == \A p \in Caller : pc[p] # "idle" => source[p] \in Generation
Aimed == \A p \in Process : InDrain(p) => target[p] \in Generation
Held ==
    /\ \A p \in Caller \ Sampler : Under(p) => captured[p] \in Generation
    /\ \A p \in Sampler : pc[p] \notin {"writing", "written"}

LEMMA TypeParts ==
    TypeInv <=> QueueTypes /\ OtherTypes /\ HistoryTypes /\ Begun /\ Aimed /\ Held
  BY DEF TypeInv, TypeOK, QueueTypes, OtherTypes, HistoryTypes, Begun, Aimed, Held

LEMMA TypePartsNext ==
    ASSUME QueueTypes', OtherTypes', HistoryTypes', Begun', Aimed', Held'
    PROVE  TypeInv'
  BY DEF TypeInv, TypeOK, QueueTypes, OtherTypes, HistoryTypes, Begun, Aimed, Held

(* A caller that writes or has written holds a writer. *)
LEMMA WriterHeld ==
    ASSUME TypeInv, NEW p \in Caller, pc[p] \in {"writing", "written"}
    PROVE  captured[p] \in Generation /\ source[p] \in Generation
  BY DEF TypeInv, Under

(* What a step of process p leaves of the writers the callers hold. *)
Captured(p) ==
    /\ captured' \in [Caller -> Generation \cup {None}]
    /\ \A q \in Caller \ {p} : captured'[q] = captured[q]
    /\ p \in Caller \ Sampler => captured'[p] \in Generation

LEMMA CapturedKept ==
    ASSUME TypeInv, NEW p \in Process, UNCHANGED captured, p \in Caller => Under(p)
    PROVE  Captured(p)
  BY TypeParts DEF Captured, Held, OtherTypes

LEMMA CapturedNew ==
    ASSUME TypeInv, NEW p \in Caller, Captures(p), p \in Sampler \/ writer # None
    PROVE  Captured(p)
  BY TypeParts DEF Captured, Captures, OtherTypes

(* Whatever a process takes, ends or leaves keeps Begun and Aimed. *)
LEMMA AimedStep ==
    ASSUME TypeInv, NEW p \in Process, QueueTypes', Others(p), UNCHANGED writer,
           Takes(p) \/ Ends(p) \/ Leaves(p)
    PROVE  Aimed'
<1>1. Aimed
  BY TypeParts
<1> SUFFICES ASSUME NEW q \in Process, InDrain(q)'
             PROVE  target'[q] \in Generation'
  BY DEF Aimed
<1>2. CASE q = p
  BY <1>2 DEF Takes, Ends, Leaves, InDrain, Generation
<1>3. CASE q # p
  BY <1>1, <1>3 DEF Others, Aimed, InDrain, Generation
<1> QED
  BY <1>2, <1>3

LEMMA BegunStep ==
    ASSUME TypeInv, NEW p \in Process, Others(p), UNCHANGED source,
           p \in Caller => pc[p] # "idle"
    PROVE  Begun'
<1>1. Begun /\ Caller \subseteq Process
  BY TypeParts, Processes
<1> QED
  BY <1>1 DEF Others, Begun, Generation

LEMMA HeldStep ==
    ASSUME TypeInv, NEW p \in Process, Others(p), Captured(p), Takes(p) \/ Ends(p) \/ Leaves(p)
    PROVE  Held'
<1>1. Held /\ Caller \subseteq Process /\ Sampler \subseteq Caller
  BY TypeParts, Processes DEF Caller
<1>2. pc'[p] \in {"drain", "done", "flushed", "awaiting"}
  BY DEF Takes, Ends, Leaves
<1> QED
  BY <1>1, <1>2 DEF Others, Captured, Held, Under, Generation

LEMMA AdmitTypes ==
    ASSUME TypeInv, Admit(client)
    PROVE  TypeInv'
<1>1. QueueTypes /\ OtherTypes /\ HistoryTypes /\ Begun /\ Aimed /\ Held
  BY TypeParts
<1>2. admitted' = admitted + 1 /\ admitted' \in Event /\ MaxEvents \in Nat
  BY <1>1, SessionAssumption DEF Admit, OtherTypes, Event
<1>3. pendingWrites' \in Seq(Event)
  BY <1>1, <1>2, AppendProperties DEF Admit, Enqueue, QueueTypes
<1>4. pc' \in [Process -> Step] /\ writeFlushTask' \in Event \cup {None}
  BY <1>1, <1>2, Processes DEF Admit, Enqueue, QueueTypes, Step
<1>5. \A q \in Process : pc'[q] = pc[q] \/ (q \in Event /\ pc'[q] = "sleeping")
  <2>1. pc' = [pc EXCEPT ![admitted'] = "sleeping"] \/ pc' = pc
    BY DEF Admit, Enqueue
  <2>2. PICK e \in Event : pc' = [pc EXCEPT ![e] = "sleeping"] \/ pc' = pc
    BY <1>2, <2>1
  <2> QED
    BY <1>1, <2>2 DEF QueueTypes
<1>6. QueueTypes'
  BY <1>1, <1>3, <1>4 DEF QueueTypes, Admit
<1>7. OtherTypes'
  BY <1>1, <1>2 DEF OtherTypes, Admit, session, Event, Generation
<1>8. HistoryTypes' /\ UNCHANGED <<source, captured, target>>
  BY <1>1 DEF HistoryTypes, Admit, history
<1>9. Begun'
  BY <1>1, <1>5, <1>8, Processes DEF Begun
<1>10. Aimed'
  BY <1>1, <1>5, <1>8, Processes DEF Aimed, InDrain
<1>11. Held'
  BY <1>1, <1>5, <1>8, Processes DEF Held, Under, Caller
<1> QED
  BY <1>6, <1>7, <1>8, <1>9, <1>10, <1>11, TypePartsNext

(* A timer, a flush that goes on or a drain that returns: process p moves. *)
LEMMA DrainTypes ==
    ASSUME TypeInv, NEW p \in Process, QueueTypes', HistoryTypes', Others(p),
           Takes(p) \/ Ends(p) \/ Leaves(p),
           p \in Caller => pc[p] # "idle",
           awaits' \in [Flusher -> Event \cup {None}], Captured(p),
           UNCHANGED <<admitting, client, writer, source, admission>>,
           stage' = stage \/ (stage' = "restop" /\ stage = "logout")
    PROVE  TypeInv'
<1>1. OtherTypes
  BY TypeParts
<1>2. OtherTypes'
  BY <1>1 DEF OtherTypes, admission, Generation, Event, Captured
<1>3. Aimed' /\ Begun' /\ Held'
  BY AimedStep, BegunStep, HeldStep
<1> QED
  BY <1>2, <1>3, TypePartsNext

(* A step that moves process p, and no queue. *)
LEMMA MoveTypes ==
    ASSUME TypeInv, NEW p \in Process, NEW s \in Step,
           pc' = [pc EXCEPT ![p] = s],
           UNCHANGED <<queue, target>>, HistoryTypes', OtherTypes',
           s \in {"drain", "drain saved", "drain failed"} => InDrain(p),
           p \in Caller /\ s # "idle" => source'[p] \in Generation,
           \A q \in Caller \ {p} : source'[q] = source[q],
           UNCHANGED captured,
           p \in Caller /\ s \notin {"idle", "network", "done"} => Under(p),
           p \in Sampler => s # "writing" /\ (s = "written" => pc[p] = "writing")
    PROVE  TypeInv'
<1>1. QueueTypes /\ Begun /\ Aimed /\ Held
  BY TypeParts
<1>2. QueueTypes'
  BY <1>1 DEF QueueTypes, queue
<1>3. Begun'
  BY <1>1, Processes DEF Begun, QueueTypes, Generation
<1>4. Aimed'
  BY <1>1 DEF Aimed, QueueTypes, InDrain, Generation
<1>5. Held'
  BY <1>1, Processes DEF Held, Under, QueueTypes, Generation, Caller
<1> QED
  BY <1>2, <1>3, <1>4, <1>5, TypePartsNext

(* The history of a batch that is saved or shown. *)
LEMMA Stretch ==
    ASSUME NEW S, NEW s \in Seq(S), NEW n \in Nat, NEW f \in [1..n -> S]
    PROVE  /\ s \o f \in Seq(S) /\ Len(s \o f) = Len(s) + n
           /\ \A k \in 1..Len(s) : (s \o f)[k] = s[k]
           /\ \A k \in 1..n : (s \o f)[Len(s) + k] = f[k]
           /\ \A k \in (Len(s) + 1)..(Len(s) + n) : (s \o f)[k] = f[k - Len(s)]
<1>1. f \in Seq(S) /\ Len(f) = n
  BY MadeSeq
<1>2. /\ s \o f \in Seq(S) /\ Len(s \o f) = Len(s) + n
      /\ \A k \in 1..(Len(s) + n) : (s \o f)[k] =
             IF k <= Len(s) THEN s[k] ELSE f[k - Len(s)]
  BY <1>1, ConcatProperties
<1>3. Len(s) \in Nat
  BY LenProperties
<1> QED
  BY <1>2, <1>3

(* The records a batch becomes. *)
SavedBatch(p) == [k \in 1..Len(batch[p]) |-> [what |-> batch[p][k], by |-> target[p]]]
ShownBatch(p) == [k \in 1..Len(batch[p]) |-> [what |-> batch[p][k], to |-> writer]]

LEMMA BatchRecords ==
    ASSUME TypeInv, NEW p \in Process
    PROVE  /\ batch[p] \in Seq(Event) /\ Len(batch[p]) \in Nat
           /\ \A k \in 1..Len(batch[p]) : batch[p][k] \in Event
           /\ InDrain(p) =>
                SavedBatch(p) \in [1..Len(batch[p]) -> [what: Event \cup Caller, by: Generation]]
           /\ writer \in Generation =>
                ShownBatch(p) \in [1..Len(batch[p]) -> [what: Event \cup Caller, to: Generation]]
<1>1. batch[p] \in Seq(Event) /\ (InDrain(p) => target[p] \in Generation)
  BY DEF TypeInv, TypeOK
<1>2. Len(batch[p]) \in Nat /\ \A k \in 1..Len(batch[p]) : batch[p][k] \in Event
  BY <1>1, LenProperties, ElementOfSeq
<1>3. InDrain(p) =>
        SavedBatch(p) \in [1..Len(batch[p]) -> [what: Event \cup Caller, by: Generation]]
  BY <1>1, <1>2 DEF SavedBatch
<1>4. writer \in Generation =>
        ShownBatch(p) \in [1..Len(batch[p]) -> [what: Event \cup Caller, to: Generation]]
  BY <1>2 DEF ShownBatch
<1> QED
  BY <1>1, <1>2, <1>3, <1>4

LEMMA TypeInvInit == Init => TypeInv
<1> SUFFICES ASSUME Init PROVE TypeInv
  OBVIOUS
<1>1. 1 \in Generation /\ 0 \in 0..MaxEvents
  BY SessionAssumption DEF Generation
<1>2. TypeOK
  <2>1. QueueTypes
    BY EmptySeq DEF Init, QueueTypes, Step
  <2>2. HistoryTypes
    BY EmptySeq DEF Init, HistoryTypes
  <2> QED
    BY <1>1, <2>1, <2>2 DEF Init, TypeOK, QueueTypes, HistoryTypes
<1>3. \A p \in Process : pc[p] = "idle"
  BY DEF Init
<1> QED
  BY <1>1, <1>2, <1>3, Processes DEF TypeInv, Init, InDrain, Under, Caller

LEMMA VarsKept ==
    ASSUME TypeInv, UNCHANGED vars
    PROVE  TypeInv'
  BY DEF TypeInv, TypeOK, vars, session, queue, admission, history, InDrain, Under, Event, Generation,
     Caller, Flusher, Process, Step, Answers

LEMMA TypeInvStep ==
    ASSUME TypeInv, Next
    PROVE  TypeInv'
<1>0. QueueTypes /\ OtherTypes /\ HistoryTypes /\ Begun /\ Aimed /\ Held
      /\ Sampler \subseteq Caller
  BY TypeParts DEF Caller
<1> USE Processes
<1>1. CASE Receive
  BY <1>1, AdmitTypes DEF Receive
<1>2. CASE LocalDelete
  BY <1>2, AdmitTypes DEF LocalDelete
<1>3. ASSUME NEW e \in Event, TimerFires(e)
      PROVE  TypeInv'
  <2>1. HistoryTypes' /\ awaits' \in [Flusher -> Event \cup {None}]
        /\ UNCHANGED <<admitting, client, writer, source, admission, stage>>
    BY <1>0, <1>3 DEF TimerFires, HistoryTypes, history, OtherTypes, session
  <2>2. e \in Process /\ e \notin Caller
    OBVIOUS
  <2>5. Captured(e)
    BY <1>3, <2>2, CapturedKept DEF TimerFires
  <2>3. CASE writing
    <3>1. pc' = [pc EXCEPT ![e] = "done"] /\ UNCHANGED <<queue, target>>
      BY <1>3, <2>3 DEF TimerFires
    <3>2. QueueTypes' /\ Others(e) /\ Leaves(e)
      BY <1>0, <3>1 DEF QueueTypes, Others, Leaves, queue, Step
    <3> QED
      BY <2>1, <2>2, <2>5, <3>2, DrainTypes
  <2>4. CASE ~writing
    <3>1. NextBatch(e)
      BY <1>3, <2>4 DEF TimerFires
    <3>2. QueueTypes' /\ Others(e) /\ (Takes(e) \/ Ends(e))
      BY <3>1, NextBatchCases
    <3> QED
      BY <2>1, <2>2, <2>5, <3>2, DrainTypes
  <2> QED
    BY <2>3, <2>4
<1>4. ASSUME NEW p \in Flusher, Woken(p)
      PROVE  TypeInv'
  <2>1. HistoryTypes' /\ FlushWhatIsLeft(p) /\ pc[p] = "awaiting"
        /\ awaits' \in [Flusher -> Event \cup {None}]
        /\ UNCHANGED <<admitting, client, writer, source, admission, stage>>
    BY <1>0, <1>4 DEF Woken, HistoryTypes, history, OtherTypes, session
  <2>2. QueueTypes' /\ Others(p) /\ (Takes(p) \/ Ends(p) \/ Leaves(p))
    BY <2>1, FlushCases
  <2>3. Captured(p)
    BY <1>4, <2>1, CapturedKept DEF Woken, Under
  <2> QED
    BY <2>1, <2>2, <2>3, DrainTypes
<1>5. ASSUME NEW p \in Process, WriterSavesBatch(p)
      PROVE  TypeInv'
  <2>1. pc[p] = "drain" /\ pc' = [pc EXCEPT ![p] = "drain saved"]
        /\ saved' = saved \o SavedBatch(p) /\ UNCHANGED <<queue, target, source, lost, shown>>
    BY <1>5 DEF WriterSavesBatch, SavedBatch
  <2>2. InDrain(p)
    BY <2>1 DEF InDrain
  <2>3. saved' \in Seq([what: Event \cup Caller, by: Generation])
    BY <1>0, <2>1, <2>2, BatchRecords, Stretch DEF HistoryTypes
  <2>4. HistoryTypes' /\ OtherTypes'
    BY <1>0, <1>5, <2>1, <2>3 DEF WriterSavesBatch, HistoryTypes, OtherTypes, session, admission,
       Generation, Event
  <2>5. "drain saved" \in Step /\ (p \in Caller => source'[p] \in Generation)
        /\ UNCHANGED captured /\ Under(p)
    BY <1>0, <1>5, <2>1 DEF WriterSavesBatch, Step, Answers, Begun, Under
  <2> QED
    BY <2>1, <2>2, <2>4, <2>5, MoveTypes
<1>6. ASSUME NEW p \in Process, WriterThrowsBatch(p)
      PROVE  TypeInv'
  <2>1. pc[p] = "drain" /\ pc' = [pc EXCEPT ![p] = "drain failed"]
        /\ lost' = lost \cup Elements(batch[p])
        /\ UNCHANGED <<queue, target, source, saved, shown>>
    BY <1>6 DEF WriterThrowsBatch
  <2>2. Elements(batch[p]) \subseteq Event
    BY BatchRecords DEF Elements
  <2>3. HistoryTypes' /\ OtherTypes' /\ InDrain(p)
    BY <1>0, <1>6, <2>1, <2>2 DEF WriterThrowsBatch, HistoryTypes, OtherTypes, session,
       admission, Generation, Event, InDrain
  <2>4. "drain failed" \in Step /\ (p \in Caller => source'[p] \in Generation)
        /\ UNCHANGED captured /\ Under(p)
    BY <1>0, <1>6, <2>1 DEF WriterThrowsBatch, Step, Answers, Begun, Under
  <2> QED
    BY <2>1, <2>3, <2>4, MoveTypes
<1>7. ASSUME NEW p \in Process, DrainPublishes(p)
      PROVE  TypeInv'
  <2>1. pc[p] = "drain saved" /\ InDrain(p)
        /\ UNCHANGED <<admitting, client, writer, source, admission, stage, awaits, saved, lost>>
    BY <1>7 DEF DrainPublishes, InDrain, session
  <2>4. Captured(p)
    BY <1>7, <2>1, CapturedKept DEF DrainPublishes, Under
  <2>2. CASE SameSession(p)
    <3>1. NextBatch(p) /\ shown' = shown \o ShownBatch(p)
      BY <1>7, <2>2 DEF DrainPublishes, ShownBatch
    <3>2. writer \in Generation
      BY <1>0, <2>1, <2>2 DEF SameSession, Aimed
    <3>3. shown' \in Seq([what: Event \cup Caller, to: Generation])
      BY <1>0, <3>1, <3>2, BatchRecords, Stretch DEF HistoryTypes
    <3>4. HistoryTypes' /\ awaits' \in [Flusher -> Event \cup {None}]
      BY <1>0, <2>1, <3>3 DEF HistoryTypes, OtherTypes
    <3> QED
      BY <2>1, <2>4, <3>1, <3>4, NextBatchCases, DrainTypes
  <2>3. CASE ~SameSession(p)
    <3>1. EndDrain(p) /\ UNCHANGED shown
      BY <1>7, <2>3 DEF DrainPublishes
    <3>2. HistoryTypes' /\ awaits' \in [Flusher -> Event \cup {None}]
      BY <1>0, <2>1, <3>1 DEF HistoryTypes, OtherTypes
    <3> QED
      BY <2>1, <2>4, <3>1, <3>2, EndDrainCases, DrainTypes
  <2> QED
    BY <2>2, <2>3
<1>8. ASSUME NEW p \in Process, DrainReportsError(p)
      PROVE  TypeInv'
  <2>1. pc[p] = "drain failed" /\ NextBatch(p) /\ HistoryTypes'
        /\ awaits' \in [Flusher -> Event \cup {None}]
        /\ UNCHANGED <<admitting, client, writer, source, admission, stage>>
    BY <1>0, <1>8 DEF DrainReportsError, session, HistoryTypes, history, OtherTypes
  <2>2. Captured(p)
    BY <1>8, <2>1, CapturedKept DEF DrainReportsError, Under
  <2> QED
    BY <2>1, <2>2, NextBatchCases, DrainTypes
<1>9. ASSUME NEW p \in Caller, StartCall(p)
      PROVE  TypeInv'
  <2>1. /\ pc' = [pc EXCEPT ![p] = "network"] /\ source' = [source EXCEPT ![p] = client]
        /\ UNCHANGED <<queue, target, captured>>
    BY <1>9 DEF StartCall
  <2>2. HistoryTypes' /\ OtherTypes'
    BY <1>0, <1>9, <2>1 DEF StartCall, HistoryTypes, OtherTypes, session, admission, history,
       Generation, Event
  <2>3. "network" \in Step /\ source'[p] \in Generation
        /\ \A q \in Caller \ {p} : source'[q] = source[q]
    BY <1>0, <2>1 DEF Step, OtherTypes
  <2> QED
    BY <2>1, <2>2, <2>3, MoveTypes
<1>10. ASSUME NEW p \in Caller, CallReturns(p)
       PROVE  TypeInv'
  <2> DEFINE Enters == SameClient(p) /\ (p \in Sampler \/ writer # None)
  <2>1. HistoryTypes' /\ pc[p] = "network"
        /\ UNCHANGED <<admitting, client, writer, source, admission, stage>>
    BY <1>0, <1>10 DEF CallReturns, HistoryTypes, history, session
  <2>2. CASE Enters
    <3>1. FlushPendingWrites(p) /\ Captures(p)
      BY <1>10, <2>2 DEF CallReturns
    <3>2. Captured(p)
      BY <2>2, <3>1, CapturedNew
    <3> QED
      BY <2>1, <3>1, <3>2, FlushPendingCases, DrainTypes
  <2>3. CASE ~Enters
    <3>1. pc' = [pc EXCEPT ![p] = "done"] /\ UNCHANGED <<queue, target, awaits, captured>>
      BY <1>10, <2>3 DEF CallReturns
    <3>2. OtherTypes' /\ "done" \in Step /\ source'[p] \in Generation
      BY <1>0, <2>1, <3>1 DEF OtherTypes, admission, Generation, Event, Step, Begun
    <3> QED
      BY <2>1, <3>1, <3>2, MoveTypes
  <2> QED
    BY <2>2, <2>3
<1>11. ASSUME NEW p \in Caller, CallGoesOn(p)
       PROVE  TypeInv'
  <2>1. PICK s \in {"writing", "done"} :
            pc' = [pc EXCEPT ![p] = s] /\ (p \in Sampler => s = "done")
    BY <1>11 DEF CallGoesOn
  <2>2. pc[p] = "flushed" /\ Under(p) /\ UNCHANGED <<queue, target, source, captured>>
    BY <1>11 DEF CallGoesOn, Under
  <2>3. HistoryTypes' /\ OtherTypes' /\ source'[p] \in Generation
    BY <1>0, <1>11, <2>2 DEF CallGoesOn, HistoryTypes, OtherTypes, session, admission, history,
       Generation, Event, Begun
  <2>4. s \in Step
    BY <2>1 DEF Step
  <2> QED
    BY <2>1, <2>2, <2>3, <2>4, MoveTypes
<1>12. ASSUME NEW p \in Caller, WriterSavesCall(p)
       PROVE  TypeInv'
  <2>1. /\ pc[p] = "writing" /\ pc' = [pc EXCEPT ![p] = "written"]
        /\ saved' = Append(saved, [what |-> p, by |-> captured[p]])
        /\ UNCHANGED <<queue, target, source, captured, lost, shown>>
    BY <1>12 DEF WriterSavesCall
  <2>2. captured[p] \in Generation /\ source'[p] \in Generation /\ "written" \in Step
        /\ Under(p)
    BY <2>1, WriterHeld DEF Step, Under
  <2>3. saved' \in Seq([what: Event \cup Caller, by: Generation])
    BY <1>0, <2>1, <2>2, AppendProperties DEF HistoryTypes
  <2>4. HistoryTypes' /\ OtherTypes'
    BY <1>0, <1>12, <2>1, <2>3 DEF WriterSavesCall, HistoryTypes, OtherTypes, session, admission,
       Generation, Event
  <2> QED
    BY <2>1, <2>2, <2>4, MoveTypes
<1>13. ASSUME NEW p \in Caller, WriterThrowsCall(p)
       PROVE  TypeInv'
  <2>1. pc[p] = "writing" /\ pc' = [pc EXCEPT ![p] = "done"]
        /\ UNCHANGED <<queue, target, source, captured>>
    BY <1>13 DEF WriterThrowsCall
  <2>2. HistoryTypes' /\ OtherTypes' /\ source'[p] \in Generation /\ "done" \in Step
    BY <1>0, <1>13, <2>1 DEF WriterThrowsCall, HistoryTypes, OtherTypes, session, admission,
       history, Generation, Event, Begun, Step
  <2> QED
    BY <2>1, <2>2, MoveTypes
<1>14. ASSUME NEW p \in Caller, CallPublishes(p)
       PROVE  TypeInv'
  <2>1. /\ pc[p] = "written" /\ pc' = [pc EXCEPT ![p] = "done"]
        /\ shown' = IF MayPublish(p) THEN Append(shown, [what |-> p, to |-> writer]) ELSE shown
        /\ UNCHANGED <<queue, target, source, captured, saved, lost>>
    BY <1>14 DEF CallPublishes
  <2>2. captured[p] \in Generation /\ source'[p] \in Generation /\ "done" \in Step
    BY <2>1, WriterHeld DEF Step
  <2>3. shown' \in Seq([what: Event \cup Caller, to: Generation])
    <3>1. CASE MayPublish(p)
      <4>1. [what |-> p, to |-> writer] \in [what: Event \cup Caller, to: Generation]
        BY <2>2, <3>1 DEF MayPublish
      <4> QED
        BY <1>0, <2>1, <3>1, <4>1, AppendProperties DEF HistoryTypes
    <3>2. CASE ~MayPublish(p)
      BY <1>0, <2>1, <3>2 DEF HistoryTypes
    <3> QED
      BY <3>1, <3>2
  <2>4. HistoryTypes' /\ OtherTypes'
    BY <1>0, <1>14, <2>1, <2>3 DEF CallPublishes, HistoryTypes, OtherTypes, session, admission,
       Generation, Event
  <2> QED
    BY <2>1, <2>2, <2>4, MoveTypes
<1>15. CASE Logout
  <2>1. pc' = [pc EXCEPT ![Stop] = "history"] /\ UNCHANGED <<queue, target, source, captured>>
    BY <1>15 DEF Logout
  <2>2. HistoryTypes' /\ OtherTypes' /\ "history" \in Step
    BY <1>0, <1>15 DEF Logout, HistoryTypes, OtherTypes, admission, history, Generation, Event,
       Step
  <2> QED
    BY <2>1, <2>2, MoveTypes
<1>16. CASE HistoryRunEnded
  <2>1. HistoryTypes' /\ FlushPendingWrites(Stop)
        /\ UNCHANGED <<admitting, client, writer, source, admission, stage>>
    BY <1>0, <1>16 DEF HistoryRunEnded, HistoryTypes, history, session
  <2>2. Captured(Stop)
    BY <1>16, CapturedKept DEF HistoryRunEnded
  <2> QED
    BY <2>1, <2>2, FlushPendingCases, DrainTypes
<1>17. CASE LogoutGoesOn
  <2>1. pc' = [pc EXCEPT ![Stop] = "idle"] /\ UNCHANGED <<queue, target, source, captured>>
    BY <1>17 DEF LogoutGoesOn
  <2>2. HistoryTypes' /\ OtherTypes' /\ "idle" \in Step
    BY <1>0, <1>17 DEF LogoutGoesOn, HistoryTypes, OtherTypes, admission, history, Generation,
       Event, Step
  <2> QED
    BY <2>1, <2>2, MoveTypes
<1>18. CASE Boot
  <2>1. HistoryTypes' /\ FlushPendingWrites(Stop) /\ stage = "logout" /\ stage' = "restop"
        /\ UNCHANGED <<admitting, client, writer, source, admission>>
    BY <1>0, <1>18 DEF Boot, HistoryTypes, history
  <2>2. Captured(Stop)
    BY <1>18, CapturedKept DEF Boot
  <2> QED
    BY <2>1, <2>2, FlushPendingCases, DrainTypes
<1>19. CASE PrepareGoesOn
  <2>1. pc' = [pc EXCEPT ![Stop] = "idle"] /\ UNCHANGED <<queue, target, source, captured>>
    BY <1>19 DEF PrepareGoesOn
  <2>2. client < MaxSessions /\ client \in Generation /\ client + 1 \in Generation
    BY <1>0, <1>19, SessionAssumption DEF PrepareGoesOn, OtherTypes, Generation
  <2>3. HistoryTypes' /\ OtherTypes' /\ "idle" \in Step
    BY <1>0, <1>19, <2>2 DEF PrepareGoesOn, HistoryTypes, OtherTypes, admission, history,
       Generation, Event, Step
  <2> QED
    BY <2>1, <2>3, MoveTypes
<1>20. CASE Prepared
  <2>1. QueueTypes' /\ HistoryTypes' /\ OtherTypes' /\ Begun' /\ Aimed' /\ Held'
    BY <1>0, <1>20 DEF Prepared, QueueTypes, HistoryTypes, OtherTypes, Begun, Aimed, Held, Under, queue,
       admission, history, InDrain, Generation, Event
  <2> QED
    BY <2>1, TypePartsNext
<1>21. CASE Finished
  BY <1>0, <1>21, VarsKept DEF Finished
<1> QED
  BY <1>1, <1>2, <1>3, <1>4, <1>5, <1>6, <1>7, <1>8, <1>9, <1>10, <1>11, <1>12, <1>13, <1>14,
     <1>15, <1>16, <1>17, <1>18, <1>19, <1>20, <1>21 DEF Next

-----------------------------------------------------------------------------
(* What the steps do to the queue, the callers and the histories. *)
Admits ==
    /\ admitted' = admitted + 1 /\ admitted + 1 \in Event
    /\ pendingWrites' = Append(pendingWrites, admitted + 1)
    /\ \A q \in Process : pc'[q] = pc[q] \/ (q = admitted + 1 /\ pc'[q] = "sleeping")
    /\ UNCHANGED <<writing, batch, target, source, history>>

(* A process comes to the head of the drain, or passes it. *)
Drains(p) ==
    /\ Others(p)
    /\ \/ (Takes(p) \/ Ends(p)) /\ (~writing \/ InDrain(p))
       \/ Leaves(p) /\ ~InDrain(p)
    /\ pc[p] # "drain"
    /\ p \in Event \cup Caller => pc[p] \notin {"idle", "written", "done"}
    /\ UNCHANGED <<admitted, source, saved, lost>>

Publishes(p) ==
    /\ pc[p] = "drain saved"
    /\ writer = target[p]
    /\ shown' = shown \o ShownBatch(p)

Strolls(p) ==
    /\ Others(p)
    /\ ~InDrain(p) /\ ~InDrain(p)'
    /\ p \in Caller => pc[p] \notin {"written", "done"} /\ pc'[p] # "written"
    /\ UNCHANGED <<queue, target, source, admitted, history>>

Rests == UNCHANGED <<queue, pc, target, source, admitted, history>>

(* A stop of the session's work is under way only while the stage says so. *)
StopIdle == stage \in {"run", "logout", "prepare"} => pc[Stop] = "idle"

LEMMA StopIdleStep ==
    ASSUME TypeInv, StopIdle, Next
    PROVE  StopIdle'
<1>0. QueueTypes /\ OtherTypes
  BY TypeParts
<1> USE Processes
<1> DEFINE Kept == UNCHANGED stage /\ (pc[Stop] = "idle" => pc'[Stop] = "idle")
<1>1. Kept => StopIdle'
  BY DEF StopIdle
<1>2. ASSUME NEW p \in Process, UNCHANGED stage, pc[p] # "idle" \/ p # Stop,
             Others(p) \/ (\E s \in Step : pc' = [pc EXCEPT ![p] = s])
      PROVE  Kept
  BY <1>0, <1>2 DEF Others, QueueTypes
<1>3. ASSUME Receive \/ LocalDelete
      PROVE  Kept
  <2>1. admitted' \in Event /\ UNCHANGED stage
    BY <1>0, <1>3, SessionAssumption DEF Receive, LocalDelete, Admit, OtherTypes, Event, session
  <2>2. pc' = pc \/ pc' = [pc EXCEPT ![admitted'] = "sleeping"]
    BY <1>3 DEF Receive, LocalDelete, Admit, Enqueue
  <2>3. PICK e \in Event : pc' = pc \/ pc' = [pc EXCEPT ![e] = "sleeping"]
    BY <2>1, <2>2
  <2> QED
    BY <1>0, <2>1, <2>3 DEF QueueTypes
<1>4. ASSUME NEW e \in Event, TimerFires(e)
      PROVE  Kept
  <2>1. UNCHANGED stage /\ e # Stop /\ (NextBatch(e) \/ pc' = [pc EXCEPT ![e] = "done"])
    BY <1>4 DEF TimerFires, session
  <2> QED
    BY <1>2, <2>1, NextBatchCases DEF Step
<1>5. ASSUME NEW p \in Flusher, Woken(p)
      PROVE  Kept
  <2>1. UNCHANGED stage /\ pc[p] # "idle" /\ FlushWhatIsLeft(p)
    BY <1>5 DEF Woken, session
  <2> QED
    BY <1>2, <2>1, FlushCases
<1>6. ASSUME NEW p \in Process, WriterSavesBatch(p) \/ WriterThrowsBatch(p)
      PROVE  Kept
  <2>1. UNCHANGED stage /\ pc[p] # "idle" /\ \E s \in Step : pc' = [pc EXCEPT ![p] = s]
    BY <1>6 DEF WriterSavesBatch, WriterThrowsBatch, session, Step, Answers
  <2> QED
    BY <1>2, <2>1
<1>7. ASSUME NEW p \in Process, DrainPublishes(p) \/ DrainReportsError(p)
      PROVE  Kept
  <2>1. UNCHANGED stage /\ pc[p] # "idle" /\ (NextBatch(p) \/ EndDrain(p))
    BY <1>7 DEF DrainPublishes, DrainReportsError, session
  <2> QED
    BY <1>2, <2>1, NextBatchCases, EndDrainCases
<1>8. ASSUME NEW p \in Caller, CallReturns(p)
      PROVE  Kept
  <2>1. UNCHANGED stage /\ p # Stop
        /\ (FlushPendingWrites(p) \/ pc' = [pc EXCEPT ![p] = "done"])
    BY <1>8 DEF CallReturns, session
  <2> QED
    BY <1>2, <2>1, FlushPendingCases DEF Step
<1>9. ASSUME NEW p \in Caller,
             StartCall(p) \/ CallGoesOn(p) \/ WriterSavesCall(p) \/ WriterThrowsCall(p)
               \/ CallPublishes(p)
      PROVE  Kept
  <2>1. UNCHANGED stage /\ p # Stop /\ \E s \in Step : pc' = [pc EXCEPT ![p] = s]
    BY <1>9 DEF StartCall, CallGoesOn, WriterSavesCall, WriterThrowsCall, CallPublishes, session,
       Step
  <2> QED
    BY <1>2, <2>1
<1>10. ASSUME HistoryRunEnded
       PROVE  Kept
  <2>1. UNCHANGED stage /\ pc[Stop] # "idle" /\ FlushPendingWrites(Stop)
    BY <1>10 DEF HistoryRunEnded, session
  <2> QED
    BY <1>2, <2>1, FlushPendingCases
<1>11. CASE Logout \/ Boot
  BY <1>11 DEF Logout, Boot, StopIdle
<1>12. CASE LogoutGoesOn \/ PrepareGoesOn
  BY <1>0, <1>12 DEF LogoutGoesOn, PrepareGoesOn, StopIdle, QueueTypes
<1>13. CASE Prepared \/ Finished
  BY <1>13 DEF Prepared, Finished, vars, session, StopIdle
<1> HIDE DEF Kept
<1> QED
  BY <1>1, <1>3, <1>4, <1>5, <1>6, <1>7, <1>8, <1>9, <1>10, <1>11, <1>12, <1>13 DEF Next

(* While admission is open the writer is the client's, so the one a caller *)
(* took past the guards is the one of the session it began in.             *)
CaptureInv ==
    /\ admitting => stage = "run"
    /\ stage \in {"run", "prepare"} => writer = client
    /\ \A p \in Caller : captured[p] \in {None, source[p]}
    /\ \A p \in Caller : pc[p] = "idle" => captured[p] = None

LEMMA NoneIsNoGeneration == None \notin Generation
  BY SessionAssumption DEF None, Generation

LEMMA CaptureInvStep ==
    ASSUME TypeInv, CaptureInv, Next
    PROVE  CaptureInv'
<1>0. QueueTypes /\ OtherTypes
  BY TypeParts
<1> USE Processes
<1> DEFINE NoneBegins == \A c \in Caller : pc'[c] = "idle" => pc[c] = "idle"
<1>1. ASSUME UNCHANGED <<session, source, captured>>, NoneBegins
      PROVE  CaptureInv'
  BY <1>1 DEF CaptureInv, session
<1>2. ASSUME NEW p \in Process, Others(p), Takes(p) \/ Ends(p) \/ Leaves(p)
      PROVE  NoneBegins
  BY <1>2 DEF Others, Takes, Ends, Leaves
<1>3. ASSUME NEW p \in Process, NEW s \in Step, pc' = [pc EXCEPT ![p] = s],
             s # "idle" \/ p \notin Caller
      PROVE  NoneBegins
  BY <1>0, <1>3 DEF QueueTypes
<1>4. CASE Receive \/ LocalDelete
  <2>1. /\ UNCHANGED <<session, source, captured>>
        /\ pc' = pc \/ pc' = [pc EXCEPT ![admitted'] = "sleeping"]
    BY <1>4 DEF Receive, LocalDelete, Admit, Enqueue
  <2>2. NoneBegins
    BY <1>0, <2>1 DEF QueueTypes
  <2> QED
    BY <1>1, <2>1, <2>2
<1>5. ASSUME NEW p \in Process,
             (p \in Event /\ TimerFires(p)) \/ (p \in Flusher /\ Woken(p))
               \/ DrainPublishes(p) \/ DrainReportsError(p)
      PROVE  CaptureInv'
  <2>1. UNCHANGED <<session, source, captured>>
    BY <1>5 DEF TimerFires, Woken, DrainPublishes, DrainReportsError
  <2>2. CASE NextBatch(p) \/ EndDrain(p) \/ FlushWhatIsLeft(p)
    BY <1>1, <1>2, <2>1, <2>2, NextBatchCases, EndDrainCases, FlushCases
  <2>3. CASE pc' = [pc EXCEPT ![p] = "done"]
    BY <1>1, <1>3, <2>1, <2>3 DEF Step
  <2> QED
    BY <1>5, <2>2, <2>3 DEF TimerFires, Woken, DrainPublishes, DrainReportsError
<1>6. ASSUME NEW p \in Process,
             WriterSavesBatch(p) \/ WriterThrowsBatch(p)
               \/ (p \in Caller /\ (CallGoesOn(p) \/ WriterSavesCall(p) \/ WriterThrowsCall(p)
                                       \/ CallPublishes(p)))
      PROVE  CaptureInv'
  <2>1. /\ UNCHANGED <<session, source, captured>>
        /\ \E s \in Step \ {"idle"} : pc' = [pc EXCEPT ![p] = s]
    BY <1>6 DEF WriterSavesBatch, WriterThrowsBatch, CallGoesOn, WriterSavesCall,
       WriterThrowsCall, CallPublishes, Step, Answers
  <2> QED
    BY <1>1, <1>3, <2>1
<1>7. ASSUME NEW p \in Caller, StartCall(p)
      PROVE  CaptureInv'
  <2>1. /\ pc[p] = "idle" /\ UNCHANGED <<session, captured>>
        /\ source' = [source EXCEPT ![p] = client] /\ pc' = [pc EXCEPT ![p] = "network"]
    BY <1>7 DEF StartCall
  <2> QED
    BY <1>0, <2>1 DEF CaptureInv, QueueTypes, OtherTypes, session
<1>8. ASSUME NEW p \in Caller, CallReturns(p)
      PROVE  CaptureInv'
  <2>1. pc[p] = "network" /\ UNCHANGED <<session, source>>
    BY <1>8 DEF CallReturns
  <2>2. CASE UNCHANGED captured /\ pc' = [pc EXCEPT ![p] = "done"]
    BY <1>1, <1>3, <2>1, <2>2 DEF Step
  <2>3. CASE SameClient(p) /\ FlushPendingWrites(p) /\ Captures(p)
    <3>1. NoneBegins
      BY <1>2, <2>3, FlushPendingCases
    <3>2. admitting /\ writer = client /\ client = source[p]
      BY <2>3 DEF SameClient, CaptureInv
    <3>3. \A c \in Caller : captured'[c] \in {captured[c], source[c]} /\ (c # p => captured'[c] = captured[c])
      BY <1>0, <2>3, <3>2 DEF Captures, OtherTypes
    <3>4. pc'[p] # "idle"
      BY <2>1, <3>1
    <3> QED
      BY <2>1, <3>1, <3>3, <3>4 DEF CaptureInv, session
  <2> QED
    BY <1>8, <2>2, <2>3 DEF CallReturns
<1>9. ASSUME HistoryRunEnded \/ Boot \/ Logout \/ LogoutGoesOn \/ PrepareGoesOn
      PROVE  NoneBegins
  <2>1. CASE FlushPendingWrites(Stop)
    BY <1>2, <2>1, FlushPendingCases
  <2>2. CASE pc' = [pc EXCEPT ![Stop] = "history"] \/ pc' = [pc EXCEPT ![Stop] = "idle"]
    BY <1>0, <2>2 DEF QueueTypes
  <2> QED
    BY <1>9, <2>1, <2>2 DEF HistoryRunEnded, Boot, Logout, LogoutGoesOn, PrepareGoesOn
<1>10. CASE HistoryRunEnded
  BY <1>1, <1>9, <1>10 DEF HistoryRunEnded
<1>11. CASE Boot \/ Logout \/ LogoutGoesOn \/ PrepareGoesOn
  <2>1. NoneBegins
    BY <1>9, <1>11
  <2>2. /\ UNCHANGED <<source, captured>>
        /\ admitting' => stage' = "run"
        /\ stage' \in {"run", "prepare"} => writer' = client'
    BY <1>11 DEF Boot, Logout, LogoutGoesOn, PrepareGoesOn, CaptureInv
  <2> QED
    BY <2>1, <2>2 DEF CaptureInv
<1>12. CASE Prepared \/ Finished
  <2>1. /\ UNCHANGED <<source, captured, pc>>
        /\ admitting' => stage' = "run"
        /\ stage' \in {"run", "prepare"} => writer' = client'
    BY <1>12 DEF Prepared, Finished, vars, session, CaptureInv
  <2> QED
    BY <2>1 DEF CaptureInv
<1> HIDE DEF NoneBegins
<1> QED
  BY <1>4, <1>5, <1>6, <1>7, <1>8, <1>10, <1>11, <1>12 DEF Next

LEMMA StepKinds ==
    ASSUME TypeInv, StopIdle, Next
    PROVE  \/ Admits
           \/ \E p \in Process : Drains(p) /\ (UNCHANGED shown \/ Publishes(p))
           \/ \E p \in Process : WriterSavesBatch(p) \/ WriterThrowsBatch(p)
           \/ \E p \in Caller : StartCall(p) \/ WriterSavesCall(p) \/ CallPublishes(p)
           \/ \E p \in Flusher : Strolls(p)
           \/ Rests
<1>0. QueueTypes /\ OtherTypes
  BY TypeParts
<1> USE Processes
<1>1. CASE Receive \/ LocalDelete
  <2>1. Admit(client)
    BY <1>1 DEF Receive, LocalDelete
  <2>2. admitted < MaxEvents /\ admitted' = admitted + 1 /\ admitted + 1 \in Event
    BY <1>0, <2>1, SessionAssumption DEF Admit, OtherTypes, Event
  <2>3. /\ pendingWrites' = Append(pendingWrites, admitted + 1)
        /\ pc' = pc \/ pc' = [pc EXCEPT ![admitted + 1] = "sleeping"]
        /\ UNCHANGED <<writing, batch, target, source, history>>
    BY <2>1, <2>2 DEF Admit, Enqueue
  <2> QED
    BY <1>0, <2>2, <2>3 DEF Admits, QueueTypes
<1>2. ASSUME NEW e \in Event, TimerFires(e)
      PROVE  Drains(e) /\ UNCHANGED shown
  <2>1. pc[e] = "sleeping" /\ ~InDrain(e)
        /\ UNCHANGED <<admitted, source, saved, lost, shown>>
    BY <1>2 DEF TimerFires, admission, history, InDrain
  <2>2. CASE writing
    <3>1. pc' = [pc EXCEPT ![e] = "done"] /\ UNCHANGED <<queue, target>>
      BY <1>2, <2>2 DEF TimerFires
    <3>2. Others(e) /\ Leaves(e)
      BY <1>0, <3>1 DEF QueueTypes, Others, Leaves, queue
    <3> QED
      BY <2>1, <3>2 DEF Drains
  <2>3. CASE ~writing
    <3>1. NextBatch(e)
      BY <1>2, <2>3 DEF TimerFires
    <3>2. Others(e) /\ (Takes(e) \/ Ends(e))
      BY <3>1, NextBatchCases
    <3> QED
      BY <2>1, <2>3, <3>2 DEF Drains
  <2> QED
    BY <2>2, <2>3
<1>3. ASSUME NEW p \in Flusher, Woken(p)
      PROVE  Drains(p) /\ UNCHANGED shown
  <2>1. FlushWhatIsLeft(p) /\ pc[p] = "awaiting" /\ ~InDrain(p)
        /\ UNCHANGED <<admitted, source, saved, lost, shown>>
    BY <1>3 DEF Woken, admission, history, InDrain
  <2>2. Others(p) /\ ((Takes(p) /\ ~writing) \/ (Ends(p) /\ ~writing) \/ Leaves(p))
    BY <2>1, FlushCases
  <2> QED
    BY <2>1, <2>2 DEF Drains
<1>4. ASSUME NEW p \in Process, DrainPublishes(p)
      PROVE  Drains(p) /\ (UNCHANGED shown \/ Publishes(p))
  <2>1. pc[p] = "drain saved" /\ InDrain(p) /\ UNCHANGED <<admitted, source, saved, lost>>
    BY <1>4 DEF DrainPublishes, admission, InDrain
  <2>2. CASE SameSession(p)
    <3>1. NextBatch(p) /\ Publishes(p)
      BY <1>4, <2>1, <2>2 DEF DrainPublishes, ShownBatch, Publishes, SameSession
    <3> QED
      BY <2>1, <3>1, NextBatchCases DEF Drains
  <2>3. CASE ~SameSession(p)
    <3>1. EndDrain(p) /\ UNCHANGED shown
      BY <1>4, <2>3 DEF DrainPublishes
    <3> QED
      BY <2>1, <3>1, EndDrainCases DEF Drains
  <2> QED
    BY <2>2, <2>3
<1>5. ASSUME NEW p \in Process, DrainReportsError(p)
      PROVE  Drains(p) /\ UNCHANGED shown
  <2>1. pc[p] = "drain failed" /\ InDrain(p) /\ NextBatch(p)
        /\ UNCHANGED <<admitted, source, saved, lost, shown>>
    BY <1>5 DEF DrainReportsError, admission, history, InDrain
  <2> QED
    BY <2>1, NextBatchCases DEF Drains
<1>6. ASSUME NEW p \in Caller, CallReturns(p)
      PROVE  (Drains(p) /\ UNCHANGED shown) \/ Strolls(p)
  <2>1. pc[p] = "network" /\ ~InDrain(p)
        /\ UNCHANGED <<admitted, source, saved, lost, shown>>
    BY <1>6 DEF CallReturns, admission, history, InDrain
  <2>2. CASE SameClient(p) /\ (p \in Sampler \/ writer # None)
    <3>1. FlushPendingWrites(p)
      BY <1>6, <2>2 DEF CallReturns
    <3> QED
      BY <2>1, <3>1, FlushPendingCases DEF Drains
  <2>3. CASE ~(SameClient(p) /\ (p \in Sampler \/ writer # None))
    <3>1. pc' = [pc EXCEPT ![p] = "done"] /\ UNCHANGED <<queue, target>>
      BY <1>6, <2>3 DEF CallReturns
    <3> QED
      BY <1>0, <2>1, <3>1 DEF Strolls, Others, QueueTypes, InDrain, queue, history
  <2> QED
    BY <2>2, <2>3
<1>7. ASSUME NEW p \in Caller, CallGoesOn(p)
      PROVE  Strolls(p)
  <2>1. PICK s \in {"writing", "done"} : pc' = [pc EXCEPT ![p] = s]
    BY <1>7 DEF CallGoesOn
  <2> QED
    BY <1>0, <1>7, <2>1 DEF CallGoesOn, Strolls, Others, QueueTypes, InDrain, queue, history,
       admission
<1>8. ASSUME NEW p \in Caller, WriterThrowsCall(p)
      PROVE  Strolls(p)
  BY <1>0, <1>8 DEF WriterThrowsCall, Strolls, Others, QueueTypes, InDrain, queue, history,
     admission
<1>9. CASE Logout \/ LogoutGoesOn \/ PrepareGoesOn
  <2>1. PICK s \in {"history", "idle"} : pc' = [pc EXCEPT ![Stop] = s]
    BY <1>9 DEF Logout, LogoutGoesOn, PrepareGoesOn
  <2>2. pc[Stop] \in {"idle", "flushed"}
    BY <1>9 DEF Logout, LogoutGoesOn, PrepareGoesOn, StopIdle
  <2> QED
    BY <1>0, <1>9, <2>1, <2>2 DEF Logout, LogoutGoesOn, PrepareGoesOn, Strolls, Others, QueueTypes,
       InDrain, queue, history, admission
<1>10. CASE HistoryRunEnded \/ Boot
  <2>1. FlushPendingWrites(Stop) /\ pc[Stop] \in {"idle", "history"}
        /\ UNCHANGED <<admitted, source, saved, lost, shown>>
    BY <1>10 DEF HistoryRunEnded, Boot, history, admission, StopIdle
  <2>2. Drains(Stop) /\ UNCHANGED shown
    BY <2>1, FlushPendingCases DEF Drains, InDrain
  <2> QED
    BY <2>2
<1>11. CASE Prepared \/ Finished
  BY <1>11 DEF Prepared, Finished, vars, Rests, queue, history, admission
<1> QED
  BY <1>1, <1>2, <1>3, <1>4, <1>5, <1>6, <1>7, <1>8, <1>9, <1>10, <1>11 DEF Next

-----------------------------------------------------------------------------
(* A call's result is under its own session from the save on. *)
CallInv ==
    /\ \A k \in 1..Len(saved) : saved[k].what \in Caller =>
           /\ saved[k].by = source[saved[k].what]
           /\ pc[saved[k].what] \in {"written", "done"}
    /\ \A k \in 1..Len(shown) : shown[k].what \in Caller =>
           /\ shown[k].to = source[shown[k].what]
           /\ pc[shown[k].what] = "done"
    /\ \A p \in Caller : pc[p] = "written" =>
           \E k \in 1..Len(saved) : saved[k] = [what |-> p, by |-> source[p]]

(* Callers that are not in the middle of keeping a result go on, and what  *)
(* is new in the histories is an event's.                                  *)
CallsGoOn ==
    \A c \in Caller :
        pc'[c] = pc[c] \/ (pc[c] \notin {"written", "done"} /\ pc'[c] # "written")

LEMMA CallInvKept ==
    ASSUME TypeInv, CallInv, CallsGoOn, UNCHANGED source,
           Len(saved') \in Nat, Len(saved) \in Nat, Len(saved) <= Len(saved'),
           \A k \in 1..Len(saved) : saved'[k] = saved[k],
           \A k \in 1..Len(saved') : k > Len(saved) => saved'[k].what \in Event,
           \A k \in 1..Len(shown) : shown'[k] = shown[k],
           \A k \in 1..Len(shown') : k \in 1..Len(shown) \/ shown'[k].what \in Event
    PROVE  CallInv'
<1> USE Processes
<1>1. ASSUME NEW k \in 1..Len(saved'), saved'[k].what \in Caller
      PROVE  saved'[k].by = source'[saved'[k].what] /\ pc'[saved'[k].what] \in {"written", "done"}
  <2>1. k \in 1..Len(saved) /\ saved'[k] = saved[k]
    BY <1>1
  <2>2. saved[k].by = source[saved[k].what] /\ pc[saved[k].what] \in {"written", "done"}
    BY <1>1, <2>1 DEF CallInv
  <2> QED
    BY <1>1, <2>1, <2>2 DEF CallsGoOn
<1>2. ASSUME NEW k \in 1..Len(shown'), shown'[k].what \in Caller
      PROVE  shown'[k].to = source'[shown'[k].what] /\ pc'[shown'[k].what] = "done"
  <2>1. k \in 1..Len(shown) /\ shown'[k] = shown[k] /\ shown[k].what \in Caller
    BY <1>2
  <2>2. shown[k].to = source[shown[k].what] /\ pc[shown[k].what] = "done"
    BY <2>1 DEF CallInv
  <2>3. PICK c \in Caller : c = shown[k].what
    BY <2>1
  <2>4. pc'[c] = "done"
    BY <2>2, <2>3 DEF CallsGoOn
  <2> QED
    BY <2>1, <2>2, <2>3, <2>4
<1>3. ASSUME NEW p \in Caller, pc'[p] = "written"
      PROVE  \E k \in 1..Len(saved') : saved'[k] = [what |-> p, by |-> source'[p]]
  <2>1. pc[p] = "written"
    BY <1>3 DEF CallsGoOn
  <2>2. PICK k \in 1..Len(saved) : saved[k] = [what |-> p, by |-> source[p]]
    BY <2>1 DEF CallInv
  <2> QED
    BY <2>2
<1> QED
  BY <1>1, <1>2, <1>3 DEF CallInv

(* What a save or a publication of a batch adds to the histories. *)
LEMMA SavedGrows ==
    ASSUME TypeInv, NEW p \in Process, WriterSavesBatch(p)
    PROVE  /\ Len(saved) \in Nat /\ Len(batch[p]) \in Nat
           /\ Len(saved') = Len(saved) + Len(batch[p])
           /\ \A k \in 1..Len(saved) : saved'[k] = saved[k]
           /\ \A k \in 1..Len(batch[p]) :
                  saved'[Len(saved) + k] = [what |-> batch[p][k], by |-> target[p]]
           /\ \A k \in 1..Len(saved') : k > Len(saved) => saved'[k].what \in Event
<1> DEFINE n == Len(batch[p])
           S == [what: Event \cup Caller, by: Generation]
<1>1. saved' = saved \o SavedBatch(p) /\ InDrain(p) /\ saved \in Seq(S)
  BY DEF WriterSavesBatch, SavedBatch, InDrain, TypeInv, TypeOK
<1>2. n \in Nat /\ SavedBatch(p) \in [1..n -> S] /\ Len(saved) \in Nat
      /\ \A k \in 1..n : batch[p][k] \in Event
  BY <1>1, BatchRecords, LenProperties
<1>3. \A k \in 1..n : SavedBatch(p)[k] = [what |-> batch[p][k], by |-> target[p]]
  BY DEF SavedBatch
<1> HIDE DEF S, n
<1>4. /\ Len(saved') = Len(saved) + n
      /\ \A k \in 1..Len(saved) : saved'[k] = saved[k]
      /\ \A k \in 1..n : saved'[Len(saved) + k] = SavedBatch(p)[k]
      /\ \A k \in (Len(saved) + 1)..(Len(saved) + n) : saved'[k] = SavedBatch(p)[k - Len(saved)]
  BY <1>1, <1>2, Stretch
<1>5. ASSUME NEW k \in 1..Len(saved'), k > Len(saved)
      PROVE  saved'[k].what \in Event
  <2>1. k \in (Len(saved) + 1)..(Len(saved) + n) /\ k - Len(saved) \in 1..n
    BY <1>2, <1>4, <1>5
  <2> QED
    BY <1>2, <1>3, <1>4, <2>1
<1> QED
  BY <1>2, <1>3, <1>4, <1>5 DEF n

LEMMA ShownGrows ==
    ASSUME TypeInv, NEW p \in Process, Publishes(p)
    PROVE  /\ Len(shown) \in Nat /\ Len(batch[p]) \in Nat
           /\ Len(shown') = Len(shown) + Len(batch[p])
           /\ \A k \in 1..Len(shown) : shown'[k] = shown[k]
           /\ \A k \in 1..Len(shown') :
                  \/ k \in 1..Len(shown)
                  \/ /\ k - Len(shown) \in 1..Len(batch[p])
                     /\ shown'[k].what = batch[p][k - Len(shown)]
                     /\ shown'[k].what \in Event
<1> DEFINE n == Len(batch[p])
           S == [what: Event \cup Caller, to: Generation]
<1>1. shown' = shown \o ShownBatch(p) /\ InDrain(p) /\ shown \in Seq(S) /\ writer \in Generation
  BY DEF Publishes, InDrain, TypeInv, TypeOK
<1>2. n \in Nat /\ ShownBatch(p) \in [1..n -> S] /\ Len(shown) \in Nat
      /\ \A k \in 1..n : batch[p][k] \in Event
  BY <1>1, BatchRecords, LenProperties
<1>3. \A k \in 1..n : ShownBatch(p)[k] = [what |-> batch[p][k], to |-> writer]
  BY DEF ShownBatch
<1> HIDE DEF S, n
<1>4. /\ Len(shown') = Len(shown) + n
      /\ \A k \in 1..Len(shown) : shown'[k] = shown[k]
      /\ \A k \in (Len(shown) + 1)..(Len(shown) + n) : shown'[k] = ShownBatch(p)[k - Len(shown)]
  <2> DEFINE f == ShownBatch(p)
  <2>1. shown' = shown \o f /\ shown \in Seq(S) /\ f \in [1..n -> S]
    BY <1>1, <1>2
  <2> HIDE DEF f
  <2>2. /\ Len(shown \o f) = Len(shown) + n
        /\ \A k \in 1..Len(shown) : (shown \o f)[k] = shown[k]
        /\ \A k \in (Len(shown) + 1)..(Len(shown) + n) : (shown \o f)[k] = f[k - Len(shown)]
    BY <1>2, <2>1, Stretch
  <2> QED
    BY <2>1, <2>2 DEF f
<1>5. ASSUME NEW k \in 1..Len(shown'), k \notin 1..Len(shown)
      PROVE  /\ k - Len(shown) \in 1..n
             /\ shown'[k].what = batch[p][k - Len(shown)]
             /\ shown'[k].what \in Event
  <2>1. k \in (Len(shown) + 1)..(Len(shown) + n) /\ k - Len(shown) \in 1..n
    BY <1>2, <1>4, <1>5
  <2> QED
    BY <1>2, <1>3, <1>4, <2>1
<1> QED
  BY <1>2, <1>4, <1>5 DEF n

LEMMA CallInvStep ==
    ASSUME TypeInv, StopIdle, CaptureInv, CallInv, Next
    PROVE  CallInv'
<1>0. QueueTypes /\ OtherTypes /\ HistoryTypes /\ Len(saved) \in Nat /\ Len(shown) \in Nat
  BY TypeParts, LenProperties DEF HistoryTypes
<1> USE Processes
<1>1. ASSUME CallsGoOn, UNCHANGED <<source, saved, shown>>
      PROVE  CallInv'
  BY <1>0, <1>1, CallInvKept
<1>2. CASE Admits
  BY <1>1, <1>2 DEF Admits, CallsGoOn, history
<1>3. ASSUME NEW p \in Process, Drains(p), UNCHANGED shown \/ Publishes(p)
      PROVE  CallInv'
  <2>1. CallsGoOn /\ UNCHANGED <<source, saved>>
    BY <1>3 DEF Drains, CallsGoOn, Others, Takes, Ends, Leaves
  <2>2. CASE UNCHANGED shown
    BY <1>1, <2>1, <2>2
  <2>3. CASE Publishes(p)
    <3>1. /\ \A k \in 1..Len(shown) : shown'[k] = shown[k]
          /\ \A k \in 1..Len(shown') : k \in 1..Len(shown) \/ shown'[k].what \in Event
      BY <2>3, ShownGrows
    <3>2. /\ Len(saved') \in Nat /\ Len(saved) <= Len(saved')
          /\ \A k \in 1..Len(saved) : saved'[k] = saved[k]
          /\ \A k \in 1..Len(saved') : k > Len(saved) => saved'[k].what \in Event
      BY <1>0, <2>1
    <3> QED
      BY <1>0, <2>1, <3>1, <3>2, CallInvKept
  <2> QED
    BY <1>3, <2>2, <2>3
<1>4. ASSUME NEW p \in Process, WriterSavesBatch(p)
      PROVE  CallInv'
  <2>1. CallsGoOn /\ UNCHANGED <<source, shown>>
    BY <1>0, <1>4 DEF WriterSavesBatch, CallsGoOn, QueueTypes
  <2>2. /\ Len(saved') \in Nat /\ Len(saved) <= Len(saved')
        /\ \A k \in 1..Len(saved) : saved'[k] = saved[k]
        /\ \A k \in 1..Len(saved') : k > Len(saved) => saved'[k].what \in Event
    BY <1>4, SavedGrows
  <2>3. /\ \A k \in 1..Len(shown) : shown'[k] = shown[k]
        /\ \A k \in 1..Len(shown') : k \in 1..Len(shown) \/ shown'[k].what \in Event
    BY <2>1
  <2> QED
    BY <1>0, <2>1, <2>2, <2>3, CallInvKept
<1>5. ASSUME NEW p \in Process, WriterThrowsBatch(p)
      PROVE  CallInv'
  BY <1>0, <1>1, <1>5 DEF WriterThrowsBatch, CallsGoOn, QueueTypes
<1>6. ASSUME NEW p \in Caller, StartCall(p)
      PROVE  CallInv'
  <2>1. /\ pc[p] = "idle" /\ pc' = [pc EXCEPT ![p] = "network"]
        /\ source' = [source EXCEPT ![p] = client] /\ UNCHANGED <<saved, shown>>
    BY <1>6 DEF StartCall, history
  <2>2. \A c \in Caller : IF c = p THEN pc[c] = "idle" /\ pc'[c] = "network"
                          ELSE pc'[c] = pc[c] /\ source'[c] = source[c]
    BY <1>0, <2>1 DEF QueueTypes, OtherTypes
  <2>3. ASSUME NEW k \in 1..Len(saved'), saved'[k].what \in Caller
        PROVE  saved'[k].by = source'[saved'[k].what] /\ pc'[saved'[k].what] \in {"written", "done"}
    BY <2>1, <2>2, <2>3 DEF CallInv
  <2>4. ASSUME NEW k \in 1..Len(shown'), shown'[k].what \in Caller
        PROVE  shown'[k].to = source'[shown'[k].what] /\ pc'[shown'[k].what] = "done"
    BY <2>1, <2>2, <2>4 DEF CallInv
  <2>5. ASSUME NEW q \in Caller, pc'[q] = "written"
        PROVE  \E k \in 1..Len(saved') : saved'[k] = [what |-> q, by |-> source'[q]]
    BY <2>1, <2>2, <2>5 DEF CallInv
  <2> QED
    BY <2>3, <2>4, <2>5 DEF CallInv
<1>7. ASSUME NEW p \in Caller, WriterSavesCall(p)
      PROVE  CallInv'
  <2> DEFINE r == [what |-> p, by |-> captured[p]]
  <2>1. /\ pc[p] = "writing" /\ pc' = [pc EXCEPT ![p] = "written"]
        /\ saved' = Append(saved, r) /\ UNCHANGED <<source, shown>>
    BY <1>7 DEF WriterSavesCall
  <2>9. captured[p] = source[p] /\ captured[p] \in Generation
    BY <2>1, WriterHeld, NoneIsNoGeneration DEF CaptureInv
  <2>2. r \in [what: Event \cup Caller, by: Generation]
    BY <2>9
  <2>3. r = [what |-> p, by |-> source[p]] /\ r.what = p /\ r.by = source[p]
    BY <2>9
  <2> HIDE DEF r
  <2>4. /\ Len(saved') = Len(saved) + 1 /\ saved'[Len(saved) + 1] = r
        /\ \A k \in 1..Len(saved) : saved'[k] = saved[k]
    BY <1>0, <2>1, <2>2, AppendProperties DEF HistoryTypes
  <2>5. \A c \in Caller : IF c = p THEN pc[c] = "writing" /\ pc'[c] = "written"
                          ELSE pc'[c] = pc[c]
    BY <1>0, <2>1 DEF QueueTypes
  <2>6. ASSUME NEW k \in 1..Len(saved'), saved'[k].what \in Caller
        PROVE  saved'[k].by = source'[saved'[k].what] /\ pc'[saved'[k].what] \in {"written", "done"}
    <3>1. CASE k = Len(saved) + 1
      BY <2>1, <2>3, <2>4, <2>5, <3>1
    <3>2. CASE k \in 1..Len(saved)
      BY <2>1, <2>4, <2>5, <2>6, <3>2 DEF CallInv
    <3> QED
      BY <1>0, <2>4, <3>1, <3>2
  <2>7. ASSUME NEW k \in 1..Len(shown'), shown'[k].what \in Caller
        PROVE  shown'[k].to = source'[shown'[k].what] /\ pc'[shown'[k].what] = "done"
    BY <2>1, <2>5, <2>7 DEF CallInv
  <2>8. ASSUME NEW q \in Caller, pc'[q] = "written"
        PROVE  \E k \in 1..Len(saved') : saved'[k] = [what |-> q, by |-> source'[q]]
    <3>1. CASE q = p
      BY <1>0, <2>1, <2>3, <2>4, <3>1
    <3>2. CASE q # p
      <4>1. PICK k \in 1..Len(saved) : saved[k] = [what |-> q, by |-> source[q]]
        BY <2>5, <2>8, <3>2 DEF CallInv
      <4> QED
        BY <1>0, <2>1, <2>4, <4>1
    <3> QED
      BY <3>1, <3>2
  <2> QED
    BY <2>6, <2>7, <2>8 DEF CallInv
<1>8. ASSUME NEW p \in Caller, CallPublishes(p)
      PROVE  CallInv'
  <2> DEFINE r == [what |-> p, to |-> writer]
  <2>1. /\ pc[p] = "written" /\ pc' = [pc EXCEPT ![p] = "done"]
        /\ UNCHANGED <<source, saved>>
    BY <1>8 DEF CallPublishes
  <2>2. \A c \in Caller : IF c = p THEN pc[c] = "written" /\ pc'[c] = "done"
                          ELSE pc'[c] = pc[c]
    BY <1>0, <2>1 DEF QueueTypes
  <2>3. r.what = p /\ r.to = writer
    OBVIOUS
  <2>4. CASE MayPublish(p)
    <3>1. shown' = Append(shown, r) /\ writer = source[p] /\ writer \in Generation
      BY <1>8, <2>1, <2>4, WriterHeld, NoneIsNoGeneration DEF CallPublishes, MayPublish, CaptureInv
    <3>2. r \in [what: Event \cup Caller, to: Generation]
      BY <3>1
    <3> HIDE DEF r
    <3>3. /\ Len(shown') = Len(shown) + 1 /\ shown'[Len(shown) + 1] = r
          /\ \A k \in 1..Len(shown) : shown'[k] = shown[k]
      BY <1>0, <3>1, <3>2, AppendProperties DEF HistoryTypes
    <3>4. ASSUME NEW k \in 1..Len(shown'), shown'[k].what \in Caller
          PROVE  shown'[k].to = source'[shown'[k].what] /\ pc'[shown'[k].what] = "done"
      <4>1. CASE k = Len(shown) + 1
        BY <2>1, <2>2, <2>3, <3>1, <3>3, <4>1
      <4>2. CASE k \in 1..Len(shown)
        BY <2>1, <2>2, <3>3, <3>4, <4>2 DEF CallInv
      <4> QED
        BY <1>0, <3>3, <4>1, <4>2
    <3>5. ASSUME NEW k \in 1..Len(saved'), saved'[k].what \in Caller
          PROVE  /\ saved'[k].by = source'[saved'[k].what]
                 /\ pc'[saved'[k].what] \in {"written", "done"}
      BY <2>1, <2>2, <3>5 DEF CallInv
    <3>6. ASSUME NEW q \in Caller, pc'[q] = "written"
          PROVE  \E k \in 1..Len(saved') : saved'[k] = [what |-> q, by |-> source'[q]]
      BY <2>1, <2>2, <3>6 DEF CallInv
    <3> QED
      BY <3>4, <3>5, <3>6 DEF CallInv
  <2>5. CASE ~MayPublish(p)
    <3>1. UNCHANGED shown
      BY <1>8, <2>5 DEF CallPublishes
    <3> QED
      BY <2>1, <2>2, <3>1 DEF CallInv
  <2> QED
    BY <2>4, <2>5
<1>9. ASSUME NEW p \in Flusher, Strolls(p)
      PROVE  CallInv'
  <2>1. CallsGoOn /\ UNCHANGED <<source, saved, shown>>
    BY <1>9 DEF Strolls, CallsGoOn, Others, history
  <2> QED
    BY <1>1, <2>1
<1>10. CASE Rests
  BY <1>1, <1>10 DEF Rests, CallsGoOn, history
<1> QED
  BY <1>2, <1>3, <1>4, <1>5, <1>6, <1>7, <1>8, <1>9, <1>10, StepKinds

-----------------------------------------------------------------------------
(* One drain at a time, and timers only of admitted events. *)
DrainInv ==
    /\ \A p \in Process : InDrain(p) => writing
    /\ \A p, q \in Process : InDrain(p) /\ InDrain(q) => p = q
    /\ \A e \in Event : e > admitted => pc[e] = "idle"

(* A process that takes the queue or ends its drain is the only one there. *)
Alone(p) == \A q \in Process \ {p} : ~InDrain(q) /\ ~InDrain(q)'

LEMMA DrainTurns ==
    ASSUME TypeInv, DrainInv, NEW p \in Process, Drains(p)
    PROVE  \/ (Takes(p) \/ Ends(p)) /\ Alone(p)
           \/ Leaves(p) /\ ~InDrain(p) /\ ~InDrain(p)'
<1>1. ASSUME Takes(p) \/ Ends(p), ~writing \/ InDrain(p)
      PROVE  Alone(p)
  <2>1. \A q \in Process \ {p} : ~InDrain(q)
    BY <1>1 DEF DrainInv
  <2> QED
    BY <2>1 DEF Drains, Alone, Others, InDrain
<1>2. Leaves(p) => ~InDrain(p)'
  BY DEF Leaves, InDrain
<1> QED
  BY <1>1, <1>2 DEF Drains

LEMMA DrainInvKept ==
    ASSUME DrainInv, UNCHANGED <<writing, admitted>>,
           \A q \in Process : InDrain(q)' => InDrain(q),
           \A e \in Event : pc[e] = "idle" => pc'[e] = "idle"
    PROVE  DrainInv'
  BY DEF DrainInv

LEMMA DrainInvStep ==
    ASSUME TypeInv, StopIdle, DrainInv, Next
    PROVE  DrainInv'
<1>0. QueueTypes /\ OtherTypes
  BY TypeParts
<1> USE Processes
<1>1. CASE Admits
  <2>1. \A q \in Process : InDrain(q)' => InDrain(q)
    BY <1>1 DEF Admits, InDrain
  <2>2. ASSUME NEW e \in Event, e > admitted'
        PROVE  pc'[e] = "idle"
    <3>1. e > admitted /\ e # admitted + 1
      BY <1>0, <1>1, <2>2 DEF Admits, OtherTypes
    <3> QED
      BY <1>1, <3>1 DEF Admits, DrainInv
  <2> QED
    BY <1>1, <2>1, <2>2 DEF Admits, DrainInv
<1>2. ASSUME NEW p \in Process, Drains(p)
      PROVE  DrainInv'
  <2>1. \A e \in Event : e > admitted' => pc'[e] = "idle"
    BY <1>2 DEF Drains, Others, DrainInv
  <2>2. CASE (Takes(p) \/ Ends(p)) /\ Alone(p)
    BY <2>1, <2>2 DEF Takes, Ends, Alone, InDrain, DrainInv
  <2>3. CASE Leaves(p) /\ ~InDrain(p) /\ ~InDrain(p)'
    <3>1. \A q \in Process : InDrain(q)' => InDrain(q)
      BY <1>2, <2>3 DEF Drains, Others, InDrain
    <3> QED
      BY <2>1, <2>3, <3>1 DEF Leaves, queue, DrainInv
  <2> QED
    BY <1>2, <2>2, <2>3, DrainTurns
<1>3. ASSUME NEW p \in Process, WriterSavesBatch(p) \/ WriterThrowsBatch(p)
      PROVE  DrainInv'
  <2>1. InDrain(p) /\ UNCHANGED <<writing, admitted>>
        /\ \E s \in {"drain saved", "drain failed"} : pc' = [pc EXCEPT ![p] = s]
    BY <1>3 DEF WriterSavesBatch, WriterThrowsBatch, InDrain, queue, admission
  <2>2. (\A q \in Process : InDrain(q)' => InDrain(q)) /\ UNCHANGED <<writing, admitted>>
    BY <1>0, <2>1 DEF QueueTypes, InDrain
  <2>3. \A e \in Event : pc[e] = "idle" => pc'[e] = "idle"
    BY <1>0, <2>1 DEF QueueTypes, InDrain
  <2> QED
    BY <2>2, <2>3, DrainInvKept
<1>4. ASSUME NEW p \in Caller, StartCall(p) \/ WriterSavesCall(p) \/ CallPublishes(p)
      PROVE  DrainInv'
  <2>1. UNCHANGED <<writing, admitted>>
        /\ \E s \in {"network", "written", "done"} : pc' = [pc EXCEPT ![p] = s]
    BY <1>4 DEF StartCall, WriterSavesCall, CallPublishes, queue, admission
  <2>2. (\A q \in Process : InDrain(q)' => InDrain(q)) /\ UNCHANGED <<writing, admitted>>
    BY <1>0, <2>1 DEF QueueTypes, InDrain
  <2>3. \A e \in Event : pc[e] = "idle" => pc'[e] = "idle"
    BY <1>0, <2>1 DEF QueueTypes, InDrain
  <2> QED
    BY <2>2, <2>3, DrainInvKept
<1>5. ASSUME NEW p \in Flusher, Strolls(p)
      PROVE  DrainInv'
  BY <1>5, DrainInvKept DEF Strolls, Others, InDrain, queue
<1>6. CASE Rests
  BY <1>6, DrainInvKept DEF Rests, InDrain, queue
<1> QED
  BY <1>1, <1>2, <1>3, <1>4, <1>5, <1>6, StepKinds

-----------------------------------------------------------------------------
(* The number of events before those that wait. *)
Taken == admitted - Len(pendingWrites)

(* The queue, and before it the running batch, are the last events admitted. *)
OrderInv ==
    /\ \A k \in 1..Len(pendingWrites) : pendingWrites[k] = Taken + k
    /\ \A p \in Process : InDrain(p) =>
           /\ Len(batch[p]) > 0
           /\ \A k \in 1..Len(batch[p]) : batch[p][k] = Taken - Len(batch[p]) + k

LEMMA Lengths ==
    ASSUME TypeInv
    PROVE  /\ admitted \in Nat /\ Len(pendingWrites) \in Nat /\ Taken \in Int
           /\ \A p \in Process : Len(batch[p]) \in Nat
           /\ Len(saved) \in Nat /\ Len(shown) \in Nat
<1>1. /\ admitted \in Nat /\ pendingWrites \in Seq(Event)
      /\ saved \in Seq([what: Event \cup Caller, by: Generation])
      /\ shown \in Seq([what: Event \cup Caller, to: Generation])
  BY SessionAssumption DEF TypeInv, TypeOK
<1>2. \A p \in Process : Len(batch[p]) \in Nat
  BY BatchRecords
<1> QED
  BY <1>1, <1>2, LenProperties DEF Taken

LEMMA OrderInvKept ==
    ASSUME OrderInv, UNCHANGED <<pendingWrites, admitted, batch>>,
           \A q \in Process : InDrain(q)' => InDrain(q)
    PROVE  OrderInv'
  BY DEF OrderInv, Taken

(* What happens to the counts. *)
LEMMA TakenWhenAdmitted ==
    ASSUME TypeInv, Admits
    PROVE  /\ Taken' = Taken /\ Len(pendingWrites') = Len(pendingWrites) + 1
           /\ \A k \in 1..Len(pendingWrites) : pendingWrites'[k] = pendingWrites[k]
           /\ pendingWrites'[Len(pendingWrites) + 1] = admitted + 1
<1>1. pendingWrites \in Seq(Event) /\ admitted + 1 \in Event /\ admitted' = admitted + 1
      /\ pendingWrites' = Append(pendingWrites, admitted + 1)
  BY DEF TypeInv, TypeOK, Admits
<1>2. /\ Len(pendingWrites') = Len(pendingWrites) + 1
      /\ \A k \in 1..Len(pendingWrites) : pendingWrites'[k] = pendingWrites[k]
      /\ pendingWrites'[Len(pendingWrites) + 1] = admitted + 1
  BY <1>1, AppendProperties
<1> QED
  BY <1>1, <1>2, Lengths DEF Taken

LEMMA TakenWhenTaken ==
    ASSUME TypeInv, NEW p \in Process, Takes(p), UNCHANGED admitted
    PROVE  /\ Len(pendingWrites) > 0 /\ Len(pendingWrites') = 0
           /\ Taken' = Taken + Len(pendingWrites)
           /\ batch'[p] = pendingWrites
<1>1. pendingWrites \in Seq(Event) /\ pendingWrites # <<>> /\ pendingWrites' = <<>>
      /\ batch'[p] = pendingWrites
  BY DEF TypeInv, TypeOK, Takes
<1>2. Len(pendingWrites) > 0 /\ Len(pendingWrites') = 0
  BY <1>1, EmptySeq
<1> QED
  BY <1>1, <1>2, Lengths DEF Taken

LEMMA OrderInvStep ==
    ASSUME TypeInv, StopIdle, DrainInv, OrderInv, Next
    PROVE  OrderInv'
<1>0. QueueTypes /\ OtherTypes
  BY TypeParts
<1> USE Processes
<1>1. CASE Admits
  <2>1. \A q \in Process : InDrain(q)' => InDrain(q) /\ batch'[q] = batch[q]
    BY <1>1 DEF Admits, InDrain
  <2>2. ASSUME NEW k \in 1..Len(pendingWrites')
        PROVE  pendingWrites'[k] = Taken' + k
    <3>1. CASE k = Len(pendingWrites) + 1
      BY <1>1, <3>1, TakenWhenAdmitted, Lengths DEF Taken
    <3>2. CASE k \in 1..Len(pendingWrites)
      BY <1>1, <3>2, TakenWhenAdmitted DEF OrderInv
    <3> QED
      BY <1>1, <3>1, <3>2, TakenWhenAdmitted, Lengths
  <2>3. ASSUME NEW q \in Process, InDrain(q)'
        PROVE  /\ Len(batch'[q]) > 0
               /\ \A k \in 1..Len(batch'[q]) : batch'[q][k] = Taken' - Len(batch'[q]) + k
    BY <1>1, <2>1, <2>3, TakenWhenAdmitted DEF OrderInv
  <2> QED
    BY <2>2, <2>3 DEF OrderInv
<1>2. ASSUME NEW p \in Process, Drains(p)
      PROVE  OrderInv'
  <2>1. CASE Takes(p) /\ Alone(p)
    <3>1. /\ Len(pendingWrites) > 0 /\ Len(pendingWrites') = 0
          /\ Taken' = Taken + Len(pendingWrites) /\ batch'[p] = pendingWrites
      BY <1>2, <2>1, TakenWhenTaken DEF Drains
    <3>2. ASSUME NEW q \in Process, InDrain(q)'
          PROVE  q = p
      BY <2>1, <3>2 DEF Alone
    <3>3. /\ Len(batch'[p]) > 0
          /\ \A k \in 1..Len(batch'[p]) : batch'[p][k] = Taken' - Len(batch'[p]) + k
      BY <3>1, Lengths DEF OrderInv
    <3> QED
      BY <3>1, <3>2, <3>3 DEF OrderInv
  <2>2. CASE Ends(p) /\ Alone(p)
    <3>1. UNCHANGED <<pendingWrites, admitted>> /\ \A q \in Process : ~InDrain(q)'
      BY <1>2, <2>2 DEF Ends, Alone, Drains, InDrain
    <3> QED
      BY <3>1 DEF OrderInv, Taken
  <2>3. CASE Leaves(p) /\ ~InDrain(p) /\ ~InDrain(p)'
    <3>1. \A q \in Process : InDrain(q)' => InDrain(q)
      BY <1>2, <2>3 DEF Drains, Others, InDrain
    <3> QED
      BY <1>2, <2>3, <3>1, OrderInvKept DEF Leaves, queue, Drains
  <2> QED
    BY <1>2, <2>1, <2>2, <2>3, DrainTurns
<1>3. ASSUME NEW p \in Process, WriterSavesBatch(p) \/ WriterThrowsBatch(p)
      PROVE  OrderInv'
  <2>1. InDrain(p) /\ UNCHANGED <<pendingWrites, admitted, batch>>
        /\ \E s \in {"drain saved", "drain failed"} : pc' = [pc EXCEPT ![p] = s]
    BY <1>3 DEF WriterSavesBatch, WriterThrowsBatch, InDrain, queue, admission
  <2>2. \A q \in Process : InDrain(q)' => InDrain(q)
    BY <1>0, <2>1 DEF QueueTypes, InDrain
  <2> QED
    BY <2>1, <2>2, OrderInvKept
<1>4. ASSUME NEW p \in Caller, StartCall(p) \/ WriterSavesCall(p) \/ CallPublishes(p)
      PROVE  OrderInv'
  <2>1. UNCHANGED <<pendingWrites, admitted, batch>>
        /\ \E s \in {"network", "written", "done"} : pc' = [pc EXCEPT ![p] = s]
    BY <1>4 DEF StartCall, WriterSavesCall, CallPublishes, queue, admission
  <2>2. \A q \in Process : InDrain(q)' => InDrain(q)
    BY <1>0, <2>1 DEF QueueTypes, InDrain
  <2> QED
    BY <2>1, <2>2, OrderInvKept
<1>5. ASSUME NEW p \in Flusher, Strolls(p)
      PROVE  OrderInv'
  BY <1>5, OrderInvKept DEF Strolls, Others, InDrain, queue
<1>6. CASE Rests
  BY <1>6, OrderInvKept DEF Rests, InDrain, queue
<1> QED
  BY <1>1, <1>2, <1>3, <1>4, <1>5, <1>6, StepKinds

-----------------------------------------------------------------------------
(* A batch that was saved is a stretch of what was saved ... *)
KeptFrom(a, p) ==
    /\ a \in Nat /\ a + Len(batch[p]) <= Len(saved)
    /\ \A k \in 1..Len(batch[p]) : saved[a + k] = [what |-> batch[p][k], by |-> target[p]]

BatchKept(p) == pc[p] = "drain saved"

KeptInv == \A p \in Process : BatchKept(p) => \E a \in Nat : KeptFrom(a, p)

(* ... and no event of the queue or of a running batch was shown. *)
ShownInv ==
    \A j \in 1..Len(shown) : shown[j].what \in Event =>
        /\ shown[j].what <= Taken
        /\ \A p \in Process : InDrain(p) => shown[j].what <= Taken - Len(batch[p])

(* No batch is newly saved, and those that are stay as they are. *)
NoBatchSaved ==
    \A p \in Process : pc'[p] = "drain saved" =>
        pc[p] = "drain saved" /\ batch'[p] = batch[p] /\ target'[p] = target[p]

SavedExtends ==
    /\ Len(saved') \in Nat /\ Len(saved) <= Len(saved')
    /\ \A k \in 1..Len(saved) : saved'[k] = saved[k]

LEMMA KeptInvGrows ==
    ASSUME TypeInv, KeptInv, SavedExtends, NoBatchSaved
    PROVE  KeptInv'
<1> SUFFICES ASSUME NEW p \in Process, BatchKept(p)'
             PROVE  \E a \in Nat : KeptFrom(a, p)'
  BY DEF KeptInv
<1>1. BatchKept(p) /\ batch'[p] = batch[p] /\ target'[p] = target[p]
  BY DEF NoBatchSaved, BatchKept
<1>2. PICK a \in Nat : KeptFrom(a, p)
  BY <1>1 DEF KeptInv
<1>3. PICK n \in Nat, m \in Nat, m2 \in Nat :
         n = Len(batch[p]) /\ m = Len(saved) /\ m2 = Len(saved')
  BY Lengths DEF SavedExtends
<1>4. a + n <= m /\ m <= m2
  BY <1>2, <1>3 DEF KeptFrom, SavedExtends
<1>5. \A k \in 1..n : a + k \in 1..m
  BY <1>2, <1>3, <1>4
<1>6. a + n <= m2
  BY <1>2, <1>3, <1>4
<1>7. \A k \in 1..Len(batch[p]) : saved'[a + k] = [what |-> batch[p][k], by |-> target[p]]
  BY <1>2, <1>3, <1>5 DEF KeptFrom, SavedExtends
<1>8. KeptFrom(a, p)'
  BY <1>1, <1>2, <1>3, <1>6, <1>7 DEF KeptFrom
<1> QED
  BY <1>2, <1>8

LEMMA KeptInvStep ==
    ASSUME TypeInv, StopIdle, DrainInv, KeptInv, Next
    PROVE  KeptInv'
<1>0. QueueTypes /\ HistoryTypes
  BY TypeParts
<1> USE Processes
<1>1. ASSUME UNCHANGED saved, NoBatchSaved
      PROVE  KeptInv'
  <2>1. SavedExtends
    BY <1>1, Lengths DEF SavedExtends
  <2> QED
    BY <1>1, <2>1, KeptInvGrows
<1>2. CASE Admits
  BY <1>1, <1>2 DEF Admits, history, NoBatchSaved
<1>3. ASSUME NEW p \in Process, Drains(p)
      PROVE  KeptInv'
  <2>1. pc'[p] # "drain saved"
    BY <1>3 DEF Drains, Takes, Ends, Leaves
  <2> QED
    BY <1>1, <1>3, <2>1 DEF Drains, Others, NoBatchSaved
<1>4. ASSUME NEW p \in Process, WriterSavesBatch(p)
      PROVE  KeptInv'
  <2>1. pc' = [pc EXCEPT ![p] = "drain saved"] /\ UNCHANGED <<batch, target>> /\ InDrain(p)
    BY <1>4 DEF WriterSavesBatch, queue, InDrain
  <2>2. \A q \in Process : pc'[q] = "drain saved" => q = p
    BY <1>0, <2>1 DEF QueueTypes, InDrain, DrainInv
  <2>3. /\ Len(saved') = Len(saved) + Len(batch[p]) /\ Len(saved) \in Nat /\ Len(batch[p]) \in Nat
        /\ \A k \in 1..Len(batch[p]) :
               saved'[Len(saved) + k] = [what |-> batch[p][k], by |-> target[p]]
    BY <1>4, SavedGrows
  <2>4. PICK a \in Nat : a = Len(saved)
    BY <2>3
  <2>5. KeptFrom(a, p)'
    <3>1. UNCHANGED <<batch, target>>
      BY <2>1
    <3> QED
      BY <2>3, <2>4, <3>1 DEF KeptFrom
  <2> QED
    BY <2>2, <2>4, <2>5 DEF KeptInv, BatchKept
<1>5. ASSUME NEW p \in Process, WriterThrowsBatch(p)
      PROVE  KeptInv'
  BY <1>0, <1>1, <1>5 DEF WriterThrowsBatch, QueueTypes, queue, NoBatchSaved
<1>6. ASSUME NEW p \in Caller, StartCall(p) \/ CallPublishes(p)
      PROVE  KeptInv'
  BY <1>0, <1>1, <1>6 DEF StartCall, CallPublishes, QueueTypes, queue, history,
     NoBatchSaved
<1>7. ASSUME NEW p \in Caller, WriterSavesCall(p)
      PROVE  KeptInv'
  <2>1. /\ pc' = [pc EXCEPT ![p] = "written"] /\ UNCHANGED <<batch, target>>
        /\ saved' = Append(saved, [what |-> p, by |-> captured[p]]) /\ pc[p] = "writing"
    BY <1>7 DEF WriterSavesCall, queue
  <2>2. [what |-> p, by |-> captured[p]] \in [what: Event \cup Caller, by: Generation]
    BY <2>1, WriterHeld
  <2>3. Len(saved') = Len(saved) + 1 /\ \A k \in 1..Len(saved) : saved'[k] = saved[k]
    BY <1>0, <2>1, <2>2, AppendProperties DEF HistoryTypes
  <2>4. NoBatchSaved
    BY <1>0, <2>1 DEF QueueTypes, NoBatchSaved
  <2>5. SavedExtends
    BY <2>3, Lengths DEF SavedExtends
  <2> QED
    BY <2>4, <2>5, KeptInvGrows
<1>8. ASSUME NEW p \in Flusher, Strolls(p)
      PROVE  KeptInv'
  BY <1>1, <1>8 DEF Strolls, Others, InDrain, queue, history, NoBatchSaved
<1>9. CASE Rests
  BY <1>1, <1>9 DEF Rests, queue, history, NoBatchSaved
<1> QED
  BY <1>2, <1>3, <1>4, <1>5, <1>6, <1>7, <1>8, <1>9, StepKinds

LEMMA ShownInvKept ==
    ASSUME ShownInv, Taken' = Taken, UNCHANGED batch,
           \A q \in Process : InDrain(q)' => InDrain(q),
           \A j \in 1..Len(shown') : shown'[j].what \in Event =>
              j \in 1..Len(shown) /\ shown'[j] = shown[j]
    PROVE  ShownInv'
  BY DEF ShownInv

(* When process p is at the head of the drain, nothing of the queue was    *)
(* shown, whatever it does.                                                *)
LEMMA ShownInvTurn ==
    ASSUME TypeInv, DrainInv, NEW p \in Process, Drains(p), (Takes(p) \/ Ends(p)) /\ Alone(p),
           \A j \in 1..Len(shown') : shown'[j].what \in Event => shown'[j].what <= Taken
    PROVE  ShownInv'
<1>1. CASE Takes(p)
  <2>1. Taken' = Taken + Len(pendingWrites) /\ batch'[p] = pendingWrites
    BY <1>1, TakenWhenTaken DEF Drains
  <2>2. \A q \in Process : InDrain(q)' => q = p
    BY DEF Alone
  <2>3. Taken \in Int /\ Len(pendingWrites) \in Nat
    BY Lengths
  <2>4. ASSUME NEW j \in 1..Len(shown'), shown'[j].what \in Event
        PROVE  shown'[j].what <= Taken' /\ shown'[j].what <= Taken' - Len(batch'[p])
    <3>1. shown'[j].what \in Int /\ shown'[j].what <= Taken
      BY <2>4 DEF Event
    <3> QED
      BY <2>1, <2>3, <3>1
  <2> QED
    BY <2>2, <2>4 DEF ShownInv
<1>2. CASE Ends(p)
  <2>1. Taken' = Taken /\ \A q \in Process : ~InDrain(q)'
    BY <1>2 DEF Ends, Alone, Drains, InDrain, Taken
  <2> QED
    BY <2>1 DEF ShownInv
<1> QED
  BY <1>1, <1>2

LEMMA ShownInvStep ==
    ASSUME TypeInv, StopIdle, DrainInv, OrderInv, ShownInv, Next
    PROVE  ShownInv'
<1>0. QueueTypes /\ HistoryTypes
  BY TypeParts
<1> USE Processes
<1>1. CASE Admits
  <2>1. Taken' = Taken
    BY <1>1, TakenWhenAdmitted
  <2> QED
    BY <1>1, <2>1, ShownInvKept DEF Admits, InDrain, history
<1>2. ASSUME NEW p \in Process, Drains(p), UNCHANGED shown \/ Publishes(p)
      PROVE  ShownInv'
  <2>1. CASE (Takes(p) \/ Ends(p)) /\ Alone(p)
    <3>1. ASSUME NEW j \in 1..Len(shown'), shown'[j].what \in Event
          PROVE  shown'[j].what <= Taken
      <4>1. CASE j \in 1..Len(shown) /\ shown'[j] = shown[j]
        BY <3>1, <4>1 DEF ShownInv
      <4>2. CASE ~(j \in 1..Len(shown) /\ shown'[j] = shown[j])
        <5>1. Publishes(p) /\ InDrain(p)
          BY <1>2, <4>2 DEF Publishes, InDrain
        <5>2. PICK k \in 1..Len(batch[p]) : shown'[j].what = batch[p][k]
          BY <3>1, <4>2, <5>1, ShownGrows
        <5>3. batch[p][k] = Taken - Len(batch[p]) + k
          BY <5>1, <5>2 DEF OrderInv
        <5>4. Taken \in Int /\ Len(batch[p]) \in Nat
          BY Lengths
        <5> QED
          BY <5>2, <5>3, <5>4
      <4> QED
        BY <4>1, <4>2
    <3> QED
      BY <1>2, <2>1, <3>1, ShownInvTurn
  <2>2. CASE Leaves(p) /\ ~InDrain(p) /\ ~InDrain(p)'
    <3>1. UNCHANGED <<pendingWrites, batch, admitted, shown>>
      BY <1>2, <2>2 DEF Leaves, queue, Drains, Publishes, InDrain
    <3>2. \A q \in Process : InDrain(q)' => InDrain(q)
      BY <1>2, <2>2 DEF Drains, Others, InDrain
    <3>3. Taken' = Taken
      BY <3>1 DEF Taken
    <3> QED
      BY <3>1, <3>2, <3>3, ShownInvKept
  <2> QED
    BY <1>2, <2>1, <2>2, DrainTurns
<1>3. ASSUME NEW p \in Process, WriterSavesBatch(p) \/ WriterThrowsBatch(p)
      PROVE  ShownInv'
  <2>1. InDrain(p) /\ UNCHANGED <<pendingWrites, admitted, batch, shown>>
        /\ \E s \in {"drain saved", "drain failed"} : pc' = [pc EXCEPT ![p] = s]
    BY <1>3 DEF WriterSavesBatch, WriterThrowsBatch, InDrain, queue, admission
  <2>2. \A q \in Process : InDrain(q)' => InDrain(q)
    BY <1>0, <2>1 DEF QueueTypes, InDrain
  <2>3. Taken' = Taken
    BY <2>1 DEF Taken
  <2> QED
    BY <2>1, <2>2, <2>3, ShownInvKept
<1>4. ASSUME NEW p \in Caller, StartCall(p) \/ WriterSavesCall(p) \/ CallPublishes(p)
      PROVE  ShownInv'
  <2>1. UNCHANGED <<pendingWrites, admitted, batch>>
        /\ \E s \in {"network", "written", "done"} : pc' = [pc EXCEPT ![p] = s]
    BY <1>4 DEF StartCall, WriterSavesCall, CallPublishes, queue, admission
  <2>2. \A q \in Process : InDrain(q)' => InDrain(q)
    BY <1>0, <2>1 DEF QueueTypes, InDrain
  <2>3. Taken' = Taken
    BY <2>1 DEF Taken
  <2>4. ASSUME NEW j \in 1..Len(shown'), shown'[j].what \in Event
        PROVE  j \in 1..Len(shown) /\ shown'[j] = shown[j]
    <3>1. CASE UNCHANGED shown
      BY <3>1
    <3>2. CASE shown' # shown
      <4>1. /\ shown' = Append(shown, [what |-> p, to |-> writer])
            /\ pc[p] = "written" /\ writer = captured[p]
        BY <1>4, <3>2 DEF StartCall, WriterSavesCall, CallPublishes, MayPublish, history
      <4>2. [what |-> p, to |-> writer] \in [what: Event \cup Caller, to: Generation]
        BY <4>1, WriterHeld
      <4>3. /\ Len(shown') = Len(shown) + 1 /\ shown'[Len(shown) + 1].what = p
            /\ \A k \in 1..Len(shown) : shown'[k] = shown[k]
        BY <1>0, <4>1, <4>2, AppendProperties DEF HistoryTypes
      <4>4. j # Len(shown) + 1
        BY <2>4, <4>3
      <4> QED
        BY <4>3, <4>4, Lengths
    <3> QED
      BY <3>1, <3>2
  <2> QED
    BY <2>1, <2>2, <2>3, <2>4, ShownInvKept
<1>5. ASSUME NEW p \in Flusher, Strolls(p)
      PROVE  ShownInv'
  BY <1>5, ShownInvKept DEF Strolls, Others, InDrain, queue, history, Taken
<1>6. CASE Rests
  BY <1>6, ShownInvKept DEF Rests, InDrain, queue, history, Taken
<1> QED
  BY <1>1, <1>2, <1>3, <1>4, <1>5, <1>6, StepKinds

-----------------------------------------------------------------------------
(* The inductive invariant. *)
Inv == TypeInv /\ StopIdle /\ CaptureInv /\ CallInv /\ DrainInv /\ OrderInv /\ KeptInv /\ ShownInv

LEMMA InvInit == Init => Inv
<1> SUFFICES ASSUME Init PROVE Inv
  OBVIOUS
<1>1. TypeInv
  BY TypeInvInit
<1>2. /\ \A p \in Process : pc[p] = "idle"
      /\ \A p \in Process : ~InDrain(p) /\ ~BatchKept(p)
  BY DEF Init, InDrain, BatchKept
<1>3. Len(pendingWrites) = 0 /\ Len(saved) = 0 /\ Len(shown) = 0
  BY DEF Init
<1>4. StopIdle /\ DrainInv /\ KeptInv
  BY <1>2, Processes DEF StopIdle, DrainInv, KeptInv
<1>5. \A k \in 1..0 : FALSE
  OBVIOUS
<1>7. CaptureInv
  BY DEF Init, CaptureInv
<1>6. CallInv /\ OrderInv /\ ShownInv
  BY <1>2, <1>3, <1>5, Processes DEF CallInv, OrderInv, ShownInv
<1> QED
  BY <1>1, <1>4, <1>6, <1>7 DEF Inv

LEMMA InvStep ==
    ASSUME Inv, [Next]_vars
    PROVE  Inv'
<1>1. CASE Next
  BY <1>1, TypeInvStep, StopIdleStep, CaptureInvStep, CallInvStep, DrainInvStep, OrderInvStep, KeptInvStep,
     ShownInvStep DEF Inv
<1>2. CASE UNCHANGED vars
  <2>1. TypeInv'
    BY <1>2, VarsKept DEF Inv
  <2>5. CaptureInv'
    BY <1>2 DEF Inv, CaptureInv, vars, session
  <2>2. UNCHANGED <<stage, pc, saved, shown, source, writing, admitted, pendingWrites, batch,
                    target>>
    BY <1>2 DEF vars, session, queue, admission, history
  <2>3. StopIdle' /\ CallInv' /\ DrainInv' /\ OrderInv'
    BY <2>2 DEF Inv, StopIdle, CallInv, DrainInv, OrderInv, InDrain, Taken
  <2>4. KeptInv' /\ ShownInv'
    BY <2>2 DEF Inv, KeptInv, KeptFrom, BatchKept, ShownInv, InDrain, Taken
  <2> QED
    BY <2>1, <2>3, <2>4, <2>5 DEF Inv
<1> QED
  BY <1>1, <1>2

(* The parts of the invariant hold at first and every step keeps them. *)
LEMMA InvHolds == Spec => []Inv
  BY InvInit, InvStep, PTL DEF Spec

(* Every variable of the write queue keeps its type: in particular a timer *)
(* or a waiting flush never refers to an event that was not admitted, and  *)
(* a writer is always some session's or none.                              *)
THEOREM SessionTypes == Spec => []TypeOK
<1>1. Inv => TypeOK
  BY DEF Inv, TypeInv
<1> QED
  BY <1>1, InvHolds, PTL

(* commit and recordOutgoing: whenever admission closes and a new session  *)
(* begins, what a call wrote went through its own session's writer.        *)
THEOREM CallsStay == Spec => []CallsStayInTheirSession
<1>1. Inv => CallsStayInTheirSession
  BY DEF Inv, CallInv, CallsStayInTheirSession
<1> QED
  BY <1>1, InvHolds, PTL

-----------------------------------------------------------------------------
(* The length of the batch the writer has, seen from the process that      *)
(* drains it.                                                              *)
Out(pcs, batches) ==
    IF \E p \in Process : pcs[p] = "drain"
    THEN Len(batches[CHOOSE p \in Process : pcs[p] = "drain"]) ELSE 0

LEMMA OutOfOne ==
    ASSUME NEW pcs, NEW batches, NEW p \in Process, pcs[p] = "drain",
           \A q \in Process : pcs[q] = "drain" => q = p
    PROVE  Out(pcs, batches) = Len(batches[p])
<1>1. (CHOOSE q \in Process : pcs[q] = "drain") = p
  OBVIOUS
<1> QED
  BY <1>1 DEF Out

LEMMA OutOfNone ==
    ASSUME NEW pcs, NEW batches, \A q \in Process : pcs[q] # "drain"
    PROVE  Out(pcs, batches) = 0
  BY DEF Out

LEMMA SettledIs == Settled = Taken - Out(pc, batch)
  BY DEF Settled, Taken, WithWriter, Out

LEMMA SettledNext == Settled' = Taken' - Out(pc', batch')
  BY DEF Settled, Taken, WithWriter, Out

(* While the writer's batch is the same, so is its length. *)
LEMMA OutKept ==
    ASSUME DrainInv,
           \A q \in Process : pc'[q] = "drain" <=> pc[q] = "drain",
           \A q \in Process : pc[q] = "drain" => batch'[q] = batch[q]
    PROVE  Out(pc', batch') = Out(pc, batch)
<1>1. CASE \E p \in Process : pc[p] = "drain"
  <2>1. PICK p \in Process : pc[p] = "drain"
    BY <1>1
  <2>2. \A q \in Process : pc[q] = "drain" => q = p
    BY <2>1 DEF DrainInv, InDrain
  <2>3. Out(pc, batch) = Len(batch[p])
    BY <2>1, <2>2, OutOfOne
  <2>4. Out(pc', batch') = Len(batch'[p])
    BY <2>1, <2>2, OutOfOne
  <2> QED
    BY <2>1, <2>3, <2>4
<1>2. CASE ~\E p \in Process : pc[p] = "drain"
  <2>1. Out(pc, batch) = 0
    BY <1>2, OutOfNone
  <2>2. Out(pc', batch') = 0
    BY <1>2, OutOfNone
  <2> QED
    BY <2>1, <2>2
<1> QED
  BY <1>1, <1>2

(* A turn of the drain settles nothing: the batch it takes is not settled. *)
LEMMA DrainSettlesNothing ==
    ASSUME Inv, NEW p \in Process, Drains(p)
    PROVE  Settled' = Settled
<1>0. TypeInv /\ DrainInv /\ pc[p] # "drain" /\ UNCHANGED admitted
  BY DEF Inv, Drains
<1>1. Taken \in Int /\ Len(pendingWrites) \in Nat
  BY <1>0, Lengths
<1>2. CASE Takes(p) /\ Alone(p)
  <2>1. Taken' = Taken + Len(pendingWrites) /\ batch'[p] = pendingWrites
    BY <1>0, <1>2, TakenWhenTaken
  <2>2. \A q \in Process : pc[q] # "drain"
    BY <1>0, <1>2 DEF Alone, InDrain
  <2>3. pc'[p] = "drain" /\ \A q \in Process : pc'[q] = "drain" => q = p
    BY <1>2 DEF Alone, InDrain, Takes
  <2>4. Out(pc, batch) = 0
    BY <2>2, OutOfNone
  <2>5. Out(pc', batch') = Len(batch'[p])
    BY <2>3, OutOfOne
  <2> QED
    BY <1>1, <2>1, <2>4, <2>5, SettledIs, SettledNext
<1>3. CASE Ends(p) /\ Alone(p)
  <2>1. Taken' = Taken
    BY <1>0, <1>3 DEF Ends, Taken
  <2>2. (\A q \in Process : pc[q] # "drain") /\ \A q \in Process : pc'[q] # "drain"
    BY <1>0, <1>3 DEF Alone, InDrain, Ends
  <2>3. Out(pc, batch) = 0
    BY <2>2, OutOfNone
  <2>4. Out(pc', batch') = 0
    BY <2>2, OutOfNone
  <2> QED
    BY <2>1, <2>3, <2>4, SettledIs, SettledNext
<1>4. CASE Leaves(p)
  <2>1. Taken' = Taken /\ UNCHANGED batch
    BY <1>0, <1>4 DEF Leaves, queue, Taken
  <2>2. \A q \in Process : pc'[q] = "drain" <=> pc[q] = "drain"
    BY <1>0, <1>4 DEF Leaves, Drains, Others
  <2> QED
    BY <1>0, <2>1, <2>2, OutKept, SettledIs, SettledNext
<1> QED
  BY <1>0, <1>2, <1>3, <1>4, DrainTurns

(* Before the writer answers, its batch is the next to be settled. *)
LEMMA AnswerSettles ==
    ASSUME Inv, NEW p \in Process, WriterSavesBatch(p) \/ WriterThrowsBatch(p)
    PROVE  /\ Settled \in Int /\ admitted \in Nat
           /\ Settled' = Settled + Len(batch[p])
           /\ Len(batch[p]) \in 1..(admitted - Settled)
           /\ \A k \in 1..Len(batch[p]) : batch[p][k] = Settled + k
<1>0. TypeInv /\ DrainInv /\ OrderInv /\ pc[p] = "drain" /\ InDrain(p) /\ QueueTypes
  BY TypeParts DEF Inv, WriterSavesBatch, WriterThrowsBatch, InDrain
<1>1. /\ Taken \in Int /\ Len(pendingWrites) \in Nat /\ admitted \in Nat
      /\ Len(batch[p]) \in Nat /\ Taken = admitted - Len(pendingWrites)
  BY <1>0, Lengths DEF Taken
<1>2. \A q \in Process : pc[q] = "drain" => q = p
  BY <1>0 DEF DrainInv, InDrain
<1>3. UNCHANGED <<pendingWrites, admitted>> /\ \A q \in Process : pc'[q] # "drain"
  BY <1>0, <1>2 DEF WriterSavesBatch, WriterThrowsBatch, queue, admission, QueueTypes
<1>4. Out(pc, batch) = Len(batch[p])
  BY <1>0, <1>2, OutOfOne
<1>5. Out(pc', batch') = 0
  BY <1>3, OutOfNone
<1>6. Taken' = Taken
  BY <1>3 DEF Taken
<1>7. Len(batch[p]) > 0 /\ \A k \in 1..Len(batch[p]) : batch[p][k] = Taken - Len(batch[p]) + k
  BY <1>0 DEF OrderInv
<1>8. Settled = Taken - Len(batch[p]) /\ Settled' = Taken
  BY <1>1, <1>4, <1>5, <1>6, SettledIs, SettledNext
<1> QED
  BY <1>1, <1>7, <1>8

-----------------------------------------------------------------------------
(* Each step of the session is a step of the log, or none. *)

LEMMA LogAccepts ==
    ASSUME Inv, Admits
    PROVE  Log!Accept
<1>1. TypeInv /\ DrainInv /\ admitted \in Nat
  BY Lengths DEF Inv
<1>2. Taken' = Taken
  BY <1>1, TakenWhenAdmitted
<1>3. \A q \in Process : pc'[q] = "drain" <=> pc[q] = "drain"
  <2>1. pc[admitted + 1] = "idle"
    BY <1>1 DEF Admits, DrainInv
  <2> QED
    BY <2>1 DEF Admits
<1>4. Settled' = Settled
  BY <1>1, <1>2, <1>3, OutKept, SettledIs, SettledNext DEF Admits
<1> QED
  BY <1>4 DEF Admits, history, Log!Accept

LEMMA LogKeeps ==
    ASSUME Inv, NEW p \in Process, WriterSavesBatch(p)
    PROVE  Log!Next
<1> DEFINE n == Len(batch[p])
           o == target[p]
<1>1. o \in Generation
  BY DEF Inv, TypeInv, InDrain, WriterSavesBatch
<1>2. /\ n \in 1..(admitted - Settled) /\ Settled' = Settled + n
      /\ \A k \in 1..n : batch[p][k] = Settled + k
  BY AnswerSettles
<1>3. saved' = saved \o [k \in 1..n |-> [what |-> batch[p][k], by |-> o]]
      /\ UNCHANGED <<admitted, lost, shown>>
  BY DEF WriterSavesBatch, admission
<1>4. [k \in 1..n |-> [what |-> batch[p][k], by |-> o]]
        = [k \in 1..n |-> [what |-> Settled + k, by |-> o]]
  BY <1>2
<1> HIDE DEF n, o
<1>5. Log!Keep(n, o)
  BY <1>2, <1>3, <1>4 DEF Log!Keep
<1> QED
  BY <1>1, <1>2, <1>5 DEF Log!Next

LEMMA LogDrops ==
    ASSUME Inv, NEW p \in Process, WriterThrowsBatch(p)
    PROVE  Log!Next
<1> DEFINE n == Len(batch[p])
<1>1. /\ n \in 1..(admitted - Settled) /\ Settled' = Settled + n
      /\ \A k \in 1..n : batch[p][k] = Settled + k
      /\ Settled \in Int /\ admitted \in Nat
  BY AnswerSettles
<1>2. lost' = lost \cup Elements(batch[p]) /\ UNCHANGED <<admitted, saved, shown>>
  BY DEF WriterThrowsBatch, admission
<1>3. Elements(batch[p]) = {Settled + k : k \in 1..n}
  BY <1>1 DEF Elements
<1> HIDE DEF n
<1>4. {Settled + k : k \in 1..n} = (Settled + 1)..(Settled + n)
  <2>1. ASSUME NEW x \in (Settled + 1)..(Settled + n)
        PROVE  x \in {Settled + k : k \in 1..n}
    <3>1. x - Settled \in 1..n /\ x = Settled + (x - Settled)
      BY <1>1
    <3> QED
      BY <3>1
  <2> QED
    BY <1>1, <2>1
<1>5. Log!Drop(n)
  BY <1>1, <1>2, <1>3, <1>4 DEF Log!Drop
<1> QED
  BY <1>1, <1>5 DEF Log!Next

LEMMA LogShows ==
    ASSUME Inv, NEW p \in Process, Drains(p), Publishes(p)
    PROVE  Log!Next
<1>0. TypeInv /\ OrderInv /\ ShownInv /\ BatchKept(p) /\ InDrain(p)
  BY DEF Inv, Publishes, BatchKept, InDrain
<1>1. PICK a \in Nat : KeptFrom(a, p)
  BY <1>0 DEF Inv, KeptInv
<1>2. PICK n \in Nat, m \in Nat : n = Len(batch[p]) /\ m = Len(saved)
  BY <1>0, Lengths
<1>3. n > 0 /\ a + n <= m
  BY <1>0, <1>1, <1>2 DEF OrderInv, KeptFrom
<1>4. a \in 0..m /\ n \in 1..(m - a)
  BY <1>3
<1>5. /\ \A k \in 1..n : saved[a + k] = [what |-> batch[p][k], by |-> writer]
      /\ \A k \in 1..n : batch[p][k] \in Event
  BY <1>0, <1>1, <1>2, BatchRecords DEF KeptFrom, Publishes
<1>6. ASSUME NEW k \in 1..n
      PROVE  saved[a + k].what = batch[p][k] /\ saved[a + k].by = writer
  <2>1. saved[a + k] = [what |-> batch[p][k], by |-> writer]
    BY <1>5, <1>6
  <2> QED
    BY <2>1
<1>7. ASSUME NEW k \in 1..n, NEW j \in 1..Len(shown)
      PROVE  /\ shown[j].what # saved[a + k].what
             /\ shown[j].what \in Event => shown[j].what < saved[a + k].what
  <2>1. saved[a + k].what = batch[p][k] /\ batch[p][k] \in Event
    BY <1>5, <1>6, <1>7
  <2>2. batch[p][k] = Taken - n + k
    BY <1>0, <1>2 DEF OrderInv
  <2>3. Taken \in Int /\ (shown[j].what \in Event => shown[j].what <= Taken - n)
    BY <1>0, <1>2, Lengths DEF ShownInv
  <2>4. ASSUME shown[j].what \in Event
        PROVE  shown[j].what < batch[p][k] /\ shown[j].what # batch[p][k]
    <3>1. PICK x \in Int, y \in Int, t \in Int :
             x = shown[j].what /\ y = batch[p][k] /\ t = Taken
      BY <2>1, <2>3, <2>4 DEF Event
    <3>2. x <= t - n /\ y = t - n + k
      BY <2>2, <2>3, <2>4, <3>1
    <3>3. k \in Nat /\ k > 0 /\ n \in Nat
      BY <1>2, <1>7
    <3>4. x < y
      BY <3>1, <3>2, <3>3
    <3> QED
      BY <3>1, <3>4
  <2>5. shown[j].what # batch[p][k]
    BY <2>1, <2>4
  <2> QED
    BY <2>1, <2>4, <2>5
<1>8. \A k \in 1..n : Log!ShownBefore(saved[a + k].what)
  BY <1>7 DEF Log!ShownBefore
<1>9. ShownBatch(p) = [k \in 1..n |-> [what |-> saved[a + k].what, to |-> saved[a + k].by]]
  BY <1>2, <1>6 DEF ShownBatch
<1>10. Settled' = Settled
  BY DrainSettlesNothing
<1>11. Log!Show(a, n)
  BY <1>8, <1>9, <1>10 DEF Log!Show, Drains, Publishes
<1> QED
  BY <1>2, <1>4, <1>11 DEF Log!Next

(* A step that moves no batch settles nothing. *)
LEMMA CallSettlesNothing ==
    ASSUME Inv, NEW p \in Process, NEW s \in Step, pc' = [pc EXCEPT ![p] = s],
           pc[p] # "drain", s # "drain", UNCHANGED <<pendingWrites, batch, admitted>>
    PROVE  Settled' = Settled
<1>1. DrainInv /\ QueueTypes
  BY TypeParts DEF Inv
<1>2. \A q \in Process : pc'[q] = "drain" <=> pc[q] = "drain"
  BY <1>1 DEF QueueTypes
<1>3. Taken' = Taken
  BY DEF Taken
<1> QED
  BY <1>1, <1>2, <1>3, OutKept, SettledIs, SettledNext

LEMMA LogKeepsLocal ==
    ASSUME Inv, NEW p \in Caller, WriterSavesCall(p)
    PROVE  Log!Next
<1>1. /\ pc[p] = "writing" /\ pc' = [pc EXCEPT ![p] = "written"]
      /\ saved' = Append(saved, [what |-> p, by |-> captured[p]])
      /\ UNCHANGED <<pendingWrites, batch, admitted, lost, shown>>
  BY DEF WriterSavesCall, queue, admission
<1>2. captured[p] \in Generation /\ p \in Process
  BY <1>1, WriterHeld, Processes DEF Inv
<1>3. \A k \in 1..Len(saved) : saved[k].what # p
  BY <1>1 DEF Inv, CallInv
<1>4. Settled' = Settled
  BY <1>1, <1>2, CallSettlesNothing DEF Step
<1>5. Log!KeepLocal(p, captured[p])
  BY <1>1, <1>3, <1>4 DEF Log!KeepLocal
<1> QED
  BY <1>2, <1>5 DEF Log!Next

LEMMA LogShowsLocal ==
    ASSUME Inv, NEW p \in Caller, CallPublishes(p)
    PROVE  Log!Next \/ UNCHANGED Log!vars
<1>1. /\ pc[p] = "written" /\ pc' = [pc EXCEPT ![p] = "done"]
      /\ shown' = IF MayPublish(p) THEN Append(shown, [what |-> p, to |-> writer]) ELSE shown
      /\ UNCHANGED <<pendingWrites, batch, admitted, saved, lost>>
  BY DEF CallPublishes, queue, admission
<1>2. p \in Process /\ p \notin Event
  BY Processes
<1>3. Settled' = Settled
  BY <1>1, <1>2, CallSettlesNothing DEF Step
<1>4. CASE ~MayPublish(p)
  BY <1>1, <1>3, <1>4 DEF Log!vars
<1>5. CASE MayPublish(p)
  <2>1. PICK k \in 1..Len(saved) : saved[k] = [what |-> p, by |-> source[p]]
    BY <1>1 DEF Inv, CallInv
  <2>3. writer \in Generation /\ writer = source[p]
    BY <1>1, <1>5, WriterHeld, NoneIsNoGeneration DEF MayPublish, Inv, CaptureInv
  <2>2. saved[k].what = p /\ saved[k].by = writer
    BY <2>1, <2>3
  <2>4. Len(saved) \in Nat /\ shown \in Seq([what: Event \cup Caller, to: Generation])
    BY Lengths DEF Inv, TypeInv, TypeOK
  <2>5. PICK a \in Nat : a + 1 = k
    BY <2>4
  <2>6. a \in 0..Len(saved) /\ 1 \in 1..(Len(saved) - a)
    BY <2>4, <2>5
  <2>7. ASSUME NEW j \in 1..Len(shown)
        PROVE  shown[j].what # p
    BY <1>1, <2>7 DEF Inv, CallInv
  <2>8. \A i \in 1..1 : Log!ShownBefore(saved[a + i].what)
    BY <1>2, <2>2, <2>5, <2>7 DEF Log!ShownBefore
  <2>9. [i \in 1..1 |-> [what |-> saved[a + i].what, to |-> saved[a + i].by]]
          = <<[what |-> p, to |-> writer]>>
    BY <2>2, <2>5
  <2>10. shown' = shown \o <<[what |-> p, to |-> writer]>>
    <3> DEFINE r == [what |-> p, to |-> writer]
    <3>1. r \in [what: Event \cup Caller, to: Generation]
      BY <2>3
    <3>2. shown' = Append(shown, r)
      BY <1>1, <1>5
    <3> HIDE DEF r
    <3>3. shown' = shown \o <<r>>
      BY <2>4, <3>1, <3>2, AppendIsConcat
    <3> QED
      BY <3>3 DEF r
  <2>11. Log!Show(a, 1)
    BY <1>1, <1>3, <2>8, <2>9, <2>10 DEF Log!Show
  <2> QED
    BY <2>6, <2>11 DEF Log!Next
<1> QED
  BY <1>4, <1>5

LEMMA LogStep ==
    ASSUME Inv, [Next]_vars
    PROVE  [Log!Next]_Log!vars
<1>1. CASE UNCHANGED vars
  BY <1>1 DEF vars, queue, admission, history, Settled, WithWriter, Log!vars
<1>2. CASE Next
  <2>1. CASE Admits
    BY <2>1, LogAccepts DEF Log!Next
  <2>2. ASSUME NEW p \in Process, Drains(p), UNCHANGED shown \/ Publishes(p)
        PROVE  [Log!Next]_Log!vars
    <3>1. CASE Publishes(p)
      BY <2>2, <3>1, LogShows
    <3>2. CASE UNCHANGED shown
      BY <2>2, <3>2, DrainSettlesNothing DEF Drains, Log!vars
    <3> QED
      BY <2>2, <3>1, <3>2
  <2>3. ASSUME NEW p \in Process, WriterSavesBatch(p) \/ WriterThrowsBatch(p)
        PROVE  Log!Next
    BY <2>3, LogKeeps, LogDrops
  <2>4. ASSUME NEW p \in Caller, StartCall(p)
        PROVE  UNCHANGED Log!vars
    <3>1. /\ pc[p] = "idle" /\ pc' = [pc EXCEPT ![p] = "network"]
          /\ UNCHANGED <<pendingWrites, batch, admitted, saved, lost, shown>>
      BY <2>4 DEF StartCall, queue, admission, history
    <3>2. Settled' = Settled
      BY <3>1, Processes, CallSettlesNothing DEF Step
    <3> QED
      BY <3>1, <3>2 DEF Log!vars
  <2>5. ASSUME NEW p \in Caller, WriterSavesCall(p) \/ CallPublishes(p)
        PROVE  Log!Next \/ UNCHANGED Log!vars
    BY <2>5, LogKeepsLocal, LogShowsLocal
  <2>6. ASSUME Rests \/ \E p \in Flusher : Strolls(p)
        PROVE  UNCHANGED Log!vars
    <3>1. UNCHANGED <<pendingWrites, batch, admitted, saved, lost, shown>>
      BY <2>6 DEF Rests, Strolls, queue, history
    <3>2. \A q \in Process : pc'[q] = "drain" <=> pc[q] = "drain"
      BY <2>6 DEF Rests, Strolls, Others, InDrain
    <3>3. Taken' = Taken
      BY <3>1 DEF Taken
    <3>4. Settled' = Settled
      BY <3>1, <3>2, <3>3, OutKept, SettledIs, SettledNext DEF Inv
    <3> QED
      BY <3>1, <3>4 DEF Log!vars
  <2> QED
    BY <1>2, <2>1, <2>2, <2>3, <2>4, <2>5, <2>6, StepKinds DEF Inv
<1> QED
  BY <1>1, <1>2

LEMMA LogInit == Init => Log!Init
<1> SUFFICES ASSUME Init PROVE Log!Init
  OBVIOUS
<1>1. \A p \in Process : pc[p] # "drain"
  BY DEF Init
<1>2. Out(pc, batch) = 0
  BY <1>1, OutOfNone
<1>3. Len(pendingWrites) = 0 /\ admitted = 0
  BY DEF Init
<1>4. Settled = 0
  BY <1>2, <1>3, SettledIs DEF Taken
<1> QED
  BY <1>4 DEF Init, Log!Init

(* The write queue with its timers, drains, callers, logouts and restarts  *)
(* implements the log: events are settled once and in the order of their   *)
(* admission, batch by batch, and only what was saved is shown, once, in   *)
(* order and to the session that saved it.                                 *)
THEOREM SessionImplementsLog == Spec => ImplementsLog
<1>1. Inv /\ [Next]_vars => [Log!Next]_Log!vars
  BY LogStep
<1> QED
  BY <1>1, InvHolds, LogInit, PTL DEF Spec, ImplementsLog, Log!Spec
=============================================================================
