----------------------------- MODULE EventLog -----------------------------
(***************************************************************************)
(* What the session's write queue promises, without its queue, timers,     *)
(* batches and callers (docs/ARCHITECTURE.md, "Ownership"): accepted       *)
(* events are settled once and in order, each kept or dropped with its     *)
(* batch; only what was kept is shown, at most once, in order, and to the  *)
(* session that kept it.  Session implements it.                           *)
(***************************************************************************)
EXTENDS Integers, Sequences

CONSTANTS
    Event,      \* the numbers events get when they are accepted
    Local,      \* local operations and sends, which keep their own result
    Owner       \* sessions

VARIABLES
    accepted,   \* events 1 to accepted have been accepted ...
    settled,    \* ... and events 1 to settled are kept or dropped
    kept,       \* what was kept, by whom, in order
    dropped,    \* events of batches that failed
    shown       \* what was shown, to whom, in order

vars == <<accepted, settled, kept, dropped, shown>>

Init ==
    /\ accepted = 0 /\ settled = 0
    /\ kept = <<>> /\ dropped = {} /\ shown = <<>>

Accept ==
    /\ accepted' = accepted + 1
    /\ UNCHANGED <<settled, kept, dropped, shown>>

(* The oldest accepted events are kept together by one session ... *)
Keep(n, o) ==
    /\ settled' = settled + n
    /\ kept' = kept \o [k \in 1..n |-> [what |-> settled + k, by |-> o]]
    /\ UNCHANGED <<accepted, dropped, shown>>

(* ... or dropped together. *)
Drop(n) ==
    /\ settled' = settled + n
    /\ dropped' = dropped \cup (settled + 1)..(settled + n)
    /\ UNCHANGED <<accepted, kept, shown>>

KeepLocal(x, o) ==
    /\ \A k \in 1..Len(kept) : kept[k].what # x
    /\ kept' = Append(kept, [what |-> x, by |-> o])
    /\ UNCHANGED <<accepted, settled, dropped, shown>>

(* What is shown next after what has been shown: no result twice, and no   *)
(* event after a newer one.                                                *)
ShownBefore(x) ==
    \A j \in 1..Len(shown) :
        /\ shown[j].what # x
        /\ shown[j].what \in Event /\ x \in Event => shown[j].what < x

(* A stretch of what was kept is shown to the session that kept it. *)
Show(a, n) ==
    /\ \A k \in 1..n : ShownBefore(kept[a + k].what)
    /\ shown' = shown \o [k \in 1..n |-> [what |-> kept[a + k].what, to |-> kept[a + k].by]]
    /\ UNCHANGED <<accepted, settled, kept, dropped>>

Next ==
    \/ Accept
    \/ \E n \in 1..(accepted - settled) : Drop(n) \/ \E o \in Owner : Keep(n, o)
    \/ \E x \in Local, o \in Owner : KeepLocal(x, o)
    \/ \E a \in 0..Len(kept) : \E n \in 1..(Len(kept) - a) : Show(a, n)

Spec == Init /\ [][Next]_vars
=============================================================================
