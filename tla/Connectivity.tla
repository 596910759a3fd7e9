---------------------------- MODULE Connectivity ----------------------------
(***************************************************************************)
(* Services/ConnectivityMonitor.swift: signals of the system (wake, a      *)
(* usable network path, the app becoming active) are gathered in a window  *)
(* and then start a loop that cycles the socket until it is up.            *)
(*                                                                         *)
(* The monitor is on the main actor.  An attempt is not: it is a detached  *)
(* call of the bridge's Reconnect, Disconnect and then Connect, that goes  *)
(* on although its loop was cancelled.  Disconnect and Connect take        *)
(* whatsmeow's socket lock one after the other, so those of two attempts   *)
(* may interleave.                                                         *)
(***************************************************************************)
EXTENDS Integers

CONSTANTS
    MaxSignals, \* bound of the model: signals
    MaxDrops    \* bound of the model: connections the network breaks

Signal == 1..MaxSignals
Reason == {"wake", "network", "appActive"}

ASSUME ConnectivityAssumption == MaxSignals \in Nat /\ MaxDrops \in Nat

VARIABLES
    socket,       \* up, down, or half-open: not known to be down
    auto,         \* whatsmeow will reconnect by itself
    drops,        \* connections broken so far
    ready,        \* the session's state is .ready
    signals,      \* signals so far
    debounce,     \* the window is open
    wakeInWindow,
    loops,        \* the loop that each window started
    loopTask      \* the current one, or 0

external == <<socket, auto, drops>>
window == <<signals, debounce, wakeInWindow>>
vars == <<external, ready, window, loops, loopTask>>

Loop == [pc : {"off", "created", "asked", "dialing", "answered", "pausing"},
         mustForce : BOOLEAN, cancelled : BOOLEAN]

TypeOK ==
    /\ socket \in {"up", "down", "half-open"}
    /\ auto \in BOOLEAN /\ ready \in BOOLEAN
    /\ debounce \in BOOLEAN /\ wakeInWindow \in BOOLEAN
    /\ signals \in 0..MaxSignals /\ drops \in 0..MaxDrops
    /\ loops \in [Signal -> Loop]
    /\ loopTask \in 0..MaxSignals

NoLoop == [pc |-> "off", mustForce |-> FALSE, cancelled |-> FALSE]

Init ==
    /\ socket = "up" /\ auto = TRUE /\ drops = 0 /\ ready = TRUE
    /\ signals = 0 /\ debounce = FALSE /\ wakeInWindow = FALSE
    /\ loops = [l \in Signal |-> NoLoop] /\ loopTask = 0

IsConnected == socket # "down"

-----------------------------------------------------------------------------
(* The network and whatsmeow: a broken connection is noticed, and dialled  *)
(* again unless the app disconnected.                                      *)
Broken ==
    /\ IsConnected
    /\ drops < MaxDrops
    /\ drops' = drops + 1
    /\ socket' = "down" /\ auto' = TRUE
    /\ UNCHANGED <<ready, window, loops, loopTask>>

AutoReconnect ==
    /\ socket = "down" /\ auto
    /\ socket' = "up"
    /\ UNCHANGED <<auto, drops, ready, window, loops, loopTask>>

-----------------------------------------------------------------------------
(* Mutant: the window remembers its last signal only. *)
NotedLast(reason) == reason = "wake"

Noted(reason) == wakeInWindow \/ reason = "wake"

(* A signal (re)opens the window.  A Mac that slept may wake with a socket *)
(* whose other end is gone.                                                *)
Trigger(reason) ==
    /\ signals < MaxSignals
    /\ signals' = signals + 1
    /\ wakeInWindow' = Noted(reason)
    /\ debounce' = TRUE
    /\ socket' \in IF reason = "wake" /\ socket = "up" THEN {"up", "half-open"} ELSE {socket}
    /\ UNCHANGED <<auto, drops, ready, loops, loopTask>>

LoopCancelled == [l \in Signal |->
    [loops[l] EXCEPT !.cancelled = @ \/ (l = loopTask /\ loops[l].pc # "off")]]

(* The window closes: fire, and startReconnectLoop. *)
Fire ==
    /\ debounce
    /\ debounce' = FALSE /\ wakeInWindow' = FALSE
    /\ IF ~ready \/ (~wakeInWindow /\ IsConnected)
       THEN UNCHANGED <<loops, loopTask>>
       ELSE /\ loopTask' = signals
            /\ loops' = [LoopCancelled EXCEPT ![signals] =
                   [pc |-> "created", mustForce |-> wakeInWindow, cancelled |-> FALSE]]
    /\ UNCHANGED <<external, ready, signals>>

(* Mutant: the flag is believed also after a wake. *)
EnoughConnected(l) == loops[l].cancelled \/ IsConnected

Enough(l) == loops[l].cancelled \/ (~loops[l].mustForce /\ IsConnected)

(* The head of the loop, when it begins and after a pause. *)
Attempt(l) ==
    /\ loops[l].pc \in {"created", "pausing"}
    /\ loops' = [loops EXCEPT ![l] =
           IF Enough(l) THEN NoLoop ELSE [@ EXCEPT !.pc = "asked", !.mustForce = FALSE]]
    /\ UNCHANGED <<external, ready, window, loopTask>>

(* Reconnect, in the bridge. *)
Disconnect(l) ==
    /\ loops[l].pc = "asked"
    /\ socket' = "down" /\ auto' = FALSE
    /\ loops' = [loops EXCEPT ![l].pc = "dialing"]
    /\ UNCHANGED <<drops, ready, window, loopTask>>

Connect(l) ==
    /\ loops[l].pc = "dialing"
    /\ socket' \in IF IsConnected THEN {socket} ELSE {"up", "down"}
    /\ auto' = (auto \/ socket' = "up")
    /\ loops' = [loops EXCEPT ![l].pc = "answered"]
    /\ UNCHANGED <<drops, ready, window, loopTask>>

Answered(l) ==
    /\ loops[l].pc = "answered"
    /\ loops' = [loops EXCEPT ![l] =
           IF loops[l].cancelled \/ IsConnected THEN NoLoop ELSE [@ EXCEPT !.pc = "pausing"]]
    /\ UNCHANGED <<external, ready, window, loopTask>>

(* logout, or a device that was unlinked; stop() ends the window and the loop. *)
Stop ==
    /\ ready
    /\ ready' = FALSE
    /\ debounce' = FALSE
    /\ loops' = LoopCancelled
    /\ loopTask' = 0
    /\ UNCHANGED <<external, signals, wakeInWindow>>

Step(l) == Attempt(l) \/ Disconnect(l) \/ Connect(l) \/ Answered(l)

Next ==
    \/ Broken \/ AutoReconnect
    \/ \E reason \in Reason : Trigger(reason)
    \/ Fire \/ Stop
    \/ \E l \in Signal : Step(l)

(* Windows close, pauses end, and calls of the bridge return. *)
Fairness == WF_vars(Fire) /\ \A l \in Signal : WF_vars(Step(l))

Spec == Init /\ [][Next]_vars
FairSpec == Spec /\ Fairness

-----------------------------------------------------------------------------
(* After a wake a half-open socket does not stay: whatever signals come    *)
(* with the wake or after it, an attempt cycles the socket, unless the     *)
(* session ends.                                                           *)
HalfOpenHealed == (socket = "half-open") ~> (socket # "half-open" \/ ~ready)
=============================================================================
