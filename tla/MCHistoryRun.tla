---------------------------- MODULE MCHistoryRun ----------------------------
(* A small instance of HistoryRun.                                         *)
EXTENDS HistoryRun

CONSTANTS c1, c2
TwoChats == {c1, c2}

=============================================================================
