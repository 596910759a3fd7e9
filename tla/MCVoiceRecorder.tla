-------------------------- MODULE MCVoiceRecorder --------------------------
(* A small instance of VoiceRecorder.                                      *)
EXTENDS VoiceRecorder

OneOrTwo == {1, 2}
ThreeOrFour == {3, 4}
ZeroOrFar == {0, 100}
=============================================================================
