--------------------------- MODULE MCConversation ---------------------------
(* A small instance of Conversation.                                       *)
EXTENDS Conversation, TLC

CONSTANT s1, s2

Second == {2}
Third == {3}
TwoSenders == {s1, s2}
Symmetry == Permutations(TwoSenders)
=============================================================================
