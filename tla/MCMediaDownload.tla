-------------------------- MODULE MCMediaDownload --------------------------
(* A small instance of MediaDownload.                                      *)
EXTENDS MediaDownload, TLC

CONSTANTS t1, t2

Tasks == {t1, t2}
Symmetry == Permutations(Tasks)
=============================================================================
