----------------------------- MODULE MCSession -----------------------------
(* Small instances of Session.                                             *)
EXTENDS Session, FiniteSets

CONSTANTS commit, send, sampling, stop

OneCommit == {commit}
OneSend == {send}
OneSampling == {sampling}
Nobody == {}
=============================================================================
