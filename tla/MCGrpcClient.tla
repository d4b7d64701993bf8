---------------------------- MODULE MCGrpcClient ----------------------------
(* Model-checking instance of GrpcClient. *)
EXTENDS GrpcClient, TLC

CONSTANTS t1, t2

MCThreads == {t1, t2}
OneThread == {t1}

ThreadSymmetry == Permutations(MCThreads)
=============================================================================
