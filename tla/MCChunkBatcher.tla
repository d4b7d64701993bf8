--------------------------- MODULE MCChunkBatcher ---------------------------
(* Model-checking instances of ChunkBatcher. *)
EXTENDS ChunkBatcher, TLC

CONSTANTS t1, t2, e1, e2, c1

OneThread == {t1}
TwoThreads == {t1, t2}
OneEntity == {e1}
TwoEntities == {e1, e2}
MCConsumers == {c1}

MCShapes == {"points", "Empty"}
OneShape == {"points"}
TwoShapes == {"points", "labels"}

\* flush_num_rows: never reached before a flush, and reached at once.
OneConfig == <<3>>
TwoConfigs == <<3, 1>>

ThreadSymmetry == Permutations(TwoThreads)
=============================================================================
