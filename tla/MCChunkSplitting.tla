-------------------------- MODULE MCChunkSplitting --------------------------
(* Model-checking instances of ChunkSplitting. *)
EXTENDS ChunkSplitting

TwoTimelines == {"frame", "log_time"}
OneTimeline == {"frame"}
FewTimes == {1, 2}
TwoComponents == {1, 2}
OneComponent == {1}
ThreeComponents == {1, 2, 3}
TwoDatatypes == {"f32", "f64"}
OneDatatype == {"f32"}

BoundedSeq(S, n) == UNION {[1..k -> S] : k \in 1..n}

\* Batches that exercise the cutting: up to four rows on one or both timelines.
TimedRows ==
    {r \in Rows : DOMAIN r.times # {} /\ r.types = [c \in Components |-> "f32"]}
CuttingInputs == BoundedSeq(TimedRows, 4)

\* Batches that exercise the grouping: static and temporal rows whose
\* components change their datatype.
GroupingInputs == BoundedSeq({r \in Rows : DOMAIN r.types # {}}, 2)

AllInputs == CuttingInputs \cup GroupingInputs
=============================================================================
