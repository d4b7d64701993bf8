----------------------------- MODULE MCEntityDb -----------------------------
(* Model-checking instances of EntityDb. *)
EXTENDS EntityDb

Chunk(rows, manifest) == [rows |-> rows, components |-> {}, manifest |-> manifest]
StaticChunk(row, components, manifest) ==
    [rows |-> {row}, components |-> components, manifest |-> manifest]

\* Rows 1..3 are out of order in time; 4 and 5 overlap them.
MCTimeOf == <<1, 4, 2, 3, 2, 1, 1>>

\* A recording on a server.
Remote ==
    [roots |-> <<Chunk({1, 2, 3}, TRUE), Chunk({4}, TRUE), Chunk({5}, TRUE)>>,
     blueprint |-> FALSE, resend |-> TRUE, failures |-> FALSE]

\* One whose downloads may fail.
Failing ==
    [roots |-> <<Chunk({1, 2, 3}, TRUE), StaticChunk(6, {"a", "b"}, TRUE)>>,
     blueprint |-> FALSE, resend |-> TRUE, failures |-> TRUE]

\* A recording that is streamed to the viewer; chunks may come twice.
Streamed ==
    [roots |-> <<Chunk({1, 2, 3}, FALSE), Chunk({4}, FALSE), Chunk({5}, FALSE),
                 StaticChunk(6, {"a"}, FALSE), StaticChunk(7, {"a", "b"}, FALSE)>>,
     blueprint |-> FALSE, resend |-> TRUE, failures |-> FALSE]

\* A blueprint, whose changes may be undone.
Blueprint ==
    [roots |-> <<Chunk({1, 2}, FALSE), Chunk({3}, FALSE), Chunk({5}, FALSE),
                 StaticChunk(6, {"a"}, FALSE)>>,
     blueprint |-> TRUE, resend |-> FALSE, failures |-> FALSE]

AllScenarios == {Remote, Failing, Streamed, Blueprint}
OnlyParts ==
    {[roots |-> <<StaticChunk(6, {"a"}, TRUE), StaticChunk(7, {"a"}, TRUE)>>,
      blueprint |-> FALSE, resend |-> TRUE, failures |-> FALSE]}
=============================================================================
