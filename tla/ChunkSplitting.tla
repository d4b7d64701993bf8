--------------------------- MODULE ChunkSplitting ---------------------------
(***************************************************************************)
(* PendingRow::many_into_chunks of re_chunk::batcher, the algorithm that   *)
(* cuts the pending rows of an entity into chunks.                         *)
(*                                                                         *)
(* The rows are sorted by row id and grouped by timeline set and datatype  *)
(* set; the rows of a group go, one by one, into an open chunk that is cut *)
(* when a timeline has become unsorted and the chunk has reached           *)
(* chunk_max_rows_if_unsorted.  Here a row is identified by its position   *)
(* in the sorted batch and chunks are sets of positions; each turn of the  *)
(* loop over the rows of a group is an action.                             *)
(***************************************************************************)
EXTENDS Integers, Sequences, FiniteSets

CONSTANTS
    Timelines,
    Times,       \* time values
    Components,  \* 1..n, in the traversal order of the component map
    Datatypes,
    MaxRows,     \* chunk_max_rows_if_unsorted
    Inputs       \* the sorted batches to consider

\* A row has a time on some of the timelines and a datatype for some of the
\* components.
Rows == [times : UNION {[T -> Times] : T \in SUBSET Timelines},
         types : UNION {[C -> Datatypes] : C \in SUBSET Components}]

ASSUME SplittingAssumption ==
    /\ Times \subseteq Int
    /\ MaxRows \in Nat
    /\ Inputs \subseteq Seq(Rows)

VARIABLES
    batch,   \* the rows, sorted by row id
    todo,    \* rows whose group has not been visited
    rest,    \* rows of the visited group that have not been pushed
    open,    \* rows of the open chunk: row_ids
    last,    \* per timeline, the time pushed last
    sorted,  \* per timeline, PendingTimeColumn::is_sorted
    chunks   \* finished chunks with the is_sorted flags of their time columns

vars == <<batch, todo, rest, open, last, sorted, chunks>>

Chunk == [rows : SUBSET Nat, sorted : [Timelines -> BOOLEAN]]
Fresh == [t \in Timelines |-> TRUE]

TypeOK ==
    /\ batch \in Seq(Rows)
    /\ todo \subseteq 1..Len(batch)
    /\ rest \subseteq 1..Len(batch)
    /\ open \subseteq 1..Len(batch)
    /\ last \in [Timelines -> Int]
    /\ sorted \in [Timelines -> BOOLEAN]
    /\ chunks \subseteq Chunk

Init ==
    /\ batch \in Inputs
    /\ todo = 1..Len(batch)
    /\ rest = {} /\ open = {}
    /\ last = [t \in Timelines |-> 0]
    /\ sorted = Fresh
    /\ chunks = {}

-----------------------------------------------------------------------------

\* What the two hashes tell apart: the set of timelines, and the sequence of
\* datatypes in traversal order, without the components they belong to.
TimelineSet(row) == DOMAIN row.times
DatatypeSeq(row) ==
    LET Before(c) == {d \in DOMAIN row.types : d <= c}
    IN  [n \in 1..Cardinality(DOMAIN row.types) |->
            row.types[CHOOSE c \in DOMAIN row.types : Cardinality(Before(c)) = n]]

\* Mutant: rows are grouped by datatypes alone.
SameDatatypes(i, j) == DatatypeSeq(batch[i]) = DatatypeSeq(batch[j])

SameGroup(i, j) ==
    /\ TimelineSet(batch[i]) = TimelineSet(batch[j])
    /\ DatatypeSeq(batch[i]) = DatatypeSeq(batch[j])

\* The next group, in the arbitrary order of the maps.
NextGroup(i) ==
    /\ rest = {} /\ open = {}
    /\ i \in todo
    /\ rest' = {j \in todo : SameGroup(i, j)}
    /\ todo' = todo \ rest'
    /\ sorted' = Fresh
    /\ UNCHANGED <<batch, open, last, chunks>>

\* Mutant: the threshold is compared with `>'.
CutsAboveThreshold(i) ==
    /\ open # {}
    /\ Cardinality(open) > MaxRows
    /\ \E t \in TimelineSet(batch[i]) : ~sorted[t]

\* The loop's condition for cutting the open chunk before row i is pushed.
Cuts(i) ==
    /\ open # {}
    /\ Cardinality(open) >= MaxRows
    /\ \E t \in TimelineSet(batch[i]) : ~sorted[t]

\* PendingTimeColumn::push: is_sorted after the time of row i.
StillSorted(t, i) == sorted[t] /\ last[t] <= batch[i].times[t]

\* Mutant: the row that makes the loop cut is not pushed.
PushRowLosing(i) ==
    /\ i \in rest
    /\ \A j \in rest : i <= j
    /\ rest' = rest \ {i}
    /\ chunks' = IF Cuts(i) THEN chunks \cup {[rows |-> open, sorted |-> sorted]}
                            ELSE chunks
    /\ open' = IF Cuts(i) THEN {} ELSE open \cup {i}
    /\ sorted' = [t \in Timelines |->
                    t \in TimelineSet(batch[i]) /\ open # {} /\ ~Cuts(i)
                      => StillSorted(t, i)]
    /\ last' = [t \in Timelines |->
                  IF t \in TimelineSet(batch[i]) THEN batch[i].times[t] ELSE last[t]]
    /\ UNCHANGED <<batch, todo>>

\* Mutant: the time columns are not renewed where the chunk is cut.
PushRowKeepingFlags(i) ==
    /\ i \in rest
    /\ \A j \in rest : i <= j
    /\ rest' = rest \ {i}
    /\ chunks' = IF Cuts(i) THEN chunks \cup {[rows |-> open, sorted |-> sorted]}
                            ELSE chunks
    /\ open' = IF Cuts(i) THEN {i} ELSE open \cup {i}
    /\ sorted' = [t \in Timelines |->
                    t \in TimelineSet(batch[i]) /\ open # {}
                      => StillSorted(t, i)]
    /\ last' = [t \in Timelines |->
                  IF t \in TimelineSet(batch[i]) THEN batch[i].times[t] ELSE last[t]]
    /\ UNCHANGED <<batch, todo>>

\* One turn of the loop: cut if need be, then push the row and its times.
PushRow(i) ==
    /\ i \in rest
    /\ \A j \in rest : i <= j
    /\ rest' = rest \ {i}
    /\ chunks' = IF Cuts(i) THEN chunks \cup {[rows |-> open, sorted |-> sorted]}
                            ELSE chunks
    /\ open' = IF Cuts(i) THEN {i} ELSE open \cup {i}
    /\ sorted' = [t \in Timelines |->
                    t \in TimelineSet(batch[i]) /\ open # {} /\ ~Cuts(i)
                      => StillSorted(t, i)]
    /\ last' = [t \in Timelines |->
                  IF t \in TimelineSet(batch[i]) THEN batch[i].times[t] ELSE last[t]]
    /\ UNCHANGED <<batch, todo>>

\* After the loop the open chunk is finished.
FinishGroup ==
    /\ rest = {} /\ open # {}
    /\ chunks' = chunks \cup {[rows |-> open, sorted |-> sorted]}
    /\ open' = {}
    /\ UNCHANGED <<batch, todo, rest, last, sorted>>

Next ==
    \/ \E i \in todo : NextGroup(i)
    \/ \E i \in rest : PushRow(i)
    \/ FinishGroup

Spec == Init /\ [][Next]_vars

-----------------------------------------------------------------------------
(* Properties *)

AllChunks == {c.rows : c \in chunks} \cup (IF open = {} THEN {} ELSE {open})

\* Every row ends up in exactly one chunk: nothing is lost or repeated where a
\* chunk is cut.
RowsPartitioned ==
    /\ todo \cup rest \cup UNION AllChunks = 1..Len(batch)
    /\ todo \cap rest = {}
    /\ \A S \in AllChunks : S \cap (todo \cup rest) = {}
    /\ \A S, T \in AllChunks : S # T => S \cap T = {}

\* "no chunk contains rows with different sets of timelines".
OneTimelineSet ==
    \A S \in AllChunks : \A i, j \in S : TimelineSet(batch[i]) = TimelineSet(batch[j])

Ascending(S, t) ==
    \A i, j \in S : i < j /\ t \in TimelineSet(batch[i]) \cap TimelineSet(batch[j])
        => batch[i].times[t] <= batch[j].times[t]

\* The is_sorted flag of a finished time column is right: readers binary-search
\* columns that claim to be sorted.
SortedFlagsRight ==
    \A c \in chunks : \A t \in Timelines : c.sorted[t] <=> Ascending(c.rows, t)

\* What the cutting achieves: in an unsorted chunk of more than
\* chunk_max_rows_if_unsorted rows, only the last row is out of order.
UnsortedByLastRow ==
    \A c \in chunks :
        Cardinality(c.rows) > MaxRows =>
            \A t \in Timelines :
                Ascending({i \in c.rows : \E j \in c.rows : i < j}, t)

\* "no chunk contains more rows than a pre-configured threshold if one or more
\* timelines are unsorted".
UnsortedWithinThreshold ==
    \A c \in chunks :
        (\E t \in Timelines : ~Ascending(c.rows, t)) => Cardinality(c.rows) <= MaxRows

\* "no chunk uses more than one datatype for a given component".
OneDatatypePerComponent ==
    \A c \in chunks : \A i, j \in c.rows :
        \A k \in DOMAIN batch[i].types \cap DOMAIN batch[j].types :
            batch[i].types[k] = batch[j].types[k]
=============================================================================
