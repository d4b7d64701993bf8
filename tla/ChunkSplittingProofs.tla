------------------------ MODULE ChunkSplittingProofs ------------------------
(* Theorems about ChunkSplitting, for batches, timelines and thresholds of any size. *)
EXTENDS ChunkSplitting, FiniteSetTheorems, TLAPS

\* The types; finished chunks lie within the batch.
Typed ==
    /\ TypeOK
    /\ \A c \in chunks : c.rows \subseteq 1..Len(batch)

\* No row is in two places; chunks are not empty, so an open chunk is none of
\* the finished ones.
Disjoint ==
    /\ todo \cap rest = {}
    /\ open \cap (todo \cup rest) = {}
    /\ \A c \in chunks : c.rows # {} /\ c.rows \cap (todo \cup rest \cup open) = {}
    /\ \A c, d \in chunks : c.rows # d.rows => c.rows \cap d.rows = {}

Covered == \A i \in 1..Len(batch) :
    i \in todo \/ i \in rest \/ i \in open \/ \E c \in chunks : i \in c.rows

\* The visited group has one timeline set and is pushed in ascending order.
GroupInv ==
    /\ \A i, j \in open \cup rest : TimelineSet(batch[i]) = TimelineSet(batch[j])
    /\ \A i \in open, j \in rest : i < j
    /\ \A c \in chunks : \A i, j \in c.rows : TimelineSet(batch[i]) = TimelineSet(batch[j])

\* `last' holds the times of the newest row of the open chunk.
LastInv ==
    open # {} => \E m \in open :
        /\ \A i \in open : i <= m
        /\ \A t \in TimelineSet(batch[m]) : last[t] = batch[m].times[t]

\* The flags of the open chunk, and so those of the finished ones, are right.
FlagInv ==
    /\ open # {} => \A t \in Timelines : sorted[t] <=> Ascending(open, t)
    /\ SortedFlagsRight

IndInv == Typed /\ Disjoint /\ Covered /\ GroupInv /\ LastInv /\ FlagInv

-----------------------------------------------------------------------------

LEMMA RowTimes ==
    ASSUME NEW row \in Rows
    PROVE  /\ TimelineSet(row) \subseteq Timelines
           /\ \A t \in TimelineSet(row) : row.times[t] \in Int
  <1>1. PICK T \in SUBSET Timelines : row.times \in [T -> Times]
    BY DEF Rows
  <1> QED
    BY <1>1, SplittingAssumption DEF TimelineSet

LEMMA BatchTimes ==
    ASSUME Typed, NEW i \in 1..Len(batch)
    PROVE  /\ TimelineSet(batch[i]) \subseteq Timelines
           /\ \A t \in TimelineSet(batch[i]) : batch[i].times[t] \in Int
  <1>1. batch[i] \in Rows
    BY DEF Typed, TypeOK
  <1> QED
    BY <1>1, RowTimes

\* Pushing a row keeps a column ascending exactly if its time is not below the
\* one pushed last.
LEMMA AscendingPush ==
    ASSUME Typed, GroupInv, LastInv, open # {},
           NEW i \in rest, NEW t \in TimelineSet(batch[i])
    PROVE  Ascending(open \cup {i}, t) <=> Ascending(open, t) /\ last[t] <= batch[i].times[t]
  <1>1. PICK m \in open : /\ \A j \in open : j <= m
                          /\ \A u \in TimelineSet(batch[m]) : last[u] = batch[m].times[u]
    BY DEF LastInv
  <1>2. \A j \in open \cup {i} : /\ j \in 1..Len(batch) /\ j \in Nat
                                 /\ t \in TimelineSet(batch[j])
                                 /\ batch[j].times[t] \in Int
    <2>1. \A j \in open \cup {i} : j \in 1..Len(batch) /\ t \in TimelineSet(batch[j])
      BY DEF Typed, TypeOK, GroupInv
    <2> QED
      BY <2>1, BatchTimes
  <1>3. \A j \in open : j < i
    BY DEF GroupInv
  <1>4. last[t] = batch[m].times[t]
    BY <1>1, <1>2
  <1>5. ASSUME Ascending(open \cup {i}, t)
        PROVE  Ascending(open, t) /\ last[t] <= batch[i].times[t]
    <2>1. Ascending(open, t)
      BY <1>5 DEF Ascending
    <2>2. batch[m].times[t] <= batch[i].times[t]
      BY <1>5, <1>2, <1>3 DEF Ascending
    <2> QED
      BY <2>1, <2>2, <1>4
  <1>6. ASSUME Ascending(open, t), last[t] <= batch[i].times[t]
        PROVE  Ascending(open \cup {i}, t)
    <2> SUFFICES ASSUME NEW j \in open \cup {i}, NEW k \in open \cup {i}, j < k
                 PROVE  batch[j].times[t] <= batch[k].times[t]
      BY DEF Ascending
    <2>1. j \in open
      BY <1>2, <1>3
    <2>2. CASE k \in open
      BY <1>2, <1>6, <2>1, <2>2 DEF Ascending
    <2>3. CASE k = i
      <3>1. batch[j].times[t] <= batch[m].times[t]
        <4>1. CASE j = m
          BY <4>1, <1>2
        <4>2. CASE j < m
          BY <4>2, <1>2, <1>6, <2>1 DEF Ascending
        <4> QED
          BY <4>1, <4>2, <1>1, <1>2, <2>1
      <3>2. batch[m].times[t] \in Int /\ batch[j].times[t] \in Int /\ batch[i].times[t] \in Int
        BY <1>2
      <3> QED
        BY <3>1, <3>2, <2>3, <1>4, <1>6
    <2> QED
      BY <2>2, <2>3
  <1> QED
    BY <1>5, <1>6

-----------------------------------------------------------------------------

LEMMA InitIndInv == Init => IndInv
  <1> SUFFICES ASSUME Init PROVE IndInv
    OBVIOUS
  <1>1. Typed
    BY SplittingAssumption DEF Init, Typed, TypeOK, Fresh
  <1>2. Disjoint /\ Covered /\ GroupInv /\ LastInv /\ FlagInv
    BY <1>1 DEF Init, Disjoint, Covered, GroupInv, LastInv, FlagInv, SortedFlagsRight
  <1> QED
    BY <1>1, <1>2 DEF IndInv

\* Two rows of a finished chunk keep their times.
LEMMA AscendingStays ==
    ASSUME UNCHANGED batch, NEW S, NEW t PROVE Ascending(S, t)' <=> Ascending(S, t)
  BY DEF Ascending

LEMMA NextGroupIndInv ==
    ASSUME IndInv, NEW i \in todo, NextGroup(i) PROVE IndInv'
  <1> USE DEF IndInv, NextGroup
  <1>1. Typed'
    BY DEF Typed, TypeOK, Fresh
  <1>2. Disjoint'
    BY DEF Disjoint
  <1>3. Covered'
    BY DEF Covered
  <1>4. GroupInv'
    BY DEF GroupInv, SameGroup
  <1>5. LastInv'
    BY DEF LastInv
  <1>6. FlagInv'
    BY AscendingStays DEF FlagInv, SortedFlagsRight
  <1> QED
    BY <1>1, <1>2, <1>3, <1>4, <1>5, <1>6

\* The open chunk is filed with its flags.
LEMMA FinishIndInv ==
    ASSUME IndInv, open # {},
           chunks' = chunks \cup {[rows |-> open, sorted |-> sorted]}
    PROVE  /\ chunks' \subseteq Chunk
           /\ \A c \in chunks' : \/ c \in chunks
                                 \/ c.rows = open /\ c.sorted = sorted
           /\ \A j : (\E c \in chunks' : j \in c.rows)
                        <=> j \in open \/ \E c \in chunks : j \in c.rows
           /\ \A c, d \in chunks' : c.rows # d.rows => c.rows \cap d.rows = {}
           /\ \A c \in chunks' : \A t \in Timelines : c.sorted[t] <=> Ascending(c.rows, t)
  <1> DEFINE new == [rows |-> open, sorted |-> sorted]
  <1>1. new \in Chunk /\ new.rows = open /\ new.sorted = sorted
    BY DEF IndInv, Typed, TypeOK, Chunk
  <1> HIDE DEF new
  <1>2. chunks' = chunks \cup {new}
    BY DEF new
  <1>3. chunks' \subseteq Chunk
    BY <1>1, <1>2 DEF IndInv, Typed, TypeOK
  <1>4. \A c \in chunks' : c \in chunks \/ (c.rows = open /\ c.sorted = sorted)
    <2> SUFFICES ASSUME NEW c \in chunks', c \notin chunks
                 PROVE  c.rows = open /\ c.sorted = sorted
      OBVIOUS
    <2>1. c = new
      BY <1>2
    <2> QED
      BY <2>1, <1>1
  <1>5. \A c, d \in chunks' : c.rows # d.rows => c.rows \cap d.rows = {}
    BY <1>4 DEF IndInv, Disjoint
  <1>6. \A c \in chunks' : \A t \in Timelines : c.sorted[t] <=> Ascending(c.rows, t)
    BY <1>4 DEF IndInv, FlagInv, SortedFlagsRight
  <1> QED
    BY <1>1, <1>2, <1>3, <1>4, <1>5, <1>6

LEMMA FinishGroupIndInv ==
    ASSUME IndInv, FinishGroup PROVE IndInv'
  <1> USE DEF FinishGroup
  <1>1. Typed'
    BY FinishIndInv DEF IndInv, Typed, TypeOK
  <1>2. Disjoint'
    BY FinishIndInv DEF IndInv, Disjoint
  <1>3. Covered'
    BY FinishIndInv DEF IndInv, Covered
  <1>4. GroupInv'
    BY FinishIndInv DEF IndInv, GroupInv
  <1>5. LastInv'
    BY DEF LastInv
  <1>6. FlagInv'
    BY FinishIndInv, AscendingStays DEF FlagInv, SortedFlagsRight
  <1> QED
    BY <1>1, <1>2, <1>3, <1>4, <1>5, <1>6 DEF IndInv

\* What PushRow does with the open chunk and its flags in either case.
LEMMA PushedFlags ==
    ASSUME IndInv, NEW i \in rest, PushRow(i)
    PROVE  /\ sorted' \in [Timelines -> BOOLEAN]
           /\ \A t \in Timelines : sorted'[t] <=> Ascending(open', t)
           /\ i \in open' /\ \A j \in open' : j <= i
           /\ \A t \in TimelineSet(batch[i]) : last'[t] = batch[i].times[t]
  <1>i. i \in 1..Len(batch) /\ i \in Nat /\ \A j \in open : j < i
    BY DEF IndInv, Typed, TypeOK, GroupInv
  <1>u. \A t \in TimelineSet(batch[i]) : t \in Timelines /\ batch[i].times[t] \in Int
    BY <1>i, BatchTimes DEF IndInv
  <1>1. sorted' \in [Timelines -> BOOLEAN]
    BY DEF PushRow, StillSorted
  <1>2. i \in open' /\ open' \subseteq open \cup {i}
    BY DEF PushRow
  <1>3. \A j \in open' : j <= i
    BY <1>2, <1>i
  <1>4. \A t \in TimelineSet(batch[i]) : last'[t] = batch[i].times[t]
    BY <1>u DEF PushRow
  <1>5. ASSUME NEW t \in Timelines PROVE sorted'[t] <=> Ascending(open', t)
    <2>1. CASE t \notin TimelineSet(batch[i])
      <3>1. \A j \in open' : t \notin TimelineSet(batch[j])
        BY <1>2, <2>1 DEF IndInv, GroupInv
      <3> QED
        BY <2>1, <3>1 DEF PushRow, Ascending
    <2>2. CASE open = {} \/ Cuts(i)
      <3>1. open' = {i}
        BY <2>2 DEF PushRow
      <3>2. sorted'[t]
        BY <2>2 DEF PushRow
      <3>3. \A j, k \in open' : ~(j < k)
        BY <3>1, <1>i
      <3>4. Ascending(open', t)
        BY <3>3 DEF Ascending
      <3> QED
        BY <3>2, <3>4
    <2>3. CASE t \in TimelineSet(batch[i]) /\ open # {} /\ ~Cuts(i)
      <3>1. open' = open \cup {i}
        BY <2>3 DEF PushRow
      <3>2. sorted'[t] <=> sorted[t] /\ last[t] <= batch[i].times[t]
        BY <2>3 DEF PushRow, StillSorted
      <3>3. sorted[t] <=> Ascending(open, t)
        BY <2>3 DEF IndInv, FlagInv
      <3> QED
        BY <2>3, <3>1, <3>2, <3>3, AscendingPush DEF IndInv
    <2> QED
      BY <2>1, <2>2, <2>3
  <1> QED
    BY <1>1, <1>2, <1>3, <1>4, <1>5

LEMMA PushRowIndInv ==
    ASSUME IndInv, NEW i \in rest, PushRow(i) PROVE IndInv'
  <1>b. UNCHANGED <<batch, todo>> /\ rest' = rest \ {i}
    BY DEF PushRow
  <1>i. i \in 1..Len(batch) /\ i \in Nat
    BY DEF IndInv, Typed, TypeOK
  <1>r. \A j \in rest' : j \in Nat /\ i < j
    BY <1>b, <1>i DEF PushRow, IndInv, Typed, TypeOK
  <1>c. \/ open' = open \cup {i} /\ chunks' = chunks
        \/ /\ open # {} /\ open' = {i}
           /\ chunks' = chunks \cup {[rows |-> open, sorted |-> sorted]}
    BY DEF PushRow, Cuts
  <1>d. \A c \in chunks' : c \in chunks \/ (c.rows = open /\ c.sorted = sorted)
    <2>1. CASE /\ open # {} /\ open' = {i}
               /\ chunks' = chunks \cup {[rows |-> open, sorted |-> sorted]}
      BY <2>1, FinishIndInv
    <2> QED
      BY <2>1, <1>c
  <1>1. Typed'
    <2>1. last' \in [Timelines -> Int]
      BY <1>i, BatchTimes DEF PushRow, IndInv, Typed, TypeOK
    <2> QED
      BY <2>1, <1>b, <1>c, <1>i, PushedFlags, FinishIndInv DEF IndInv, Typed, TypeOK
  <1>2. Disjoint'
    <2>1. CASE open' = open \cup {i} /\ chunks' = chunks
      BY <2>1, <1>b DEF IndInv, Disjoint
    <2>2. CASE /\ open # {} /\ open' = {i}
               /\ chunks' = chunks \cup {[rows |-> open, sorted |-> sorted]}
      BY <2>2, <1>b, FinishIndInv DEF IndInv, Disjoint
    <2> QED
      BY <1>c, <2>1, <2>2
  <1>3. Covered'
    <2>1. CASE open' = open \cup {i} /\ chunks' = chunks
      BY <2>1, <1>b DEF IndInv, Covered
    <2>2. CASE /\ open # {} /\ open' = {i}
               /\ chunks' = chunks \cup {[rows |-> open, sorted |-> sorted]}
      BY <2>2, <1>b, FinishIndInv DEF IndInv, Covered
    <2> QED
      BY <1>c, <2>1, <2>2
  <1>4. GroupInv'
    <2>1. open' \subseteq open \cup {i}
      BY <1>c
    <2>2. \A j \in open' : j \in Nat /\ j <= i
      BY <2>1, <1>i, PushedFlags DEF IndInv, Typed, TypeOK
    <2>3. (\A j \in open, k \in rest : j < k)'
      BY <2>2, <1>r, <1>i
    <2>4. (\A j, k \in open \cup rest : TimelineSet(batch[j]) = TimelineSet(batch[k]))'
      BY <2>1, <1>b DEF IndInv, GroupInv
    <2>5. (\A c \in chunks : \A j, k \in c.rows : TimelineSet(batch[j]) = TimelineSet(batch[k]))'
      BY <1>b, <1>d DEF IndInv, GroupInv
    <2> QED
      BY <2>3, <2>4, <2>5 DEF GroupInv
  <1>5. LastInv'
    BY <1>b, PushedFlags DEF LastInv
  <1>6. FlagInv'
    <2>1. (\A t \in Timelines : sorted[t] <=> Ascending(open, t))'
      BY <1>b, PushedFlags, AscendingStays
    <2>2. \A c \in chunks' : \A t \in Timelines : c.sorted[t] <=> Ascending(c.rows, t)
      BY <1>c, FinishIndInv DEF IndInv, FlagInv, SortedFlagsRight
    <2>3. SortedFlagsRight'
      BY <1>b, <2>2, AscendingStays DEF SortedFlagsRight
    <2> QED
      BY <2>1, <2>3 DEF FlagInv
  <1> QED
    BY <1>1, <1>2, <1>3, <1>4, <1>5, <1>6 DEF IndInv

LEMMA NextIndInv == IndInv /\ [Next]_vars => IndInv'
  <1> SUFFICES ASSUME IndInv, [Next]_vars PROVE IndInv'
    OBVIOUS
  <1>1. CASE UNCHANGED vars
    <2> USE <1>1 DEF vars, IndInv
    <2>1. Typed' /\ Disjoint' /\ Covered'
      BY DEF Typed, TypeOK, Disjoint, Covered
    <2>2. GroupInv' /\ LastInv'
      BY DEF GroupInv, LastInv
    <2>3. FlagInv'
      BY AscendingStays DEF FlagInv, SortedFlagsRight
    <2> QED
      BY <2>1, <2>2, <2>3
  <1> QED
    BY <1>1, NextGroupIndInv, PushRowIndInv, FinishGroupIndInv DEF Next

-----------------------------------------------------------------------------

\* Whatever the batch, each of its rows is in exactly one place: not yet
\* visited, waiting in its group, in the open chunk or in one finished chunk.
THEOREM SplittingPartitions == Spec => [](TypeOK /\ RowsPartitioned)
  <1>1. IndInv => RowsPartitioned
    <2> SUFFICES ASSUME IndInv PROVE RowsPartitioned
      OBVIOUS
    <2>1. \A S : S \in AllChunks <=>
             (\E c \in chunks : S = c.rows) \/ (S = open /\ open # {})
      BY DEF AllChunks
    <2>2. todo \cup rest \cup UNION AllChunks = 1..Len(batch)
      <3>1. \A S \in AllChunks : S \subseteq 1..Len(batch)
        <4>1. open \subseteq 1..Len(batch) /\ \A c \in chunks : c.rows \subseteq 1..Len(batch)
          BY DEF IndInv, Typed, TypeOK
        <4>2. ASSUME NEW S \in AllChunks PROVE S \subseteq 1..Len(batch)
          <5>1. CASE S = open
            BY <5>1, <4>1
          <5>2. ASSUME NEW c \in chunks, S = c.rows PROVE S \subseteq 1..Len(batch)
            BY <5>2, <4>1
          <5> QED
            BY <5>1, <5>2, <2>1
        <4> QED
          BY <4>2
      <3>2. ASSUME NEW i \in 1..Len(batch), i \notin todo, i \notin rest
            PROVE  \E S \in AllChunks : i \in S
        <4>1. CASE i \in open
          BY <4>1, <2>1
        <4>2. CASE \E c \in chunks : i \in c.rows
          BY <4>2, <2>1
        <4> QED
          BY <3>2, <4>1, <4>2 DEF IndInv, Covered
      <3>3. todo \subseteq 1..Len(batch) /\ rest \subseteq 1..Len(batch)
        BY DEF IndInv, Typed, TypeOK
      <3> QED
        BY <3>1, <3>2, <3>3
    <2> QED
      BY <2>1, <2>2 DEF RowsPartitioned, IndInv, Disjoint
  <1>2. IndInv => TypeOK
    BY DEF IndInv, Typed
  <1> QED
    BY <1>1, <1>2, InitIndInv, NextIndInv, PTL DEF Spec

\* No chunk mixes rows of different timeline sets, however groups and cuts
\* fall: every time column of a chunk has a time for each of its rows.
THEOREM SplittingOneTimelineSet == Spec => []OneTimelineSet
  <1>1. IndInv => OneTimelineSet
    BY DEF IndInv, GroupInv, OneTimelineSet, AllChunks
  <1> QED
    BY <1>1, InitIndInv, NextIndInv, PTL DEF Spec

\* The incrementally kept is_sorted flag of every finished time column says
\* exactly whether the column is sorted.
THEOREM SplittingSortedFlags == Spec => []SortedFlagsRight
  <1>1. IndInv => SortedFlagsRight
    BY DEF IndInv, FlagInv
  <1> QED
    BY <1>1, InitIndInv, NextIndInv, PTL DEF Spec

-----------------------------------------------------------------------------

\* All rows of a chunk but the newest.
Body(S) == {i \in S : \E j \in S : i < j}

\* What UnsortedByLastRow says of the finished chunks holds of the open one
\* while it grows.
LimitInv ==
    /\ Cardinality(open) > MaxRows => \A t \in Timelines : Ascending(Body(open), t)
    /\ UnsortedByLastRow

LEMMA InitLimitInv == Init => LimitInv
  <1> SUFFICES ASSUME Init PROVE LimitInv
    OBVIOUS
  <1>1. Body(open) = {}
    BY DEF Init, Body
  <1>2. \A t \in Timelines : Ascending(Body(open), t)
    BY <1>1 DEF Ascending
  <1> QED
    BY <1>2 DEF Init, LimitInv, UnsortedByLastRow

\* A finished chunk is an earlier one or the one that was open.
LEMMA LimitFiled ==
    ASSUME LimitInv, UNCHANGED batch,
           \A c \in chunks' : c \in chunks \/ c.rows = open
    PROVE  UnsortedByLastRow'
  <1> SUFFICES ASSUME NEW c \in chunks', Cardinality(c.rows) > MaxRows,
                      NEW t \in Timelines
               PROVE  Ascending(Body(c.rows), t)
    BY AscendingStays DEF UnsortedByLastRow, Body
  <1>1. CASE c \in chunks
    BY <1>1 DEF LimitInv, UnsortedByLastRow, Body
  <1>2. CASE c.rows = open
    BY <1>2 DEF LimitInv
  <1> QED
    BY <1>1, <1>2

\* Once the open chunk has the threshold's rows, the loop pushes a row only onto
\* columns that are sorted, so that row is the only one that can be out of order.
LEMMA PushRowLimitInv ==
    ASSUME IndInv, LimitInv, NEW i \in rest, PushRow(i) PROVE LimitInv'
  <1>b. UNCHANGED batch
    BY DEF PushRow
  <1>i. i \in Nat /\ open \subseteq 1..Len(batch) /\ \A j \in open : j \in Nat /\ j < i
    BY DEF IndInv, Typed, TypeOK, GroupInv
  <1>1. UnsortedByLastRow'
    <2>1. \A c \in chunks' : c \in chunks \/ c.rows = open
      <3>1. CASE Cuts(i)
        BY <3>1, FinishIndInv DEF PushRow, Cuts
      <3> QED
        BY <3>1 DEF PushRow
    <2> QED
      BY <1>b, <2>1, LimitFiled
  <1>2. ASSUME Cardinality(open') > MaxRows, NEW t \in Timelines
        PROVE  Ascending(Body(open'), t)
    <2>1. CASE open = {} \/ Cuts(i)
      <3>1. open' = {i}
        BY <2>1 DEF PushRow
      <3>2. Body(open') = {}
        BY <3>1, <1>i DEF Body
      <3> QED
        BY <3>2 DEF Ascending
    <2>2. CASE open # {} /\ ~Cuts(i)
      <3>1. open' = open \cup {i}
        BY <2>2 DEF PushRow
      <3>2. Body(open') = open
        <4>1. \A j \in open' : ~(i < j)
          BY <3>1, <1>i
        <4>2. \A j \in open : i \in open' /\ j < i
          BY <3>1, <1>i
        <4> QED
          BY <3>1, <4>1, <4>2 DEF Body
      <3>3. IsFiniteSet(open)
        <4>1. Len(batch) \in Nat
          BY DEF IndInv, Typed, TypeOK
        <4>2. IsFiniteSet(1..Len(batch))
          BY <4>1, FS_Interval
        <4> QED
          BY <1>i, <4>2, FS_Subset
      <3>4. Cardinality(open) \in Nat /\ Cardinality(open') = Cardinality(open) + 1
        BY <1>i, <3>1, <3>3, FS_CardinalityType, FS_AddElement
      <3>5. Cardinality(open) >= MaxRows
        BY <1>2, <3>4, SplittingAssumption
      <3>6. CASE t \in TimelineSet(batch[i])
        BY <2>2, <3>2, <3>5, <3>6 DEF Cuts, IndInv, FlagInv
      <3>7. CASE t \notin TimelineSet(batch[i])
        <4>1. \A j \in open : t \notin TimelineSet(batch[j])
          BY <3>7 DEF IndInv, GroupInv
        <4> QED
          BY <3>2, <4>1 DEF Ascending
      <3> QED
        BY <3>6, <3>7
    <2> QED
      BY <2>1, <2>2
  <1> QED
    BY <1>1, <1>2, <1>b, AscendingStays DEF LimitInv, Body

LEMMA NextLimitInv == IndInv /\ LimitInv /\ [Next]_vars => LimitInv'
  <1> SUFFICES ASSUME IndInv, LimitInv, [Next]_vars PROVE LimitInv'
    OBVIOUS
  <1>1. ASSUME NEW i \in todo, NextGroup(i) PROVE LimitInv'
    BY <1>1, AscendingStays DEF NextGroup, LimitInv, UnsortedByLastRow, Body
  <1>2. CASE FinishGroup
    <2>1. UnsortedByLastRow'
      BY <1>2, FinishIndInv, LimitFiled DEF FinishGroup
    <2>2. Body(open') = {} /\ UNCHANGED batch
      BY <1>2 DEF FinishGroup, Body
    <2>3. \A t \in Timelines : Ascending(Body(open'), t)
      BY <2>2 DEF Ascending
    <2> QED
      BY <2>1, <2>2, <2>3, AscendingStays DEF LimitInv, Body
  <1>3. CASE UNCHANGED vars
    BY <1>3, AscendingStays DEF vars, LimitInv, UnsortedByLastRow, Body
  <1> QED
    BY <1>1, <1>2, <1>3, PushRowLimitInv DEF Next

\* However long the batch and whatever the threshold, a finished chunk of more
\* than chunk_max_rows_if_unsorted rows is ascending on every timeline once its
\* last row is left out.
THEOREM SplittingUnsortedByLastRow == Spec => []UnsortedByLastRow
  <1>1. LimitInv => UnsortedByLastRow
    BY DEF LimitInv
  <1> QED
    BY <1>1, InitIndInv, NextIndInv, InitLimitInv, NextLimitInv, PTL DEF Spec
=============================================================================
