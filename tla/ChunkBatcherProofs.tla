------------------------- MODULE ChunkBatcherProofs -------------------------
(***************************************************************************)
(* Proofs about ChunkBatcher for any threads, entities, shapes, consumers, *)
(* configurations and channel capacities.                                  *)
(*                                                                         *)
(* A row goes through five places: the call that sends it, the command     *)
(* channel, the accumulator of its entity, the backlog of the running      *)
(* flush and the output channel.  What the places hold together is stated  *)
(* once, for any five sets of rows (InOrder), and every action is one of a *)
(* few moves between these sets.                                           *)
(***************************************************************************)
EXTENDS ChunkBatcher, SequenceTheorems, FiniteSetTheorems, WellFoundedInduction,
        NaturalsInduction, TLAPS

\* The rows of R were logged before the rows of the same thread in S.
Older(R, S) == \A r \in R, s \in S : r.by = s.by => r.id < s.id

\* Rows between which the batcher keeps the order.
Kin(r, s) == r.by = s.by /\ r.entity = s.entity /\ r.shape = s.shape /\ r.whole = s.whole

\* S, Q, P, B, O: rows being sent, queued, pending, batched and sent on.
InOrder(S, Q, P, B, O) ==
    /\ \A r, s \in S \cup Q \cup P \cup B \cup O : r.id = s.id => r = s
    /\ Older(Q \cup P \cup B \cup O, S)
    /\ Older(P \cup B \cup O, Q)
    /\ \A r \in B \cup O, s \in P :
          r.by = s.by /\ r.entity = s.entity /\ ~r.whole => r.id < s.id
    /\ \A r \in O, s \in B : Kin(r, s) => r.id < s.id

RowsInOrder == InOrder(Sending, Queued, Pending, Batched, Out)

\* Only chunks that are pushed as a whole bypass the accumulators.
WellFormed(c) ==
    /\ c.op = "AppendRow" => ~c.row.whole
    /\ c.op = "AppendChunk" => c.row.whole

\* A thread sends its own rows and flushes, one at a time.
CallInv ==
    \A t \in Threads :
        /\ pc[t] = "send" <=> cmd[t] # Idle
        /\ WellFormed(cmd[t])
        /\ \A r \in RowOf(cmd[t]) : r.by = t
        /\ cmd[t].op = "Flush" => cmd[t].by \in {t, None}

\* Commands of a thread are queued in the order in which it sent them.
QueueInv ==
    /\ \A i \in 1..Len(cmds) : WellFormed(cmds[i])
    /\ \A i, j \in 1..Len(cmds) :
          i < j => Older(RowOf(cmds[i]), RowOf(cmds[j]))

LoopInv ==
    /\ thread \in {"select", "done"} => todo = {} /\ backlog = {} /\ reply = None
    /\ thread = "exit" => reply = None

AccInv ==
    \A e \in Entities : \A r \in Range(accs[e]) : r.entity = e /\ ~r.whole

Ascending(q) == \A i, j \in 1..Len(q) : i < j => q[i].id < q[j].id

\* The backlog has one chunk per shape, sorted.
BacklogInv ==
    \A c \in backlog :
        /\ Ascending(c)
        /\ \A d \in backlog : \A r \in Range(c), s \in Range(d) :
              r.shape = s.shape <=> c = d

\* Kin leave in order.
OutInv ==
    \A i, j \in 1..Len(out) : \A k \in 1..Len(out[i]), l \in 1..Len(out[j]) :
        Kin(out[i][k], out[j][l]) /\ out[i][k].id < out[j][l].id
          => i < j \/ (i = j /\ k < l)

BatchInv ==
    /\ TypeOK
    /\ CallInv
    /\ QueueInv
    /\ LoopInv
    /\ AccInv
    /\ BacklogInv
    /\ OutInv
    /\ RowsInOrder

-----------------------------------------------------------------------------
(* Flushes *)

FlushOf(t) == [op |-> "Flush", by |-> t]

\* The ids N belong to rows of R that will end up in a chunk.
Covers(R, N) == \A n \in N : \E r \in R : r.id = n /\ r.shape # Empty

\* The rows that are queued ahead of the i-th command.
Ahead(i) == UNION {RowOf(cmds[j]) : j \in 1..(i - 1)}

\* The rows that the running flush has still to send.
ToVisit == Batched \cup UNION {Range(accs[e]) : e \in todo}

\* A thread that waits has one flush on its way ...
OneFlush ==
    \A t \in Threads :
        /\ \A i \in 1..Len(cmds) : cmds[i] = FlushOf(t) =>
              /\ pc[t] = "await" /\ reply # t
              /\ \A j \in 1..Len(cmds) : cmds[j] = FlushOf(t) => i = j
        /\ reply = t => pc[t] = "await"

\* ... and what it has to see sent is ahead of it: while it is being sent, ...
AheadOfCall ==
    \A t \in Threads :
        cmd[t] = FlushOf(t) => Covers(Queued \cup Pending \cup Batched, owed[t])

\* ... while it is queued, ...
AheadOfCommand ==
    \A t \in Threads : \A i \in 1..Len(cmds) :
        cmds[i] = FlushOf(t) => Covers(Ahead(i) \cup Pending \cup Batched, owed[t])

\* ... and while it runs.
AheadOfAnswer == \A t \in Threads : reply = t => Covers(ToVisit, owed[t])

FlushBehind == AheadOfCall /\ AheadOfCommand /\ AheadOfAnswer

FlushInv == OneFlush /\ FlushBehind /\ FlushGuarantee

-----------------------------------------------------------------------------
(* Moves between five sets of rows *)

LEMMA RowIds == \A r \in Rows : r.id \in Int /\ r.id \in 1..MaxRows
  BY BatcherAssumption DEF Rows

\* Rows leave.
LEMMA RowsLeave ==
  ASSUME NEW S, NEW Q, NEW P, NEW B, NEW O, InOrder(S, Q, P, B, O),
         NEW S1 \in SUBSET S, NEW Q1 \in SUBSET Q, NEW P1 \in SUBSET P,
         NEW B1 \in SUBSET B, NEW O1 \in SUBSET O
  PROVE  InOrder(S1, Q1, P1, B1, O1)
  BY DEF InOrder, Older

\* A row with a new id is logged.
LEMMA RowLogged ==
  ASSUME NEW S, NEW Q, NEW P, NEW B, NEW O, InOrder(S, Q, P, B, O), NEW r,
         \A s \in S \cup Q \cup P \cup B \cup O : s.id \in Int /\ s.id < r.id,
         r.id \in Int, \A s \in S : s.by # r.by
  PROVE  InOrder(S \cup {r}, Q, P, B, O)
  BY DEF InOrder, Older

\* A thread's row enters the command channel.
LEMMA RowsQueued ==
  ASSUME NEW S, NEW Q, NEW P, NEW B, NEW O, InOrder(S, Q, P, B, O),
         NEW A \in SUBSET S, \A r \in A, s \in S \ A : r.by # s.by
  PROVE  InOrder(S \ A, Q \cup A, P, B, O)
  BY DEF InOrder, Older

\* The first row of the command channel joins its accumulator.
LEMMA RowAccumulated ==
  ASSUME NEW S, NEW Q, NEW P, NEW B, NEW O, InOrder(S, Q, P, B, O),
         NEW r \in Q, Older({r}, Q \ {r})
  PROVE  InOrder(S, Q \ {r}, P \cup {r}, B, O)
  BY DEF InOrder, Older

\* A chunk that was pushed as a whole is sent on past the accumulators.
LEMMA ChunkPassed ==
  ASSUME NEW S, NEW Q, NEW P, NEW O, InOrder(S, Q, P, {}, O),
         NEW r \in Q, Older({r}, Q \ {r}), r.whole, NEW B \in SUBSET {r}
  PROVE  InOrder(S, Q \ {r}, P, B, O)
  BY DEF InOrder, Older, Kin

\* The rows of an accumulator are made into chunks.
LEMMA AccumulatorTaken ==
  ASSUME NEW S, NEW Q, NEW P, NEW O, InOrder(S, Q, P, {}, O),
         NEW A \in SUBSET P, NEW B \in SUBSET A, \A r \in A : ~r.whole,
         \A r \in A, s \in P \ A : r.entity # s.entity
  PROVE  InOrder(S, Q, P \ A, B, O)
  BY DEF InOrder, Older, Kin

\* A chunk is sent.
LEMMA ChunkSent ==
  ASSUME NEW S, NEW Q, NEW P, NEW B, NEW O, InOrder(S, Q, P, B, O),
         NEW C \in SUBSET B, NEW B1 \in SUBSET B, NEW O1 \in SUBSET (O \cup C),
         \A r \in C, s \in B1 : r.shape # s.shape
  PROVE  InOrder(S, Q, P, B1, O1)
  BY DEF InOrder, Older, Kin

-----------------------------------------------------------------------------
(* Sorting *)

\* A set of numbers has a smallest one ...
LEMMA NatSmallest ==
  ASSUME NEW T \in SUBSET Nat, T # {}
  PROVE  \E x \in T : \A y \in T : ~(y < x)
  <1>1. \E x \in T : \A y \in T : ~(<<y, x>> \in OpToRel(<, Nat))
    BY NatLessThanWellFounded, WFMin
  <1> QED BY <1>1 DEF OpToRel

\* ... which is induction, for a set of numbers ...
LEMMA NatSetInduction ==
  ASSUME NEW S, 0 \in S, \A n \in Nat : n \in S => n + 1 \in S
  PROVE  Nat \subseteq S
  <1> DEFINE T == Nat \ S
  <1>1. SUFFICES ASSUME T # {} PROVE FALSE
    OBVIOUS
  <1>2. PICK x \in T : \A y \in T : ~(y < x)
    <2> HIDE DEF T
    <2>1. T \subseteq Nat
      BY DEF T
    <2> QED BY <1>1, <2>1, NatSmallest
  <1>3. x # 0 /\ x - 1 \in Nat
    OBVIOUS
  <1>4. x - 1 \in S
    BY <1>2, <1>3
  <1> QED BY <1>3, <1>4

\* ... and a bounded one has a largest one.
LEMMA MaxFacts ==
  ASSUME NEW n \in Nat, NEW N \in SUBSET (0..n), 0 \in N
  PROVE  Max(N) \in N /\ \A y \in N : Max(N) >= y
  <1> DEFINE U == {x \in Nat : \A y \in N : x >= y}
  <1>1. n \in U
    OBVIOUS
  <1>2. PICK x \in U : \A y \in U : ~(y < x)
    <2> HIDE DEF U
    <2>1. U \subseteq Nat
      BY DEF U
    <2> QED BY <1>1, <2>1, NatSmallest
  <1>3. x \in N
    <2> SUFFICES ASSUME x \notin N PROVE FALSE
      OBVIOUS
    <2>1. x # 0 /\ x - 1 \in Nat
      OBVIOUS
    <2>2. \A y \in N : x - 1 >= y
      OBVIOUS
    <2> QED BY <1>2, <2>1, <2>2
  <1>4. \E z \in N : \A y \in N : z >= y
    BY <1>3
  <1> QED BY <1>4 DEF Max

LEMMA IntOrder == \A m, n \in Int : ~(m < n /\ n < m)
  OBVIOUS

LEMMA LastIndex == \A n \in Nat : \A j \in 1..(n + 1) : j \in 1..n \/ j = n + 1
  OBVIOUS

LEMMA RangeAppend ==
  ASSUME NEW S, NEW q \in Seq(S), NEW x \in S
  PROVE  Range(Append(q, x)) = Range(q) \cup {x}
  <1>1. /\ DOMAIN Append(q, x) = 1..(Len(q) + 1) /\ DOMAIN q = 1..Len(q)
        /\ Len(q) \in Nat
    BY AppendProperties, LenProperties
  <1>2. /\ \A i \in 1..Len(q) : Append(q, x)[i] = q[i]
        /\ Append(q, x)[Len(q) + 1] = x
    BY AppendProperties
  <1>3. \A y \in Range(Append(q, x)) : y \in Range(q) \cup {x}
    BY <1>1, <1>2 DEF Range
  <1>4. x \in Range(Append(q, x))
    <2>1. Len(q) + 1 \in DOMAIN Append(q, x)
      BY <1>1
    <2> QED BY <1>2, <2>1 DEF Range
  <1>5. \A y \in Range(q) : y \in Range(Append(q, x))
    <2>1. DOMAIN q \subseteq DOMAIN Append(q, x)
      BY <1>1
    <2> QED BY <1>1, <1>2, <2>1 DEF Range
  <1> QED BY <1>3, <1>4, <1>5

\* Rows with distinct ids can be sorted, and Sorted does it.
LEMMA SortedFacts ==
  ASSUME NEW S \in SUBSET Rows, \A r, s \in S : r.id = s.id => r = s
  PROVE  Sorted(S) \in Seq(S) /\ Range(Sorted(S)) = S /\ Ascending(Sorted(S))
  <1> DEFINE UpTo(n) == {r \in S : r.id <= n}
             Enum(q, n) == q \in Seq(S) /\ Len(q) <= n /\ Range(q) = UpTo(n) /\ Ascending(q)
             T == {n \in Nat : \E q \in Seq(S) : Enum(q, n)}
  <1>0. \A r \in S : r.id \in 1..MaxRows /\ r.id \in Int
    BY RowIds
  <1>1. 0 \in T
    <2>1. <<>> \in Seq(S) /\ Len(<<>>) = 0 /\ Range(<<>>) = {}
      BY DEF Range
    <2>2. UpTo(0) = {}
      BY <1>0
    <2> QED
      <3>1. Enum(<<>>, 0)
        BY <2>1, <2>2 DEF Ascending
      <3> QED BY <2>1, <3>1
  <1>2. \A n \in Nat : n \in T => n + 1 \in T
    <2> SUFFICES ASSUME NEW n \in Nat, n \in T PROVE n + 1 \in T
      OBVIOUS
    <2>1. PICK q \in Seq(S) : Enum(q, n)
      OBVIOUS
    <2>2. CASE UpTo(n + 1) = UpTo(n)
      <3>1. Len(q) <= n + 1
        BY <2>1, LenProperties
      <3> QED BY <2>1, <2>2, <3>1
    <2>3. CASE UpTo(n + 1) # UpTo(n)
      <3>1. PICK r \in S : r.id = n + 1
        BY <1>0, <2>3
      <3>2. UpTo(n + 1) = UpTo(n) \cup {r}
        BY <1>0, <3>1
      <3> DEFINE p == Append(q, r)
      <3>3. p \in Seq(S) /\ Len(p) = Len(q) + 1 /\ Len(q) \in Nat
        BY AppendProperties, LenProperties
      <3>4. Range(p) = UpTo(n + 1)
        BY <2>1, <3>2, RangeAppend
      <3>5. Ascending(p)
        <4>1. \A i \in 1..Len(q) : p[i] = q[i] /\ q[i] \in UpTo(n)
          BY <2>1, AppendProperties, LenProperties DEF Range
        <4>2. p[Len(q) + 1] = r
          BY AppendProperties
        <4> SUFFICES ASSUME NEW i \in 1..Len(p), NEW j \in 1..Len(p), i < j
                     PROVE  p[i].id < p[j].id
          BY DEF Ascending
        <4>3. i \in 1..Len(q)
          BY <3>3
        <4>4. CASE j \in 1..Len(q)
          <5>1. q[i].id < q[j].id
            BY <2>1, <4>3, <4>4 DEF Ascending
          <5> QED BY <4>1, <4>3, <4>4, <5>1
        <4>5. CASE j = Len(q) + 1
          <5>1. p[i] \in UpTo(n) /\ p[j] = r
            BY <4>1, <4>2, <4>3, <4>5
          <5> HIDE DEF p
          <5> QED BY <1>0, <3>1, <5>1
        <4>6. j \in 1..Len(q) \/ j = Len(q) + 1
          <5>1. j \in 1..(Len(q) + 1)
            BY <3>3
          <5> QED BY <3>3, <5>1, LastIndex
        <4> QED BY <4>4, <4>5, <4>6
      <3>6. Len(p) <= n + 1
        BY <2>1, <3>3
      <3> HIDE DEF p
      <3>7. Enum(p, n + 1)
        BY <3>3, <3>4, <3>5, <3>6
      <3> QED BY <3>3, <3>7
    <2> QED BY <2>2, <2>3
  <1>3. MaxRows \in T
    <2> HIDE DEF T
    <2> QED BY <1>1, <1>2, NatSetInduction, BatcherAssumption
  <1>4. PICK q \in Seq(S) : Enum(q, MaxRows)
    BY <1>3
  <1>5. UpTo(MaxRows) = S
    BY <1>0, BatcherAssumption
  <1>6. \A p : p \in BoundedSeq(S, MaxRows) <=> p \in Seq(S) /\ Len(p) <= MaxRows
    <2> TAKE p
    <2>1. ASSUME p \in BoundedSeq(S, MaxRows) PROVE p \in Seq(S) /\ Len(p) <= MaxRows
      BY <2>1, BatcherAssumption DEF BoundedSeq, SeqOf
    <2>2. ASSUME p \in Seq(S), Len(p) <= MaxRows PROVE p \in BoundedSeq(S, MaxRows)
      <3>1. Len(p) \in 0..MaxRows /\ p \in [1..Len(p) -> S]
        BY <2>2, LenProperties, BatcherAssumption
      <3> QED BY <3>1 DEF BoundedSeq, SeqOf
    <2> QED BY <2>1, <2>2
  <1>7. /\ q \in BoundedSeq(S, MaxRows) /\ Range(q) = S
        /\ \A i, j \in 1..Len(q) : i < j => q[i].id < q[j].id
    BY <1>4, <1>5, <1>6 DEF Ascending
  <1>8. /\ Sorted(S) \in BoundedSeq(S, MaxRows) /\ Range(Sorted(S)) = S
        /\ \A i, j \in 1..Len(Sorted(S)) : i < j => Sorted(S)[i].id < Sorted(S)[j].id
    BY <1>7 DEF Sorted
  <1> QED BY <1>6, <1>8 DEF Ascending

\* many_into_chunks: every row with components is in the one chunk of its shape.
LEMMA ChunksFacts ==
  ASSUME NEW rows \in Seq(Rows), \A r, s \in Range(rows) : r.id = s.id => r = s
  PROVE  LET M == ManyIntoChunks(rows)
         IN  /\ M \subseteq Seq(Rows)
             /\ UNION {Range(c) : c \in M} = {r \in Range(rows) : r.shape # Empty}
             /\ \A c \in M : Ascending(c)
             /\ \A c, d \in M : \A r \in Range(c), s \in Range(d) :
                   r.shape = s.shape <=> c = d
  <1> DEFINE M == ManyIntoChunks(rows)
             X == Range(rows)
             Of(s) == {r \in X : r.shape = s}
             Sh == {r.shape : r \in X} \ {Empty}
  <1>1. X \subseteq Rows
    BY DEF Range
  <1>2. \A s : /\ Sorted(Of(s)) \in Seq(Rows) /\ Range(Sorted(Of(s))) = Of(s)
               /\ Ascending(Sorted(Of(s)))
    <2> TAKE s
    <2>1. Of(s) \in SUBSET Rows /\ \A a, b \in Of(s) : a.id = b.id => a = b
      BY <1>1
    <2> HIDE DEF Of
    <2>2. Sorted(Of(s)) \in Seq(Of(s)) /\ Range(Sorted(Of(s))) = Of(s)
               /\ Ascending(Sorted(Of(s)))
      BY <2>1, SortedFacts
    <2>3. \A q \in Seq(Of(s)) : q \in Seq(Rows)
      BY <2>1
    <2> QED BY <2>2, <2>3
  <1>3. M = {Sorted(Of(s)) : s \in Sh}
    BY DEF ManyIntoChunks
  <1> HIDE DEF M
  <1>4. ASSUME NEW c \in M PROVE c \in Seq(Rows) /\ Ascending(c)
    <2>1. PICK x \in Sh : c = Sorted(Of(x))
      BY <1>3
    <2> HIDE DEF Of, Sh
    <2> QED BY <1>2, <2>1
  <1>5. UNION {Range(c) : c \in M} = {r \in Range(rows) : r.shape # Empty}
    <2>1. ASSUME NEW r \in X, r.shape # Empty PROVE r \in UNION {Range(c) : c \in M}
      <3>1. Sorted(Of(r.shape)) \in M
        BY <1>3, <2>1
      <3>2. r \in Range(Sorted(Of(r.shape)))
        BY <1>2, <2>1
      <3> QED BY <3>1, <3>2
    <2>2. ASSUME NEW c \in M, NEW r \in Range(c) PROVE r \in X /\ r.shape # Empty
      <3>1. PICK x \in Sh : c = Sorted(Of(x))
        BY <1>3
      <3>2. r \in Of(x)
        BY <1>2, <3>1, <2>2
      <3> QED BY <3>2
    <2> QED BY <2>1, <2>2
  <1>6. ASSUME NEW c \in M, NEW d \in M, NEW r \in Range(c), NEW s \in Range(d)
        PROVE  r.shape = s.shape <=> c = d
    <2>1. PICK x \in Sh : c = Sorted(Of(x))
      BY <1>3
    <2>2. PICK y \in Sh : d = Sorted(Of(y))
      BY <1>3
    <2>3. r.shape = x /\ s.shape = y
      BY <1>2, <1>6, <2>1, <2>2
    <2>4. ASSUME c = d PROVE r.shape = s.shape
      <3>1. r \in Of(y)
        BY <1>2, <2>2, <2>4
      <3> QED BY <2>3, <3>1
    <2> QED BY <2>1, <2>2, <2>3, <2>4
  <1> QED BY <1>4, <1>5, <1>6 DEF M

-----------------------------------------------------------------------------
(* The five places *)

LEMMA RowOfType ==
  /\ \A c \in Commands \cup {Idle} : RowOf(c) \subseteq Rows
  /\ RowOf(Idle) = {} /\ Idle \notin Commands
  /\ \A t : RowOf(FlushOf(t)) = {}
  BY DEF Commands, RowOf, Idle, FlushOf

LEMMA PlacesType ==
  ASSUME TypeOK
  PROVE  /\ Sending \subseteq Rows /\ Queued \subseteq Rows /\ Pending \subseteq Rows
         /\ Batched \subseteq Rows /\ Out \subseteq Rows
  <1>1. Sending \subseteq Rows
    BY RowOfType DEF TypeOK, Sending
  <1>2. Queued \subseteq Rows
    <2>1. cmds \in Seq(Commands)
      BY DEF TypeOK
    <2>2. Range(cmds) \subseteq Commands
      BY <2>1 DEF Range
    <2> QED BY <2>2, RowOfType DEF Queued
  <1>3. Pending \subseteq Rows
    <2>1. \A e \in Entities : accs[e] \in Seq(Rows)
      BY DEF TypeOK
    <2>2. \A e \in Entities : Range(accs[e]) \subseteq Rows
      BY <2>1 DEF Range
    <2> QED BY <2>2 DEF Pending
  <1>4. Batched \subseteq Rows
    <2>1. \A c \in backlog : c \in Seq(Rows)
      BY DEF TypeOK
    <2>2. \A c \in backlog : Range(c) \subseteq Rows
      BY <2>1 DEF Range
    <2> QED BY <2>2 DEF Batched
  <1>5. Out \subseteq Rows
    <2>1. out \in Seq(Seq(Rows))
      BY DEF TypeOK
    <2>2. \A c \in Range(out) : c \in Seq(Rows)
      BY <2>1 DEF Range
    <2>3. \A c \in Range(out) : Range(c) \subseteq Rows
      BY <2>2 DEF Range
    <2> QED BY <2>3 DEF Out
  <1> QED BY <1>1, <1>2, <1>3, <1>4, <1>5

\* The new id is larger than every id in flight.
LEMMA NewIdFacts ==
  ASSUME TypeOK
  PROVE  NewId \in Nat /\ NewId >= 1 /\ \A r \in Upstream \cup Out : r.id < NewId
  <1> DEFINE N == Ids(Upstream \cup Out) \cup {0}
  <1>1. \A r \in Upstream \cup Out : r.id \in 1..MaxRows
    BY PlacesType, RowIds DEF Upstream
  <1>2. N \subseteq 0..MaxRows /\ 0 \in N /\ \A r \in Upstream \cup Out : r.id \in N
    <2>1. \A n \in N : n = 0 \/ \E r \in Upstream \cup Out : n = r.id
      BY DEF Ids
    <2>2. \A n \in N : n \in 0..MaxRows
      BY <1>1, <2>1, BatcherAssumption
    <2> QED BY <2>2 DEF Ids
  <1> HIDE DEF N
  <1>3. Max(N) \in N /\ \A y \in N : Max(N) >= y
    BY <1>2, MaxFacts, BatcherAssumption
  <1>4. Max(N) \in Nat /\ \A r \in Upstream \cup Out : r.id \in Int
    <2>1. Max(N) \in 0..MaxRows
      BY <1>2, <1>3
    <2> QED BY <1>1, <2>1, BatcherAssumption
  <1>5. NewId = 1 + Max(N)
    BY DEF NewId, N
  <1> QED BY <1>2, <1>3, <1>4, <1>5

\* A step that leaves a place alone keeps what is said about it.
LEMMA CallFrame ==
  ASSUME CallInv, UNCHANGED <<pc, cmd>>
  PROVE  CallInv' /\ Sending' = Sending
  BY DEF CallInv, Sending

LEMMA QueueFrame ==
  ASSUME QueueInv, UNCHANGED cmds
  PROVE  QueueInv' /\ Queued' = Queued
  BY DEF QueueInv, Queued

LEMMA LoopFrame ==
  ASSUME LoopInv, AccInv, BacklogInv, UNCHANGED loop
  PROVE  /\ LoopInv' /\ AccInv' /\ BacklogInv' /\ Pending' = Pending
         /\ Batched' = Batched
  BY DEF LoopInv, AccInv, BacklogInv, Pending, Batched, loop

LEMMA AccFrame ==
  ASSUME AccInv, UNCHANGED accs
  PROVE  AccInv' /\ Pending' = Pending
  BY DEF AccInv, Pending

LEMMA BacklogFrame ==
  ASSUME BacklogInv, UNCHANGED backlog
  PROVE  BacklogInv' /\ Batched' = Batched
  BY DEF BacklogInv, Batched

LEMMA OutFrame ==
  ASSUME OutInv, UNCHANGED out
  PROVE  OutInv' /\ Out' = Out
  BY DEF OutInv, Out

LEMMA RowsFrame ==
  ASSUME RowsInOrder, UNCHANGED <<Sending, Queued, Pending, Batched, Out>>
  PROVE  RowsInOrder'
  BY DEF RowsInOrder

\* A command joins the queue, behind the older rows of its thread.
LEMMA Enqueued ==
  ASSUME TypeOK, QueueInv, NEW c \in Commands, cmds' = Append(cmds, c), WellFormed(c),
         Older(Queued, RowOf(c))
  PROVE  QueueInv' /\ Queued' = Queued \cup RowOf(c)
  <1>1. cmds \in Seq(Commands)
    BY DEF TypeOK
  <1>2. Range(cmds') = Range(cmds) \cup {c}
    BY <1>1, RangeAppend
  <1>3. Queued' = Queued \cup RowOf(c)
    BY <1>2 DEF Queued
  <1> DEFINE n == Len(cmds)
  <1>4. /\ n \in Nat /\ Len(cmds') = n + 1 /\ cmds'[n + 1] = c
        /\ \A i \in 1..n : cmds'[i] = cmds[i]
    BY <1>1, AppendProperties, LenProperties
  <1>5. \A i \in 1..n : RowOf(cmds[i]) \subseteq Queued
    BY <1>1, LenProperties DEF Queued, Range
  <1> HIDE DEF n
  <1>6. \A i \in 1..(n + 1) : WellFormed(cmds'[i])
    BY <1>4, LastIndex DEF QueueInv, n
  <1>7. ASSUME NEW i \in 1..(n + 1), NEW j \in 1..(n + 1), i < j
        PROVE  Older(RowOf(cmds'[i]), RowOf(cmds'[j]))
    <2>1. i \in 1..n
      BY <1>4, <1>7
    <2>2. CASE j \in 1..n
      BY <1>4, <1>7, <2>1, <2>2 DEF QueueInv, n
    <2>3. CASE j = n + 1
      BY <1>4, <1>5, <2>1, <2>3 DEF Older
    <2> QED BY <1>4, <2>2, <2>3, LastIndex
  <1>8. QueueInv'
    BY <1>4, <1>6, <1>7 DEF QueueInv
  <1> QED BY <1>3, <1>8

LEMMA TailFacts ==
  ASSUME NEW S, NEW q \in Seq(S), q # <<>>
  PROVE  /\ Len(q) \in Nat /\ Len(q) >= 1 /\ Len(Tail(q)) = Len(q) - 1
         /\ Tail(q) \in Seq(S) /\ Head(q) \in S /\ Head(q) = q[1]
         /\ \A i \in 1..(Len(q) - 1) : i + 1 \in 1..Len(q) /\ Tail(q)[i] = q[i + 1]
         /\ Range(q) = {Head(q)} \cup Range(Tail(q))
  <1>1. Len(q) \in Nat /\ Len(q) >= 1 /\ DOMAIN q = 1..Len(q)
    BY LenProperties, EmptySeq
  <1>2. /\ Tail(q) \in Seq(S) /\ Len(Tail(q)) = Len(q) - 1
        /\ \A i \in 1..Len(Tail(q)) : Tail(q)[i] = q[i + 1]
    BY HeadTailProperties
  <1>3. DOMAIN Tail(q) = 1..(Len(q) - 1)
    BY <1>2, LenProperties
  <1>4. Head(q) = q[1] /\ Head(q) \in S
    BY HeadTailProperties
  <1>5. \A i \in 1..(Len(q) - 1) : i + 1 \in 1..Len(q) /\ Tail(q)[i] = q[i + 1]
    <2> TAKE i \in 1..(Len(q) - 1)
    <2>1. i \in 1..Len(Tail(q))
      BY <1>2
    <2> QED BY <1>1, <1>2, <2>1
  <1>6. ASSUME NEW x \in Range(q) PROVE x \in {Head(q)} \cup Range(Tail(q))
    <2>1. PICK i \in 1..Len(q) : x = q[i]
      BY <1>1 DEF Range
    <2>2. CASE i = 1
      BY <1>4, <2>1, <2>2
    <2>3. CASE i # 1
      <3> DEFINE k == i - 1
      <3>1. k \in 1..(Len(q) - 1) /\ k + 1 = i
        BY <1>1, <2>1, <2>3
      <3> HIDE DEF k
      <3>2. x = Tail(q)[k]
        BY <1>5, <2>1, <3>1
      <3> QED BY <1>3, <3>1, <3>2 DEF Range
    <2> QED BY <2>2, <2>3
  <1>7. {Head(q)} \cup Range(Tail(q)) \subseteq Range(q)
    <2>1. 1 \in 1..Len(q)
      BY <1>1
    <2> QED BY <1>1, <1>3, <1>4, <1>5, <2>1 DEF Range
  <1> QED BY <1>1, <1>2, <1>4, <1>5, <1>6, <1>7

\* The batching thread takes the first command, with the oldest row of its
\* thread that is queued.
LEMMA Dequeued ==
  ASSUME TypeOK, QueueInv, cmds # <<>>, cmds' = Tail(cmds)
  PROVE  /\ QueueInv' /\ cmds' \in Seq(Commands) /\ Len(cmds') <= InCap
         /\ Head(cmds) \in Commands /\ WellFormed(Head(cmds))
         /\ RowOf(Head(cmds)) \subseteq Queued
         /\ Queued' = Queued \ RowOf(Head(cmds))
         /\ Older(RowOf(Head(cmds)), Queued')
  <1>1. cmds \in Seq(Commands)
    BY DEF TypeOK
  <1> DEFINE n == Len(cmds)
  <1>2. /\ n \in Nat /\ n >= 1 /\ Len(cmds') = n - 1
        /\ cmds' \in Seq(Commands) /\ Head(cmds) \in Commands /\ Head(cmds) = cmds[1]
        /\ \A i \in 1..(n - 1) : i + 1 \in 1..n /\ cmds'[i] = cmds[i + 1]
        /\ Range(cmds) = {Head(cmds)} \cup Range(cmds')
    BY <1>1, TailFacts
  <1>3. n <= InCap /\ InCap \in Nat
    BY BatcherAssumption DEF TypeOK
  <1> HIDE DEF n
  <1>4. Queued = RowOf(Head(cmds)) \cup Queued'
    BY <1>2 DEF Queued
  <1>5. Older(RowOf(Head(cmds)), Queued')
    <2>1. ASSUME NEW c \in Range(cmds') PROVE Older(RowOf(Head(cmds)), RowOf(c))
      <3>1. PICK i \in 1..Len(cmds') : c = cmds'[i]
        BY <1>2, LenProperties DEF Range
      <3>2. i + 1 \in 1..n /\ cmds'[i] = cmds[i + 1]
        BY <1>2, <3>1
      <3>3. 1 \in 1..n /\ 1 < i + 1
        BY <1>2, <3>1
      <3>4. Older(RowOf(cmds[1]), RowOf(cmds[i + 1]))
        BY <3>2, <3>3 DEF QueueInv, n
      <3> QED BY <1>2, <3>1, <3>2, <3>4
    <2> QED BY <2>1 DEF Older, Queued
  <1>6. RowOf(Head(cmds)) \cap Queued' = {}
    <2>1. \A r \in RowOf(Head(cmds)) : r.id \in Int
      BY <1>2, RowOfType, RowIds
    <2> QED BY <1>5, <2>1 DEF Older
  <1>7. QueueInv'
    <2>1. \A i \in 1..(n - 1) : WellFormed(cmds'[i])
      BY <1>2 DEF QueueInv, n
    <2>2. ASSUME NEW i \in 1..(n - 1), NEW j \in 1..(n - 1), i < j
          PROVE  Older(RowOf(cmds'[i]), RowOf(cmds'[j]))
      <3>1. i + 1 \in 1..n /\ j + 1 \in 1..n /\ i + 1 < j + 1
        BY <1>2, <2>2
      <3>2. Older(RowOf(cmds[i + 1]), RowOf(cmds[j + 1]))
        BY <3>1 DEF QueueInv, n
      <3> QED BY <1>2, <3>2
    <2> QED BY <1>2, <2>1, <2>2 DEF QueueInv
  <1>8. WellFormed(Head(cmds))
    <2>1. 1 \in 1..n
      BY <1>2
    <2> QED BY <1>2, <2>1 DEF QueueInv, n
  <1>9. Len(cmds') <= InCap
    BY <1>2, <1>3
  <1> QED BY <1>2, <1>4, <1>5, <1>6, <1>7, <1>8, <1>9

-----------------------------------------------------------------------------
(* Threads *)

LEMMA InitBatchInv ==
  ASSUME Init PROVE BatchInv
  <1>1. TypeOK
    <2>1. Head(Configs) \in Range(Configs)
      BY BatcherAssumption, TailFacts
    <2>2. <<>> \in Seq(Commands) /\ <<>> \in Seq(Seq(Rows)) /\ <<>> \in Seq(Rows)
          /\ Len(<<>>) = 0
      OBVIOUS
    <2>3. /\ cmds \in Seq(Commands) /\ Len(cmds) <= InCap /\ out \in Seq(Seq(Rows))
          /\ Len(out) <= OutCap /\ accs \in [Entities -> Seq(Rows)]
      BY <2>2, BatcherAssumption DEF Init
    <2>4. {skip, tick, own} \subseteq BOOLEAN /\ config \in Range(Configs)
      BY <2>1 DEF Init
    <2>5. backlog \subseteq Seq(Rows) /\ todo \subseteq Entities
      BY DEF Init
    <2> QED BY <2>3, <2>4, <2>5 DEF Init, TypeOK
  <1>2. CallInv
    BY RowOfType DEF Init, CallInv, WellFormed, Idle
  <1>3. QueueInv /\ OutInv
    BY DEF Init, QueueInv, OutInv
  <1>4. LoopInv /\ AccInv /\ BacklogInv
    BY DEF Init, LoopInv, AccInv, BacklogInv, Range
  <1>5. Sending = {} /\ Queued = {} /\ Pending = {} /\ Batched = {} /\ Out = {}
    BY RowOfType DEF Init, Sending, Queued, Pending, Batched, Out, Range
  <1>6. RowsInOrder
    BY <1>5 DEF RowsInOrder, InOrder, Older
  <1> QED BY <1>1, <1>2, <1>3, <1>4, <1>6 DEF BatchInv

LEMMA CallFacts ==
  ASSUME BatchInv, NEW t \in Threads, NEW c \in Commands, WellFormed(c), c # Idle,
         \A r \in RowOf(c) : r.by = t, c.op = "Flush" => c.by \in {t, None}, Call(t, c)
  PROVE  /\ CallInv' /\ QueueInv' /\ LoopInv' /\ AccInv' /\ BacklogInv' /\ OutInv'
         /\ UNCHANGED <<Queued, Pending, Batched, Out>>
         /\ Sending' = Sending \cup RowOf(c)
         /\ \A s \in Sending : s.by # t
         /\ pc' \in [Threads -> {"idle", "send", "await"}]
         /\ cmd' \in [Threads -> Commands \cup {Idle}]
  <1> USE DEF BatchInv
  <1>1. /\ QueueInv' /\ LoopInv' /\ AccInv' /\ BacklogInv' /\ OutInv'
        /\ UNCHANGED <<Queued, Pending, Batched, Out>>
    BY QueueFrame, LoopFrame, OutFrame DEF Call
  <1>2. cmd[t] = Idle
    BY DEF Call, CallInv
  <1>3. /\ pc' \in [Threads -> {"idle", "send", "await"}]
        /\ cmd' \in [Threads -> Commands \cup {Idle}]
    BY DEF Call, TypeOK
  <1>4. /\ cmd'[t] = c /\ pc'[t] = "send"
        /\ \A u \in Threads \ {t} : cmd'[u] = cmd[u] /\ pc'[u] = pc[u]
    BY DEF Call, TypeOK
  <1>5. CallInv'
    BY <1>4 DEF CallInv
  <1>6. Sending' = Sending \cup RowOf(c)
    <2>1. \A u \in Threads : RowOf(cmd'[u]) = IF u = t THEN RowOf(c) ELSE RowOf(cmd[u])
      BY <1>4
    <2>2. RowOf(cmd[t]) = {}
      BY <1>2, RowOfType
    <2> QED BY <2>1, <2>2 DEF Sending
  <1>7. \A s \in Sending : s.by # t
    BY <1>2, RowOfType DEF Sending, CallInv
  <1> QED BY <1>1, <1>3, <1>5, <1>6, <1>7

LEMMA PushBatchInv ==
  ASSUME BatchInv, NEW t \in Threads, NEW op \in {"AppendRow", "AppendChunk"},
         NEW e \in Entities, NEW s \in Shapes, Push(t, op, e, s)
  PROVE  BatchInv'
  <1> DEFINE row == [id |-> NewId, by |-> t, entity |-> e, shape |-> s,
                     whole |-> op = "AppendChunk"]
             c == [op |-> op, row |-> row]
  <1>1. TypeOK
    BY DEF BatchInv
  <1>2. NewId \in 1..MaxRows
    BY <1>1, NewIdFacts, BatcherAssumption DEF Push
  <1>3. row \in Rows /\ row.id = NewId /\ row.by = t
    BY <1>2 DEF Rows
  <1>4. Call(t, c) /\ UNCHANGED <<owed, outcome>>
    BY DEF Push
  <1>5. WellFormed(c)
    BY DEF WellFormed
  <1> HIDE DEF row
  <1>6. c \in Commands /\ RowOf(c) = {row} /\ c # Idle /\ c.op # "Flush"
    BY <1>3 DEF Commands, RowOf, Idle
  <1> HIDE DEF c
  <1>7. /\ CallInv' /\ QueueInv' /\ LoopInv' /\ AccInv' /\ BacklogInv' /\ OutInv'
        /\ UNCHANGED <<Queued, Pending, Batched, Out>>
        /\ Sending' = Sending \cup {row}
        /\ \A r \in Sending : r.by # t
        /\ pc' \in [Threads -> {"idle", "send", "await"}]
        /\ cmd' \in [Threads -> Commands \cup {Idle}]
    BY <1>3, <1>4, <1>5, <1>6, CallFacts
  <1>8. TypeOK'
    BY <1>1, <1>4, <1>7 DEF TypeOK, Call, loop
  <1>9. RowsInOrder'
    <2>1. \A r \in Sending \cup Queued \cup Pending \cup Batched \cup Out :
              r.id \in Int /\ r.id < row.id
      BY <1>1, <1>3, NewIdFacts, PlacesType, RowIds DEF Upstream
    <2>2. row.id \in Int
      BY <1>3, RowIds
    <2>3. InOrder(Sending \cup {row}, Queued, Pending, Batched, Out)
      BY <1>3, <1>7, <2>1, <2>2, RowLogged DEF BatchInv, RowsInOrder
    <2> QED BY <1>7, <2>3 DEF RowsInOrder
  <1> QED BY <1>7, <1>8, <1>9 DEF BatchInv

\* flush_async, flush_blocking and update_config send a command without a row.
LEMMA OtherCallBatchInv ==
  ASSUME BatchInv, NEW t \in Threads,
         \/ FlushAsync(t) \/ FlushBlocking(t)
         \/ \E n \in Range(Configs) : UpdateConfig(t, n)
  PROVE  BatchInv'
  <1>1. PICK c \in Commands : /\ Call(t, c) /\ RowOf(c) = {} /\ WellFormed(c) /\ c # Idle
                              /\ c.op = "Flush" => c.by \in {t, None}
    <2>1. CASE FlushAsync(t)
      <3> DEFINE c == [op |-> "Flush", by |-> None]
      <3>1. c \in Commands /\ RowOf(c) = {} /\ WellFormed(c) /\ c # Idle /\ c.by = None
        BY DEF Commands, RowOf, WellFormed, Idle
      <3> QED BY <2>1, <3>1 DEF FlushAsync
    <2>2. CASE FlushBlocking(t)
      <3> DEFINE c == [op |-> "Flush", by |-> t]
      <3>1. c \in Commands /\ RowOf(c) = {} /\ WellFormed(c) /\ c # Idle /\ c.by = t
        BY DEF Commands, RowOf, WellFormed, Idle
      <3> QED BY <2>2, <3>1 DEF FlushBlocking
    <2>3. CASE \E n \in Range(Configs) : UpdateConfig(t, n)
      <3>1. PICK n \in Range(Configs) : UpdateConfig(t, n)
        BY <2>3
      <3> DEFINE c == [op |-> "UpdateConfig", rows |-> n]
      <3>2. c \in Commands /\ RowOf(c) = {} /\ WellFormed(c) /\ c # Idle /\ c.op # "Flush"
        BY DEF Commands, RowOf, WellFormed, Idle
      <3> QED BY <3>1, <3>2 DEF UpdateConfig
    <2> QED BY <2>1, <2>2, <2>3
  <1>2. /\ CallInv' /\ QueueInv' /\ LoopInv' /\ AccInv' /\ BacklogInv' /\ OutInv'
        /\ UNCHANGED <<Sending, Queued, Pending, Batched, Out>>
        /\ pc' \in [Threads -> {"idle", "send", "await"}]
        /\ cmd' \in [Threads -> Commands \cup {Idle}]
    BY <1>1, CallFacts
  <1>3. owed' \in [Threads -> SUBSET (1..MaxRows)]
    <2>1. CASE UNCHANGED owed
      BY <2>1 DEF BatchInv, TypeOK
    <2>2. CASE FlushBlocking(t)
      <3>1. Ids({r \in Upstream : r.by = t /\ r.shape # Empty}) \subseteq 1..MaxRows
        BY PlacesType, RowIds DEF Ids, Upstream, BatchInv
      <3> QED BY <2>2, <3>1 DEF BatchInv, TypeOK, FlushBlocking
    <2> QED BY <2>1, <2>2 DEF FlushAsync, UpdateConfig
  <1>4. outcome' \in [Threads -> {None, "Ok", "Timeout"}]
    BY DEF BatchInv, TypeOK, FlushAsync, FlushBlocking, UpdateConfig
  <1>5. TypeOK'
    BY <1>1, <1>2, <1>3, <1>4 DEF BatchInv, TypeOK, Call, loop
  <1>6. RowsInOrder'
    BY <1>2, RowsFrame DEF BatchInv
  <1> QED BY <1>2, <1>5, <1>6 DEF BatchInv

LEMMA SendBatchInv ==
  ASSUME BatchInv, NEW t \in Threads, Send(t)
  PROVE  BatchInv'
  <1> DEFINE A == RowOf(cmd[t])
  <1>0. TypeOK /\ CallInv /\ QueueInv /\ RowsInOrder
    BY DEF BatchInv
  <1>1. cmd[t] \in Commands /\ WellFormed(cmd[t]) /\ cmd[t] # Idle
    BY <1>0 DEF Send, CallInv, TypeOK
  <1>2. A \subseteq Sending /\ Older(Queued, A)
    <2>1. A \subseteq Sending
      BY DEF Sending
    <2> QED BY <1>0, <2>1 DEF RowsInOrder, InOrder, Older
  <1>3. QueueInv' /\ Queued' = Queued \cup A
    BY <1>0, <1>1, <1>2, Enqueued DEF Send
  <1>4. /\ cmd'[t] = Idle /\ pc'[t] \in {"await", "idle"}
        /\ \A u \in Threads \ {t} : cmd'[u] = cmd[u] /\ pc'[u] = pc[u]
    BY <1>0 DEF Send, TypeOK
  <1>5. CallInv'
    <2>1. WellFormed(Idle) /\ Idle.op # "Flush"
      BY DEF WellFormed, Idle
    <2> QED BY <1>0, <1>4, <2>1, RowOfType DEF CallInv
  <1>6. \A r \in A, s \in Sending \ A : r.by # s.by
    BY <1>0 DEF CallInv, Sending
  <1>7. Sending' = Sending \ A
    <2>1. \A u \in Threads : RowOf(cmd'[u]) = IF u = t THEN {} ELSE RowOf(cmd[u])
      BY <1>4, RowOfType
    <2>2. \A u \in Threads \ {t} : RowOf(cmd[u]) \cap A = {}
      BY <1>0 DEF CallInv
    <2> QED BY <2>1, <2>2 DEF Sending
  <1>8. /\ LoopInv' /\ AccInv' /\ BacklogInv' /\ OutInv'
        /\ UNCHANGED <<Pending, Batched, Out>>
    BY LoopFrame, OutFrame DEF BatchInv, Send
  <1>9. RowsInOrder'
    <2> HIDE DEF A
    <2>1. InOrder(Sending \ A, Queued \cup A, Pending, Batched, Out)
      BY <1>0, <1>2, <1>6, RowsQueued DEF RowsInOrder
    <2> QED BY <1>3, <1>7, <1>8, <2>1 DEF RowsInOrder
  <1>10. TypeOK'
    <2>1. cmds' \in Seq(Commands) /\ Len(cmds') <= InCap
      BY <1>0, <1>1, BatcherAssumption, AppendProperties, LenProperties DEF Send, TypeOK
    <2>2. pc' \in [Threads -> {"idle", "send", "await"}]
      BY <1>0 DEF Send, TypeOK
    <2>3. cmd' \in [Threads -> Commands \cup {Idle}]
      BY <1>0 DEF Send, TypeOK
    <2> QED BY <1>0, <2>1, <2>2, <2>3 DEF Send, TypeOK, loop
  <1> QED BY <1>3, <1>5, <1>8, <1>9, <1>10 DEF BatchInv

\* The queue after flush_blocking of t has given up.
Disowned(t) ==
  [i \in 1..Len(cmds) |-> IF cmds[i].op = "Flush" /\ cmds[i].by = t
                            THEN FlushOf(None) ELSE cmds[i]]

LEMMA FlushFacts ==
  \A c \in Commands : \A t \in Threads : c.op = "Flush" /\ c.by = t <=> c = FlushOf(t)
  BY DEF Commands, FlushOf

\* A flush whose caller has given up stays in the queue, without its caller.
LEMMA DisownedFacts ==
  ASSUME TypeOK, NEW t \in Threads, FlushTimeout(t)
  PROVE  /\ cmds' = Disowned(t) /\ cmds' \in Seq(Commands) /\ Len(cmds') = Len(cmds)
         /\ Len(cmds) \in Nat
         /\ \A i \in 1..Len(cmds) :
              /\ cmds[i] = FlushOf(t) => cmds'[i] = FlushOf(None)
              /\ cmds[i] # FlushOf(t) => cmds'[i] = cmds[i]
              /\ RowOf(cmds'[i]) = RowOf(cmds[i])
  <1>1. cmds' = Disowned(t)
    BY DEF Disowned, FlushTimeout, FlushOf
  <1>2. cmds \in Seq(Commands) /\ Len(cmds) \in Nat
    BY LenProperties DEF TypeOK
  <1>3. \A i \in 1..Len(cmds) : cmds[i] \in Commands
    BY <1>2
  <1>4. FlushOf(None) \in Commands
    BY DEF FlushOf, Commands
  <1>5. \A i \in 1..Len(cmds) : Disowned(t)[i] \in Commands
    BY <1>3, <1>4 DEF Disowned
  <1>6. Disowned(t) \in Seq(Commands) /\ Len(Disowned(t)) = Len(cmds)
    BY <1>2, <1>5 DEF Disowned
  <1>7. \A i \in 1..Len(cmds) :
              /\ cmds[i] = FlushOf(t) => Disowned(t)[i] = FlushOf(None)
              /\ cmds[i] # FlushOf(t) => Disowned(t)[i] = cmds[i]
    BY <1>3, FlushFacts DEF Disowned
  <1> QED BY <1>1, <1>2, <1>6, <1>7, RowOfType

LEMMA FlushTimeoutBatchInv ==
  ASSUME BatchInv, NEW t \in Threads, FlushTimeout(t)
  PROVE  BatchInv'
  <1>0. TypeOK /\ CallInv /\ QueueInv
    BY DEF BatchInv
  <1>1. /\ cmds' \in Seq(Commands) /\ Len(cmds') = Len(cmds) /\ cmds \in Seq(Commands)
        /\ \A i \in 1..Len(cmds) : /\ RowOf(cmds'[i]) = RowOf(cmds[i])
                                   /\ cmds'[i] = cmds[i] \/ cmds'[i] = FlushOf(None)
    BY <1>0, DisownedFacts DEF TypeOK
  <1>2. Queued' = Queued
    <2>1. DOMAIN cmds = 1..Len(cmds) /\ DOMAIN cmds' = 1..Len(cmds)
      BY <1>1, LenProperties
    <2> QED BY <1>1, <2>1 DEF Queued, Range
  <1>3. QueueInv'
    <2>1. WellFormed(FlushOf(None))
      BY DEF WellFormed, FlushOf
    <2> QED BY <1>0, <1>1, <2>1 DEF QueueInv
  <1>4. CallInv' /\ Sending' = Sending
    <2>1. pc[t] = "await" /\ pc'[t] = "idle"
      BY <1>0 DEF FlushTimeout, TypeOK
    <2>2. cmd' = cmd /\ \A u \in Threads \ {t} : pc'[u] = pc[u]
      BY <1>0 DEF FlushTimeout, TypeOK
    <2> QED BY <1>0, <2>1, <2>2 DEF CallInv, Sending
  <1>5. /\ AccInv' /\ BacklogInv' /\ OutInv' /\ UNCHANGED <<Pending, Batched, Out>>
    BY AccFrame, BacklogFrame, OutFrame DEF BatchInv, FlushTimeout
  <1>6. LoopInv'
    BY DEF BatchInv, LoopInv, FlushTimeout
  <1>7. RowsInOrder'
    BY <1>2, <1>4, <1>5, RowsFrame DEF BatchInv
  <1>8. TypeOK'
    <2>1. pc' \in [Threads -> {"idle", "send", "await"}]
      BY <1>0 DEF FlushTimeout, TypeOK
    <2>2. owed' \in [Threads -> SUBSET (1..MaxRows)]
          /\ outcome' \in [Threads -> {None, "Ok", "Timeout"}]
      BY <1>0 DEF FlushTimeout, TypeOK
    <2> QED BY <1>0, <1>1, <2>1, <2>2 DEF FlushTimeout, TypeOK
  <1> QED BY <1>3, <1>4, <1>5, <1>6, <1>7, <1>8 DEF BatchInv

\* Dropping the batcher, and its receivers, takes rows from the output channel.
LEMMA DropBatchInv ==
  ASSUME BatchInv, DropBatcher \/ DropSend \/ DropJoin
  PROVE  BatchInv'
  <1>0. TypeOK /\ QueueInv
    BY DEF BatchInv
  <1>1. /\ CallInv' /\ LoopInv' /\ AccInv' /\ BacklogInv'
        /\ UNCHANGED <<Sending, Pending, Batched>>
    BY CallFrame, LoopFrame DEF BatchInv, DropBatcher, DropSend, DropJoin
  <1>2. QueueInv' /\ Queued' = Queued /\ cmds' \in Seq(Commands) /\ Len(cmds') <= InCap
    <2>1. CASE UNCHANGED cmds
      BY <1>0, <2>1, QueueFrame DEF TypeOK
    <2>2. CASE DropSend
      <3> DEFINE c == [op |-> "Shutdown"]
      <3>1. c \in Commands /\ RowOf(c) = {} /\ WellFormed(c)
        BY DEF Commands, RowOf, WellFormed
      <3>2. cmds' = Append(cmds, c) /\ Len(cmds) < InCap
        BY <2>2 DEF DropSend
      <3> HIDE DEF c
      <3>3. QueueInv' /\ Queued' = Queued
        BY <1>0, <3>1, <3>2, Enqueued DEF Older
      <3>4. cmds' \in Seq(Commands) /\ Len(cmds') <= InCap
        BY <1>0, <3>1, <3>2, BatcherAssumption, AppendProperties, LenProperties DEF TypeOK
      <3> QED BY <3>3, <3>4
    <2> QED BY <2>1, <2>2 DEF DropBatcher, DropJoin
  <1>3. OutInv' /\ Out' \subseteq Out
    <2>1. CASE UNCHANGED out
      BY <2>1, OutFrame DEF BatchInv
    <2>2. CASE out' = <<>>
      BY <2>2 DEF OutInv, Out, Range
    <2> QED BY <2>1, <2>2 DEF DropBatcher, DropSend, DropJoin
  <1>4. out' \in Seq(Seq(Rows)) /\ Len(out') <= OutCap
    <2>1. <<>> \in Seq(Seq(Rows)) /\ Len(<<>>) <= OutCap
      BY BatcherAssumption
    <2> QED BY <1>0, <2>1 DEF DropBatcher, DropSend, DropJoin, TypeOK
  <1>5. own' \in BOOLEAN /\ drop' \in {"no", "send", "join", "done"}
    BY <1>0 DEF DropBatcher, DropSend, DropJoin, TypeOK
  <1>6. TypeOK'
    BY <1>0, <1>2, <1>4, <1>5 DEF DropBatcher, DropSend, DropJoin, TypeOK, loop
  <1>7. RowsInOrder'
    <2>1. InOrder(Sending, Queued, Pending, Batched, Out')
      BY <1>3, RowsLeave DEF BatchInv, RowsInOrder
    <2> QED BY <1>1, <1>2, <2>1 DEF RowsInOrder
  <1> QED BY <1>1, <1>2, <1>3, <1>6, <1>7 DEF BatchInv

-----------------------------------------------------------------------------
(* The batching thread *)

LEMMA SelectFacts ==
  ASSUME BatchInv, NEW op, Select(op)
  PROVE  /\ QueueInv' /\ CallInv' /\ OutInv' /\ UNCHANGED <<Sending, Out>>
         /\ cmds' \in Seq(Commands) /\ Len(cmds') <= InCap
         /\ Head(cmds) \in Commands /\ WellFormed(Head(cmds)) /\ Head(cmds).op = op
         /\ RowOf(Head(cmds)) \subseteq Queued
         /\ Queued' = Queued \ RowOf(Head(cmds))
         /\ Older(RowOf(Head(cmds)), Queued')
         /\ todo = {} /\ backlog = {} /\ reply = None /\ Batched = {}
  <1>1. todo = {} /\ backlog = {} /\ reply = None
    BY DEF BatchInv, LoopInv, Select
  <1>2. Batched = {}
    BY <1>1 DEF Batched
  <1>3. QueueInv' /\ cmds' \in Seq(Commands) /\ Len(cmds') <= InCap
         /\ Head(cmds) \in Commands /\ WellFormed(Head(cmds))
         /\ RowOf(Head(cmds)) \subseteq Queued
         /\ Queued' = Queued \ RowOf(Head(cmds))
         /\ Older(RowOf(Head(cmds)), Queued')
    BY Dequeued DEF BatchInv, Select
  <1>4. CallInv' /\ OutInv' /\ UNCHANGED <<Sending, Out>>
    BY CallFrame, OutFrame DEF BatchInv, Select, callers
  <1> QED BY <1>1, <1>2, <1>3, <1>4 DEF Select

LEMMA AppendCommand ==
  \A c \in Commands : c.op \in {"AppendRow", "AppendChunk"} =>
      c.row \in Rows /\ RowOf(c) = {c.row} /\ c.row.entity \in Entities
  BY DEF Commands, RowOf, Rows

LEMMA AppendChunkBatchInv ==
  ASSUME BatchInv, AppendChunk
  PROVE  /\ BatchInv' /\ Pending' = Pending
         /\ Batched' = {r \in RowOf(Head(cmds)) : r.shape # Empty}
  <1> DEFINE row == Head(cmds).row
             B == ManyIntoChunks(<<row>>)
  <1>0. Select("AppendChunk") /\ TypeOK
    BY DEF AppendChunk, BatchInv
  <1>1. /\ QueueInv' /\ CallInv' /\ OutInv' /\ UNCHANGED <<Sending, Out>>
        /\ cmds' \in Seq(Commands) /\ Len(cmds') <= InCap
        /\ row \in Rows /\ row.whole /\ RowOf(Head(cmds)) = {row}
        /\ row \in Queued /\ Queued' = Queued \ {row} /\ Older({row}, Queued')
        /\ todo = {} /\ backlog = {} /\ reply = None /\ Batched = {}
    BY <1>0, SelectFacts, AppendCommand DEF WellFormed
  <1> HIDE DEF row
  <1>2. <<row>> \in Seq(Rows) /\ Range(<<row>>) = {row}
    BY <1>1 DEF Range
  <1>3. /\ B \subseteq Seq(Rows)
        /\ UNION {Range(c) : c \in B} = {r \in {row} : r.shape # Empty}
        /\ \A c \in B : Ascending(c)
        /\ \A c, d \in B : \A r \in Range(c), s \in Range(d) : r.shape = s.shape <=> c = d
    <2>1. <<row>> \in Seq(Rows) /\ \A r, s \in Range(<<row>>) : r.id = s.id => r = s
      BY <1>2
    <2>2. /\ B \subseteq Seq(Rows)
          /\ UNION {Range(c) : c \in B} = {r \in Range(<<row>>) : r.shape # Empty}
          /\ \A c \in B : Ascending(c)
          /\ \A c, d \in B : \A r \in Range(c), s \in Range(d) :
                r.shape = s.shape <=> c = d
      BY <2>1, ChunksFacts
    <2> HIDE DEF B
    <2> QED BY <1>2, <2>2
  <1>4. backlog' = B /\ thread' = "flush" /\ UNCHANGED <<config, accs, todo, reply, skip, tick>>
    BY DEF AppendChunk, row
  <1> HIDE DEF B
  <1>5. BacklogInv' /\ Batched' = {r \in {row} : r.shape # Empty} /\ backlog' \subseteq Seq(Rows)
    BY <1>3, <1>4 DEF BacklogInv, Batched
  <1>6. AccInv' /\ Pending' = Pending
    BY <1>4, AccFrame DEF BatchInv
  <1>7. LoopInv'
    BY <1>4 DEF LoopInv
  <1>8. RowsInOrder'
    <2>1. InOrder(Sending, Queued, Pending, {}, Out)
      BY <1>1 DEF BatchInv, RowsInOrder
    <2>2. InOrder(Sending, Queued \ {row}, Pending, Batched', Out)
      BY <1>1, <1>5, <2>1, ChunkPassed
    <2> QED BY <1>1, <1>6, <2>2 DEF RowsInOrder
  <1>9. TypeOK'
    BY <1>0, <1>1, <1>4, <1>5 DEF TypeOK, Select, callers
  <1> QED BY <1>1, <1>5, <1>6, <1>7, <1>8, <1>9 DEF BatchInv

LEMMA AppendRowBatchInv ==
  ASSUME BatchInv, AppendRow
  PROVE  BatchInv' /\ Pending' = Pending \cup RowOf(Head(cmds)) /\ Batched' = Batched
  <1> DEFINE row == Head(cmds).row
             acc == Append(accs[row.entity], row)
  <1>0. Select("AppendRow") /\ TypeOK
    BY DEF AppendRow, BatchInv
  <1>1. /\ QueueInv' /\ CallInv' /\ OutInv' /\ UNCHANGED <<Sending, Out>>
        /\ cmds' \in Seq(Commands) /\ Len(cmds') <= InCap
        /\ row \in Rows /\ ~row.whole /\ RowOf(Head(cmds)) = {row} /\ row.entity \in Entities
        /\ row \in Queued /\ Queued' = Queued \ {row} /\ Older({row}, Queued')
        /\ todo = {} /\ backlog = {} /\ reply = None /\ Batched = {}
    <2>1. Head(cmds) \in Commands /\ Head(cmds).op = "AppendRow" /\ WellFormed(Head(cmds))
      BY <1>0, SelectFacts
    <2>2. row \in Rows /\ RowOf(Head(cmds)) = {row} /\ row.entity \in Entities
      BY <2>1, AppendCommand
    <2>3. ~row.whole
      BY <2>1 DEF WellFormed
    <2> HIDE DEF row
    <2> QED BY <1>0, <2>2, <2>3, SelectFacts
  <1>2. /\ accs' = [accs EXCEPT ![row.entity] = acc] /\ UNCHANGED <<config, tick>>
        /\ \/ StartFlush({row.entity}, None) /\ skip' = TRUE
           \/ UNCHANGED <<thread, todo, backlog, reply, skip>>
    BY DEF AppendRow
  <1> HIDE DEF row
  <1>3. accs[row.entity] \in Seq(Rows)
    BY <1>0, <1>1 DEF TypeOK
  <1>4. acc \in Seq(Rows) /\ Range(acc) = Range(accs[row.entity]) \cup {row}
    BY <1>1, <1>3, RangeAppend, AppendProperties
  <1> HIDE DEF acc
  <1>5. /\ accs' \in [Entities -> Seq(Rows)] /\ accs'[row.entity] = acc
        /\ \A e \in Entities \ {row.entity} : accs'[e] = accs[e]
    BY <1>0, <1>1, <1>2, <1>4 DEF TypeOK
  <1>6. Pending' = Pending \cup {row}
    <2>1. \A e \in Entities : Range(accs'[e]) =
              IF e = row.entity THEN Range(accs[e]) \cup {row} ELSE Range(accs[e])
      BY <1>4, <1>5
    <2>2. Pending' = UNION {Range(accs'[e]) : e \in Entities}
      BY DEF Pending
    <2> QED BY <1>1, <2>1, <2>2 DEF Pending
  <1>7. AccInv'
    BY <1>1, <1>4, <1>5 DEF BatchInv, AccInv
  <1>8. BacklogInv' /\ Batched' = Batched
    BY <1>2, BacklogFrame DEF BatchInv, StartFlush
  <1>9. LoopInv'
    BY <1>0, <1>2 DEF BatchInv, LoopInv, StartFlush
  <1>10. RowsInOrder'
    <2>1. InOrder(Sending, Queued \ {row}, Pending \cup {row}, Batched, Out)
      BY <1>1, RowAccumulated DEF BatchInv, RowsInOrder
    <2> QED BY <1>1, <1>6, <1>8, <2>1 DEF RowsInOrder
  <1>11. TypeOK'
    <2>1. /\ thread' \in {"select", "flush", "exit", "done"} /\ todo' \subseteq Entities
          /\ backlog' = backlog /\ reply' \in Threads \cup {None} /\ skip' \in BOOLEAN
      BY <1>0, <1>1, <1>2 DEF TypeOK, StartFlush
    <2> QED BY <1>0, <1>1, <1>2, <1>5, <2>1 DEF TypeOK, Select, callers
  <1> QED BY <1>1, <1>6, <1>7, <1>8, <1>9, <1>10, <1>11 DEF BatchInv

\* Commands and ticks without a row.
LEMMA OtherCommandBatchInv ==
  ASSUME BatchInv, Flush \/ ApplyConfig \/ Shutdown
  PROVE  BatchInv'
  <1> DEFINE c == Head(cmds)
  <1>0. TypeOK
    BY DEF BatchInv
  <1>1. PICK op \in {"Flush", "UpdateConfig", "Shutdown"} : Select(op)
    BY DEF Flush, ApplyConfig, Shutdown
  <1>2. /\ QueueInv' /\ CallInv' /\ OutInv' /\ UNCHANGED <<Sending, Out>>
        /\ cmds' \in Seq(Commands) /\ Len(cmds') <= InCap
        /\ c \in Commands /\ c.op = op /\ Queued' = Queued \ RowOf(c)
        /\ todo = {} /\ backlog = {} /\ reply = None /\ Batched = {}
    BY <1>1, SelectFacts
  <1>3. /\ UNCHANGED <<accs, backlog>>
        /\ \/ thread' = "flush" /\ todo' = Entities /\ reply' = c.by /\ c.op = "Flush"
              /\ skip' = TRUE /\ UNCHANGED <<config, tick>>
           \/ UNCHANGED <<thread, todo, reply, skip>> /\ tick' = FALSE
              /\ config' = c.rows /\ c.op = "UpdateConfig"
           \/ thread' = "exit" /\ todo' = Entities /\ UNCHANGED <<reply, skip, config, tick>>
    BY DEF Flush, ApplyConfig, Shutdown, StartFlush, Select
  <1> HIDE DEF c
  <1>4. Queued' = Queued
    BY <1>2 DEF RowOf
  <1>5. AccInv' /\ BacklogInv' /\ UNCHANGED <<Pending, Batched>>
    BY <1>3, AccFrame, BacklogFrame DEF BatchInv
  <1>6. LoopInv'
    <2>1. LoopInv
      BY DEF BatchInv
    <2> QED BY <1>2, <1>3, <2>1 DEF LoopInv
  <1>7. RowsInOrder'
    BY <1>2, <1>4, <1>5, RowsFrame DEF BatchInv
  <1>8. TypeOK'
    <2>1. /\ c.op = "Flush" => c.by \in Threads \cup {None}
          /\ c.op = "UpdateConfig" => c.rows \in Range(Configs)
      BY <1>2 DEF Commands
    <2>2. /\ thread' \in {"select", "flush", "exit", "done"} /\ todo' \subseteq Entities
          /\ reply' \in Threads \cup {None} /\ config' \in Range(Configs)
      BY <1>0, <1>3, <2>1 DEF TypeOK
    <2>3. skip' \in BOOLEAN /\ tick' \in BOOLEAN
      BY <1>0, <1>3 DEF TypeOK
    <2> QED BY <1>0, <1>1, <1>2, <1>3, <2>2, <2>3 DEF TypeOK, Select, callers
  <1> QED BY <1>2, <1>5, <1>6, <1>7, <1>8 DEF BatchInv

LEMMA TickBatchInv ==
  ASSUME BatchInv, Tick \/ TickFires
  PROVE  BatchInv'
  <1>1. /\ CallInv' /\ QueueInv' /\ AccInv' /\ BacklogInv' /\ OutInv'
        /\ UNCHANGED <<Sending, Queued, Pending, Batched, Out>>
    BY CallFrame, QueueFrame, AccFrame, BacklogFrame, OutFrame
       DEF BatchInv, Tick, TickFires, callers, loop, StartFlush
  <1>2. LoopInv'
    BY DEF BatchInv, LoopInv, Tick, TickFires, StartFlush, loop
  <1>3. RowsInOrder'
    BY <1>1, RowsFrame DEF BatchInv
  <1>4. TypeOK'
    <2>1. /\ thread' \in {"select", "flush", "exit", "done"} /\ todo' \subseteq Entities
          /\ reply' \in Threads \cup {None} /\ backlog' = backlog
      BY DEF BatchInv, TypeOK, Tick, TickFires, StartFlush, loop
    <2>2. skip' \in BOOLEAN /\ tick' \in BOOLEAN
      BY DEF BatchInv, TypeOK, Tick, TickFires, loop
    <2>3. UNCHANGED <<pc, cmd, owed, outcome, drop, cmds, config, accs, out, reader, own>>
      BY DEF Tick, TickFires, callers, loop
    <2> QED BY <2>1, <2>2, <2>3 DEF BatchInv, TypeOK
  <1> QED BY <1>1, <1>2, <1>3, <1>4 DEF BatchInv

LEMMA VisitEntityBatchInv ==
  ASSUME BatchInv, NEW e \in Entities, VisitEntity(e)
  PROVE  /\ BatchInv' /\ Pending' = Pending \ Range(accs[e])
         /\ Batched' = {r \in Range(accs[e]) : r.shape # Empty}
  <1> DEFINE A == Range(accs[e])
             B == ManyIntoChunks(accs[e])
  <1>0. TypeOK /\ AccInv /\ RowsInOrder
    BY DEF BatchInv
  <1>1. CallInv' /\ QueueInv' /\ OutInv' /\ UNCHANGED <<Sending, Queued, Out>>
    BY CallFrame, QueueFrame, OutFrame DEF BatchInv, VisitEntity, callers
  <1>2. accs[e] \in Seq(Rows) /\ A \subseteq Pending /\ Batched = {}
    BY <1>0 DEF TypeOK, Pending, VisitEntity, Batched
  <1>3. \A r, s \in A : r.id = s.id => r = s
    BY <1>0, <1>2 DEF RowsInOrder, InOrder
  <1>4. /\ B \subseteq Seq(Rows)
        /\ UNION {Range(c) : c \in B} = {r \in A : r.shape # Empty}
        /\ \A c \in B : Ascending(c)
        /\ \A c, d \in B : \A r \in Range(c), s \in Range(d) : r.shape = s.shape <=> c = d
    BY <1>2, <1>3, ChunksFacts
  <1>5. backlog' = B /\ accs' = [accs EXCEPT ![e] = <<>>] /\ todo' = todo \ {e}
    BY DEF VisitEntity
  <1> HIDE DEF B
  <1>6. BacklogInv' /\ Batched' = {r \in A : r.shape # Empty} /\ backlog' \subseteq Seq(Rows)
    BY <1>4, <1>5 DEF BacklogInv, Batched
  <1>7. /\ accs' \in [Entities -> Seq(Rows)] /\ accs'[e] = <<>>
        /\ \A f \in Entities \ {e} : accs'[f] = accs[f]
    BY <1>0, <1>5 DEF TypeOK
  <1>8. \A f \in Entities : Range(accs'[f]) = IF f = e THEN {} ELSE Range(accs[f])
    BY <1>7 DEF Range
  <1>9. AccInv'
    BY <1>0, <1>8 DEF AccInv
  <1>10. Pending' = Pending \ A
    <2>1. Pending' = UNION {Range(accs'[f]) : f \in Entities}
      BY DEF Pending
    <2>2. \A f \in Entities \ {e} : Range(accs[f]) \cap A = {}
      BY <1>0 DEF AccInv
    <2> HIDE DEF A
    <2>3. Pending = A \cup UNION {Range(accs[f]) : f \in Entities \ {e}}
      BY DEF Pending, A
    <2>4. Pending' = UNION {Range(accs[f]) : f \in Entities \ {e}}
      BY <1>8, <2>1
    <2> QED BY <2>2, <2>3, <2>4
  <1>11. LoopInv'
    BY DEF BatchInv, LoopInv, VisitEntity
  <1>12. RowsInOrder'
    <2>1. InOrder(Sending, Queued, Pending, {}, Out)
      BY <1>0, <1>2 DEF RowsInOrder
    <2>2. \A r \in A : ~r.whole /\ r.entity = e
      BY <1>0 DEF AccInv
    <2>3. \A r \in A, s \in Pending \ A : r.entity # s.entity
      BY <1>0, <2>2 DEF AccInv, Pending
    <2> HIDE DEF A
    <2>4. InOrder(Sending, Queued, Pending \ A, Batched', Out)
      BY <1>2, <1>6, <2>1, <2>2, <2>3, AccumulatorTaken
    <2> QED BY <1>1, <1>10, <2>4 DEF RowsInOrder
  <1>13. TypeOK'
    BY <1>0, <1>5, <1>6, <1>7 DEF TypeOK, VisitEntity, callers
  <1> QED BY <1>1, <1>6, <1>9, <1>10, <1>11, <1>12, <1>13 DEF BatchInv

\* Sending a chunk on keeps the order of kin in the output channel.
LEMMA SentInOrder ==
  ASSUME BatchInv, NEW chunk \in backlog, out' = Append(out, chunk)
  PROVE  OutInv' /\ Out' = Out \cup Range(chunk)
  <1>0. TypeOK /\ OutInv /\ BacklogInv /\ RowsInOrder
    BY DEF BatchInv
  <1>1. out \in Seq(Seq(Rows)) /\ chunk \in Seq(Rows)
    BY <1>0 DEF TypeOK
  <1>2. Range(out') = Range(out) \cup {chunk}
    BY <1>1, RangeAppend
  <1>3. Out' = Out \cup Range(chunk)
    BY <1>2 DEF Out
  <1> DEFINE n == Len(out)
  <1>4. /\ n \in Nat /\ Len(out') = n + 1 /\ out'[n + 1] = chunk
        /\ \A i \in 1..n : out'[i] = out[i]
    BY <1>1, AppendProperties, LenProperties
  <1>5. \A i \in 1..n : out[i] \in Seq(Rows)
    BY <1>1
  <1>6. \A i \in 1..n : \A k \in 1..Len(out[i]) : out[i][k] \in Out
    <2> TAKE i \in 1..n
    <2>1. out[i] \in Range(out)
      BY <1>1, LenProperties DEF Range
    <2>2. \A k \in 1..Len(out[i]) : out[i][k] \in Range(out[i])
      BY <1>5, LenProperties DEF Range
    <2> QED BY <2>1, <2>2 DEF Out
  <1>7. \A k \in 1..Len(chunk) : chunk[k] \in Batched
    <2>1. \A k \in 1..Len(chunk) : chunk[k] \in Range(chunk)
      BY <1>1, LenProperties DEF Range
    <2> QED BY <2>1 DEF Batched
  <1>8. \A r \in Out, s \in Batched : Kin(r, s) => r.id < s.id
    BY <1>0 DEF RowsInOrder, InOrder
  <1>9. \A r \in Out \cup Batched : r.id \in Int
    BY <1>0, PlacesType, RowIds
  <1> HIDE DEF n
  <1>10. ASSUME NEW i \in 1..(n + 1), NEW j \in 1..(n + 1),
                NEW k \in 1..Len(out'[i]), NEW l \in 1..Len(out'[j]),
                Kin(out'[i][k], out'[j][l]), out'[i][k].id < out'[j][l].id
         PROVE  i < j \/ (i = j /\ k < l)
    <2>1. CASE i \in 1..n /\ j \in 1..n
      BY <1>0, <1>4, <1>10, <2>1 DEF OutInv, n
    <2>2. CASE i \in 1..n /\ j = n + 1
      BY <1>4, <2>2
    <2>3. CASE i = n + 1 /\ j \in 1..n
      <3>1. out'[i][k] \in Batched /\ out'[j][l] \in Out
        BY <1>4, <1>6, <1>7, <2>3
      <3>2. Kin(out'[j][l], out'[i][k])
        BY <1>10 DEF Kin
      <3>3. out'[j][l].id < out'[i][k].id
        BY <1>8, <3>1, <3>2
      <3>4. out'[j][l].id \in Int /\ out'[i][k].id \in Int
        BY <1>9, <3>1
      <3> QED BY <1>10, <3>3, <3>4, IntOrder
    <2>4. CASE i = n + 1 /\ j = n + 1
      <3>1. out'[i] = chunk /\ out'[j] = chunk
        BY <1>4, <2>4
      <3>2. k \in 1..Len(chunk) /\ l \in 1..Len(chunk) /\ chunk[k].id < chunk[l].id
        BY <1>10, <3>1
      <3>3. chunk[k].id \in Int /\ chunk[l].id \in Int
        BY <1>7, <1>9, <3>2
      <3>4. ~(l < k)
        BY <1>0, <3>2, <3>3 DEF BacklogInv, Ascending
      <3>5. k # l
        BY <3>2, <3>3
      <3>6. Len(chunk) \in Nat
        BY <1>1, LenProperties
      <3> QED BY <2>4, <3>2, <3>4, <3>5, <3>6
    <2> QED BY <1>4, <2>1, <2>2, <2>3, <2>4, LastIndex
  <1>11. OutInv'
    BY <1>4, <1>10 DEF OutInv
  <1> QED BY <1>3, <1>11

LEMMA SendChunkBatchInv ==
  ASSUME BatchInv, NEW chunk \in backlog, SendChunk(chunk)
  PROVE  BatchInv'
  <1>0. TypeOK /\ BacklogInv /\ RowsInOrder
    BY DEF BatchInv
  <1>1. /\ CallInv' /\ QueueInv' /\ AccInv' /\ UNCHANGED <<Sending, Queued, Pending>>
    BY CallFrame, QueueFrame, AccFrame DEF BatchInv, SendChunk
  <1>2. chunk \in Seq(Rows) /\ out \in Seq(Seq(Rows)) /\ Range(chunk) \subseteq Batched
    BY <1>0 DEF TypeOK, Batched
  <1>3. OutInv' /\ Out' \subseteq Out \cup Range(chunk)
    <2>1. CASE out' = Append(out, chunk)
      BY <2>1, SentInOrder
    <2>2. CASE UNCHANGED out
      BY <2>2, OutFrame DEF BatchInv
    <2> QED BY <2>1, <2>2 DEF SendChunk
  <1>4. backlog' = backlog \ {chunk}
    BY DEF SendChunk
  <1>5. BacklogInv' /\ Batched' \subseteq Batched
    BY <1>0, <1>4 DEF BacklogInv, Batched
  <1>6. \A r \in Range(chunk), s \in Batched' : r.shape # s.shape
    BY <1>0, <1>4 DEF BacklogInv, Batched
  <1>7. LoopInv'
    BY <1>4 DEF BatchInv, LoopInv, SendChunk
  <1>8. RowsInOrder'
    <2> DEFINE C == Range(chunk) B1 == Batched' O1 == Out'
    <2>1. InOrder(Sending, Queued, Pending, Batched, Out)
      BY <1>0 DEF RowsInOrder
    <2>2. /\ C \in SUBSET Batched /\ B1 \in SUBSET Batched /\ O1 \in SUBSET (Out \cup C)
          /\ \A r \in C, s \in B1 : r.shape # s.shape
      BY <1>2, <1>3, <1>5, <1>6
    <2> HIDE DEF C, B1, O1
    <2>3. InOrder(Sending, Queued, Pending, B1, O1)
      BY <2>1, <2>2, ChunkSent
    <2> QED BY <1>1, <2>3 DEF RowsInOrder, B1, O1
  <1>9. TypeOK'
    <2>1. out' \in Seq(Seq(Rows)) /\ Len(out') <= OutCap
      <3>1. CASE Receivers
        <4>1. Len(out) < OutCap /\ out' = Append(out, chunk)
          BY <3>1 DEF SendChunk
        <4> QED BY <1>2, <4>1, BatcherAssumption, AppendProperties, LenProperties
      <3>2. CASE ~Receivers
        BY <1>0, <3>2 DEF SendChunk, TypeOK
      <3> QED BY <3>1, <3>2
    <2>2. owed' \in [Threads -> SUBSET (1..MaxRows)]
      BY <1>0 DEF SendChunk, TypeOK
    <2>3. backlog' \subseteq Seq(Rows)
      BY <1>0, <1>4 DEF TypeOK
    <2> QED BY <1>0, <2>1, <2>2, <2>3 DEF TypeOK, SendChunk
  <1> QED BY <1>1, <1>3, <1>5, <1>7, <1>8, <1>9 DEF BatchInv

LEMMA FlushOverBatchInv ==
  ASSUME BatchInv, OneFlush, FlushDone \/ Exit
  PROVE  BatchInv'
  <1>1. /\ QueueInv' /\ AccInv' /\ BacklogInv' /\ OutInv'
        /\ UNCHANGED <<Queued, Pending, Batched, Out>>
    BY QueueFrame, AccFrame, BacklogFrame, OutFrame DEF BatchInv, FlushDone, Exit
  <1>2. CallInv' /\ Sending' = Sending
    <2>1. CASE FlushDone
      <3>1. cmd' = cmd /\ \A t \in Threads : pc'[t] = pc[t] \/ (t = reply /\ pc'[t] = "idle")
        BY <2>1 DEF FlushDone
      <3>2. \A t \in Threads : pc'[t] = "send" <=> pc[t] = "send"
        BY <3>1 DEF OneFlush
      <3> QED BY <3>1, <3>2 DEF BatchInv, CallInv, Sending
    <2>2. CASE Exit
      BY <2>2, CallFrame DEF BatchInv, Exit, callers
    <2> QED BY <2>1, <2>2
  <1>3. LoopInv'
    BY DEF BatchInv, LoopInv, FlushDone, Exit
  <1>4. RowsInOrder'
    BY <1>1, <1>2, RowsFrame DEF BatchInv
  <1>5. TypeOK'
    BY DEF BatchInv, TypeOK, FlushDone, Exit, callers
  <1> QED BY <1>1, <1>2, <1>3, <1>4, <1>5 DEF BatchInv

-----------------------------------------------------------------------------
(* Consumers *)

\* A chunk is taken from the front of the output channel.
LEMMA ConsumedInOrder ==
  ASSUME TypeOK, OutInv, out # <<>>, out' = Tail(out)
  PROVE  OutInv' /\ Out' \subseteq Out /\ out' \in Seq(Seq(Rows)) /\ Len(out') <= OutCap
  <1> DEFINE n == Len(out)
  <1>1. /\ n \in Nat /\ n >= 1 /\ Len(out') = n - 1 /\ out' \in Seq(Seq(Rows))
        /\ \A i \in 1..(n - 1) : i + 1 \in 1..n /\ out'[i] = out[i + 1]
        /\ Range(out) = {Head(out)} \cup Range(out')
    BY TailFacts DEF TypeOK
  <1>2. n <= OutCap /\ OutCap \in Nat
    BY BatcherAssumption DEF TypeOK
  <1> HIDE DEF n
  <1>3. Out' \subseteq Out
    BY <1>1 DEF Out
  <1>4. ASSUME NEW i \in 1..(n - 1), NEW j \in 1..(n - 1),
               NEW k \in 1..Len(out'[i]), NEW l \in 1..Len(out'[j]),
               Kin(out'[i][k], out'[j][l]), out'[i][k].id < out'[j][l].id
        PROVE  i < j \/ (i = j /\ k < l)
    <2>1. /\ i + 1 \in 1..n /\ j + 1 \in 1..n /\ out'[i] = out[i + 1]
          /\ out'[j] = out[j + 1]
      BY <1>1
    <2>2. i + 1 < j + 1 \/ (i + 1 = j + 1 /\ k < l)
      BY <1>4, <2>1 DEF OutInv, n
    <2> QED BY <1>1, <2>2
  <1>5. OutInv'
    BY <1>1, <1>4 DEF OutInv
  <1>6. Len(out') <= OutCap
    BY <1>1, <1>2
  <1> QED BY <1>1, <1>3, <1>5, <1>6

LEMMA ConsumerBatchInv ==
  ASSUME BatchInv, NEW c \in Consumers, Subscribe(c) \/ Consume(c) \/ Close(c)
  PROVE  BatchInv'
  <1>0. TypeOK /\ OutInv
    BY DEF BatchInv
  <1>1. /\ CallInv' /\ QueueInv' /\ LoopInv' /\ AccInv' /\ BacklogInv'
        /\ UNCHANGED <<Sending, Queued, Pending, Batched>>
    BY CallFrame, QueueFrame, LoopFrame DEF BatchInv, Subscribe, Consume, Close, callers
  <1>2. OutInv' /\ Out' \subseteq Out /\ out' \in Seq(Seq(Rows)) /\ Len(out') <= OutCap
    <2>1. CASE UNCHANGED out
      BY <1>0, <2>1, OutFrame DEF TypeOK
    <2>2. CASE Consume(c)
      BY <1>0, <2>2, ConsumedInOrder DEF Consume
    <2>3. CASE out' = <<>>
      <3>1. OutInv' /\ Out' \subseteq Out
        BY <2>3 DEF OutInv, Out, Range
      <3> QED BY <2>3, <3>1, BatcherAssumption
    <2> QED BY <2>1, <2>2, <2>3 DEF Subscribe, Close
  <1>3. TypeOK'
    <2>1. reader' \in [Consumers -> {"none", "reading", "closed"}]
      BY <1>0 DEF TypeOK, Subscribe, Consume, Close
    <2> QED BY <1>0, <1>2, <2>1 DEF TypeOK, Subscribe, Consume, Close, callers, loop
  <1>4. RowsInOrder'
    <2>1. InOrder(Sending, Queued, Pending, Batched, Out')
      BY <1>2, RowsLeave DEF BatchInv, RowsInOrder
    <2> QED BY <1>1, <2>1 DEF RowsInOrder
  <1> QED BY <1>1, <1>2, <1>3, <1>4 DEF BatchInv

LEMMA StutterBatchInv ==
  ASSUME BatchInv, UNCHANGED vars
  PROVE  BatchInv'
  <1>1. /\ CallInv' /\ QueueInv' /\ LoopInv' /\ AccInv' /\ BacklogInv' /\ OutInv'
        /\ UNCHANGED <<Sending, Queued, Pending, Batched, Out>>
    BY CallFrame, QueueFrame, LoopFrame, OutFrame DEF BatchInv, vars, loop
  <1>2. TypeOK'
    BY DEF BatchInv, TypeOK, vars
  <1> QED BY <1>1, <1>2, RowsFrame DEF BatchInv

LEMMA NextBatchInv ==
  ASSUME BatchInv, OneFlush, [Next]_vars
  PROVE  BatchInv'
  <1>1. ASSUME NEW t \in Threads, Calls(t) PROVE BatchInv'
    BY <1>1, PushBatchInv, OtherCallBatchInv DEF Calls
  <1>2. ASSUME NEW t \in Threads, Send(t) PROVE BatchInv'
    BY <1>2, SendBatchInv
  <1>3. ASSUME NEW t \in Threads, FlushTimeout(t) PROVE BatchInv'
    BY <1>3, FlushTimeoutBatchInv
  <1>4. CASE DropBatcher \/ DropSend \/ DropJoin
    BY <1>4, DropBatchInv
  <1>5. CASE Command
    BY <1>5, AppendChunkBatchInv, AppendRowBatchInv, OtherCommandBatchInv DEF Command
  <1>6. CASE Tick \/ TickFires
    BY <1>6, TickBatchInv
  <1>7. CASE Flushing
    BY <1>7, VisitEntityBatchInv, SendChunkBatchInv, FlushOverBatchInv DEF Flushing
  <1>8. ASSUME NEW c \in Consumers, Subscribe(c) \/ Consume(c) \/ Close(c) PROVE BatchInv'
    BY <1>8, ConsumerBatchInv
  <1>9. CASE UNCHANGED vars
    BY <1>9, StutterBatchInv
  <1> QED BY <1>1, <1>2, <1>3, <1>4, <1>5, <1>6, <1>7, <1>8, <1>9 DEF Next

-----------------------------------------------------------------------------
(* What a flush has to see sent *)

\* Rows may go elsewhere, and rows without components or that nobody waits for
\* may vanish.
LEMMA StillCovered ==
  ASSUME NEW R, NEW N, Covers(R, N), NEW R1, NEW N1 \in SUBSET N,
         \A r \in R : r \in R1 \/ r.shape = Empty \/ r.id \notin N1
  PROVE  Covers(R1, N1)
  BY DEF Covers

LEMMA FlushOfFacts ==
  /\ \A t, u : FlushOf(t) = FlushOf(u) => t = u
  /\ \A t \in Threads : FlushOf(t) # FlushOf(None) /\ FlushOf(t) # Idle
  /\ \A t : FlushOf(t).op = "Flush" /\ FlushOf(t).by = t
  BY BatcherAssumption DEF FlushOf, Idle

LEMMA AheadFacts ==
  ASSUME TypeOK
  PROVE  /\ \A i \in 1..Len(cmds) : Ahead(i) \subseteq Queued
         /\ Ahead(Len(cmds) + 1) = Queued
         /\ Ahead(1) = {}
  <1>1. cmds \in Seq(Commands) /\ Len(cmds) \in Nat /\ DOMAIN cmds = 1..Len(cmds)
    BY LenProperties DEF TypeOK
  <1>2. \A i \in 1..(Len(cmds) + 1) : 1..(i - 1) \subseteq 1..Len(cmds)
    BY <1>1
  <1>3. \A i \in 1..Len(cmds) : RowOf(cmds[i]) \subseteq Queued
    BY <1>1 DEF Queued, Range
  <1>4. \A i \in 1..(Len(cmds) + 1) : Ahead(i) \subseteq Queued
    BY <1>2, <1>3 DEF Ahead
  <1>5. Queued \subseteq Ahead(Len(cmds) + 1)
    <2>1. Len(cmds) + 1 - 1 = Len(cmds)
      BY <1>1
    <2>2. Ahead(Len(cmds) + 1) = UNION {RowOf(cmds[j]) : j \in 1..Len(cmds)}
      BY <2>1 DEF Ahead
    <2> QED BY <1>1, <2>2 DEF Queued, Range
  <1>6. Ahead(1) = {}
    <2>1. 1..(1 - 1) = {}
      OBVIOUS
    <2> QED BY <2>1 DEF Ahead
  <1>7. Len(cmds) + 1 \in 1..(Len(cmds) + 1)
        /\ \A i \in 1..Len(cmds) : i \in 1..(Len(cmds) + 1)
    BY <1>1
  <1> QED BY <1>4, <1>5, <1>6, <1>7

LEMMA InitFlushInv ==
  ASSUME Init PROVE FlushInv
  <1>1. OneFlush
    BY BatcherAssumption DEF Init, OneFlush
  <1>2. FlushBehind
    BY BatcherAssumption, FlushOfFacts
       DEF Init, FlushBehind, AheadOfCall, AheadOfCommand, AheadOfAnswer
  <1>3. FlushGuarantee
    BY DEF Init, FlushGuarantee, None
  <1> QED BY <1>1, <1>2, <1>3 DEF FlushInv

\* Steps that do not touch a flush.
LEMMA FlushFrame ==
  ASSUME FlushInv, UNCHANGED <<pc, cmd, owed, outcome, cmds, accs, todo, backlog, reply>>
  PROVE  FlushInv'
  <1>1. UNCHANGED <<Queued, Pending, Batched, ToVisit>> /\ \A i : Ahead(i)' = Ahead(i)
    BY DEF Queued, Pending, Batched, ToVisit, Ahead
  <1>2. OneFlush' /\ FlushGuarantee'
    BY DEF FlushInv, OneFlush, FlushGuarantee
  <1>3. FlushBehind'
    BY <1>1 DEF FlushInv, FlushBehind, AheadOfCall, AheadOfCommand, AheadOfAnswer
  <1> QED BY <1>2, <1>3 DEF FlushInv

\* Calls.  A thread that calls has no flush under way.
LEMMA CallFlushInv ==
  ASSUME BatchInv, FlushInv, NEW t \in Threads, NEW c \in Commands, Call(t, c),
         \/ c # FlushOf(t) /\ UNCHANGED <<owed, outcome>>
         \/ FlushBlocking(t)
  PROVE  FlushInv'
  <1>0. TypeOK /\ CallInv /\ OneFlush /\ FlushBehind /\ FlushGuarantee
    BY DEF BatchInv, FlushInv
  <1>1. UNCHANGED <<Queued, Pending, Batched, ToVisit>> /\ \A i : Ahead(i)' = Ahead(i)
    BY DEF Queued, Pending, Batched, ToVisit, Ahead, Call, loop
  <1>2. /\ cmd'[t] = c /\ pc'[t] = "send" /\ pc[t] = "idle" /\ UNCHANGED <<cmds, reply>>
        /\ \A u \in Threads \ {t} : cmd'[u] = cmd[u] /\ pc'[u] = pc[u]
    BY <1>0 DEF Call, TypeOK, loop
  <1>3. reply # t /\ \A i \in 1..Len(cmds) : cmds[i] # FlushOf(t)
    BY <1>0, <1>2 DEF OneFlush
  <1>4. \A u \in Threads \ {t} : owed'[u] = owed[u] /\ outcome'[u] = outcome[u]
    BY <1>0 DEF FlushBlocking, TypeOK
  <1>5. OneFlush'
    BY <1>0, <1>2, <1>3 DEF OneFlush
  <1>6. AheadOfCommand' /\ AheadOfAnswer'
    BY <1>0, <1>1, <1>2, <1>3, <1>4 DEF FlushBehind, AheadOfCommand, AheadOfAnswer
  <1>7. AheadOfCall'
    <2>1. ASSUME cmd'[t] = FlushOf(t)
          PROVE  Covers(Queued \cup Pending \cup Batched, owed'[t])
      <3>1. FlushBlocking(t)
        BY <1>2, <2>1
      <3>2. owed'[t] = Ids({r \in Upstream : r.by = t /\ r.shape # Empty})
        BY <1>0, <3>1 DEF FlushBlocking, TypeOK
      <3>3. \A r \in Sending : r.by # t
        <4>1. cmd[t] = Idle
          BY <1>0, <1>2 DEF CallInv
        <4> QED BY <1>0, <4>1, RowOfType DEF Sending, CallInv
      <3> QED BY <3>2, <3>3 DEF Covers, Ids, Upstream
    <2> QED BY <1>0, <1>1, <1>2, <1>4, <2>1 DEF FlushBehind, AheadOfCall
  <1>8. FlushGuarantee'
    <2>1. CASE UNCHANGED <<owed, outcome>>
      BY <1>0, <2>1 DEF FlushGuarantee
    <2>2. CASE FlushBlocking(t)
      <3>1. outcome'[t] = None
        BY <1>0, <2>2 DEF FlushBlocking, TypeOK
      <3> QED BY <1>0, <1>4, <3>1 DEF FlushGuarantee, None
    <2> QED BY <2>1, <2>2
  <1> QED BY <1>5, <1>6, <1>7, <1>8 DEF FlushInv, FlushBehind

LEMMA CallsFlushInv ==
  ASSUME BatchInv, FlushInv, NEW t \in Threads, Calls(t)
  PROVE  FlushInv'
  <1>1. ASSUME NEW op \in {"AppendRow", "AppendChunk"}, NEW e \in Entities,
               NEW s \in Shapes, Push(t, op, e, s)
        PROVE  FlushInv'
    <2> DEFINE row == [id |-> NewId, by |-> t, entity |-> e, shape |-> s,
                       whole |-> op = "AppendChunk"]
               c == [op |-> op, row |-> row]
    <2>1. NewId \in 1..MaxRows
      BY <1>1, NewIdFacts, BatcherAssumption DEF Push, BatchInv
    <2>2. row \in Rows
      BY <2>1 DEF Rows
    <2>3. Call(t, c) /\ UNCHANGED <<owed, outcome>>
      BY <1>1 DEF Push
    <2> HIDE DEF row
    <2>4. c \in Commands /\ c # FlushOf(t)
      BY <2>2 DEF Commands, FlushOf
    <2> HIDE DEF c
    <2> QED BY <2>3, <2>4, CallFlushInv
  <1>2. CASE FlushAsync(t)
    <2>1. FlushOf(None) \in Commands
      BY DEF FlushOf, Commands
    <2> QED BY <1>2, <2>1, CallFlushInv, FlushOfFacts DEF FlushAsync, FlushOf
  <1>3. CASE FlushBlocking(t)
    <2>1. FlushOf(t) \in Commands
      BY DEF FlushOf, Commands
    <2> QED BY <1>3, <2>1, CallFlushInv DEF FlushBlocking, FlushOf
  <1>4. ASSUME NEW n \in Range(Configs), UpdateConfig(t, n) PROVE FlushInv'
    <2> DEFINE c == [op |-> "UpdateConfig", rows |-> n]
    <2>1. c \in Commands /\ c # FlushOf(t)
      BY DEF FlushOf, Commands
    <2> QED BY <1>4, <2>1, CallFlushInv DEF UpdateConfig
  <1> QED BY <1>1, <1>2, <1>3, <1>4 DEF Calls

\* A command is added to the queue: what is ahead of the others stays there.
LEMMA EnqueuedAhead ==
  ASSUME TypeOK, NEW c \in Commands, cmds' = Append(cmds, c), NEW n, n = Len(cmds)
  PROVE  /\ n \in Nat /\ Len(cmds') = n + 1 /\ cmds'[n + 1] = c
         /\ \A i \in 1..n : cmds'[i] = cmds[i] /\ Ahead(i)' = Ahead(i)
         /\ Ahead(n + 1)' = Queued /\ Queued' = Queued \cup RowOf(c)
  <1>1. cmds \in Seq(Commands)
    BY DEF TypeOK
  <1>2. /\ n \in Nat /\ Len(cmds') = n + 1 /\ cmds'[n + 1] = c
        /\ \A i \in 1..n : cmds'[i] = cmds[i]
    BY <1>1, AppendProperties, LenProperties
  <1>3. Ahead(n + 1) = Queued
    BY AheadFacts
  <1>4. Queued' = Queued \cup RowOf(c)
    BY <1>1, RangeAppend DEF Queued
  <1>5. ASSUME NEW i \in 1..(n + 1) PROVE Ahead(i)' = Ahead(i)
    <2>1. \A j \in 1..(i - 1) : j \in 1..n
      BY <1>2
    <2>2. \A j \in 1..(i - 1) : cmds'[j] = cmds[j]
      BY <1>2, <2>1
    <2> QED BY <2>2 DEF Ahead
  <1>6. n + 1 \in 1..(n + 1) /\ \A i \in 1..n : i \in 1..(n + 1)
    BY <1>2
  <1> QED BY <1>2, <1>3, <1>4, <1>5, <1>6

LEMMA SendFlushInv ==
  ASSUME BatchInv, FlushInv, NEW t \in Threads, Send(t)
  PROVE  FlushInv'
  <1>0. TypeOK /\ CallInv /\ OneFlush /\ FlushBehind /\ FlushGuarantee
    BY DEF BatchInv, FlushInv
  <1>1. PICK n : n = Len(cmds)
    OBVIOUS
  <1>2. cmd[t] \in Commands /\ cmds' = Append(cmds, cmd[t]) /\ pc[t] = "send"
    BY <1>0 DEF Send, CallInv, TypeOK
  <1>3. /\ n \in Nat /\ Len(cmds') = n + 1 /\ cmds'[n + 1] = cmd[t]
        /\ \A i \in 1..n : cmds'[i] = cmds[i] /\ Ahead(i)' = Ahead(i)
        /\ Ahead(n + 1)' = Queued /\ Queued' = Queued \cup RowOf(cmd[t])
    BY <1>0, <1>1, <1>2, EnqueuedAhead
  <1>4. /\ cmd'[t] = Idle /\ (cmd[t] = FlushOf(t) => pc'[t] = "await")
        /\ \A u \in Threads \ {t} : cmd'[u] = cmd[u] /\ pc'[u] = pc[u]
    BY <1>0, FlushOfFacts DEF Send, TypeOK
  <1>5. UNCHANGED <<owed, outcome, reply, Pending, Batched, ToVisit>>
    BY DEF Send, loop, Pending, Batched, ToVisit
  <1>6. reply # t /\ \A i \in 1..n : cmds[i] # FlushOf(t)
    BY <1>0, <1>1, <1>2 DEF OneFlush
  <1>7. \A u \in Threads \ {t} : cmd[t] # FlushOf(u)
    BY <1>0, FlushOfFacts, BatcherAssumption DEF CallInv
  <1>8. OneFlush'
    <2>1. ASSUME NEW u \in Threads, NEW i \in 1..(n + 1), cmds'[i] = FlushOf(u)
          PROVE  /\ pc'[u] = "await" /\ reply' # u
                 /\ \A j \in 1..(n + 1) : cmds'[j] = FlushOf(u) => i = j
      <3>1. CASE u = t
        <4>1. \A j \in 1..(n + 1) : cmds'[j] = FlushOf(u) => j = n + 1
          BY <1>3, <1>6, <3>1, LastIndex
        <4>2. cmd[t] = FlushOf(t)
          BY <1>3, <2>1, <3>1, <4>1
        <4> QED BY <1>4, <1>5, <1>6, <2>1, <3>1, <4>1, <4>2
      <3>2. CASE u # t
        <4>1. \A j \in 1..(n + 1) : cmds'[j] = FlushOf(u) => j \in 1..n /\ cmds[j] = FlushOf(u)
          BY <1>3, <1>7, <3>2, LastIndex
        <4> QED BY <1>0, <1>1, <1>4, <1>5, <2>1, <3>2, <4>1 DEF OneFlush
      <3> QED BY <3>1, <3>2
    <2>2. \A u \in Threads : reply' = u => pc'[u] = "await"
      BY <1>0, <1>4, <1>5, <1>6 DEF OneFlush
    <2> QED BY <1>3, <2>1, <2>2 DEF OneFlush
  <1>9. AheadOfCall'
    <2>1. ASSUME NEW u \in Threads, cmd'[u] = FlushOf(u)
          PROVE  Covers(Queued' \cup Pending' \cup Batched', owed'[u])
      <3>1. u # t
        BY <1>4, <2>1, FlushOfFacts
      <3>2. Covers(Queued \cup Pending \cup Batched, owed[u])
        BY <1>0, <1>4, <2>1, <3>1 DEF FlushBehind, AheadOfCall
      <3> QED BY <1>3, <1>5, <3>2 DEF Covers
    <2> QED BY <2>1 DEF AheadOfCall
  <1>10. AheadOfCommand'
    <2>1. ASSUME NEW u \in Threads, NEW i \in 1..(n + 1), cmds'[i] = FlushOf(u)
          PROVE  Covers(Ahead(i)' \cup Pending' \cup Batched', owed'[u])
      <3>1. CASE i \in 1..n
        BY <1>0, <1>1, <1>3, <1>5, <2>1, <3>1 DEF FlushBehind, AheadOfCommand
      <3>2. CASE i = n + 1
        <4>1. u = t /\ cmd[t] = FlushOf(t) /\ Ahead(i)' = Queued
          BY <1>3, <1>7, <2>1, <3>2
        <4> QED BY <1>0, <1>5, <4>1 DEF FlushBehind, AheadOfCall
      <3> QED BY <1>3, <3>1, <3>2, LastIndex
    <2> QED BY <1>3, <2>1 DEF AheadOfCommand
  <1>11. AheadOfAnswer' /\ FlushGuarantee'
    BY <1>0, <1>5 DEF FlushBehind, AheadOfAnswer, FlushGuarantee
  <1> QED BY <1>8, <1>9, <1>10, <1>11 DEF FlushInv, FlushBehind

LEMMA FlushTimeoutFlushInv ==
  ASSUME BatchInv, FlushInv, NEW t \in Threads, FlushTimeout(t)
  PROVE  FlushInv'
  <1>0. TypeOK /\ OneFlush /\ FlushBehind /\ FlushGuarantee
    BY DEF BatchInv, FlushInv
  <1>1. PICK n : n = Len(cmds)
    OBVIOUS
  <1>2. /\ n \in Nat /\ Len(cmds') = n /\ cmds' \in Seq(Commands) /\ cmds \in Seq(Commands)
        /\ \A i \in 1..n :
              /\ cmds[i] = FlushOf(t) => cmds'[i] = FlushOf(None)
              /\ cmds[i] # FlushOf(t) => cmds'[i] = cmds[i]
              /\ RowOf(cmds'[i]) = RowOf(cmds[i])
    BY <1>0, <1>1, DisownedFacts DEF TypeOK
  <1>3. \A u \in Threads : \A i \in 1..n :
            cmds'[i] = FlushOf(u) => u # t /\ cmds[i] = FlushOf(u)
    BY <1>2, FlushOfFacts
  <1>4. Queued' = Queued /\ \A i \in 1..n : Ahead(i)' = Ahead(i)
    <2>1. DOMAIN cmds = 1..n /\ DOMAIN cmds' = 1..n
      BY <1>1, <1>2, LenProperties
    <2>2. Queued' = Queued
      BY <1>2, <2>1 DEF Queued, Range
    <2>3. \A i \in 1..n : \A j \in 1..(i - 1) : j \in 1..n
      BY <1>2
    <2> QED BY <1>2, <2>2, <2>3 DEF Ahead
  <1>5. UNCHANGED <<cmd, Pending, Batched, ToVisit>>
    BY DEF FlushTimeout, Pending, Batched, ToVisit
  <1>6. /\ owed'[t] = {} /\ outcome'[t] = "Timeout"
        /\ \A u \in Threads \ {t} :
              pc'[u] = pc[u] /\ owed'[u] = owed[u] /\ outcome'[u] = outcome[u]
    BY <1>0 DEF FlushTimeout, TypeOK
  <1>7. \A u \in Threads : reply' = u => reply = u /\ u # t
    <2>1. \A u \in Threads : u # None
      BY BatcherAssumption
    <2>2. reply' = IF reply = t THEN None ELSE reply
      BY DEF FlushTimeout
    <2> HIDE DEF None
    <2> QED BY <2>1, <2>2
  <1>8. OneFlush'
    <2>1. \A u \in Threads : reply = u => reply' = u \/ u = t
      BY DEF FlushTimeout
    <2> QED BY <1>0, <1>1, <1>2, <1>3, <1>6, <1>7, <2>1 DEF OneFlush
  <1>9. AheadOfCall'
    <2>1. Covers(Queued \cup Pending \cup Batched, {})
      BY DEF Covers
    <2> QED BY <1>0, <1>4, <1>5, <1>6, <2>1 DEF FlushBehind, AheadOfCall
  <1>10. AheadOfCommand'
    <2>1. ASSUME NEW u \in Threads, NEW i \in 1..n, cmds'[i] = FlushOf(u)
          PROVE  Covers(Ahead(i)' \cup Pending' \cup Batched', owed'[u])
      <3>1. u # t /\ cmds[i] = FlushOf(u)
        BY <1>3, <2>1
      <3>2. Covers(Ahead(i) \cup Pending \cup Batched, owed[u])
        BY <1>0, <1>1, <3>1 DEF FlushBehind, AheadOfCommand
      <3> QED BY <1>4, <1>5, <1>6, <3>1, <3>2
    <2> QED BY <1>2, <2>1 DEF AheadOfCommand
  <1>11. AheadOfAnswer'
    BY <1>0, <1>5, <1>6, <1>7 DEF FlushBehind, AheadOfAnswer
  <1>12. FlushGuarantee'
    BY <1>0, <1>6 DEF FlushGuarantee
  <1> QED BY <1>8, <1>9, <1>10, <1>11, <1>12 DEF FlushInv, FlushBehind

\* Dropping the batcher sends no flush.
LEMMA DropFlushInv ==
  ASSUME BatchInv, FlushInv, DropBatcher \/ DropSend \/ DropJoin
  PROVE  FlushInv'
  <1>0. TypeOK /\ OneFlush /\ FlushBehind /\ FlushGuarantee
    BY DEF BatchInv, FlushInv
  <1>1. CASE DropBatcher \/ DropJoin
    BY <1>1, FlushFrame DEF DropBatcher, DropJoin, loop
  <1>2. CASE DropSend
    <2> DEFINE c == [op |-> "Shutdown"]
    <2>1. c \in Commands /\ RowOf(c) = {} /\ \A u : c # FlushOf(u)
      BY DEF Commands, RowOf, FlushOf
    <2>2. cmds' = Append(cmds, c)
      BY <1>2 DEF DropSend
    <2> HIDE DEF c
    <2>3. PICK n : n = Len(cmds)
      OBVIOUS
    <2>4. /\ n \in Nat /\ Len(cmds') = n + 1 /\ cmds'[n + 1] = c
          /\ \A i \in 1..n : cmds'[i] = cmds[i] /\ Ahead(i)' = Ahead(i)
          /\ Queued' = Queued
      BY <1>0, <2>1, <2>2, <2>3, EnqueuedAhead
    <2>5. \A u \in Threads : \A i \in 1..(n + 1) :
              cmds'[i] = FlushOf(u) => i \in 1..n /\ cmds[i] = FlushOf(u)
      BY <2>1, <2>4, LastIndex
    <2>6. UNCHANGED <<pc, cmd, owed, outcome, reply, Pending, Batched, ToVisit>>
      BY <1>2 DEF DropSend, loop, Pending, Batched, ToVisit
    <2>7. OneFlush'
      BY <1>0, <2>3, <2>4, <2>5, <2>6 DEF OneFlush
    <2>8. AheadOfCall' /\ AheadOfAnswer' /\ FlushGuarantee'
      BY <1>0, <2>4, <2>6
         DEF FlushBehind, AheadOfCall, AheadOfAnswer, FlushGuarantee
    <2>9. AheadOfCommand'
      BY <1>0, <2>3, <2>4, <2>5, <2>6 DEF FlushBehind, AheadOfCommand
    <2> QED BY <2>7, <2>8, <2>9 DEF FlushInv, FlushBehind
  <1> QED BY <1>1, <1>2

\* The first command is taken, and its row is accumulated, batched or empty:
\* what is ahead of the other commands stays in the pipeline.
LEMMA DequeuedAhead ==
  ASSUME BatchInv, FlushInv, cmds # <<>>, cmds' = Tail(cmds), UNCHANGED <<cmd, owed>>,
         \A r \in RowOf(Head(cmds)) \cup Pending \cup Batched :
            r \in Pending' \cup Batched' \/ r.shape = Empty
  PROVE  AheadOfCall' /\ AheadOfCommand'
  <1>0. TypeOK /\ QueueInv /\ FlushBehind
    BY DEF BatchInv, FlushInv
  <1>1. PICK n : n = Len(cmds)
    OBVIOUS
  <1>2. /\ n \in Nat /\ n >= 1 /\ Len(cmds') = n - 1 /\ Head(cmds) = cmds[1]
        /\ \A i \in 1..(n - 1) : i + 1 \in 1..n /\ cmds'[i] = cmds[i + 1]
    BY <1>0, <1>1, TailFacts DEF TypeOK
  <1>3. Queued' = Queued \ RowOf(Head(cmds))
    BY <1>0, Dequeued
  <1>4. AheadOfCall'
    <2>1. ASSUME NEW t \in Threads, cmd'[t] = FlushOf(t)
          PROVE  Covers(Queued' \cup Pending' \cup Batched', owed'[t])
      <3>1. Covers(Queued \cup Pending \cup Batched, owed[t])
        BY <1>0, <2>1 DEF FlushBehind, AheadOfCall
      <3>2. \A r \in Queued \cup Pending \cup Batched :
                r \in Queued' \cup Pending' \cup Batched' \/ r.shape = Empty
        BY <1>3
      <3> QED BY <3>1, <3>2 DEF Covers
    <2> QED BY <2>1 DEF AheadOfCall
  <1>5. AheadOfCommand'
    <2>1. ASSUME NEW t \in Threads, NEW i \in 1..(n - 1), cmds'[i] = FlushOf(t)
          PROVE  Covers(Ahead(i)' \cup Pending' \cup Batched', owed'[t])
      <3>1. i + 1 \in 1..n /\ cmds[i + 1] = FlushOf(t)
        BY <1>2, <2>1
      <3>2. Covers(Ahead(i + 1) \cup Pending \cup Batched, owed[t])
        BY <1>0, <1>1, <3>1 DEF FlushBehind, AheadOfCommand
      <3>3. ASSUME NEW r \in Ahead(i + 1) PROVE r \in RowOf(Head(cmds)) \cup Ahead(i)'
        <4>1. PICK j \in 1..(i + 1 - 1) : r \in RowOf(cmds[j])
          BY <3>3 DEF Ahead
        <4>2. CASE j = 1
          BY <1>2, <4>1, <4>2
        <4>3. CASE j # 1
          <5>1. PICK k : k = j - 1
            OBVIOUS
          <5>2. k \in 1..(i - 1) /\ k \in 1..(n - 1) /\ k + 1 = j
            BY <1>2, <4>1, <4>3, <5>1
          <5>3. cmds'[k] = cmds[j]
            BY <1>2, <5>2
          <5> QED BY <4>1, <5>2, <5>3 DEF Ahead
        <4> QED BY <4>2, <4>3
      <3> QED BY <3>2, <3>3 DEF Covers
    <2> QED BY <1>2, <2>1 DEF AheadOfCommand
  <1> QED BY <1>4, <1>5

\* Taking a command leaves a thread at most one flush.
LEMMA DequeuedOneFlush ==
  ASSUME TypeOK, OneFlush, cmds # <<>>, cmds' = Tail(cmds), pc' = pc, reply = None,
         reply' = None \/ Head(cmds) = FlushOf(reply')
  PROVE  OneFlush'
  <1>1. PICK n : n = Len(cmds)
    OBVIOUS
  <1>2. /\ n \in Nat /\ n >= 1 /\ Len(cmds') = n - 1 /\ Head(cmds) = cmds[1]
        /\ \A i \in 1..(n - 1) : i + 1 \in 1..n /\ cmds'[i] = cmds[i + 1]
    BY <1>1, TailFacts DEF TypeOK
  <1>3. 1 \in 1..n /\ \A i, j \in 1..(n - 1) : i + 1 # 1 /\ (i + 1 = j + 1 => i = j)
    BY <1>2
  <1>4. \A t \in Threads : t # None
    BY BatcherAssumption
  <1> HIDE DEF None
  <1>5. ASSUME NEW t \in Threads, NEW i \in 1..(n - 1), cmds'[i] = FlushOf(t)
        PROVE  /\ pc'[t] = "await" /\ reply' # t
               /\ \A j \in 1..(n - 1) : cmds'[j] = FlushOf(t) => i = j
    <2>1. i + 1 \in 1..n /\ cmds[i + 1] = FlushOf(t)
      BY <1>2, <1>5
    <2>2. pc[t] = "await" /\ \A k \in 1..n : cmds[k] = FlushOf(t) => i + 1 = k
      BY <1>1, <2>1 DEF OneFlush
    <2>3. reply' # t
      BY <1>2, <1>3, <1>4, <2>2
    <2>4. \A j \in 1..(n - 1) : cmds'[j] = FlushOf(t) => i = j
      BY <1>2, <1>3, <2>2
    <2> QED BY <2>2, <2>3, <2>4
  <1>6. ASSUME NEW t \in Threads, reply' = t PROVE pc'[t] = "await"
    <2>1. cmds[1] = FlushOf(t)
      BY <1>2, <1>4, <1>6
    <2> QED BY <1>1, <1>3, <2>1 DEF OneFlush
  <1> QED BY <1>2, <1>5, <1>6 DEF OneFlush

\* The row of a command that is taken is accumulated or batched, or it is empty.
LEMMA CommandRows ==
  ASSUME BatchInv, Command
  PROVE  /\ \A r \in RowOf(Head(cmds)) \cup Pending \cup Batched :
                r \in Pending' \cup Batched' \/ r.shape = Empty
         /\ Queued' = Queued \ RowOf(Head(cmds)) /\ Sending' = Sending
  <1>0. Batched = {} /\ Queued' = Queued \ RowOf(Head(cmds)) /\ Sending' = Sending
    BY SelectFacts DEF Command, AppendChunk, AppendRow, Flush, ApplyConfig, Shutdown
  <1>1. CASE AppendChunk
    <2>1. /\ Pending' = Pending
          /\ Batched' = {r \in RowOf(Head(cmds)) : r.shape # Empty}
      BY <1>1, AppendChunkBatchInv
    <2> QED BY <1>0, <2>1
  <1>2. CASE AppendRow
    <2>1. Pending' = Pending \cup RowOf(Head(cmds))
      BY <1>2, AppendRowBatchInv
    <2> QED BY <1>0, <2>1
  <1>3. CASE Flush \/ ApplyConfig \/ Shutdown
    <2>1. accs' = accs
      BY <1>3 DEF Flush, ApplyConfig, Shutdown
    <2>2. Pending' = Pending
      BY <2>1 DEF Pending
    <2>3. RowOf(Head(cmds)) = {}
      BY <1>3 DEF RowOf, Flush, ApplyConfig, Shutdown, Select
    <2> QED BY <1>0, <2>2, <2>3
  <1> QED BY <1>1, <1>2, <1>3 DEF Command

LEMMA CommandFlushInv ==
  ASSUME BatchInv, FlushInv, Command
  PROVE  FlushInv'
  <1>0. TypeOK /\ OneFlush /\ FlushBehind /\ FlushGuarantee
    BY DEF BatchInv, FlushInv
  <1>1. PICK op : Select(op)
    BY DEF Command, AppendChunk, AppendRow, Flush, ApplyConfig, Shutdown
  <1>2. /\ cmds # <<>> /\ cmds' = Tail(cmds) /\ UNCHANGED <<pc, cmd, owed, outcome>>
        /\ todo = {} /\ backlog = {} /\ reply = None /\ Batched = {}
        /\ Head(cmds) \in Commands
    BY <1>1, SelectFacts DEF Select, callers
  <1>3. reply' = None \/ (Flush /\ reply' = Head(cmds).by)
    BY <1>2 DEF Command, AppendChunk, AppendRow, Flush, ApplyConfig, Shutdown, StartFlush
  <1>4. \A r \in RowOf(Head(cmds)) \cup Pending \cup Batched :
            r \in Pending' \cup Batched' \/ r.shape = Empty
    BY CommandRows
  <1>5. AheadOfCall' /\ AheadOfCommand'
    BY <1>2, <1>4, DequeuedAhead
  <1>6. Flush => Head(cmds) = FlushOf(Head(cmds).by)
    <2>1. \A c \in Commands : c.op = "Flush" => c = FlushOf(c.by)
      BY DEF Commands, FlushOf
    <2> QED BY <1>2, <2>1 DEF Flush, Select
  <1>7. OneFlush'
    <2>1. reply' = None \/ Head(cmds) = FlushOf(reply')
      BY <1>3, <1>6
    <2> QED BY <1>0, <1>2, <2>1, DequeuedOneFlush
  <1>8. AheadOfAnswer'
    <2>1. ASSUME NEW t \in Threads, reply' = t PROVE Covers(ToVisit', owed'[t])
      <3>1. t # None
        BY BatcherAssumption
      <3>2. Flush /\ Head(cmds) = FlushOf(t)
        BY <1>3, <1>6, <2>1, <3>1
      <3>3. 1 \in 1..Len(cmds) /\ cmds[1] = FlushOf(t) /\ Ahead(1) = {}
        BY <1>0, <1>2, <3>2, TailFacts, AheadFacts DEF TypeOK
      <3>4. Covers(Ahead(1) \cup Pending \cup Batched, owed[t])
        BY <1>0, <3>3 DEF FlushBehind, AheadOfCommand
      <3>5. Covers(Pending, owed[t])
        BY <1>2, <3>3, <3>4 DEF Covers
      <3>6. accs' = accs /\ todo' = Entities
        BY <3>2 DEF Flush, StartFlush
      <3>7. Pending \subseteq ToVisit'
        BY <3>6 DEF Pending, ToVisit
      <3> QED BY <1>2, <3>5, <3>7 DEF Covers
    <2> QED BY <2>1 DEF AheadOfAnswer
  <1>9. FlushGuarantee'
    BY <1>0, <1>2 DEF FlushGuarantee
  <1> QED BY <1>5, <1>7, <1>8, <1>9 DEF FlushInv, FlushBehind

\* The ticker's flush answers nobody.
LEMMA TickFlushInv ==
  ASSUME BatchInv, FlushInv, Tick
  PROVE  FlushInv'
  <1>0. OneFlush /\ FlushBehind /\ FlushGuarantee
    BY DEF FlushInv
  <1>1. UNCHANGED <<pc, cmd, owed, outcome, cmds, accs, backlog>>
    BY DEF Tick, callers, StartFlush
  <1>2. reply = None /\ reply' = None
    BY DEF Tick, StartFlush, BatchInv, LoopInv
  <1>3. UNCHANGED <<Queued, Pending, Batched>> /\ \A i : Ahead(i)' = Ahead(i)
    BY <1>1 DEF Queued, Pending, Batched, Ahead
  <1>4. OneFlush' /\ FlushGuarantee'
    BY <1>0, <1>1, <1>2 DEF OneFlush, FlushGuarantee
  <1>5. AheadOfCall' /\ AheadOfCommand'
    BY <1>0, <1>1, <1>3 DEF FlushBehind, AheadOfCall, AheadOfCommand
  <1>6. AheadOfAnswer'
    BY <1>2, BatcherAssumption DEF AheadOfAnswer
  <1> QED BY <1>4, <1>5, <1>6 DEF FlushInv, FlushBehind

\* An accumulator becomes the backlog: only empty rows vanish.
LEMMA VisitEntityFlushInv ==
  ASSUME BatchInv, FlushInv, NEW e \in Entities, VisitEntity(e)
  PROVE  FlushInv'
  <1>0. OneFlush /\ FlushBehind /\ FlushGuarantee /\ TypeOK
    BY DEF FlushInv, BatchInv
  <1>1. UNCHANGED <<pc, cmd, owed, outcome, cmds, reply>> /\ backlog = {}
    BY DEF VisitEntity, callers
  <1>2. /\ Pending' = Pending \ Range(accs[e]) /\ Batched = {}
        /\ Batched' = {r \in Range(accs[e]) : r.shape # Empty}
    BY <1>1, VisitEntityBatchInv DEF Batched
  <1>3. Queued' = Queued /\ \A i : Ahead(i)' = Ahead(i)
    BY <1>1 DEF Queued, Ahead
  <1>4. \A r \in Pending \cup Batched : r \in Pending' \cup Batched' \/ r.shape = Empty
    BY <1>2
  <1>5. OneFlush' /\ FlushGuarantee'
    BY <1>0, <1>1 DEF OneFlush, FlushGuarantee
  <1>6. \A R, N : Covers(R \cup Pending \cup Batched, N)
                    => Covers(R \cup Pending' \cup Batched', N)
    BY <1>4 DEF Covers
  <1>7. AheadOfCall' /\ AheadOfCommand'
    BY <1>0, <1>1, <1>3, <1>6 DEF FlushBehind, AheadOfCall, AheadOfCommand
  <1>8. AheadOfAnswer'
    <2>1. \A r \in ToVisit : r \in ToVisit' \/ r.shape = Empty
      <3>1. ASSUME NEW r \in ToVisit PROVE r \in ToVisit' \/ r.shape = Empty
        <4>1. PICK f \in todo : r \in Range(accs[f])
          BY <1>2, <3>1 DEF ToVisit
        <4>2. CASE f = e
          BY <1>2, <4>1, <4>2 DEF ToVisit
        <4>3. CASE f # e
          <5>1. f \in todo' /\ accs'[f] = accs[f]
            BY <1>0, <4>3 DEF VisitEntity, TypeOK
          <5> QED BY <4>1, <5>1 DEF ToVisit
        <4> QED BY <4>2, <4>3
      <3> QED BY <3>1
    <2>2. \A N : Covers(ToVisit, N) => Covers(ToVisit', N)
      BY <2>1 DEF Covers
    <2> QED BY <1>0, <1>1, <2>2 DEF FlushBehind, AheadOfAnswer
  <1> QED BY <1>5, <1>7, <1>8 DEF FlushInv, FlushBehind

\* A chunk is sent: nobody waits for its rows any longer.
LEMMA SendChunkFlushInv ==
  ASSUME BatchInv, FlushInv, NEW chunk \in backlog, SendChunk(chunk)
  PROVE  FlushInv'
  <1>0. OneFlush /\ FlushBehind /\ FlushGuarantee /\ TypeOK
    BY DEF FlushInv, BatchInv
  <1>1. UNCHANGED <<pc, cmd, outcome, cmds, reply, accs, todo>>
    BY DEF SendChunk
  <1>2. \A t \in Threads : owed'[t] = owed[t] \ Ids(Range(chunk))
    BY DEF SendChunk
  <1>3. UNCHANGED <<Queued, Pending>> /\ \A i : Ahead(i)' = Ahead(i)
    BY <1>1 DEF Queued, Pending, Ahead
  <1>4. \A r \in Batched : r \in Batched' \/ r.id \in Ids(Range(chunk))
    BY DEF Batched, SendChunk, Ids
  <1>5. ToVisit' = Batched' \cup UNION {Range(accs[f]) : f \in todo}
    BY <1>1 DEF ToVisit
  <1>6. \A R, N : Covers(R \cup Batched, N)
                    => Covers(R \cup Batched', N \ Ids(Range(chunk)))
    BY <1>4 DEF Covers
  <1>7. OneFlush' /\ FlushGuarantee'
    <2>1. OneFlush'
      BY <1>0, <1>1 DEF OneFlush
    <2> QED BY <1>0, <1>1, <1>2, <2>1 DEF FlushGuarantee
  <1>8. AheadOfCall'
    <2>1. ASSUME NEW t \in Threads, cmd'[t] = FlushOf(t)
          PROVE  Covers(Queued' \cup Pending' \cup Batched', owed'[t])
      BY <1>0, <1>1, <1>2, <1>3, <1>6, <2>1 DEF FlushBehind, AheadOfCall
    <2> QED BY <2>1 DEF AheadOfCall
  <1>9. AheadOfCommand'
    <2>1. ASSUME NEW t \in Threads, NEW i \in 1..Len(cmds), cmds[i] = FlushOf(t)
          PROVE  Covers(Ahead(i)' \cup Pending' \cup Batched', owed'[t])
      <3>1. Covers(Ahead(i) \cup Pending \cup Batched, owed[t])
        BY <1>0, <2>1 DEF FlushBehind, AheadOfCommand
      <3>2. Covers(Ahead(i) \cup Pending \cup Batched', owed[t] \ Ids(Range(chunk)))
        BY <1>6, <3>1
      <3> QED BY <1>2, <1>3, <3>2
    <2> QED BY <1>1, <2>1 DEF AheadOfCommand
  <1>10. AheadOfAnswer'
    <2>1. ASSUME NEW t \in Threads, reply = t PROVE Covers(ToVisit', owed'[t])
      <3> DEFINE R == UNION {Range(accs[f]) : f \in todo}
      <3>1. Covers(Batched \cup R, owed[t])
        BY <1>0, <2>1 DEF FlushBehind, AheadOfAnswer, ToVisit
      <3> HIDE DEF R
      <3>2. Covers(Batched' \cup R, owed[t] \ Ids(Range(chunk)))
        BY <1>4, <3>1 DEF Covers
      <3> QED BY <1>2, <1>5, <3>2 DEF R
    <2> QED BY <1>1, <2>1 DEF AheadOfAnswer
  <1> QED BY <1>7, <1>8, <1>9, <1>10 DEF FlushInv, FlushBehind

\* The answer comes when nothing is left to be sent.
LEMMA FlushDoneFlushInv ==
  ASSUME BatchInv, FlushInv, FlushDone
  PROVE  FlushInv'
  <1>0. OneFlush /\ FlushBehind /\ FlushGuarantee /\ TypeOK
    BY DEF FlushInv, BatchInv
  <1>1. UNCHANGED <<cmd, owed, cmds, accs, todo, backlog>> /\ reply' = None
    BY DEF FlushDone
  <1>2. /\ \A t \in Threads : t # reply => pc'[t] = pc[t] /\ outcome'[t] = outcome[t]
        /\ \A t \in Threads : t # None
    BY BatcherAssumption DEF FlushDone
  <1>3. UNCHANGED <<Queued, Pending, Batched>> /\ \A i : Ahead(i)' = Ahead(i)
    BY <1>1 DEF Queued, Pending, Batched, Ahead
  <1> HIDE DEF None
  <1>4. OneFlush'
    <2>1. \A t \in Threads : \A i \in 1..Len(cmds) : cmds[i] = FlushOf(t) => t # reply
      BY <1>0 DEF OneFlush
    <2> QED BY <1>0, <1>1, <1>2, <2>1 DEF OneFlush
  <1>5. AheadOfCall' /\ AheadOfCommand' /\ AheadOfAnswer'
    BY <1>0, <1>1, <1>2, <1>3 DEF FlushBehind, AheadOfCall, AheadOfCommand, AheadOfAnswer
  <1>6. FlushGuarantee'
    <2>1. ToVisit = {}
      BY DEF ToVisit, Batched, FlushDone
    <2>2. \A t \in Threads : reply = t => owed[t] = {}
      BY <1>0, <2>1 DEF FlushBehind, AheadOfAnswer, Covers
    <2> QED BY <1>0, <1>1, <1>2, <2>2 DEF FlushGuarantee
  <1> QED BY <1>4, <1>5, <1>6 DEF FlushInv, FlushBehind

LEMMA NextFlushInv ==
  ASSUME BatchInv, FlushInv, [Next]_vars
  PROVE  FlushInv'
  <1>1. ASSUME NEW t \in Threads, Calls(t) PROVE FlushInv'
    BY <1>1, CallsFlushInv
  <1>2. ASSUME NEW t \in Threads, Send(t) PROVE FlushInv'
    BY <1>2, SendFlushInv
  <1>3. ASSUME NEW t \in Threads, FlushTimeout(t) PROVE FlushInv'
    BY <1>3, FlushTimeoutFlushInv
  <1>4. CASE DropBatcher \/ DropSend \/ DropJoin
    BY <1>4, DropFlushInv
  <1>5. CASE Command
    BY <1>5, CommandFlushInv
  <1>6. CASE Tick
    BY <1>6, TickFlushInv
  <1>7. ASSUME NEW e \in Entities, VisitEntity(e) PROVE FlushInv'
    BY <1>7, VisitEntityFlushInv
  <1>8. ASSUME NEW chunk \in backlog, SendChunk(chunk) PROVE FlushInv'
    BY <1>8, SendChunkFlushInv
  <1>9. CASE FlushDone
    BY <1>9, FlushDoneFlushInv
  <1>10. CASE Exit \/ TickFires \/ UNCHANGED vars
    BY <1>10, FlushFrame DEF Exit, TickFires, vars, callers, loop
  <1>11. ASSUME NEW c \in Consumers, Subscribe(c) \/ Consume(c) \/ Close(c) PROVE FlushInv'
    BY <1>11, FlushFrame DEF Subscribe, Consume, Close, callers, loop
  <1> QED BY <1>1, <1>2, <1>3, <1>4, <1>5, <1>6, <1>7, <1>8, <1>9, <1>10, <1>11
          DEF Next, Flushing

-----------------------------------------------------------------------------
(* Theorems *)

\* What batcher.rs keeps in every reachable state: types, one command per call,
\* rows in order through the five places, sorted chunks, and whoever waits for a
\* flush has what it waits for ahead of that flush.
THEOREM BatcherInvariant == Spec => [](BatchInv /\ FlushInv)
  <1>1. Init => BatchInv /\ FlushInv
    BY InitBatchInv, InitFlushInv
  <1>2. BatchInv /\ FlushInv /\ [Next]_vars => (BatchInv /\ FlushInv)'
    BY NextBatchInv, NextFlushInv DEF FlushInv
  <1> QED BY <1>1, <1>2, PTL DEF Spec

\* A set of rows with distinct ids has as many ids as rows.
LEMMA IdsCounted ==
  ASSUME NEW S \in SUBSET Rows, \A r, s \in S : r.id = s.id => r = s
  PROVE  Cardinality(Ids(S)) = Cardinality(S)
  <1>1. Ids(S) \subseteq 1..MaxRows
    BY RowIds DEF Ids
  <1>2. IsFiniteSet(1..MaxRows)
    BY FS_Interval, BatcherAssumption
  <1>3. IsFiniteSet(Ids(S))
    BY <1>1, <1>2, FS_Subset
  <1> DEFINE g == [n \in Ids(S) |-> CHOOSE r \in S : r.id = n]
  <1>4. g \in Bijection(Ids(S), S)
    <2>1. \A n \in Ids(S) : g[n] \in S /\ g[n].id = n
      BY DEF Ids
    <2>2. \A r \in S : r.id \in Ids(S) /\ g[r.id] = r
      <3>1. \A r \in S : r.id \in Ids(S)
        BY DEF Ids
      <3> HIDE DEF g
      <3> QED BY <2>1, <3>1
    <2>3. g \in [Ids(S) -> S]
      BY <2>1
    <2> HIDE DEF g
    <2> QED BY <2>1, <2>2, <2>3 DEF Bijection, Injection, Surjection, IsInjective
  <1>5. ExistsBijection(Ids(S), S)
    BY <1>4 DEF ExistsBijection
  <1> QED BY <1>3, <1>5, FS_Bijection

\* Nothing is sent twice: push_row's row is in one place of the pipeline only, in
\* its call, in the command channel, in pending_rows, in the running flush or in
\* the output channel, and no two rows in flight share an id.
THEOREM BatcherExactlyOnce == Spec => []ExactlyOnce
  <1>1. BatchInv => ExactlyOnce
    <2> SUFFICES ASSUME BatchInv PROVE ExactlyOnce
      OBVIOUS
    <2> DEFINE All == Upstream \cup Out
    <2>1. /\ All \subseteq Rows /\ Sending \subseteq All /\ Queued \subseteq All
          /\ Pending \subseteq All /\ Batched \subseteq All /\ Out \subseteq All
      BY PlacesType DEF BatchInv, Upstream
    <2>2. InOrder(Sending, Queued, Pending, Batched, Out)
      BY DEF BatchInv, RowsInOrder
    <2>3. All = Sending \cup Queued \cup Pending \cup Batched \cup Out
      BY DEF Upstream
    <2>4. \A r, s \in All : r.id = s.id => r = s
      BY <2>2, <2>3 DEF InOrder
    <2>5. \A r \in All : ~(r.id < r.id)
      BY <2>1, RowIds, IntOrder
    <2>6. \A r \in Pending : ~r.whole
      BY DEF BatchInv, AccInv, Pending
    <2> HIDE DEF All
    <2>7. Cardinality(Ids(All)) = Cardinality(All)
      BY <2>1, <2>4, IdsCounted
    <2>8. Sending \cap (Queued \cup Pending \cup Batched \cup Out) = {}
      BY <2>1, <2>2, <2>5 DEF InOrder, Older
    <2>9. Queued \cap (Pending \cup Batched \cup Out) = {}
      BY <2>1, <2>2, <2>5 DEF InOrder, Older
    <2>10. Pending \cap (Batched \cup Out) = {}
      BY <2>1, <2>2, <2>5, <2>6 DEF InOrder
    <2>11. Batched \cap Out = {}
      BY <2>1, <2>2, <2>5 DEF InOrder, Kin
    <2> QED BY <2>7, <2>8, <2>9, <2>10, <2>11 DEF ExactlyOnce, Upstream, All
  <1> QED BY <1>1, BatcherInvariant, PTL

\* Rows that a thread logs one after the other, for the same entity and with the
\* same timelines and datatypes, leave the batcher in that order, whatever
\* flushes, ticks and other threads come in between.
THEOREM BatcherPerThreadOrder == Spec => []PerThreadOrder
  <1>1. BatchInv => PerThreadOrder
    <2> SUFFICES ASSUME BatchInv, NEW r1 \in Upstream \cup Out, NEW r2 \in Upstream \cup Out,
                        r1.by = r2.by, r1.entity = r2.entity, r1.shape = r2.shape,
                        ~r1.whole, ~r2.whole, r1.id < r2.id
                 PROVE  /\ r1 \in Sending => r2 \in Sending
                        /\ r1 \in Queued => r2 \in Queued \cup Sending
                        /\ r1 \in Pending => r2 \notin Batched \cup Out
                        /\ r1 \in Batched => r2 \notin Out
                        /\ \A i, j \in 1..Len(out) :
                             \A k \in 1..Len(out[i]), l \in 1..Len(out[j]) :
                                out[i][k] = r1 /\ out[j][l] = r2
                                  => i < j \/ (i = j /\ k < l)
      BY DEF PerThreadOrder
    <2>1. InOrder(Sending, Queued, Pending, Batched, Out)
      BY DEF BatchInv, RowsInOrder
    <2>2. r1.id \in Int /\ r2.id \in Int
      BY PlacesType, RowIds DEF BatchInv, Upstream
    <2>3. ~(r2.id < r1.id)
      BY <2>2, IntOrder
    <2>4. r2 \in Sending \cup Queued \cup Pending \cup Batched \cup Out
      BY DEF Upstream
    <2>5. r1 \in Sending => r2 \in Sending
      BY <2>1, <2>3, <2>4 DEF InOrder, Older
    <2>6. r1 \in Queued => r2 \in Queued \cup Sending
      BY <2>1, <2>3, <2>4 DEF InOrder, Older
    <2>7. r1 \in Pending => r2 \notin Batched \cup Out
      BY <2>1, <2>3 DEF InOrder
    <2>8. Kin(r1, r2) /\ Kin(r2, r1)
      <3>1. r1 \in Rows /\ r2 \in Rows
        BY PlacesType DEF BatchInv, Upstream
      <3>2. r1.whole = FALSE /\ r2.whole = FALSE
        BY <3>1 DEF Rows
      <3> QED BY <3>2 DEF Kin
    <2>9. r1 \in Batched => r2 \notin Out
      BY <2>1, <2>3, <2>8 DEF InOrder
    <2>10. \A i, j \in 1..Len(out) : \A k \in 1..Len(out[i]), l \in 1..Len(out[j]) :
              out[i][k] = r1 /\ out[j][l] = r2 => i < j \/ (i = j /\ k < l)
      BY <2>8 DEF BatchInv, OutInv
    <2> QED BY <2>5, <2>6, <2>7, <2>9, <2>10
  <1> QED BY <1>1, BatcherInvariant, PTL

\* flush_blocking that returns Ok has seen every row of its thread, logged before
\* the call, batched and sent down the output channel.
THEOREM BatcherFlushGuarantee == Spec => []FlushGuarantee
  <1>1. FlushInv => FlushGuarantee
    BY DEF FlushInv
  <1> QED BY <1>1, BatcherInvariant, PTL

\* A row with components leaves the pipeline only through the output channel, at
\* shutdown too, while somebody holds a receiver: no interleaving of calls,
\* flushes, ticks and configuration changes loses one.
THEOREM BatcherNoRowVanishes == Spec => NoRowVanishes
  <1> DEFINE Kept == Receivers => \A r \in Upstream :
                        r \in Upstream' \/ r \in Out' \/ r.shape = Empty
  <1>1. BatchInv /\ [Next]_vars => [Kept]_vars
    <2> SUFFICES ASSUME BatchInv, Next PROVE Kept
      OBVIOUS
    <2>0. TypeOK /\ CallInv
      BY DEF BatchInv
    <2>1. CASE UNCHANGED <<cmds, accs, backlog>> /\ Sending \subseteq Sending'
      <3>1. UNCHANGED <<Queued, Pending, Batched>>
        BY <2>1 DEF Queued, Pending, Batched
      <3> QED BY <2>1, <3>1 DEF Upstream
    <2>2. ASSUME NEW t \in Threads, Calls(t) PROVE Kept
      <3>1. PICK c : Call(t, c)
        BY <2>2 DEF Calls, Push, FlushAsync, FlushBlocking, UpdateConfig
      <3>2. cmd[t] = Idle /\ \A u \in Threads \ {t} : cmd'[u] = cmd[u]
        BY <2>0, <3>1 DEF Call, CallInv, TypeOK
      <3>3. Sending \subseteq Sending'
        BY <3>2, RowOfType DEF Sending
      <3> QED BY <2>1, <3>1, <3>3 DEF Call, loop
    <2>3. ASSUME NEW t \in Threads, Send(t) PROVE Kept
      <3>1. cmd[t] \in Commands
        BY <2>0, <2>3 DEF Send, CallInv, TypeOK
      <3>2. Queued' = Queued \cup RowOf(cmd[t])
        BY <2>0, <2>3, <3>1, EnqueuedAhead DEF Send
      <3>3. \A u \in Threads \ {t} : cmd'[u] = cmd[u]
        BY <2>0, <2>3 DEF Send, TypeOK
      <3>4. Sending \subseteq Sending' \cup RowOf(cmd[t])
        BY <3>3 DEF Sending
      <3>5. UNCHANGED <<Pending, Batched>>
        BY <2>3 DEF Send, loop, Pending, Batched
      <3> QED BY <3>2, <3>4, <3>5 DEF Upstream
    <2>4. ASSUME NEW t \in Threads, FlushTimeout(t) PROVE Kept
      <3>1. /\ cmds' \in Seq(Commands) /\ cmds \in Seq(Commands) /\ Len(cmds') = Len(cmds)
            /\ \A i \in 1..Len(cmds) : RowOf(cmds'[i]) = RowOf(cmds[i])
        BY <2>0, <2>4, DisownedFacts DEF TypeOK
      <3>2. DOMAIN cmds = 1..Len(cmds) /\ DOMAIN cmds' = 1..Len(cmds)
        BY <3>1, LenProperties
      <3>3. Queued' = Queued
        BY <3>1, <3>2 DEF Queued, Range
      <3>4. UNCHANGED <<Sending, Pending, Batched>>
        BY <2>4 DEF FlushTimeout, Sending, Pending, Batched
      <3> QED BY <3>3, <3>4 DEF Upstream
    <2>5. CASE DropSend
      <3> DEFINE c == [op |-> "Shutdown"]
      <3>1. c \in Commands /\ cmds' = Append(cmds, c)
        BY <2>5 DEF Commands, DropSend
      <3> HIDE DEF c
      <3>2. Queued \subseteq Queued'
        BY <2>0, <3>1, EnqueuedAhead
      <3>3. UNCHANGED <<Sending, Pending, Batched>>
        BY <2>5 DEF DropSend, loop, Sending, Pending, Batched
      <3> QED BY <3>2, <3>3 DEF Upstream
    <2>6. CASE Command
      BY <2>6, CommandRows DEF Upstream
    <2>7. ASSUME NEW e \in Entities, VisitEntity(e) PROVE Kept
      <3>1. /\ Pending' = Pending \ Range(accs[e]) /\ Batched = {}
            /\ Batched' = {r \in Range(accs[e]) : r.shape # Empty}
        BY <2>7, VisitEntityBatchInv DEF Batched, VisitEntity
      <3>2. UNCHANGED <<Sending, Queued>>
        BY <2>7 DEF VisitEntity, callers, Sending, Queued
      <3> QED BY <3>1, <3>2 DEF Upstream
    <2>8. ASSUME NEW chunk \in backlog, SendChunk(chunk) PROVE Kept
      <3>1. UNCHANGED <<Sending, Queued, Pending>>
        BY <2>8 DEF SendChunk, Sending, Queued, Pending
      <3>2. \A r \in Batched : r \in Batched' \/ r \in Range(chunk)
        BY <2>8 DEF SendChunk, Batched
      <3>3. Receivers => Range(chunk) \subseteq Out'
        BY <2>8, SentInOrder DEF SendChunk
      <3> QED BY <3>1, <3>2, <3>3 DEF Upstream
    <2>9. CASE DropBatcher \/ DropJoin \/ Tick \/ FlushDone \/ Exit \/ TickFires
      <3>1. UNCHANGED <<cmd, cmds, accs, backlog>>
        BY <2>9 DEF DropBatcher, DropJoin, Tick, StartFlush, FlushDone, Exit, TickFires,
                    callers, loop
      <3>2. Sending' = Sending
        BY <3>1 DEF Sending
      <3> QED BY <2>1, <3>1, <3>2
    <2>10. ASSUME NEW c \in Consumers, Subscribe(c) \/ Consume(c) \/ Close(c) PROVE Kept
      <3>1. UNCHANGED <<cmd, cmds, accs, backlog>>
        BY <2>10 DEF Subscribe, Consume, Close, callers, loop
      <3>2. Sending' = Sending
        BY <3>1 DEF Sending
      <3> QED BY <2>1, <3>1, <3>2
    <2> QED BY <2>2, <2>3, <2>4, <2>5, <2>6, <2>7, <2>8, <2>9, <2>10 DEF Next, Flushing
  <1> QED BY <1>1, BatcherInvariant, PTL DEF Spec, NoRowVanishes
=============================================================================
