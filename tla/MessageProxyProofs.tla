------------------------- MODULE MessageProxyProofs -------------------------
(***************************************************************************)
(* Proofs about MessageProxy for any clients, server options, workloads    *)
(* and capacities.  How large a queue is (Total) plays no part in them:    *)
(* the theorems hold wherever the GC stops popping.                        *)
(***************************************************************************)
EXTENDS MessageProxy, SequenceTheorems, WellFoundedInduction, NaturalsInduction, TLAPS

Increasing(q) == \A i, j \in 1..Len(q) : i < j => q[i].id < q[j].id
Distinct(q) == \A i, j \in 1..Len(q) : q[i].id = q[j].id => i = j

\* The id of the message that was broadcast last.
LastId == IF handled = <<>> THEN 0 ELSE handled[Len(handled)].id

\* The loop broadcasts the messages in the order they were written, each once.
LoopInv ==
    /\ Increasing(handled)
    /\ LastId <= written
    /\ loop = "broadcast" => LastId < current.id /\ current.id <= written
    /\ loop = "store" => handled # <<>> /\ current = handled[Len(handled)]

\* The messages that wait for the loop are newer than those it has taken.
EventsInv ==
    /\ \A i \in 1..Len(events) : events[i].type = "Message" =>
          /\ LastId < events[i].msg.id /\ events[i].msg.id <= written
          /\ loop = "broadcast" => current.id < events[i].msg.id
    /\ \A i, j \in 1..Len(events) :
          i < j /\ events[i].type = "Message" /\ events[j].type = "Message"
            => events[i].msg.id < events[j].msg.id

\* A queue of the buffer holds messages of its class that were broadcast, but
\* not the one that is about to be stored, in order.
QueueInv(q, k) ==
    /\ Increasing(q)
    /\ \A i \in 1..Len(q) :
          /\ q[i] \in ToSet(handled)
          /\ q[i].id <= LastId
          /\ Class(q[i]) = k
          /\ loop = "store" => q[i].id < current.id

BufferInv ==
    /\ QueueInv(persistent, "persistent")
    /\ QueueInv(static_, "static")
    /\ QueueInv(disposable, "disposable")

\* What was sent to a client, what it will read of the history and what waits
\* in its subscription are distinct, and all of it was broadcast.
ClientInv ==
    \A c \in Clients :
        /\ Distinct(received[c]) /\ Distinct(hist[c]) /\ Distinct(chan[c])
        /\ Ids(received[c]) \cap Ids(hist[c]) = {}
        /\ Ids(received[c]) \cap Ids(chan[c]) = {}
        /\ Ids(hist[c]) \cap Ids(chan[c]) = {}
        /\ \A n \in Ids(received[c]) \cup Ids(hist[c]) \cup Ids(chan[c]) : n <= LastId
        /\ cpc[c] \in {"off", "waiting"} =>
              received[c] = <<>> /\ hist[c] = <<>> /\ chan[c] = <<>>

IndInv ==
    /\ TypeOK
    /\ LoopInv
    /\ EventsInv
    /\ BufferInv
    /\ ClientInv
    /\ OldestDroppedFirst
    /\ PersistentReachesAll

-----------------------------------------------------------------------------
(* Sequences of messages *)

LEMMA AppendFacts ==
  ASSUME NEW q \in Seq(Message), NEW m \in Message
  PROVE  /\ Append(q, m) \in Seq(Message)
         /\ Ids(Append(q, m)) = Ids(q) \cup {m.id}
         /\ ToSet(Append(q, m)) = ToSet(q) \cup {m}
         /\ Distinct(q) /\ m.id \notin Ids(q) => Distinct(Append(q, m))
         /\ Increasing(q) /\ (\A i \in 1..Len(q) : q[i].id < m.id)
               => Increasing(Append(q, m))
  <1> DEFINE a == Append(q, m)
             N == Len(q)
  <1>1. /\ a \in Seq(Message) /\ Len(a) = N + 1 /\ N \in Nat
        /\ a[N + 1] = m /\ \A i \in 1..N : a[i] = q[i]
        /\ DOMAIN a = 1..(N + 1) /\ DOMAIN q = 1..N
    OBVIOUS
  <1>2. \A i \in 1..(N + 1) : i \in 1..N \/ i = N + 1
    BY <1>1
  <1>3. 1..N \subseteq 1..(N + 1) /\ N + 1 \in 1..(N + 1)
    BY <1>1
  <1> HIDE DEF a
  <1>4. Ids(a) = Ids(q) \cup {m.id}
    BY <1>1, <1>2, <1>3 DEF Ids
  <1>5. ToSet(a) = ToSet(q) \cup {m}
    BY <1>1, <1>2, <1>3 DEF ToSet
  <1>6. ASSUME Distinct(q), m.id \notin Ids(q) PROVE Distinct(a)
    BY <1>1, <1>2, <1>6 DEF Distinct, Ids
  <1>7. ASSUME Increasing(q), \A i \in 1..Len(q) : q[i].id < m.id PROVE Increasing(a)
    BY <1>1, <1>2, <1>7 DEF Increasing
  <1> QED
    BY <1>1, <1>4, <1>5, <1>6, <1>7 DEF a

LEMMA ConcatFacts ==
  ASSUME NEW p \in Seq(Message), NEW q \in Seq(Message)
  PROVE  /\ p \o q \in Seq(Message)
         /\ Ids(p \o q) = Ids(p) \cup Ids(q)
         /\ Distinct(p) /\ Distinct(q) /\ Ids(p) \cap Ids(q) = {} => Distinct(p \o q)
  <1> DEFINE a == p \o q
             M == Len(p)
             N == Len(q)
  <1>1. /\ a \in Seq(Message) /\ Len(a) = M + N /\ M \in Nat /\ N \in Nat
        /\ \A i \in 1..M : a[i] = p[i]
        /\ \A i \in 1..N : a[M + i] = q[i]
    OBVIOUS
  <1>2. ASSUME NEW i \in 1..(M + N), i \notin 1..M
        PROVE  /\ i - M \in 1..N /\ M + (i - M) = i /\ a[i] = q[i - M]
    <2>1. i - M \in 1..N /\ M + (i - M) = i
      BY <1>1, <1>2
    <2> QED
      BY <1>1, <2>1
  <1>3. \A i \in 1..M : i \in 1..(M + N)
    BY <1>1
  <1>4. \A i \in 1..N : M + i \in 1..(M + N)
    BY <1>1
  <1> HIDE DEF a
  <1>5. Ids(a) \subseteq Ids(p) \cup Ids(q)
    <2> SUFFICES ASSUME NEW i \in 1..(M + N)
                 PROVE  a[i].id \in Ids(p) \cup Ids(q)
      BY <1>1 DEF Ids
    <2>1. CASE i \in 1..M
      BY <1>1, <2>1 DEF Ids
    <2>2. CASE i \notin 1..M
      BY <1>2, <2>2 DEF Ids
    <2> QED
      BY <2>1, <2>2
  <1>6. Ids(p) \cup Ids(q) \subseteq Ids(a)
    BY <1>1, <1>3, <1>4 DEF Ids
  <1>7. ASSUME Distinct(p), Distinct(q), Ids(p) \cap Ids(q) = {},
               NEW i \in 1..(M + N), NEW j \in 1..(M + N), a[i].id = a[j].id
        PROVE  i = j
    <2>1. CASE i \in 1..M /\ j \in 1..M
      BY <1>1, <1>7, <2>1 DEF Distinct
    <2>2. CASE i \notin 1..M /\ j \notin 1..M
      <3>1. q[i - M].id = q[j - M].id /\ i - M \in 1..N /\ j - M \in 1..N
        BY <1>2, <1>7, <2>2
      <3>2. i - M = j - M
        BY <1>7, <3>1 DEF Distinct
      <3> QED
        BY <3>2, <1>1
    <2>3. CASE i \in 1..M /\ j \notin 1..M
      <3>1. a[i].id \in Ids(p) /\ a[j].id \in Ids(q)
        BY <1>1, <1>2, <2>3 DEF Ids
      <3> QED
        BY <1>7, <3>1
    <2>4. CASE i \notin 1..M /\ j \in 1..M
      <3>1. a[j].id \in Ids(p) /\ a[i].id \in Ids(q)
        BY <1>1, <1>2, <2>4 DEF Ids
      <3> QED
        BY <1>7, <3>1
    <2> QED
      BY <2>1, <2>2, <2>3, <2>4
  <1>8. ASSUME Distinct(p), Distinct(q), Ids(p) \cap Ids(q) = {} PROVE Distinct(a)
    BY <1>1, <1>7, <1>8 DEF Distinct
  <1> QED
    BY <1>1, <1>5, <1>6, <1>8 DEF a

LEMMA TailFacts ==
  ASSUME NEW q \in Seq(Message), q # <<>>
  PROVE  /\ Tail(q) \in Seq(Message) /\ Head(q) \in Message
         /\ Ids(q) = Ids(Tail(q)) \cup {Head(q).id}
         /\ Distinct(q) => Distinct(Tail(q)) /\ Head(q).id \notin Ids(Tail(q))
  <1> DEFINE t == Tail(q)
             N == Len(q)
  <1>1. /\ t \in Seq(Message) /\ Head(q) \in Message /\ Head(q) = q[1]
        /\ N \in Nat /\ 1 \in 1..N /\ Len(t) = N - 1
        /\ \A i \in 1..(N - 1) : t[i] = q[i + 1]
    OBVIOUS
  <1>2. \A i \in 1..(N - 1) : i + 1 \in 1..N /\ i + 1 # 1
    BY <1>1
  <1>3. ASSUME NEW i \in 1..N, i # 1
        PROVE  i - 1 \in 1..(N - 1) /\ t[i - 1] = q[i]
    <2>1. i - 1 \in 1..(N - 1) /\ (i - 1) + 1 = i
      BY <1>1, <1>3
    <2> QED
      BY <1>1, <2>1
  <1> HIDE DEF t
  <1>4. Ids(q) = Ids(t) \cup {Head(q).id}
    <2>1. Ids(q) \subseteq Ids(t) \cup {Head(q).id}
      BY <1>1, <1>3 DEF Ids
    <2>2. Ids(t) \cup {Head(q).id} \subseteq Ids(q)
      BY <1>1, <1>2 DEF Ids
    <2> QED
      BY <2>1, <2>2
  <1>5. ASSUME Distinct(q) PROVE Distinct(t) /\ Head(q).id \notin Ids(t)
    <2>1. \A i, j \in 1..(N - 1) : t[i].id = t[j].id => i + 1 = j + 1
      BY <1>1, <1>2, <1>5 DEF Distinct
    <2>2. Distinct(t)
      BY <1>1, <2>1 DEF Distinct
    <2>3. Head(q).id \notin Ids(t)
      BY <1>1, <1>2, <1>5 DEF Distinct, Ids
    <2> QED
      BY <2>2, <2>3
  <1> QED
    BY <1>1, <1>4, <1>5 DEF t

LEMMA ReverseFacts ==
  ASSUME NEW q \in Seq(Message)
  PROVE  /\ Reverse(q) \in Seq(Message)
         /\ Ids(Reverse(q)) = Ids(q)
         /\ Distinct(q) => Distinct(Reverse(q))
  <1> DEFINE r == Reverse(q)
             N == Len(q)
  <1>1. N \in Nat /\ \A i \in 1..N : N - i + 1 \in 1..N /\ N - (N - i + 1) + 1 = i
    OBVIOUS
  <1>2. /\ r \in Seq(Message) /\ Len(r) = N
        /\ \A i \in 1..N : r[i] = q[N - i + 1]
    BY <1>1 DEF Reverse
  <1>3. \A i \in 1..N : q[i] = r[N - i + 1]
    BY <1>1, <1>2
  <1> HIDE DEF r
  <1>4. Ids(r) = Ids(q)
    <2>1. Ids(r) \subseteq Ids(q)
      BY <1>1, <1>2 DEF Ids
    <2>2. Ids(q) \subseteq Ids(r)
      <3> SUFFICES ASSUME NEW i \in 1..N
                   PROVE  q[i].id \in Ids(r)
        BY DEF Ids
      <3>1. N - i + 1 \in 1..N
        BY <1>1
      <3>2. q[i] = r[N - i + 1]
        BY <1>3
      <3> QED
        BY <3>1, <3>2, <1>2 DEF Ids
    <2> QED
      BY <2>1, <2>2
  <1>5. ASSUME Distinct(q), NEW i \in 1..N, NEW j \in 1..N, r[i].id = r[j].id
        PROVE  i = j
    <2>1. /\ N - i + 1 \in 1..N /\ N - j + 1 \in 1..N
          /\ q[N - i + 1].id = q[N - j + 1].id
      BY <1>1, <1>2, <1>5
    <2>2. N - i + 1 = N - j + 1
      BY <1>5, <2>1 DEF Distinct
    <2> QED
      BY <2>2, <1>1
  <1>6. ASSUME Distinct(q) PROVE Distinct(r)
    BY <1>2, <1>5, <1>6 DEF Distinct
  <1> QED
    BY <1>2, <1>4, <1>6 DEF r

LEMMA IncreasingDistinct ==
  ASSUME NEW q \in Seq(Message), Increasing(q)
  PROVE  Distinct(q)
  <1> SUFFICES ASSUME NEW i \in 1..Len(q), NEW j \in 1..Len(q), q[i].id = q[j].id
               PROVE  i = j
    BY DEF Distinct
  <1>1. q[i].id \in Int /\ q[j].id \in Int
    <2>1. q[i] \in Message /\ q[j] \in Message
      OBVIOUS
    <2> QED
      BY <2>1, ProxyAssumption DEF Message
  <1>2. ~(i < j) /\ ~(j < i)
    BY <1>1 DEF Increasing
  <1> QED
    BY <1>2

\* What a GC leaves of a queue is one of its ends.
LEMMA PopLeavesEnd ==
  ASSUME NEW q \in Seq(Message), NEW size
  PROVE  \E n \in 0..Len(q) : PopUntilBelow(q, size) = SubSeq(q, n + 1, Len(q))
  <1> DEFINE After(n) == SubSeq(q, n + 1, Len(q))
             Enough == {n \in 1..Len(q) : size + Total(After(n)) < options.memory_limit}
  <1>1. PopUntilBelow(q, size)
           = IF Enough = {} THEN <<>>
             ELSE After(CHOOSE n \in Enough : \A m \in Enough : n <= m)
    BY DEF PopUntilBelow
  <1>2. Enough \subseteq 1..Len(q) /\ Len(q) \in Nat
    OBVIOUS
  <1> HIDE DEF Enough
  <1>3. CASE Enough = {}
    <2>1. <<>> = SubSeq(q, Len(q) + 1, Len(q)) /\ Len(q) \in 0..Len(q)
      OBVIOUS
    <2> QED
      BY <1>1, <1>3, <2>1
  <1>4. CASE Enough # {}
    <2>1. Enough \subseteq Nat
      BY <1>2
    <2>2. \E x \in Enough : \A y \in Enough : ~(<<y, x>> \in OpToRel(<, Nat))
      BY <1>4, <2>1, NatLessThanWellFounded, WFMin
    <2>3. PICK x \in Enough : \A y \in Enough : ~(y < x)
      BY <2>1, <2>2 DEF OpToRel
    <2>4. \E n \in Enough : \A m \in Enough : n <= m
      BY <2>1, <2>3
    <2>5. (CHOOSE n \in Enough : \A m \in Enough : n <= m) \in Enough
      BY <2>4
    <2>6. Enough \subseteq 0..Len(q)
      BY <1>2
    <2> QED
      BY <1>1, <1>4, <2>5, <2>6
  <1> QED
    BY <1>3, <1>4

\* An end of a queue is in order, and a message that is missing from it is older
\* than all that are in it.
LEMMA EndFacts ==
  ASSUME NEW q \in Seq(Message), NEW n \in 0..Len(q), Increasing(q)
  PROVE  LET e == SubSeq(q, n + 1, Len(q))
         IN  /\ e \in Seq(Message) /\ Increasing(e)
             /\ ToSet(e) \subseteq ToSet(q)
             /\ \A i \in 1..Len(e) : \E j \in 1..Len(q) : e[i] = q[j]
             /\ \A m \in ToSet(e), o \in ToSet(q) : m.id <= o.id => o \in ToSet(e)
  <1> DEFINE e == SubSeq(q, n + 1, Len(q))
             N == Len(q)
  <1>0. N \in Nat /\ n \in Nat /\ n <= N
    OBVIOUS
  <1>1. /\ e \in Seq(Message) /\ Len(e) = N - n
        /\ \A i \in 1..(N - n) : e[i] = q[n + i]
        /\ DOMAIN e = 1..(N - n) /\ DOMAIN q = 1..N
    OBVIOUS
  <1> HIDE DEF N
  <1>2. \A i \in 1..(N - n) : n + i \in 1..N
    BY <1>0
  <1>3. ASSUME NEW j \in 1..N, n < j
        PROVE  j - n \in 1..(N - n) /\ e[j - n] = q[j]
    <2>1. j - n \in 1..(N - n) /\ n + (j - n) = j
      BY <1>0, <1>3
    <2> QED
      BY <1>1, <2>1
  <1>4. \A j \in 1..N : q[j].id \in Int
    <2>1. \A j \in 1..N : q[j] \in Message
      BY DEF N
    <2> QED
      BY <2>1, ProxyAssumption DEF Message
  <1> HIDE DEF e
  <1>5. Increasing(e)
    <2> SUFFICES ASSUME NEW i \in 1..(N - n), NEW j \in 1..(N - n), i < j
                 PROVE  e[i].id < e[j].id
      BY <1>1 DEF Increasing
    <2>1. n + i \in 1..N /\ n + j \in 1..N /\ n + i < n + j
      BY <1>0, <1>2
    <2> QED
      BY <1>1, <2>1 DEF Increasing, N
  <1>6. \A i \in 1..Len(e) : \E j \in 1..N : e[i] = q[j]
    BY <1>1, <1>2
  <1>7. ToSet(e) \subseteq ToSet(q)
    BY <1>1, <1>6 DEF ToSet
  <1>8. ASSUME NEW m \in ToSet(e), NEW o \in ToSet(q), m.id <= o.id
        PROVE  o \in ToSet(e)
    <2>1. PICK i \in 1..(N - n) : m = q[n + i]
      BY <1>1 DEF ToSet
    <2>2. PICK j \in 1..N : o = q[j]
      BY <1>1 DEF ToSet
    <2>3. ~(j < n + i)
      BY <2>1, <2>2, <1>2, <1>4, <1>8 DEF Increasing, N
    <2>4. n < j
      BY <2>3, <1>0
    <2> QED
      BY <2>2, <2>4, <1>1, <1>3 DEF ToSet
  <1> QED
    BY <1>1, <1>5, <1>6, <1>7, <1>8 DEF e, N

-----------------------------------------------------------------------------
(* Consequences of the invariant *)

LEMMA OptionTypes ==
  ASSUME TypeOK
  PROVE  /\ options.kinds \subseteq AllKinds /\ options.sizes \subseteq Nat
         /\ options.messages \in 0..MaxMessages /\ MaxMessages \in Nat
         /\ options.messages \in Nat /\ written \in Nat
  BY ProxyAssumption DEF TypeOK

LEMMA MessageIds ==
  ASSUME NEW m \in Message
  PROVE  m.id \in 1..MaxMessages /\ m.id \in Nat /\ m.id # 0 /\ m.kind \in AllKinds
  BY ProxyAssumption DEF Message

\* What is stored is what will be handed out: the message of the current step
\* is a message.
LEMMA CurrentMessage ==
  ASSUME IndInv, loop \in {"broadcast", "store"}
  PROVE  current \in Message
  <1>1. CASE loop = "broadcast"
    <2>1. LastId \in Nat
      <3>1. handled \in Seq(Message)
        BY DEF IndInv, TypeOK
      <3>2. CASE handled = <<>>
        BY <3>2 DEF LastId
      <3>3. CASE handled # <<>>
        <4>1. handled[Len(handled)] \in Message
          BY <3>1, <3>3
        <4> QED
          BY <4>1, <3>3, MessageIds DEF LastId
      <3> QED
        BY <3>2, <3>3
    <2>2. LastId < current.id
      BY <1>1 DEF IndInv, LoopInv
    <2>3. current # NoMessage
      BY <2>1, <2>2 DEF NoMessage
    <2> QED
      BY <2>3 DEF IndInv, TypeOK
  <1>2. CASE loop = "store"
    <2>1. handled \in Seq(Message) /\ handled # <<>> /\ current = handled[Len(handled)]
      BY <1>2 DEF IndInv, TypeOK, LoopInv
    <2> QED
      BY <2>1
  <1> QED
    BY <1>1, <1>2

LEMMA HandledUpToLast ==
  ASSUME IndInv
  PROVE  /\ LastId \in Nat
         /\ \A i \in 1..Len(handled) : handled[i] \in Message /\ handled[i].id <= LastId
         /\ \A i \in 1..(Len(handled) - 1) : handled[i].id < LastId
         /\ \A m \in ToSet(handled) : m \in Message /\ m.id <= LastId
  <1> DEFINE N == Len(handled)
  <1>1. handled \in Seq(Message) /\ N \in Nat /\ DOMAIN handled = 1..N
    BY DEF IndInv, TypeOK
  <1>2. \A i \in 1..N : handled[i] \in Message
    BY <1>1
  <1>3. CASE handled = <<>>
    <2>1. LastId = 0 /\ N = 0
      BY <1>3 DEF LastId
    <2> QED
      BY <2>1, <1>1 DEF ToSet
  <1>4. CASE handled # <<>>
    <2>1. N # 0 /\ N \in 1..N /\ LastId = handled[N].id
      BY <1>1, <1>4 DEF LastId
    <2>2. LastId \in Nat
      BY <2>1, <1>2, MessageIds
    <2>3. \A i \in 1..(N - 1) : i \in 1..N /\ i < N
      BY <1>1
    <2>4. \A i \in 1..(N - 1) : handled[i].id < LastId
      BY <2>1, <2>3 DEF IndInv, LoopInv, Increasing
    <2>5. ASSUME NEW i \in 1..N PROVE handled[i].id <= LastId
      <3>1. handled[i] \in Message
        BY <1>2
      <3>3. handled[i].id \in Nat
        BY <3>1, MessageIds
      <3>2. i = N \/ i \in 1..(N - 1)
        <4>1. N \in Nat
          BY <1>1
        <4> HIDE DEF N
        <4> QED
          BY <4>1
      <3> QED
        BY <3>2, <3>3, <2>1, <2>2, <2>4
    <2> QED
      BY <2>2, <2>4, <2>5, <1>1, <1>2 DEF ToSet
  <1> QED
    BY <1>3, <1>4

\* The GC leaves an end of each of the two queues it pops from.
LEMMA GcLeavesEnds ==
  ASSUME IndInv
  PROVE  /\ \E n \in 0..Len(static_) : GcStatic = SubSeq(static_, n + 1, Len(static_))
         /\ \E n \in 0..Len(disposable) :
               GcDisposable = SubSeq(disposable, n + 1, Len(disposable))
  <1>1. static_ \in Seq(Message) /\ disposable \in Seq(Message)
    BY DEF IndInv, TypeOK
  <1>2. \A q \in Seq(Message) : 0 \in 0..Len(q) /\ q = SubSeq(q, 0 + 1, Len(q))
    OBVIOUS
  <1>3. GcStatic = static_ \/ GcStatic = PopUntilBelow(static_, Total(persistent) + Total(GcDisposable))
    BY DEF GcStatic
  <1>4. GcDisposable = disposable
           \/ GcDisposable = PopUntilBelow(disposable, Total(persistent) + Total(static_))
    BY DEF GcDisposable
  <1>5. \E n \in 0..Len(static_) : GcStatic = SubSeq(static_, n + 1, Len(static_))
    BY <1>1, <1>2, <1>3, PopLeavesEnd
  <1>6. \E n \in 0..Len(disposable) :
           GcDisposable = SubSeq(disposable, n + 1, Len(disposable))
    BY <1>1, <1>2, <1>4, PopLeavesEnd
  <1> QED
    BY <1>5, <1>6

\* What a new client is sent has no id twice and only ids that were broadcast;
\* all persistent messages are in it.
LEMMA HistoryFacts ==
  ASSUME IndInv
  PROVE  /\ History \in Seq(Message) /\ Distinct(History)
         /\ \A n \in Ids(History) : n <= LastId
         /\ Ids(persistent) \subseteq Ids(History)
  <1> DEFINE Same(p, q) == p \in Seq(Message) /\ Distinct(p) /\ Ids(p) = Ids(q)
  <1>1. /\ persistent \in Seq(Message) /\ static_ \in Seq(Message)
        /\ disposable \in Seq(Message)
    BY DEF IndInv, TypeOK
  <1>2. Distinct(persistent) /\ Distinct(static_) /\ Distinct(disposable)
    BY <1>1, IncreasingDistinct DEF IndInv, BufferInv, QueueInv
  <1>3. \A n \in Ids(persistent) \cup Ids(static_) \cup Ids(disposable) : n <= LastId
    BY DEF IndInv, BufferInv, QueueInv, Ids
  <1>4. /\ Ids(persistent) \cap Ids(static_) = {}
        /\ Ids(persistent) \cap Ids(disposable) = {}
        /\ Ids(static_) \cap Ids(disposable) = {}
    <2>1. \A m, o \in ToSet(handled) : m.id = o.id => m = o
      <3>1. handled \in Seq(Message) /\ DOMAIN handled = 1..Len(handled)
        BY DEF IndInv, TypeOK
      <3>2. Distinct(handled)
        BY <3>1, IncreasingDistinct DEF IndInv, LoopInv
      <3> QED
        BY <3>1, <3>2 DEF Distinct, ToSet
    <2>2. ASSUME NEW p, NEW q, NEW k, NEW l, QueueInv(p, k), QueueInv(q, l), k # l
          PROVE  Ids(p) \cap Ids(q) = {}
      <3> SUFFICES ASSUME NEW i \in 1..Len(p), NEW j \in 1..Len(q), p[i].id = q[j].id
                   PROVE  FALSE
        BY DEF Ids
      <3>1. p[i] = q[j]
        BY <2>1, <2>2 DEF QueueInv
      <3> QED
        BY <3>1, <2>2 DEF QueueInv
    <2> QED
      BY <2>2 DEF IndInv, BufferInv
  <1>5. ASSUME NEW p, NEW s, NEW d,
               Same(p, persistent), Same(s, static_), Same(d, disposable)
        PROVE  /\ p \o s \o d \in Seq(Message) /\ Distinct(p \o s \o d)
               /\ Ids(p \o s \o d) = Ids(persistent) \cup Ids(static_) \cup Ids(disposable)
    <2>1. /\ p \o s \in Seq(Message) /\ Ids(p \o s) = Ids(p) \cup Ids(s)
          /\ Distinct(p \o s)
      BY <1>4, <1>5, ConcatFacts
    <2>2. Ids(p \o s) \cap Ids(d) = {}
      <3>1. Ids(p \o s) = Ids(persistent) \cup Ids(static_) /\ Ids(d) = Ids(disposable)
        BY <1>5, <2>1
      <3> QED
        BY <3>1, <1>4, Zenon
    <2>3. d \in Seq(Message) /\ Distinct(d) /\ Ids(d) = Ids(disposable)
      BY <1>5
    <2>4. /\ p \o s \o d \in Seq(Message) /\ Distinct(p \o s \o d)
          /\ Ids(p \o s \o d) = Ids(p \o s) \cup Ids(d)
      BY <2>1, <2>2, <2>3, ConcatFacts
    <2> QED
      BY <1>5, <2>1, <2>3, <2>4
  <1>6. \/ History = persistent \o static_ \o disposable
        \/ History = Reverse(persistent) \o Reverse(static_) \o Reverse(disposable)
    BY DEF History
  <1>7. Same(persistent, persistent) /\ Same(static_, static_) /\ Same(disposable, disposable)
    BY <1>1, <1>2
  <1>8. /\ Same(Reverse(persistent), persistent) /\ Same(Reverse(static_), static_)
        /\ Same(Reverse(disposable), disposable)
    BY <1>1, <1>2, ReverseFacts
  <1> HIDE DEF Same
  <1>9. /\ History \in Seq(Message) /\ Distinct(History)
        /\ Ids(History) = Ids(persistent) \cup Ids(static_) \cup Ids(disposable)
    BY <1>5, <1>6, <1>7, <1>8
  <1> QED
    BY <1>3, <1>9

-----------------------------------------------------------------------------
(* The parts of the invariant that a step does not touch *)

LEMMA LoopKept ==
  ASSUME LoopInv, UNCHANGED <<handled, loop, current, written>>
  PROVE  LoopInv'
  BY DEF LoopInv, Increasing, LastId

LEMMA EventsKept ==
  ASSUME EventsInv, UNCHANGED <<events, handled, loop, current, written>>
  PROVE  EventsInv'
  BY DEF EventsInv, LastId

LEMMA BufferKept ==
  ASSUME BufferInv, OldestDroppedFirst,
         UNCHANGED <<options, handled, buffer>>,
         loop' # "store", loop # "store" \/ UNCHANGED <<loop, current>>
  PROVE  BufferInv' /\ OldestDroppedFirst'
  <1>1. BufferInv'
    BY DEF BufferInv, QueueInv, LastId, Increasing, buffer, Class
  <1>2. OldestDroppedFirst'
    BY DEF OldestDroppedFirst, NewestOf, buffer, Class
  <1> QED
    BY <1>1, <1>2

LEMMA BufferSame ==
  ASSUME BufferInv, OldestDroppedFirst,
         UNCHANGED <<options, handled, buffer, loop, current>>
  PROVE  BufferInv' /\ OldestDroppedFirst'
  <1>1. BufferInv'
    BY DEF BufferInv, QueueInv, LastId, Increasing, buffer, Class
  <1>2. OldestDroppedFirst'
    BY DEF OldestDroppedFirst, NewestOf, buffer, Class
  <1> QED
    BY <1>1, <1>2

LEMMA ClientsKept ==
  ASSUME ClientInv, PersistentReachesAll,
         UNCHANGED <<options, handled, received, hist, chan>>,
         \A c \in Clients :
            /\ cpc'[c] \in {"off", "waiting"} => cpc[c] \in {"off", "waiting"}
            /\ cpc'[c] = "streaming" => cpc[c] = "streaming"
  PROVE  ClientInv' /\ PersistentReachesAll'
  <1>1. ClientInv'
    BY DEF ClientInv, LastId
  <1>2. PersistentReachesAll'
    BY DEF PersistentReachesAll
  <1> QED
    BY <1>1, <1>2

\* Taking the head of the event queue.
LEMMA EventTaken ==
  ASSUME IndInv, events # <<>>, events' = Tail(events)
  PROVE  /\ Head(events) \in Event /\ Head(events) = events[1]
         /\ events' \in Seq(Event) /\ Len(events') <= EventCap
         /\ Len(events') \in Nat /\ 1 \in 1..Len(events)
         /\ \A i \in 1..Len(events') :
               /\ i + 1 \in 1..Len(events) /\ 1 < i + 1
               /\ events'[i] = events[i + 1]
  <1>1. events \in Seq(Event) /\ Len(events) <= EventCap /\ Len(events) \in Nat
    BY DEF IndInv, TypeOK
  <1>2. /\ Head(events) \in Event /\ Head(events) = events[1]
        /\ events' \in Seq(Event) /\ Len(events') = Len(events) - 1 /\ Len(events) # 0
        /\ \A i \in 1..Len(events') : events'[i] = events[i + 1]
    BY <1>1
  <1>3. EventCap \in Nat
    BY ProxyAssumption
  <1> QED
    BY <1>1, <1>2, <1>3

\* An event joins the queue.
LEMMA EventQueued ==
  ASSUME IndInv, NEW e \in Event, Len(events) < EventCap, events' = Append(events, e)
  PROVE  /\ events' \in Seq(Event) /\ Len(events') <= EventCap
         /\ Len(events') = Len(events) + 1 /\ events'[Len(events) + 1] = e
         /\ \A i \in 1..Len(events) : events'[i] = events[i]
         /\ \A i \in 1..Len(events') : i \in 1..Len(events) \/ i = Len(events) + 1
  <1>1. events \in Seq(Event) /\ Len(events) \in Nat
    BY DEF IndInv, TypeOK
  <1>2. /\ events' \in Seq(Event) /\ Len(events') = Len(events) + 1
        /\ events'[Len(events) + 1] = e
        /\ \A i \in 1..Len(events) : events'[i] = events[i]
    BY <1>1
  <1>3. EventCap \in Nat
    BY ProxyAssumption
  <1> QED
    BY <1>1, <1>2, <1>3

-----------------------------------------------------------------------------

LEMMA InitIndInv == Init => IndInv
  <1> SUFFICES ASSUME Init PROVE IndInv
    OBVIOUS
  <1> USE DEF Init
  <1>1. TypeOK
    <2>1. events \in Seq(Event) /\ Len(events) <= EventCap
      BY ProxyAssumption
    <2>2. options.messages \in Nat
      BY ProxyAssumption
    <2>3. written \in 0..options.messages
      BY <2>2
    <2>4. cpc \in [Clients -> {"off", "waiting", "cancelled", "streaming", "gone"}]
      OBVIOUS
    <2>5. /\ hist \in [Clients -> Seq(Message)] /\ chan \in [Clients -> Seq(Message)]
          /\ received \in [Clients -> Seq(Message)] /\ since \in [Clients -> Nat]
      OBVIOUS
    <2>6. answer \in [1..MaxMessages -> Requests \cup {"no", "Some", "None", "timeout"}]
      OBVIOUS
    <2>7. wait \in {"no", "full", "parked"} /\ warned \in BOOLEAN
      OBVIOUS
    <2>8. inbox \in Seq(Message) /\ inspecting \subseteq 1..MaxMessages
      OBVIOUS
    <2>9. notifier \in 0..MaxMessages /\ shots \in Nat
      BY ProxyAssumption
    <2> QED
      BY <2>1, <2>3, <2>4, <2>5, <2>6, <2>7, <2>8, <2>9 DEF TypeOK
  <1>2. LoopInv /\ EventsInv
    BY DEF LoopInv, EventsInv, LastId, Increasing
  <1>3. BufferInv /\ OldestDroppedFirst
    BY DEF BufferInv, QueueInv, OldestDroppedFirst, NewestOf, Increasing, ToSet
  <1>4. ClientInv
    <2>1. Ids(<<>>) = {} /\ Distinct(<<>>)
      BY DEF Ids, Distinct
    <2> QED
      BY <2>1 DEF ClientInv
  <1>5. PersistentReachesAll
    BY DEF PersistentReachesAll
  <1> QED
    BY <1>1, <1>2, <1>3, <1>4, <1>5 DEF IndInv

LEMMA WriteIndInv ==
  ASSUME IndInv, NEW k \in options.kinds, NEW z \in options.sizes, Write(k, z)
  PROVE  IndInv'
  <1> DEFINE m == [id |-> written + 1, kind |-> k, size |-> z]
             e == [type |-> "Message", msg |-> m]
  <1>0. /\ written < options.messages /\ Len(events) < EventCap
        /\ written' = written + 1 /\ events' = Append(events, e)
        /\ answer' = IF k \in Requests THEN [answer EXCEPT ![written + 1] = k] ELSE answer
        /\ UNCHANGED <<options, loop, current, sendVars, buffer, clientVars, handled, viewerVars>>
    BY DEF Write
  <1>1. TypeOK
    BY DEF IndInv
  <1>2. /\ written \in Nat /\ options.messages \in Nat
        /\ written + 1 \in 1..MaxMessages /\ written + 1 \in 0..options.messages
    BY <1>0, <1>1, OptionTypes
  <1>3. m \in Message /\ e \in Event
    BY <1>1, <1>2, OptionTypes DEF Message, Event
  <1>4. /\ events' \in Seq(Event) /\ Len(events') <= EventCap
        /\ Len(events') = Len(events) + 1 /\ events'[Len(events) + 1] = e
        /\ \A i \in 1..Len(events) : events'[i] = events[i]
        /\ \A i \in 1..Len(events') : i \in 1..Len(events) \/ i = Len(events) + 1
    BY <1>0, <1>3, EventQueued
  <1>5. TypeOK'
    <2>1. answer' \in [1..MaxMessages -> Requests \cup {"no", "Some", "None", "timeout"}]
      BY <1>0, <1>1, <1>2 DEF TypeOK
    <2> QED
      BY <1>0, <1>1, <1>2, <1>4, <2>1 DEF TypeOK, buffer, clientVars, sendVars, viewerVars
  <1>6. LastId' = LastId /\ LastId \in Nat
    BY <1>0, HandledUpToLast DEF LastId
  <1>7. loop = "broadcast" => current.id \in Nat
    BY CurrentMessage, MessageIds
  <1>8. LoopInv'
    BY <1>0, <1>2, <1>6, <1>7 DEF IndInv, LoopInv, Increasing
  <1>9. EventsInv'
    <2>1. \A i \in 1..Len(events) : events[i].type = "Message" => events[i].msg.id \in Nat
      <3> SUFFICES ASSUME NEW i \in 1..Len(events), events[i].type = "Message"
                   PROVE  events[i].msg.id \in Nat
        OBVIOUS
      <3>1. events[i] \in Event
        BY <1>1 DEF TypeOK
      <3>2. events[i].msg \in Message
        BY <3>1 DEF Event
      <3> QED
        BY <3>2, MessageIds
    <2>2. LastId < written + 1 /\ (loop = "broadcast" => current.id < written + 1)
      BY <1>2, <1>6, <1>7 DEF IndInv, LoopInv
    <2>3. events'[Len(events) + 1].msg.id = written + 1
      BY <1>4
    <2>4. Len(events) \in Nat
      BY <1>1 DEF TypeOK
    <2>5. ASSUME NEW i \in 1..Len(events'), events'[i].type = "Message"
          PROVE  /\ LastId' < events'[i].msg.id /\ events'[i].msg.id <= written'
                 /\ loop' = "broadcast" => current'.id < events'[i].msg.id
      <3>1. CASE i = Len(events) + 1
        BY <3>1, <1>0, <1>2, <1>6, <2>2, <2>3
      <3>2. CASE i \in 1..Len(events)
        BY <2>5, <3>2, <1>0, <1>2, <1>4, <1>6, <2>1 DEF IndInv, EventsInv
      <3> QED
        BY <3>1, <3>2, <1>4
    <2>6. ASSUME NEW i \in 1..Len(events'), NEW j \in 1..Len(events'), i < j,
                 events'[i].type = "Message", events'[j].type = "Message"
          PROVE  events'[i].msg.id < events'[j].msg.id
      <3>1. i \in 1..Len(events)
        BY <2>4, <2>6, <1>4
      <3>2. CASE j = Len(events) + 1
        BY <3>1, <3>2, <2>1, <2>3, <2>6, <1>2, <1>4 DEF IndInv, EventsInv
      <3>3. CASE j \in 1..Len(events)
        BY <3>1, <3>3, <2>6, <1>4 DEF IndInv, EventsInv
      <3> QED
        BY <3>2, <3>3, <1>4
    <2> QED
      BY <2>5, <2>6 DEF EventsInv
  <1>10. BufferInv' /\ OldestDroppedFirst'
    BY <1>0, BufferSame DEF IndInv
  <1>11. ClientInv' /\ PersistentReachesAll'
    BY <1>0, ClientsKept DEF IndInv, clientVars
  <1> QED
    BY <1>5, <1>8, <1>9, <1>10, <1>11 DEF IndInv

LEMMA TakeMessageIndInv ==
  ASSUME IndInv, TakeMessage
  PROVE  IndInv'
  <1>0. /\ loop = "recv" /\ events # <<>> /\ Head(events).type = "Message"
        /\ current' = Head(events).msg /\ events' = Tail(events) /\ loop' = "broadcast"
        /\ UNCHANGED <<options, sendVars, buffer, written, clientVars, handled, answer,
                       viewerVars>>
    BY DEF TakeMessage
  <1>1. /\ Head(events) \in Event /\ Head(events) = events[1]
        /\ events' \in Seq(Event) /\ Len(events') <= EventCap
        /\ Len(events') \in Nat /\ 1 \in 1..Len(events)
        /\ \A i \in 1..Len(events') :
              /\ i + 1 \in 1..Len(events) /\ 1 < i + 1
              /\ events'[i] = events[i + 1]
    BY <1>0, EventTaken
  <1>2. current' \in Message
    BY <1>0, <1>1 DEF Event
  <1>3. TypeOK'
    BY <1>0, <1>1, <1>2 DEF IndInv, TypeOK, buffer, clientVars, sendVars, viewerVars
  <1>4. LastId' = LastId
    BY <1>0 DEF LastId
  <1>5. LoopInv'
    BY <1>0, <1>1, <1>4 DEF IndInv, LoopInv, EventsInv, Increasing
  <1>6. EventsInv'
    <2>1. ASSUME NEW i \in 1..Len(events'), events'[i].type = "Message"
          PROVE  /\ LastId' < events'[i].msg.id /\ events'[i].msg.id <= written'
                 /\ loop' = "broadcast" => current'.id < events'[i].msg.id
      BY <2>1, <1>0, <1>1, <1>4 DEF IndInv, EventsInv
    <2>2. ASSUME NEW i \in 1..Len(events'), NEW j \in 1..Len(events'), i < j,
                 events'[i].type = "Message", events'[j].type = "Message"
          PROVE  events'[i].msg.id < events'[j].msg.id
      <3>1. i + 1 < j + 1
        BY <2>2
      <3> QED
        BY <2>2, <3>1, <1>1 DEF IndInv, EventsInv
    <2> QED
      BY <2>1, <2>2 DEF EventsInv
  <1>7. BufferInv' /\ OldestDroppedFirst'
    BY <1>0, BufferKept DEF IndInv
  <1>8. ClientInv' /\ PersistentReachesAll'
    BY <1>0, ClientsKept DEF IndInv, clientVars
  <1> QED
    BY <1>3, <1>5, <1>6, <1>7, <1>8 DEF IndInv

LEMMA BroadcastIndInv ==
  ASSUME IndInv, Broadcast
  PROVE  IndInv'
  <1> DEFINE N == Len(handled)
  <1>0. /\ loop = "broadcast" /\ loop' = "store"
        /\ chan' = [c \in Clients |->
                      IF c \in Subscribed THEN Append(chan[c], current) ELSE chan[c]]
        /\ handled' = Append(handled, current)
        /\ warned' = FALSE
        /\ UNCHANGED <<options, events, current, wait, buffer, written, cpc, hist, received,
                       since, answer, viewerVars>>
    BY DEF Broadcast
  <1>1. TypeOK /\ current \in Message /\ handled \in Seq(Message) /\ N \in Nat
    BY <1>0, CurrentMessage DEF IndInv, TypeOK
  <1>2. /\ handled' \in Seq(Message) /\ Len(handled') = N + 1 /\ handled'[N + 1] = current
        /\ \A i \in 1..N : handled'[i] = handled[i]
        /\ \A i \in 1..(N + 1) : i \in 1..N \/ i = N + 1
    BY <1>0, <1>1
  <1>3. LastId' = current.id
    <2>1. handled' # <<>>
      BY <1>1, <1>2
    <2> QED
      BY <1>2, <2>1 DEF LastId
  <1>4. LastId \in Nat /\ current.id \in Nat /\ LastId < current.id
    BY <1>0, <1>1, HandledUpToLast, MessageIds DEF IndInv, LoopInv
  <1>5. \A i \in 1..N : handled[i].id < current.id
    <2> SUFFICES ASSUME NEW i \in 1..N PROVE handled[i].id < current.id
      OBVIOUS
    <2>1. handled[i] \in Message /\ handled[i].id <= LastId
      BY HandledUpToLast
    <2> QED
      BY <2>1, <1>4, MessageIds
  <1>6. /\ chan' \in [Clients -> Seq(Message)]
        /\ \A c \in Clients : chan[c] \in Seq(Message) /\ Append(chan[c], current) \in Seq(Message)
    BY <1>0, <1>1, AppendFacts DEF TypeOK
  <1>7. TypeOK'
    BY <1>0, <1>1, <1>2, <1>6 DEF TypeOK, buffer, viewerVars
  <1>8. LoopInv'
    <2>1. Increasing(handled')
      BY <1>0, <1>1, <1>5, AppendFacts DEF IndInv, LoopInv
    <2>2. handled' # <<>>
      BY <1>1, <1>2
    <2> QED
      BY <2>1, <2>2, <1>0, <1>2, <1>3 DEF IndInv, LoopInv
  <1>9. EventsInv'
    BY <1>0, <1>3 DEF IndInv, EventsInv
  <1>10. ToSet(handled') = ToSet(handled) \cup {current}
    BY <1>0, <1>1, AppendFacts
  <1>11. BufferInv'
    <2>1. ASSUME NEW q \in Seq(Message), NEW k, QueueInv(q, k), NEW i \in 1..Len(q)
          PROVE  /\ q[i] \in ToSet(handled') /\ q[i].id < current.id
                 /\ q[i].id <= current.id
      <3>1. q[i] \in Message /\ q[i].id <= LastId
        BY <2>1 DEF QueueInv
      <3>2. q[i].id \in Nat
        BY <3>1, MessageIds
      <3> QED
        BY <2>1, <3>1, <3>2, <1>4, <1>10 DEF QueueInv
    <2>2. UNCHANGED <<persistent, static_, disposable>>
      BY <1>0 DEF buffer
    <2>3. ASSUME NEW q \in Seq(Message), NEW k, QueueInv(q, k)
          PROVE  /\ Increasing(q)
                 /\ \A i \in 1..Len(q) :
                       /\ q[i] \in ToSet(handled') /\ q[i].id <= LastId'
                       /\ Class(q[i]) = k /\ q[i].id < current'.id
      BY <2>1, <2>3, <1>0, <1>3 DEF QueueInv
    <2> QED
      <3>1. /\ QueueInv(persistent, "persistent") /\ persistent \in Seq(Message)
            /\ QueueInv(static_, "static") /\ static_ \in Seq(Message)
            /\ QueueInv(disposable, "disposable") /\ disposable \in Seq(Message)
        BY <1>1 DEF IndInv, BufferInv, TypeOK
      <3>2. QueueInv(persistent, "persistent")'
        BY <2>2, <2>3, <3>1 DEF QueueInv
      <3>3. QueueInv(static_, "static")'
        BY <2>2, <2>3, <3>1 DEF QueueInv
      <3>4. QueueInv(disposable, "disposable")'
        BY <2>2, <2>3, <3>1 DEF QueueInv
      <3> QED
        BY <3>2, <3>3, <3>4 DEF BufferInv
  <1>12. OldestDroppedFirst'
    <2>1. \A m \in ToSet(handled) : m.id # current.id
      <3> SUFFICES ASSUME NEW m \in ToSet(handled) PROVE m.id # current.id
        OBVIOUS
      <3>1. m \in Message /\ m.id <= LastId
        BY HandledUpToLast
      <3> QED
        BY <3>1, <1>4, MessageIds
    <2>2. {m \in ToSet(handled') : loop' = "store" => m.id # current'.id}
             = {m \in ToSet(handled) : loop = "store" => m.id # current.id}
      BY <1>0, <1>10, <2>1
    <2> QED
      BY <2>2, <1>0 DEF IndInv, OldestDroppedFirst, NewestOf, buffer, Class
  <1>13. ClientInv'
    <2> SUFFICES ASSUME NEW c \in Clients
                 PROVE  /\ Distinct(received[c]) /\ Distinct(hist[c]) /\ Distinct(chan'[c])
                        /\ Ids(received[c]) \cap Ids(hist[c]) = {}
                        /\ Ids(received[c]) \cap Ids(chan'[c]) = {}
                        /\ Ids(hist[c]) \cap Ids(chan'[c]) = {}
                        /\ \A n \in Ids(received[c]) \cup Ids(hist[c]) \cup Ids(chan'[c]) :
                              n <= current.id
                        /\ cpc[c] \in {"off", "waiting"} =>
                              received[c] = <<>> /\ hist[c] = <<>> /\ chan'[c] = <<>>
      BY <1>0, <1>3 DEF ClientInv
    <2>1. \A n \in Ids(received[c]) \cup Ids(hist[c]) \cup Ids(chan[c]) :
             n <= LastId /\ n \in Nat
      <3>1. \A q \in Seq(Message) : \A n \in Ids(q) : n \in Nat
        <4> SUFFICES ASSUME NEW q \in Seq(Message), NEW i \in 1..Len(q)
                     PROVE  q[i].id \in Nat
          BY DEF Ids
        <4>1. q[i] \in Message
          OBVIOUS
        <4> QED
          BY <4>1, MessageIds
      <3> QED
        BY <3>1, <1>1 DEF IndInv, ClientInv, TypeOK
    <2>2. \A n \in Ids(received[c]) \cup Ids(hist[c]) \cup Ids(chan[c]) :
             n # current.id /\ n <= current.id
      BY <2>1, <1>4
    <2>3. CASE c \in Subscribed
      <3>1. chan'[c] = Append(chan[c], current) /\ cpc[c] = "streaming"
        BY <2>3, <1>0 DEF Subscribed
      <3>2. Ids(chan'[c]) = Ids(chan[c]) \cup {current.id} /\ Distinct(chan'[c])
        BY <3>1, <2>2, <1>1, <1>6, AppendFacts DEF IndInv, ClientInv
      <3>3. /\ Distinct(received[c]) /\ Distinct(hist[c])
            /\ Ids(received[c]) \cap Ids(hist[c]) = {}
            /\ Ids(received[c]) \cap Ids(chan[c]) = {}
            /\ Ids(hist[c]) \cap Ids(chan[c]) = {}
        BY DEF IndInv, ClientInv
      <3>4. /\ Ids(received[c]) \cap Ids(chan'[c]) = {}
            /\ Ids(hist[c]) \cap Ids(chan'[c]) = {}
        BY <3>2, <3>3, <2>2
      <3>5. \A n \in Ids(received[c]) \cup Ids(hist[c]) \cup Ids(chan'[c]) : n <= current.id
        BY <3>2, <2>2, <1>4
      <3> QED
        BY <3>1, <3>2, <3>3, <3>4, <3>5
    <2>4. CASE c \notin Subscribed
      <3>1. chan'[c] = chan[c]
        BY <2>4, <1>0
      <3> QED
        BY <3>1, <2>2 DEF IndInv, ClientInv
    <2> QED
      BY <2>3, <2>4
  <1>14. PersistentReachesAll'
    <2> SUFFICES ASSUME options.memory_limit # 0, NEW c \in Clients \ Local,
                        cpc[c] = "streaming", NEW i \in 1..(N + 1),
                        handled'[i].kind = "persistent"
                 PROVE  handled'[i].id \in Ids(received[c] \o hist[c] \o chan'[c])
      BY <1>0, <1>2 DEF PersistentReachesAll
    <2>1. chan'[c] = Append(chan[c], current)
      BY <1>0 DEF Subscribed
    <2>2. received[c] \in Seq(Message) /\ hist[c] \in Seq(Message) /\ chan[c] \in Seq(Message)
      BY <1>1 DEF TypeOK
    <2>3. /\ received[c] \o hist[c] \in Seq(Message)
          /\ Append(chan[c], current) \in Seq(Message)
          /\ Ids(Append(chan[c], current)) = Ids(chan[c]) \cup {current.id}
      BY <2>2, <1>1, ConcatFacts, AppendFacts
    <2>4. /\ Ids(received[c] \o hist[c] \o chan'[c])
                = Ids(received[c] \o hist[c]) \cup Ids(chan[c]) \cup {current.id}
          /\ Ids(received[c] \o hist[c] \o chan[c])
                = Ids(received[c] \o hist[c]) \cup Ids(chan[c])
      <3>1. Ids(received[c] \o hist[c] \o chan'[c])
               = Ids(received[c] \o hist[c]) \cup Ids(Append(chan[c], current))
        BY <2>1, <2>3, ConcatFacts
      <3>2. Ids(received[c] \o hist[c] \o chan[c])
               = Ids(received[c] \o hist[c]) \cup Ids(chan[c])
        BY <2>2, <2>3, ConcatFacts
      <3> QED
        BY <3>1, <3>2, <2>3
    <2>5. CASE i = N + 1
      BY <2>4, <2>5, <1>2
    <2>6. CASE i \in 1..N
      BY <2>4, <2>6, <1>2 DEF IndInv, PersistentReachesAll
    <2> QED
      BY <2>5, <2>6, <1>2
  <1> QED
    BY <1>7, <1>8, <1>9, <1>11, <1>12, <1>13, <1>14 DEF IndInv

\* A queue after the GC and add_msg: still in order, still without holes.
LEMMA StoredQueue ==
  ASSUME IndInv, loop = "store", NEW q \in Seq(Message), NEW k, QueueInv(q, k),
         NEW n \in 0..Len(q)
  PROVE  LET r == AddTo(SubSeq(q, n + 1, Len(q)), k)
             stored == {m \in ToSet(handled) : loop = "store" => m.id # current.id}
         IN  /\ r \in Seq(Message) /\ Increasing(r)
             /\ \A i \in 1..Len(r) : /\ r[i] \in ToSet(handled) /\ r[i].id <= LastId
                                     /\ Class(r[i]) = k
             /\ NewestOf(q, {m \in stored : Class(m) = k})
                   => NewestOf(r, {m \in ToSet(handled) : Class(m) = k})
             /\ n = 0 /\ {m \in stored : Class(m) = k} \subseteq ToSet(q)
                   => {m \in ToSet(handled) : Class(m) = k} \subseteq ToSet(r)
  <1> DEFINE e == SubSeq(q, n + 1, Len(q))
             r == AddTo(e, k)
             stored == {m \in ToSet(handled) : loop = "store" => m.id # current.id}
  <1>1. /\ e \in Seq(Message) /\ Increasing(e)
        /\ ToSet(e) \subseteq ToSet(q)
        /\ \A i \in 1..Len(e) : \E j \in 1..Len(q) : e[i] = q[j]
        /\ \A m \in ToSet(e), o \in ToSet(q) : m.id <= o.id => o \in ToSet(e)
    BY EndFacts DEF QueueInv
  <1>2. n = 0 => e = q
    OBVIOUS
  <1>3. current \in Message /\ current \in ToSet(handled) /\ current.id = LastId
    <2>1. handled # <<>> /\ current = handled[Len(handled)] /\ handled \in Seq(Message)
      BY DEF IndInv, LoopInv, TypeOK
    <2>2. Len(handled) \in DOMAIN handled
      BY <2>1
    <2> QED
      BY <2>1, <2>2, CurrentMessage DEF LastId, ToSet
  <1>4. \A m \in ToSet(handled) : m.id = current.id => m = current
    <2>1. handled \in Seq(Message) /\ DOMAIN handled = 1..Len(handled)
      BY DEF IndInv, TypeOK
    <2>2. Distinct(handled)
      BY <2>1, IncreasingDistinct DEF IndInv, LoopInv
    <2> QED
      BY <2>1, <2>2, <1>3 DEF Distinct, ToSet
  <1>5. \A i \in 1..Len(e) : /\ e[i] \in ToSet(handled) /\ e[i].id <= LastId
                             /\ Class(e[i]) = k /\ e[i].id < current.id
    BY <1>1 DEF QueueInv
  <1> HIDE DEF e
  <1>6. \/ r = e /\ Class(current) # k
        \/ r = Append(e, current) /\ Class(current) = k
    BY DEF AddTo
  <1>7. LastId \in Nat /\ LastId <= LastId
    BY HandledUpToLast
  <1> HIDE DEF r
  <1>8. /\ r \in Seq(Message) /\ Increasing(r)
        /\ ToSet(r) = IF Class(current) = k THEN ToSet(e) \cup {current} ELSE ToSet(e)
    <2>1. CASE r = e /\ Class(current) # k
      BY <2>1, <1>1
    <2>2. CASE r = Append(e, current) /\ Class(current) = k
      <3>1. \A i \in 1..Len(e) : e[i].id < current.id
        BY <1>5
      <3>2. /\ Append(e, current) \in Seq(Message)
            /\ ToSet(Append(e, current)) = ToSet(e) \cup {current}
            /\ Increasing(Append(e, current))
        BY <3>1, <1>1, <1>3, AppendFacts
      <3> QED
        BY <3>2, <2>2
    <2> QED
      BY <2>1, <2>2, <1>6
  <1>9. ASSUME NEW i \in 1..Len(r)
        PROVE  r[i] \in ToSet(handled) /\ r[i].id <= LastId /\ Class(r[i]) = k
    <2>1. CASE r = e
      BY <2>1, <1>5, <1>9
    <2>2. CASE r = Append(e, current) /\ Class(current) = k
      <3>1. (i \in 1..Len(e) /\ r[i] = e[i]) \/ r[i] = current
        BY <2>2, <1>1, <1>3
      <3> QED
        BY <3>1, <2>2, <1>3, <1>5, <1>7
    <2> QED
      BY <2>1, <2>2, <1>6
  <1>10. ASSUME NewestOf(q, {m \in stored : Class(m) = k})
         PROVE  NewestOf(r, {m \in ToSet(handled) : Class(m) = k})
    <2>1. ToSet(r) \subseteq {m \in ToSet(handled) : Class(m) = k}
      BY <1>8, <1>9 DEF ToSet
    <2>2. ASSUME NEW m \in ToSet(r), NEW o \in ToSet(handled), Class(o) = k, m.id <= o.id
          PROVE  o \in ToSet(r)
      <3>1. CASE o.id = current.id
        BY <3>1, <1>4, <1>8, <2>2
      <3>2. CASE o.id # current.id
        <4>1. o \in Message /\ o.id <= LastId /\ o.id \in Nat
          BY HandledUpToLast, MessageIds
        <4>2. m # current
          BY <4>1, <3>2, <2>2, <1>3, <1>7
        <4>3. m \in ToSet(e) /\ m \in ToSet(q)
          BY <4>2, <1>1, <1>8
        <4>4. o \in stored
          BY <3>2
        <4>5. o \in ToSet(q)
          BY <4>3, <4>4, <2>2, <1>10 DEF NewestOf
        <4> QED
          BY <4>3, <4>5, <2>2, <1>1, <1>8
      <3> QED
        BY <3>1, <3>2
    <2> QED
      BY <2>1, <2>2, <1>8 DEF NewestOf, Increasing
  <1>11. ASSUME n = 0, {m \in stored : Class(m) = k} \subseteq ToSet(q),
                NEW o \in ToSet(handled), Class(o) = k
         PROVE  o \in ToSet(r)
    BY <1>2, <1>4, <1>8, <1>11
  <1> QED
    BY <1>8, <1>9, <1>10, <1>11 DEF r, e

LEMMA StoreIndInv ==
  ASSUME IndInv, Store
  PROVE  IndInv'
  <1> DEFINE stored == {m \in ToSet(handled) : loop = "store" => m.id # current.id}
  <1>0. /\ loop = "store" /\ loop' = "recv" /\ current' = NoMessage
        /\ UNCHANGED <<options, events, sendVars, written, clientVars, handled, answer,
                       viewerVars>>
    BY DEF Store
  <1>1. LastId' = LastId
    BY <1>0 DEF LastId
  <1>2. LoopInv' /\ EventsInv'
    BY <1>0, <1>1 DEF IndInv, LoopInv, EventsInv, Increasing
  <1>3. ClientInv' /\ PersistentReachesAll'
    BY <1>0, ClientsKept DEF IndInv, clientVars
  <1>4. NoMessage \in Message \cup {NoMessage}
    OBVIOUS
  <1>5. CASE options.memory_limit = 0
    <2>1. UNCHANGED <<persistent, static_, disposable>>
      BY <1>0, <1>5 DEF Store, buffer
    <2>2. TypeOK'
      BY <1>0, <1>4, <2>1 DEF IndInv, TypeOK, clientVars, sendVars, viewerVars
    <2>3. BufferInv'
      BY <1>0, <1>1, <2>1 DEF IndInv, BufferInv, QueueInv
    <2>4. OldestDroppedFirst'
      BY <1>0, <1>5 DEF OldestDroppedFirst
    <2> QED
      BY <1>2, <1>3, <2>2, <2>3, <2>4 DEF IndInv
  <1>6. CASE options.memory_limit # 0
    <2>1. /\ persistent' = AddTo(persistent, "persistent")
          /\ static_' = AddTo(GcStatic, "static")
          /\ disposable' = AddTo(GcDisposable, "disposable")
      BY <1>6 DEF Store
    <2>2. /\ persistent \in Seq(Message) /\ QueueInv(persistent, "persistent")
          /\ static_ \in Seq(Message) /\ QueueInv(static_, "static")
          /\ disposable \in Seq(Message) /\ QueueInv(disposable, "disposable")
      BY DEF IndInv, TypeOK, BufferInv
    <2>3. /\ NewestOf(persistent, {m \in stored : Class(m) = "persistent"})
          /\ {m \in stored : Class(m) = "persistent"} \subseteq ToSet(persistent)
          /\ NewestOf(static_, {m \in stored : Class(m) = "static"})
          /\ NewestOf(disposable, {m \in stored : Class(m) = "disposable"})
      BY <1>6 DEF IndInv, OldestDroppedFirst
    <2>4. 0 \in 0..Len(persistent) /\ persistent = SubSeq(persistent, 0 + 1, Len(persistent))
      BY <2>2
    <2>5. PICK s \in 0..Len(static_) : GcStatic = SubSeq(static_, s + 1, Len(static_))
      BY GcLeavesEnds
    <2>6. PICK d \in 0..Len(disposable) :
             GcDisposable = SubSeq(disposable, d + 1, Len(disposable))
      BY GcLeavesEnds
    <2> DEFINE Fine(q, k) ==
           /\ q \in Seq(Message) /\ Increasing(q)
           /\ \A i \in 1..Len(q) : /\ q[i] \in ToSet(handled) /\ q[i].id <= LastId
                                   /\ Class(q[i]) = k
           /\ NewestOf(q, {m \in ToSet(handled) : Class(m) = k})
    <2>7. /\ Fine(persistent', "persistent")
          /\ {m \in ToSet(handled) : Class(m) = "persistent"} \subseteq ToSet(persistent')
      <3>1. persistent' = AddTo(SubSeq(persistent, 0 + 1, Len(persistent)), "persistent")
        BY <2>1, <2>4
      <3> QED
        BY <1>0, <2>2, <2>3, <2>4, <3>1, StoredQueue
    <2>8. Fine(static_', "static")
      BY <1>0, <2>1, <2>2, <2>3, <2>5, StoredQueue
    <2>9. Fine(disposable', "disposable")
      BY <1>0, <2>1, <2>2, <2>3, <2>6, StoredQueue
    <2>10. TypeOK'
      BY <1>0, <1>4, <2>7, <2>8, <2>9 DEF IndInv, TypeOK, clientVars, sendVars, viewerVars
    <2>11. BufferInv'
      <3>1. QueueInv(persistent, "persistent")'
        BY <1>0, <1>1, <2>7 DEF QueueInv
      <3>2. QueueInv(static_, "static")'
        BY <1>0, <1>1, <2>8 DEF QueueInv
      <3>3. QueueInv(disposable, "disposable")'
        BY <1>0, <1>1, <2>9 DEF QueueInv
      <3> QED
        BY <3>1, <3>2, <3>3 DEF BufferInv
    <2>12. OldestDroppedFirst'
      <3>1. {m \in ToSet(handled') : loop' = "store" => m.id # current'.id} = ToSet(handled)
        BY <1>0
      <3> QED
        BY <3>1, <2>7, <2>8, <2>9 DEF OldestDroppedFirst, NewestOf
    <2> QED
      BY <1>2, <1>3, <2>10, <2>11, <2>12 DEF IndInv
  <1> QED
    BY <1>5, <1>6

LEMMA ServeClientIndInv ==
  ASSUME IndInv, ServeClient
  PROVE  IndInv'
  <1> DEFINE c == Head(events).client
  <1>0. /\ loop = "recv" /\ events # <<>> /\ Head(events).type = "NewClient"
        /\ events' = Tail(events)
        /\ UNCHANGED <<options, loop, current, sendVars, buffer, written, chan, received,
                       handled, answer, viewerVars>>
    BY DEF ServeClient
  <1>1. /\ Head(events) \in Event /\ Head(events) = events[1]
        /\ events' \in Seq(Event) /\ Len(events') <= EventCap
        /\ Len(events') \in Nat /\ 1 \in 1..Len(events)
        /\ \A i \in 1..Len(events') :
              /\ i + 1 \in 1..Len(events) /\ 1 < i + 1
              /\ events'[i] = events[i + 1]
    BY <1>0, EventTaken
  <1>2. c \in Clients
    BY <1>0, <1>1 DEF Event
  <1>3. /\ \/ /\ cpc[c] = "waiting" /\ cpc' = [cpc EXCEPT ![c] = "streaming"]
              /\ hist' = [hist EXCEPT ![c] = History]
              /\ since' = [since EXCEPT ![c] = Len(handled)]
           \/ /\ cpc' = [cpc EXCEPT ![c] = "gone"]
              /\ UNCHANGED <<hist, since>>
    BY DEF ServeClient
  <1>4. LastId' = LastId
    BY <1>0 DEF LastId
  <1>5. LoopInv'
    BY <1>0, LoopKept DEF IndInv
  <1>6. EventsInv'
    <2>1. ASSUME NEW i \in 1..Len(events'), events'[i].type = "Message"
          PROVE  /\ LastId' < events'[i].msg.id /\ events'[i].msg.id <= written'
                 /\ loop' = "broadcast" => current'.id < events'[i].msg.id
      BY <2>1, <1>0, <1>1, <1>4 DEF IndInv, EventsInv
    <2>2. ASSUME NEW i \in 1..Len(events'), NEW j \in 1..Len(events'), i < j,
                 events'[i].type = "Message", events'[j].type = "Message"
          PROVE  events'[i].msg.id < events'[j].msg.id
      <3>1. i + 1 < j + 1
        BY <2>2
      <3> QED
        BY <2>2, <3>1, <1>1 DEF IndInv, EventsInv
    <2> QED
      BY <2>1, <2>2 DEF EventsInv
  <1>7. BufferInv' /\ OldestDroppedFirst'
    BY <1>0, BufferKept DEF IndInv
  <1>8. TypeOK
    BY DEF IndInv
  <1> HIDE DEF c
  <1>9. CASE /\ cpc' = [cpc EXCEPT ![c] = "gone"]
             /\ UNCHANGED <<hist, since>>
    <2>1. TypeOK'
      BY <1>0, <1>1, <1>2, <1>8, <1>9 DEF TypeOK, buffer, sendVars, viewerVars
    <2>2. ClientInv' /\ PersistentReachesAll'
      BY <1>0, <1>2, <1>8, <1>9, ClientsKept DEF IndInv, TypeOK
    <2> QED
      BY <2>1, <2>2, <1>5, <1>6, <1>7 DEF IndInv
  <1>10. CASE /\ cpc[c] = "waiting" /\ cpc' = [cpc EXCEPT ![c] = "streaming"]
              /\ hist' = [hist EXCEPT ![c] = History]
              /\ since' = [since EXCEPT ![c] = Len(handled)]
    <2>1. /\ History \in Seq(Message) /\ Distinct(History)
          /\ \A n \in Ids(History) : n <= LastId
          /\ Ids(persistent) \subseteq Ids(History)
      BY HistoryFacts
    <2>2. Len(handled) \in Nat
      BY <1>8 DEF TypeOK
    <2>3. TypeOK'
      <3>1. /\ cpc' \in [Clients -> {"off", "waiting", "cancelled", "streaming", "gone"}]
            /\ hist' \in [Clients -> Seq(Message)] /\ since' \in [Clients -> Nat]
        BY <1>2, <1>8, <1>10, <2>1, <2>2 DEF TypeOK
      <3> QED
        BY <3>1, <1>0, <1>1, <1>8 DEF TypeOK, buffer, sendVars, viewerVars
    <2>4. /\ received[c] = <<>> /\ chan[c] = <<>> /\ hist'[c] = History
          /\ cpc'[c] = "streaming"
      BY <1>2, <1>8, <1>10 DEF IndInv, ClientInv, TypeOK
    <2>5. \A d \in Clients \ {c} : hist'[d] = hist[d] /\ cpc'[d] = cpc[d]
      BY <1>8, <1>10 DEF TypeOK
    <2>6. Ids(<<>>) = {} /\ Distinct(<<>>)
      BY DEF Ids, Distinct
    <2>7. ClientInv'
      <3> SUFFICES ASSUME NEW d \in Clients
                   PROVE  /\ Distinct(received[d]) /\ Distinct(hist'[d]) /\ Distinct(chan[d])
                          /\ Ids(received[d]) \cap Ids(hist'[d]) = {}
                          /\ Ids(received[d]) \cap Ids(chan[d]) = {}
                          /\ Ids(hist'[d]) \cap Ids(chan[d]) = {}
                          /\ \A n \in Ids(received[d]) \cup Ids(hist'[d]) \cup Ids(chan[d]) :
                                n <= LastId
                          /\ cpc'[d] \in {"off", "waiting"} =>
                                received[d] = <<>> /\ hist'[d] = <<>> /\ chan[d] = <<>>
        BY <1>0, <1>4 DEF ClientInv
      <3>1. CASE d = c
        BY <3>1, <2>1, <2>4, <2>6
      <3>2. CASE d # c
        BY <3>2, <2>5 DEF IndInv, ClientInv
      <3> QED
        BY <3>1, <3>2
    <2>8. PersistentReachesAll'
      <3> SUFFICES ASSUME options.memory_limit # 0, NEW d \in Clients \ Local,
                          cpc'[d] = "streaming", NEW i \in 1..Len(handled),
                          handled[i].kind = "persistent"
                   PROVE  handled[i].id \in Ids(received[d] \o hist'[d] \o chan[d])
        BY <1>0 DEF PersistentReachesAll
      <3>1. CASE d = c
        <4>1. received[d] \o hist'[d] \o chan[d] = History
          BY <3>1, <2>1, <2>4
        <4>2. handled[i] \in ToSet(handled) /\ Class(handled[i]) = "persistent"
          <5>1. handled \in Seq(Message) /\ DOMAIN handled = 1..Len(handled)
            BY <1>8 DEF TypeOK
          <5> QED
            BY <5>1 DEF ToSet, Class, Requests
        <4>3. handled[i] \in ToSet(persistent)
          BY <4>2, <1>0 DEF IndInv, OldestDroppedFirst
        <4>4. handled[i].id \in Ids(persistent)
          <5>1. DOMAIN persistent = 1..Len(persistent)
            BY <1>8 DEF TypeOK
          <5> QED
            BY <4>3, <5>1 DEF ToSet, Ids
        <4> QED
          BY <4>1, <4>4, <2>1
      <3>2. CASE d # c
        BY <3>2, <2>5 DEF IndInv, PersistentReachesAll
      <3> QED
        BY <3>1, <3>2
    <2> QED
      BY <2>3, <2>7, <2>8, <1>5, <1>6, <1>7 DEF IndInv
  <1> QED
    BY <1>3, <1>9, <1>10

LEMMA ConnectIndInv ==
  ASSUME IndInv, NEW c \in Clients, Connect(c)
  PROVE  IndInv'
  <1> DEFINE e == [type |-> "NewClient", client |-> c]
  <1>0. /\ cpc[c] = "off" /\ Len(events) < EventCap
        /\ cpc' = [cpc EXCEPT ![c] = "waiting"] /\ events' = Append(events, e)
        /\ UNCHANGED <<options, loop, current, sendVars, buffer, written, hist, chan, received,
                       since, handled, answer, viewerVars>>
    BY DEF Connect
  <1>1. TypeOK
    BY DEF IndInv
  <1>2. e \in Event /\ e.type # "Message"
    BY DEF Event
  <1>3. /\ events' \in Seq(Event) /\ Len(events') <= EventCap
        /\ Len(events') = Len(events) + 1 /\ events'[Len(events) + 1] = e
        /\ \A i \in 1..Len(events) : events'[i] = events[i]
        /\ \A i \in 1..Len(events') : i \in 1..Len(events) \/ i = Len(events) + 1
    BY <1>0, <1>2, EventQueued
  <1>4. TypeOK'
    BY <1>0, <1>1, <1>3 DEF TypeOK, buffer, sendVars, viewerVars
  <1>5. LoopInv'
    BY <1>0, LoopKept DEF IndInv
  <1>6. LastId' = LastId
    BY <1>0 DEF LastId
  <1> HIDE DEF e
  <1>7. \A i \in 1..Len(events') : events'[i].type = "Message" =>
           i \in 1..Len(events) /\ events'[i] = events[i]
    BY <1>2, <1>3
  <1>8. EventsInv'
    BY <1>0, <1>6, <1>7 DEF IndInv, EventsInv
  <1>9. BufferInv' /\ OldestDroppedFirst'
    BY <1>0, BufferSame DEF IndInv
  <1>10. ClientInv' /\ PersistentReachesAll'
    BY <1>0, <1>1, ClientsKept DEF IndInv, TypeOK
  <1> QED
    BY <1>4, <1>5, <1>8, <1>9, <1>10 DEF IndInv

\* Steps that touch nothing but where a client is, how the loop waits, or what a
\* request waits for.
LEMMA QuietIndInv ==
  ASSUME IndInv, TypeOK',
         UNCHANGED <<options, events, loop, current, buffer, written, handled,
                     hist, chan, received>>,
         \A c \in Clients :
            /\ cpc'[c] \in {"off", "waiting"} => cpc[c] \in {"off", "waiting"}
            /\ cpc'[c] = "streaming" => cpc[c] = "streaming"
  PROVE  IndInv'
  <1>1. LoopInv' /\ EventsInv'
    BY LoopKept, EventsKept DEF IndInv
  <1>2. BufferInv' /\ OldestDroppedFirst'
    BY BufferSame DEF IndInv
  <1>3. ClientInv' /\ PersistentReachesAll'
    BY ClientsKept DEF IndInv
  <1> QED
    BY <1>1, <1>2, <1>3 DEF IndInv

LEMMA CancelIndInv ==
  ASSUME IndInv, NEW c \in Clients, Cancel(c)
  PROVE  IndInv'
  <1>1. TypeOK
    BY DEF IndInv
  <1>2. TypeOK'
    BY <1>1 DEF TypeOK, Cancel, buffer, sendVars, viewerVars
  <1> QED
    BY <1>1, <1>2, QuietIndInv DEF Cancel, TypeOK

LEMMA RequestReturnsIndInv ==
  ASSUME IndInv, NEW n \in 1..MaxMessages, RequestReturns(n)
  PROVE  IndInv'
  <1>1. TypeOK
    BY DEF IndInv
  <1>2. /\ UNCHANGED <<options, events, loop, current, sendVars, buffer, written, clientVars,
                       handled, viewerVars>>
        /\ \E v \in {"None", "timeout"} : answer' = [answer EXCEPT ![n] = v]
    BY DEF RequestReturns, RequestDropped, InspectTimeout
  <1>3. TypeOK'
    BY <1>1, <1>2 DEF TypeOK, buffer, clientVars, sendVars, viewerVars
  <1> QED
    BY <1>2, <1>3, QuietIndInv DEF clientVars

\* How send_async waits.
LEMMA WaitingIndInv ==
  ASSUME IndInv, FindFull \/ Park \/ Retry
  PROVE  IndInv'
  <1>1. TypeOK
    BY DEF IndInv
  <1>2. /\ UNCHANGED <<options, events, loop, current, buffer, written, clientVars, handled,
                       answer, viewerVars>>
        /\ wait' \in {"no", "full", "parked"} /\ warned' \in BOOLEAN
    BY <1>1 DEF FindFull, Park, Retry, TypeOK
  <1>3. TypeOK'
    BY <1>1, <1>2 DEF TypeOK, buffer, clientVars, viewerVars
  <1> QED
    BY <1>2, <1>3, QuietIndInv DEF clientVars

\* The viewer receives and answers requests.
LEMMA ViewerStepIndInv ==
  ASSUME IndInv, ViewerStep
  PROVE  IndInv'
  <1>1. TypeOK
    BY DEF IndInv
  <1>2. UNCHANGED <<options, events, loop, current, sendVars, buffer, written, clientVars,
                    handled>>
    BY DEF ViewerStep, ReceiveRequest, ScreenshotResult, InspectionDone
  <1>3. ASSUME NEW n \in 1..MaxMessages
        PROVE  Answered(n) \in [1..MaxMessages -> Requests \cup {"no", "Some", "None", "timeout"}]
    BY <1>1, <1>3 DEF TypeOK, Answered
  <1>4. /\ answer' \in [1..MaxMessages -> Requests \cup {"no", "Some", "None", "timeout"}]
        /\ inbox' \in Seq(Message) /\ notifier' \in 0..MaxMessages /\ shots' \in Nat
        /\ inspecting' \subseteq 1..MaxMessages
    <2>0. /\ answer \in [1..MaxMessages -> Requests \cup {"no", "Some", "None", "timeout"}]
          /\ inbox \in Seq(Message) /\ notifier \in 0..MaxMessages /\ shots \in Nat
          /\ inspecting \subseteq 1..MaxMessages /\ MaxMessages \in Nat
      BY <1>1, ProxyAssumption DEF TypeOK
    <2>1. CASE ReceiveRequest
      <3>1. /\ Head(inbox) \in Message /\ inbox' \in Seq(Message)
        BY <2>0, <2>1 DEF ReceiveRequest
      <3>2. Head(inbox).id \in 1..MaxMessages /\ Head(inbox).id \in 0..MaxMessages
        BY <2>0, <3>1, MessageIds
      <3> DEFINE n == Head(inbox).id
      <3>3. /\ answer' = answer \/ answer' = Answered(n)
            /\ notifier' = notifier \/ notifier' = n
            /\ shots' = shots \/ shots' = shots + 1
            /\ inspecting' = inspecting \/ inspecting' = inspecting \cup {n}
        BY <2>1 DEF ReceiveRequest
      <3> HIDE DEF n
      <3>4. n \in 1..MaxMessages /\ n \in 0..MaxMessages
        BY <3>2 DEF n
      <3>5. answer' \in [1..MaxMessages -> Requests \cup {"no", "Some", "None", "timeout"}]
        BY <1>3, <2>0, <3>3, <3>4
      <3>6. shots' \in Nat
        BY <2>0, <3>3
      <3>7. notifier' \in 0..MaxMessages
        BY <2>0, <3>3, <3>4
      <3>8. inspecting' \subseteq 1..MaxMessages
        BY <2>0, <3>3, <3>4, Zenon
      <3> QED
        BY <3>1, <3>5, <3>6, <3>7, <3>8
    <2>2. CASE ScreenshotResult
      <3>1. /\ shots' \in Nat /\ 0 \in 0..MaxMessages
            /\ notifier # 0 => notifier \in 1..MaxMessages
        BY <2>0, <2>2 DEF ScreenshotResult
      <3> QED
        BY <1>3, <2>0, <2>2, <3>1 DEF ScreenshotResult
    <2>3. ASSUME NEW n \in inspecting, InspectionDone(n)
          PROVE  /\ answer' \in [1..MaxMessages -> Requests \cup {"no", "Some", "None", "timeout"}]
                 /\ UNCHANGED <<inbox, notifier, shots>> /\ inspecting' \subseteq 1..MaxMessages
      BY <1>3, <2>0, <2>3 DEF InspectionDone
    <2>4. CASE \E n \in inspecting : InspectionDone(n)
      BY <2>0, <2>3, <2>4
    <2> QED
      BY <2>1, <2>2, <2>4 DEF ViewerStep
  <1>5. TypeOK'
    BY <1>1, <1>2, <1>4 DEF TypeOK, buffer, clientVars, sendVars
  <1> QED
    BY <1>2, <1>5, QuietIndInv DEF clientVars

\* A message moves from the head of a queue to the end of what was received.
LEMMA MoveHead ==
  ASSUME NEW r \in Seq(Message), NEW q \in Seq(Message), q # <<>>,
         Distinct(r), Distinct(q), Ids(r) \cap Ids(q) = {}
  PROVE  /\ Append(r, Head(q)) \in Seq(Message) /\ Tail(q) \in Seq(Message)
         /\ Distinct(Append(r, Head(q))) /\ Distinct(Tail(q))
         /\ Ids(Append(r, Head(q))) \cap Ids(Tail(q)) = {}
         /\ Ids(Append(r, Head(q))) \cup Ids(Tail(q)) = Ids(r) \cup Ids(q)
         /\ Ids(Tail(q)) \subseteq Ids(q)
         /\ Ids(Append(r, Head(q))) \subseteq Ids(r) \cup Ids(q)
  <1>1. /\ Tail(q) \in Seq(Message) /\ Head(q) \in Message
        /\ Ids(q) = Ids(Tail(q)) \cup {Head(q).id}
        /\ Distinct(Tail(q)) /\ Head(q).id \notin Ids(Tail(q))
    BY TailFacts
  <1>2. /\ Append(r, Head(q)) \in Seq(Message)
        /\ Ids(Append(r, Head(q))) = Ids(r) \cup {Head(q).id}
    BY <1>1, AppendFacts
  <1>3. Head(q).id \notin Ids(r)
    BY <1>1
  <1>4. Distinct(Append(r, Head(q)))
    BY <1>1, <1>3, AppendFacts
  <1> QED
    BY <1>1, <1>2, <1>3, <1>4, Zenon

\* The queues of one client change, but not which ids they hold together.
LEMMA ClientReads ==
  ASSUME IndInv, NEW c \in Clients, UNCHANGED <<options, handled, cpc>>,
         cpc[c] = "streaming",
         received' \in [Clients -> Seq(Message)], hist' \in [Clients -> Seq(Message)],
         chan' \in [Clients -> Seq(Message)],
         \A d \in Clients \ {c} : /\ received'[d] = received[d] /\ hist'[d] = hist[d]
                                  /\ chan'[d] = chan[d],
         Distinct(received'[c]), Distinct(hist'[c]), Distinct(chan'[c]),
         Ids(received'[c]) \cap Ids(hist'[c]) = {},
         Ids(received'[c]) \cap Ids(chan'[c]) = {},
         Ids(hist'[c]) \cap Ids(chan'[c]) = {},
         Ids(received'[c]) \cup Ids(hist'[c]) \cup Ids(chan'[c])
            = Ids(received[c]) \cup Ids(hist[c]) \cup Ids(chan[c])
  PROVE  ClientInv' /\ PersistentReachesAll'
  <1>1. LastId' = LastId
    BY DEF LastId
  <1>2. ClientInv'
    <2> SUFFICES ASSUME NEW d \in Clients
                 PROVE  /\ Distinct(received'[d]) /\ Distinct(hist'[d]) /\ Distinct(chan'[d])
                        /\ Ids(received'[d]) \cap Ids(hist'[d]) = {}
                        /\ Ids(received'[d]) \cap Ids(chan'[d]) = {}
                        /\ Ids(hist'[d]) \cap Ids(chan'[d]) = {}
                        /\ \A n \in Ids(received'[d]) \cup Ids(hist'[d]) \cup Ids(chan'[d]) :
                              n <= LastId
                        /\ cpc[d] \in {"off", "waiting"} =>
                              received'[d] = <<>> /\ hist'[d] = <<>> /\ chan'[d] = <<>>
      BY <1>1 DEF ClientInv
    <2>1. CASE d = c
      <3>1. \A n \in Ids(received[c]) \cup Ids(hist[c]) \cup Ids(chan[c]) : n <= LastId
        BY DEF IndInv, ClientInv
      <3> QED
        BY <2>1, <3>1
    <2>2. CASE d # c
      BY <2>2 DEF IndInv, ClientInv
    <2> QED
      BY <2>1, <2>2
  <1>3. PersistentReachesAll'
    <2> SUFFICES ASSUME options.memory_limit # 0, NEW d \in Clients \ Local,
                        cpc[d] = "streaming", NEW i \in 1..Len(handled),
                        handled[i].kind = "persistent"
                 PROVE  handled[i].id \in Ids(received'[d] \o hist'[d] \o chan'[d])
      BY DEF PersistentReachesAll
    <2>1. handled[i].id \in Ids(received[d] \o hist[d] \o chan[d])
      BY DEF IndInv, PersistentReachesAll
    <2>2. CASE d = c
      <3>1. /\ received[d] \in Seq(Message) /\ hist[d] \in Seq(Message)
            /\ chan[d] \in Seq(Message)
        BY DEF IndInv, TypeOK
      <3>2. /\ received'[d] \in Seq(Message) /\ hist'[d] \in Seq(Message)
            /\ chan'[d] \in Seq(Message)
        OBVIOUS
      <3>3. ASSUME NEW r \in Seq(Message), NEW h \in Seq(Message), NEW k \in Seq(Message)
            PROVE  Ids(r \o h \o k) = Ids(r) \cup Ids(h) \cup Ids(k)
        <4>1. r \o h \in Seq(Message) /\ Ids(r \o h) = Ids(r) \cup Ids(h)
          BY ConcatFacts
        <4> QED
          BY <4>1, ConcatFacts
      <3> QED
        BY <2>1, <2>2, <3>1, <3>2, <3>3
    <2>3. CASE d # c
      BY <2>1, <2>3
    <2> QED
      BY <2>2, <2>3
  <1> QED
    BY <1>2, <1>3

LEMMA ReadHistoryIndInv ==
  ASSUME IndInv, NEW c \in Clients, ReadHistory(c)
  PROVE  IndInv'
  <1>0. /\ cpc[c] = "streaming" /\ hist[c] # <<>>
        /\ received' = [received EXCEPT ![c] = Append(received[c], Head(hist[c]))]
        /\ hist' = [hist EXCEPT ![c] = Tail(hist[c])]
        /\ UNCHANGED <<options, events, loop, current, sendVars, buffer, written, cpc, chan,
                       since, handled, answer, viewerVars>>
    BY DEF ReadHistory
  <1>1. TypeOK
    BY DEF IndInv
  <1>2. /\ received[c] \in Seq(Message) /\ hist[c] \in Seq(Message)
        /\ chan[c] \in Seq(Message)
    BY <1>1 DEF TypeOK
  <1>3. /\ Distinct(received[c]) /\ Distinct(hist[c]) /\ Distinct(chan[c])
        /\ Ids(received[c]) \cap Ids(hist[c]) = {}
        /\ Ids(received[c]) \cap Ids(chan[c]) = {}
        /\ Ids(hist[c]) \cap Ids(chan[c]) = {}
    BY DEF IndInv, ClientInv
  <1> DEFINE r == Append(received[c], Head(hist[c]))
             h == Tail(hist[c])
  <1>4. /\ r \in Seq(Message) /\ h \in Seq(Message) /\ Distinct(r) /\ Distinct(h)
        /\ Ids(r) \cap Ids(h) = {} /\ Ids(r) \cup Ids(h) = Ids(received[c]) \cup Ids(hist[c])
        /\ Ids(h) \subseteq Ids(hist[c]) /\ Ids(r) \subseteq Ids(received[c]) \cup Ids(hist[c])
    BY <1>0, <1>2, <1>3, MoveHead
  <1>5. /\ received' = [received EXCEPT ![c] = r] /\ hist' = [hist EXCEPT ![c] = h]
    BY <1>0
  <1> HIDE DEF r, h
  <1>6. /\ received' \in [Clients -> Seq(Message)] /\ hist' \in [Clients -> Seq(Message)]
        /\ received'[c] = r /\ hist'[c] = h
        /\ \A d \in Clients \ {c} : received'[d] = received[d] /\ hist'[d] = hist[d]
    BY <1>1, <1>4, <1>5 DEF TypeOK
  <1>7. TypeOK'
    BY <1>0, <1>1, <1>6 DEF TypeOK, buffer, sendVars, viewerVars
  <1>8. Ids(r) \cap Ids(chan[c]) = {} /\ Ids(h) \cap Ids(chan[c]) = {}
    BY <1>3, <1>4, Zenon
  <1>9. Ids(r) \cup Ids(h) \cup Ids(chan[c])
           = Ids(received[c]) \cup Ids(hist[c]) \cup Ids(chan[c])
    BY <1>4
  <1>10. chan' = chan /\ chan' \in [Clients -> Seq(Message)]
    BY <1>0, <1>1 DEF TypeOK
  <1>11. ClientInv' /\ PersistentReachesAll'
    BY <1>0, <1>3, <1>4, <1>6, <1>8, <1>9, <1>10, ClientReads
  <1>12. LoopInv' /\ EventsInv'
    BY <1>0, LoopKept, EventsKept DEF IndInv
  <1>13. BufferInv' /\ OldestDroppedFirst'
    BY <1>0, BufferSame DEF IndInv
  <1> QED
    BY <1>7, <1>11, <1>12, <1>13 DEF IndInv

LEMMA ReadLiveIndInv ==
  ASSUME IndInv, NEW c \in Clients, ReadLive(c)
  PROVE  IndInv'
  <1>0. /\ cpc[c] = "streaming" /\ chan[c] # <<>>
        /\ received' = [received EXCEPT ![c] = Append(received[c], Head(chan[c]))]
        /\ chan' = [chan EXCEPT ![c] = Tail(chan[c])]
        /\ inbox' = Forward(c, Head(chan[c]))
        /\ wait' \in {wait, "no"}
        /\ UNCHANGED <<options, events, loop, current, warned, buffer, written, cpc, hist, since,
                       handled, answer, notifier, shots, inspecting>>
    BY DEF ReadLive, Notify
  <1>1. TypeOK
    BY DEF IndInv
  <1>2. /\ received[c] \in Seq(Message) /\ hist[c] \in Seq(Message)
        /\ chan[c] \in Seq(Message)
    BY <1>1 DEF TypeOK
  <1>3. /\ Distinct(received[c]) /\ Distinct(hist[c]) /\ Distinct(chan[c])
        /\ Ids(received[c]) \cap Ids(hist[c]) = {}
        /\ Ids(received[c]) \cap Ids(chan[c]) = {}
        /\ Ids(hist[c]) \cap Ids(chan[c]) = {}
    BY DEF IndInv, ClientInv
  <1>14. inbox' \in Seq(Message)
    <2>1. Head(chan[c]) \in Message
      BY <1>0, <1>2
    <2> QED
      BY <1>0, <1>1, <2>1, AppendFacts DEF TypeOK, Forward
  <1> DEFINE r == Append(received[c], Head(chan[c]))
             k == Tail(chan[c])
  <1>4. /\ r \in Seq(Message) /\ k \in Seq(Message) /\ Distinct(r) /\ Distinct(k)
        /\ Ids(r) \cap Ids(k) = {} /\ Ids(r) \cup Ids(k) = Ids(received[c]) \cup Ids(chan[c])
        /\ Ids(k) \subseteq Ids(chan[c]) /\ Ids(r) \subseteq Ids(received[c]) \cup Ids(chan[c])
    BY <1>0, <1>2, <1>3, MoveHead
  <1>5. /\ received' = [received EXCEPT ![c] = r] /\ chan' = [chan EXCEPT ![c] = k]
    BY <1>0
  <1> HIDE DEF r, k
  <1>6. /\ received' \in [Clients -> Seq(Message)] /\ chan' \in [Clients -> Seq(Message)]
        /\ received'[c] = r /\ chan'[c] = k
        /\ \A d \in Clients \ {c} : received'[d] = received[d] /\ chan'[d] = chan[d]
    BY <1>1, <1>4, <1>5 DEF TypeOK
  <1>7. TypeOK'
    BY <1>0, <1>1, <1>6, <1>14 DEF TypeOK, buffer
  <1>8. Ids(r) \cap Ids(hist[c]) = {} /\ Ids(hist[c]) \cap Ids(k) = {}
    BY <1>3, <1>4, Zenon
  <1>9. Ids(r) \cup Ids(hist[c]) \cup Ids(k)
           = Ids(received[c]) \cup Ids(hist[c]) \cup Ids(chan[c])
    BY <1>4
  <1>10. hist' = hist /\ hist' \in [Clients -> Seq(Message)]
    BY <1>0, <1>1 DEF TypeOK
  <1>11. ClientInv' /\ PersistentReachesAll'
    BY <1>0, <1>3, <1>4, <1>6, <1>8, <1>9, <1>10, ClientReads
  <1>12. LoopInv' /\ EventsInv'
    BY <1>0, LoopKept, EventsKept DEF IndInv
  <1>13. BufferInv' /\ OldestDroppedFirst'
    BY <1>0, BufferSame DEF IndInv
  <1> QED
    BY <1>7, <1>11, <1>12, <1>13 DEF IndInv

LEMMA DisconnectIndInv ==
  ASSUME IndInv, NEW c \in Clients, Disconnect(c)
  PROVE  IndInv'
  <1>0. /\ cpc' = [cpc EXCEPT ![c] = "gone"]
        /\ hist' = [hist EXCEPT ![c] = <<>>] /\ chan' = [chan EXCEPT ![c] = <<>>]
        /\ inbox' \in {<<>>, inbox}
        /\ wait' \in {wait, "no"}
        /\ UNCHANGED <<options, events, loop, current, warned, buffer, written, received, since,
                       handled, answer, notifier, shots, inspecting>>
    BY DEF Disconnect, Notify
  <1>1. TypeOK
    BY DEF IndInv
  <1>2. <<>> \in Seq(Message) /\ Ids(<<>>) = {} /\ Distinct(<<>>)
    BY DEF Ids, Distinct
  <1>3. TypeOK'
    BY <1>0, <1>1, <1>2 DEF TypeOK, buffer
  <1>4. /\ cpc'[c] = "gone" /\ hist'[c] = <<>> /\ chan'[c] = <<>>
        /\ \A d \in Clients \ {c} : /\ cpc'[d] = cpc[d] /\ hist'[d] = hist[d]
                                    /\ chan'[d] = chan[d]
    BY <1>0, <1>1 DEF TypeOK
  <1>5. LastId' = LastId
    BY <1>0 DEF LastId
  <1>6. ClientInv'
    <2> SUFFICES ASSUME NEW d \in Clients
                 PROVE  /\ Distinct(received[d]) /\ Distinct(hist'[d]) /\ Distinct(chan'[d])
                        /\ Ids(received[d]) \cap Ids(hist'[d]) = {}
                        /\ Ids(received[d]) \cap Ids(chan'[d]) = {}
                        /\ Ids(hist'[d]) \cap Ids(chan'[d]) = {}
                        /\ \A n \in Ids(received[d]) \cup Ids(hist'[d]) \cup Ids(chan'[d]) :
                              n <= LastId
                        /\ cpc'[d] \in {"off", "waiting"} =>
                              received[d] = <<>> /\ hist'[d] = <<>> /\ chan'[d] = <<>>
      BY <1>0, <1>5 DEF ClientInv
    <2>1. CASE d = c
      BY <2>1, <1>2, <1>4 DEF IndInv, ClientInv
    <2>2. CASE d # c
      BY <2>2, <1>4 DEF IndInv, ClientInv
    <2> QED
      BY <2>1, <2>2
  <1>7. PersistentReachesAll'
    <2> SUFFICES ASSUME options.memory_limit # 0, NEW d \in Clients \ Local,
                        cpc'[d] = "streaming", NEW i \in 1..Len(handled),
                        handled[i].kind = "persistent"
                 PROVE  handled[i].id \in Ids(received[d] \o hist'[d] \o chan'[d])
      BY <1>0 DEF PersistentReachesAll
    <2>1. d # c
      BY <1>4
    <2> QED
      BY <2>1, <1>4 DEF IndInv, PersistentReachesAll
  <1>8. LoopInv' /\ EventsInv'
    BY <1>0, LoopKept, EventsKept DEF IndInv
  <1>9. BufferInv' /\ OldestDroppedFirst'
    BY <1>0, BufferSame DEF IndInv
  <1> QED
    BY <1>3, <1>6, <1>7, <1>8, <1>9 DEF IndInv

LEMMA NextIndInv == IndInv /\ [Next]_vars => IndInv'
  <1> SUFFICES ASSUME IndInv, [Next]_vars PROVE IndInv'
    OBVIOUS
  <1>1. CASE UNCHANGED vars
    <2>1. TypeOK'
      BY <1>1 DEF IndInv, TypeOK, vars
    <2> QED
      BY <1>1, <2>1, QuietIndInv DEF vars, buffer
  <1>2. CASE \E k \in options.kinds, z \in options.sizes : Write(k, z)
    BY <1>2, WriteIndInv
  <1>3. CASE LoopStep
    BY <1>3, TakeMessageIndInv, BroadcastIndInv, WaitingIndInv, StoreIndInv, ServeClientIndInv
    DEF LoopStep
  <1>4. ASSUME NEW c \in Clients, Connect(c) \/ Cancel(c) \/ Read(c) \/ Disconnect(c)
        PROVE  IndInv'
    BY <1>4, ConnectIndInv, CancelIndInv, ReadHistoryIndInv, ReadLiveIndInv,
       DisconnectIndInv DEF Read
  <1>5. CASE \E n \in 1..MaxMessages : RequestReturns(n)
    BY <1>5, RequestReturnsIndInv
  <1> QED
    BY <1>1, <1>2, <1>3, <1>4, <1>5, ViewerStepIndInv DEF Next

-----------------------------------------------------------------------------
(* The theorems *)

\* The invariant the other theorems rest on: the event loop broadcasts the
\* messages in the order they were written, the three queues of MessageBuffer
\* hold disjoint, ordered parts of what it broadcast, and what a client has
\* received, will read of the history and has pending in its subscription
\* never overlap.
THEOREM ProxyInvariant == Spec => []IndInv
  <1> QED
    BY InitIndInv, NextIndInv, PTL DEF Spec

\* Whatever the memory limit, gc leaves of each queue the most recent part,
\* without holes, and drops no persistent message.
THEOREM ProxyOldestDroppedFirst == Spec => []OldestDroppedFirst
  <1>1. IndInv => OldestDroppedFirst
    BY DEF IndInv
  <1> QED
    BY <1>1, ProxyInvariant, PTL

\* Event::NewClient hands out history and subscription in one step of the
\* loop, between two messages: no client is sent a message by both.
THEOREM ProxyNoDuplicates == Spec => []NoDuplicates
  <1>1. IndInv => NoDuplicates
    <2> SUFFICES ASSUME IndInv, NEW c \in Clients
                 PROVE  IsInjective([i \in 1..Len(received[c] \o hist[c] \o chan[c]) |->
                                       (received[c] \o hist[c] \o chan[c])[i].id])
      BY DEF NoDuplicates
    <2> DEFINE q == received[c] \o hist[c] \o chan[c]
    <2>1. /\ received[c] \in Seq(Message) /\ hist[c] \in Seq(Message)
          /\ chan[c] \in Seq(Message)
      BY DEF IndInv, TypeOK
    <2>2. /\ Distinct(received[c]) /\ Distinct(hist[c]) /\ Distinct(chan[c])
          /\ Ids(received[c]) \cap Ids(hist[c]) = {}
          /\ Ids(received[c]) \cap Ids(chan[c]) = {}
          /\ Ids(hist[c]) \cap Ids(chan[c]) = {}
      BY DEF IndInv, ClientInv
    <2>3. /\ received[c] \o hist[c] \in Seq(Message)
          /\ Distinct(received[c] \o hist[c])
          /\ Ids(received[c] \o hist[c]) = Ids(received[c]) \cup Ids(hist[c])
      BY <2>1, <2>2, ConcatFacts
    <2>4. Ids(received[c] \o hist[c]) \cap Ids(chan[c]) = {}
      BY <2>2, <2>3, Zenon
    <2>5. Distinct(q)
      BY <2>1, <2>2, <2>3, <2>4, ConcatFacts
    <2> HIDE DEF q
    <2>6. IsInjective([i \in 1..Len(q) |-> q[i].id])
      BY <2>5 DEF Distinct, IsInjective
    <2> QED
      BY <2>6 DEF q
  <1> QED
    BY <1>1, ProxyInvariant, PTL

\* A remote client is sent every persistent message there has ever been, no
\* matter when it connects, what the GC dropped meanwhile and how its reading
\* interleaves with the loop.
THEOREM ProxyPersistentReachesAll == Spec => []PersistentReachesAll
  <1>1. IndInv => PersistentReachesAll
    BY DEF IndInv
  <1> QED
    BY <1>1, ProxyInvariant, PTL
=============================================================================
