------------------------ MODULE LogReceiverSetProofs ------------------------
(* Theorems about LogReceiverSet, for any set of log channels. *)
EXTENDS LogReceiverSet, SequenceTheorems, TLAPS

\* The types RunDry rests on.
ChannelTypes ==
    /\ queue = [s \in Sources |-> queue[s]]
    /\ senders \in [Sources -> BOOLEAN]
    /\ connected \in [Sources -> BOOLEAN]

IndInv == ChannelTypes /\ RunDry

LEMMA InitIndInv == Init => IndInv
  BY DEF Init, IndInv, ChannelTypes, RunDry

\* A receiver that leaves the set drops what it has queued: no queue grows.
LEMMA DropReceiversDries ==
    ASSUME IndInv, NEW gone, DropReceivers(gone), UNCHANGED <<senders, connected>>
    PROVE  IndInv'
  BY DEF IndInv, ChannelTypes, RunDry, DropReceivers

\* A channel with a message is connected, so taking the message is harmless.
LEMMA TakeDries ==
    ASSUME IndInv, NEW s, Take(s) PROVE IndInv'
  BY DEF IndInv, ChannelTypes, RunDry, Take

LEMMA NextIndInv == IndInv /\ [Next]_vars => IndInv'
  <1> SUFFICES ASSUME IndInv, [Next]_vars PROVE IndInv'
    OBVIOUS
  <1> USE DEF IndInv, ChannelTypes, RunDry, channels
  <1>1. ASSUME NEW s \in Sources, NEW payload, Send(s, payload) PROVE IndInv'
    BY <1>1 DEF Send, Put
  <1>2. ASSUME NEW s \in Sources, Flush(s) PROVE IndInv'
    BY <1>2 DEF Flush, Put
  <1>3. ASSUME NEW s \in Sources, FlushTimeout(s) \/ Add(s) PROVE IndInv'
    BY <1>3 DEF FlushTimeout, Add
  <1>4. ASSUME NEW s \in Sources, CloseSender(s) PROVE IndInv'
    BY <1>4 DEF CloseSender
  <1>5. ASSUME NEW gone, RemoveReceivers(gone) PROVE IndInv'
    BY <1>5, DropReceiversDries DEF RemoveReceivers
  <1>6. CASE ListSources \/ Check \/ Begin
    BY <1>6, DropReceiversDries DEF ListSources, Check, Begin, Retain
  <1>7. ASSUME NEW s \in Sources, SelectMessage(s) PROVE IndInv'
    BY <1>7, TakeDries DEF SelectMessage
  <1>8. CASE PollMessage
    BY <1>8, TakeDries DEF PollMessage
  <1>9. ASSUME NEW s \in Sources, SelectDisconnected(s) PROVE IndInv'
    BY <1>9 DEF SelectDisconnected
  <1>10. CASE SelectNothing \/ PollEnds
    BY <1>10 DEF SelectNothing, PollEnds
  <1>11. CASE PollNothing
    BY <1>11 DEF PollNothing
  <1>12. CASE UNCHANGED vars
    BY <1>12 DEF vars
  <1> QED
    BY <1>1, <1>2, <1>3, <1>4, <1>5, <1>6, <1>7, <1>8, <1>9, <1>10, <1>11, <1>12
    DEF Next, Reading, Sendable

\* A receiver that the set takes for disconnected has no sender and nothing
\* queued, however senders, removals and the reader's two passes interleave:
\* `rx.retain(|r| r.is_connected())' never discards a message.
THEOREM ReceiversRunDry == Spec => []RunDry
  <1>1. IndInv => RunDry
    BY DEF IndInv
  <1> QED
    BY <1>1, InitIndInv, NextIndInv, PTL DEF Spec

-----------------------------------------------------------------------------
(* Flush requests *)

FlushTypes ==
    /\ queue \in [Sources -> Seq(Payloads)]
    /\ sent \in [Sources -> Nat]
    /\ received \in [Sources -> Nat]
    /\ flush \in [Sources -> [state : {"none", "waiting", "Ok", "Timeout", "Closed"},
                              before : Nat]]
    /\ set \in Seq(Sources)
    /\ polled \in Nat

\* Only receivers that were handed to the set are in it.
MembersAdded == Range(set) \subseteq added

\* Before a flush, a channel that is still read holds what it has not delivered.
NothingLost ==
    \A s \in Sources : flush[s].state = "none" =>
        /\ \A i \in 1..Len(queue[s]) : queue[s][i] # "Flush"
        /\ Alive(s) => sent[s] <= received[s] + Len(queue[s])

\* i is the place of the request in queue q: before it are only messages, and with
\* those everything sent before the flush will have been received.
FlushAt(q, n, before, i) ==
    /\ i \in 1..Len(q) /\ q[i] = "Flush"
    /\ \A j \in 1..(i - 1) : q[j] # "Flush"
    /\ before <= n + (i - 1)

\* A flush that is waited for is still queued, behind what it waits for.
FlushQueued ==
    \A s \in Sources : flush[s].state = "waiting" =>
        \E i \in Nat : FlushAt(queue[s], received[s], flush[s].before, i)

FlushInv == FlushTypes /\ MembersAdded /\ NothingLost /\ FlushQueued /\ FlushMeansReceived

LEMMA InitFlushInv == Init => FlushInv
  <1> SUFFICES ASSUME Init PROVE FlushInv
    OBVIOUS
  <1>1. FlushTypes
    BY DEF Init, FlushTypes
  <1>2. MembersAdded
    BY DEF Init, MembersAdded, Range
  <1>3. NothingLost /\ FlushQueued /\ FlushMeansReceived
    BY DEF Init, NothingLost, FlushQueued, FlushMeansReceived
  <1> QED
    BY <1>1, <1>2, <1>3 DEF FlushInv

\* A message or a flush request joins the queue of a channel.
LEMMA QueueGrows ==
  ASSUME NEW q \in Seq(Payloads), NEW p \in Payloads, NEW n \in Nat, NEW b \in Nat
  PROVE  /\ Append(q, p) \in Seq(Payloads) /\ Len(Append(q, p)) = Len(q) + 1
         /\ Len(q) \in Nat
         /\ Append(q, p)[Len(q) + 1] = p
         /\ \A i \in 1..Len(q) : Append(q, p)[i] = q[i]
         /\ \A i \in 1..(Len(q) + 1) : i \in 1..Len(q) \/ i = Len(q) + 1
         /\ \A i \in Nat : FlushAt(q, n, b, i) => FlushAt(Append(q, p), n, b, i)
  <1> DEFINE a == Append(q, p)
             N == Len(q)
  <1>1. /\ a \in Seq(Payloads) /\ Len(a) = N + 1 /\ N \in Nat /\ a[N + 1] = p
        /\ \A i \in 1..N : a[i] = q[i]
    OBVIOUS
  <1> HIDE DEF a, N
  <1>2. \A i \in 1..(N + 1) : i \in 1..N \/ i = N + 1
    BY <1>1
  <1>3. \A i \in 1..N : i \in 1..(N + 1) /\ 1..(i - 1) \subseteq 1..N
    BY <1>1
  <1>4. \A i \in Nat : FlushAt(q, n, b, i) => FlushAt(a, n, b, i)
    <2> SUFFICES ASSUME NEW i \in Nat, FlushAt(q, n, b, i) PROVE FlushAt(a, n, b, i)
      OBVIOUS
    <2>1. /\ i \in 1..N /\ q[i] = "Flush" /\ b <= n + (i - 1)
          /\ \A j \in 1..(i - 1) : q[j] # "Flush"
      BY DEF FlushAt, N
    <2>2. /\ a[i] = "Flush" /\ \A j \in 1..(i - 1) : a[j] # "Flush"
      BY <1>1, <1>3, <2>1
    <2>3. i \in 1..Len(a)
      BY <1>1, <1>3, <2>1
    <2> QED
      BY <2>1, <2>2, <2>3 DEF FlushAt
  <1> QED
    BY <1>1, <1>2, <1>4 DEF a, N

LEMMA SendFlushInv ==
  ASSUME FlushInv, NEW s \in Sources, NEW p \in {"Msg", "Quit"}, Send(s, p)
  PROVE  FlushInv'
  <1>1. /\ Alive(s) /\ sent' = [sent EXCEPT ![s] = sent[s] + 1]
        /\ queue' = [queue EXCEPT ![s] = Append(queue[s], p)]
        /\ UNCHANGED <<set, added, polled, received, flush>>
    BY DEF Send, Put
  <1>2. FlushTypes /\ p \in Payloads
    BY DEF FlushInv, Payloads
  <1>3. /\ queue[s] \in Seq(Payloads) /\ sent[s] \in Nat /\ received[s] \in Nat
        /\ flush[s].before \in Nat
    BY <1>2 DEF FlushTypes
  <1> DEFINE q == Append(queue[s], p)
  <1>4. /\ q \in Seq(Payloads) /\ Len(q) = Len(queue[s]) + 1
        /\ Len(queue[s]) \in Nat
        /\ q[Len(queue[s]) + 1] = p
        /\ \A i \in 1..Len(queue[s]) : q[i] = queue[s][i]
        /\ \A i \in 1..(Len(queue[s]) + 1) : i \in 1..Len(queue[s]) \/ i = Len(queue[s]) + 1
        /\ \A i \in Nat : FlushAt(queue[s], received[s], flush[s].before, i)
                            => FlushAt(q, received[s], flush[s].before, i)
    BY <1>2, <1>3, QueueGrows
  <1>5. queue' = [queue EXCEPT ![s] = q]
    BY <1>1
  <1> HIDE DEF q
  <1>6. FlushTypes'
    BY <1>1, <1>2, <1>3, <1>4, <1>5 DEF FlushTypes
  <1>7. /\ queue'[s] = q /\ sent'[s] = sent[s] + 1
        /\ \A d \in Sources \ {s} : queue'[d] = queue[d] /\ sent'[d] = sent[d]
    BY <1>1, <1>2, <1>5 DEF FlushTypes
  <1>8. MembersAdded' /\ FlushMeansReceived'
    BY <1>1 DEF FlushInv, MembersAdded, FlushMeansReceived
  <1>9. NothingLost'
    <2> SUFFICES ASSUME NEW d \in Sources, flush[d].state = "none"
                 PROVE  /\ \A i \in 1..Len(queue'[d]) : queue'[d][i] # "Flush"
                        /\ Alive(d) => sent'[d] <= received[d] + Len(queue'[d])
      BY <1>1 DEF NothingLost, Alive
    <2>1. CASE d = s
      <3>1. \A i \in 1..Len(q) : q[i] # "Flush"
        BY <2>1, <1>4 DEF FlushInv, NothingLost
      <3>2. sent[s] <= received[s] + Len(queue[s])
        BY <2>1, <1>1 DEF FlushInv, NothingLost
      <3>3. sent[s] + 1 <= received[s] + Len(q)
        BY <3>2, <1>3, <1>4
      <3> QED
        BY <2>1, <3>1, <3>3, <1>7
    <2>2. CASE d # s
      BY <2>2, <1>7 DEF FlushInv, NothingLost
    <2> QED
      BY <2>1, <2>2
  <1>10. FlushQueued'
    <2> SUFFICES ASSUME NEW d \in Sources, flush[d].state = "waiting"
                 PROVE  \E i \in Nat : FlushAt(queue'[d], received[d], flush[d].before, i)
      BY <1>1 DEF FlushQueued
    <2>1. PICK i \in Nat : FlushAt(queue[d], received[d], flush[d].before, i)
      BY DEF FlushInv, FlushQueued
    <2>2. FlushAt(queue'[d], received[d], flush[d].before, i)
      <3>1. CASE d = s
        BY <3>1, <2>1, <1>4, <1>7
      <3>2. CASE d # s
        BY <3>2, <2>1, <1>7
      <3> QED
        BY <3>1, <3>2
    <2> QED
      BY <2>2
  <1> QED
    BY <1>6, <1>8, <1>9, <1>10 DEF FlushInv

LEMMA FlushFlushInv ==
  ASSUME FlushInv, NEW s \in Sources, Flush(s)
  PROVE  FlushInv'
  <1> DEFINE state == IF Alive(s) THEN "waiting" ELSE "Closed"
             q == IF Alive(s) THEN Append(queue[s], "Flush") ELSE queue[s]
  <1>1. /\ flush[s].state = "none"
        /\ flush' = [flush EXCEPT ![s] = [state |-> state, before |-> sent[s]]]
        /\ UNCHANGED <<set, added, polled, received, sent>>
    BY DEF Flush
  <1>2. FlushTypes /\ "Flush" \in Payloads
    BY DEF FlushInv, Payloads
  <1>3. /\ queue[s] \in Seq(Payloads) /\ sent[s] \in Nat /\ received[s] \in Nat
        /\ flush[s].before \in Nat
    BY <1>2 DEF FlushTypes
  <1>4. /\ q \in Seq(Payloads)
        /\ Len(queue[s]) \in Nat
        /\ Alive(s) =>
              /\ Len(q) = Len(queue[s]) + 1 /\ q[Len(queue[s]) + 1] = "Flush"
              /\ \A i \in 1..Len(queue[s]) : q[i] = queue[s][i]
    BY <1>2, <1>3, QueueGrows
  <1>5. queue' = [queue EXCEPT ![s] = q]
    BY <1>2 DEF Flush, Put, FlushTypes
  <1>6. Alive(s) => FlushAt(q, received[s], sent[s], Len(queue[s]) + 1)
    <2> SUFFICES ASSUME Alive(s) PROVE FlushAt(q, received[s], sent[s], Len(queue[s]) + 1)
      OBVIOUS
    <2> HIDE DEF q
    <2> DEFINE N == Len(queue[s])
    <2>1. /\ \A i \in 1..N : queue[s][i] # "Flush"
          /\ sent[s] <= received[s] + N
      BY <1>1 DEF FlushInv, NothingLost
    <2>2. /\ N \in Nat /\ Len(q) = N + 1 /\ q[N + 1] = "Flush"
          /\ \A i \in 1..N : q[i] = queue[s][i]
      BY <1>4
    <2> HIDE DEF N
    <2>3. N + 1 \in 1..(N + 1) /\ (N + 1) - 1 = N
      BY <2>2
    <2>4. \A j \in 1..N : q[j] # "Flush"
      BY <2>1, <2>2
    <2>5. FlushAt(q, received[s], sent[s], N + 1)
      BY <2>1, <2>2, <2>3, <2>4 DEF FlushAt
    <2> QED
      BY <2>5 DEF N
  <1>7. state \in {"waiting", "Closed"} /\ (state = "waiting" => Alive(s))
    OBVIOUS
  <1> HIDE DEF q, state
  <1>8. FlushTypes'
    BY <1>1, <1>2, <1>3, <1>4, <1>5, <1>7 DEF FlushTypes
  <1>9. /\ queue'[s] = q /\ flush'[s].state = state /\ flush'[s].before = sent[s]
        /\ \A d \in Sources \ {s} : queue'[d] = queue[d] /\ flush'[d] = flush[d]
    BY <1>1, <1>2, <1>5 DEF FlushTypes
  <1>10. MembersAdded'
    BY <1>1 DEF FlushInv, MembersAdded
  <1>11. FlushMeansReceived'
    BY <1>1, <1>7, <1>9 DEF FlushInv, FlushMeansReceived
  <1>12. NothingLost'
    BY <1>1, <1>7, <1>9 DEF FlushInv, NothingLost, Alive
  <1>13. FlushQueued'
    <2> SUFFICES ASSUME NEW d \in Sources, flush'[d].state = "waiting"
                 PROVE  \E i \in Nat : FlushAt(queue'[d], received[d], flush'[d].before, i)
      BY <1>1 DEF FlushQueued
    <2>1. CASE d = s
      <3>1. Alive(s) /\ Len(queue[s]) + 1 \in Nat
        BY <2>1, <1>4, <1>7, <1>9
      <3>2. FlushAt(queue'[d], received[d], flush'[d].before, Len(queue[s]) + 1)
        BY <2>1, <3>1, <1>6, <1>9
      <3> QED
        BY <3>1, <3>2
    <2>2. CASE d # s
      BY <2>2, <1>9 DEF FlushInv, FlushQueued
    <2> QED
      BY <2>1, <2>2
  <1> QED
    BY <1>8, <1>10, <1>11, <1>12, <1>13 DEF FlushInv

\* The receiving thread takes the head of a queue.
LEMMA TakeFlushInv ==
  ASSUME FlushInv, NEW s \in Sources, Take(s)
  PROVE  FlushInv'
  <1> DEFINE h == Head(queue[s])
             q == Tail(queue[s])
             N == Len(queue[s])
  <1>1. FlushTypes
    BY DEF FlushInv
  <1>2. /\ queue[s] # <<>> /\ queue' = [queue EXCEPT ![s] = q]
        /\ UNCHANGED <<set, added, polled, sent>>
    BY DEF Take
  <1>3. \/ /\ h = "Flush" /\ UNCHANGED received
           /\ flush' = [flush EXCEPT ![s].state = IF @ = "waiting" THEN "Ok" ELSE @]
        \/ /\ h # "Flush" /\ UNCHANGED flush
           /\ received' = [received EXCEPT ![s] = @ + 1]
    BY DEF Take
  <1>4. /\ queue[s] \in Seq(Payloads) /\ sent[s] \in Nat /\ received[s] \in Nat
        /\ flush[s].before \in Nat
    BY <1>1 DEF FlushTypes
  <1>5. /\ q \in Seq(Payloads) /\ Len(q) = N - 1 /\ N \in Nat /\ 1 \in 1..N /\ h = queue[s][1]
        /\ \A i \in 1..(N - 1) : q[i] = queue[s][i + 1]
    BY <1>2, <1>4
  <1> HIDE DEF h, q
  <1>6. FlushTypes'
    <2>1. queue' \in [Sources -> Seq(Payloads)]
      BY <1>1, <1>2, <1>5 DEF FlushTypes
    <2>2. received' \in [Sources -> Nat]
      <3>1. received \in [Sources -> Nat] /\ received[s] + 1 \in Nat
        BY <1>1, <1>4 DEF FlushTypes
      <3>2. received' = received \/ received' = [received EXCEPT ![s] = received[s] + 1]
        BY <1>3
      <3> QED
        BY <3>1, <3>2
    <2>3. flush' \in [Sources -> [state : {"none", "waiting", "Ok", "Timeout", "Closed"},
                                  before : Nat]]
      BY <1>1, <1>3 DEF FlushTypes
    <2> QED
      BY <2>1, <2>2, <2>3, <1>1, <1>2 DEF FlushTypes
  <1>7. /\ queue'[s] = q
        /\ \A d \in Sources \ {s} : /\ queue'[d] = queue[d] /\ flush'[d] = flush[d]
                                    /\ received'[d] = received[d]
        /\ h = "Flush" => /\ received' = received /\ flush'[s].before = flush[s].before
                          /\ flush'[s].state
                                = IF flush[s].state = "waiting" THEN "Ok" ELSE flush[s].state
        /\ h # "Flush" => flush' = flush /\ received'[s] = received[s] + 1
    <2>1. /\ queue'[s] = q /\ \A d \in Sources \ {s} : queue'[d] = queue[d]
      BY <1>1, <1>2 DEF FlushTypes
    <2>2. CASE h = "Flush"
      BY <1>1, <1>3, <2>1, <2>2 DEF FlushTypes
    <2>3. CASE h # "Flush"
      BY <1>1, <1>3, <2>1, <2>3 DEF FlushTypes
    <2> QED
      BY <2>2, <2>3
  <1>8. MembersAdded'
    BY <1>2 DEF FlushInv, MembersAdded
  <1>9. ASSUME h # "Flush", NEW i \in Nat,
               FlushAt(queue[s], received[s], flush[s].before, i)
        PROVE  FlushAt(q, received[s] + 1, flush[s].before, i - 1) /\ i - 1 \in Nat
    <2> HIDE DEF N
    <2>1. /\ i \in 1..N /\ queue[s][i] = "Flush" /\ flush[s].before <= received[s] + (i - 1)
          /\ \A j \in 1..(i - 1) : queue[s][j] # "Flush"
      BY <1>9 DEF FlushAt, N
    <2>2. i # 1
      BY <2>1, <1>5, <1>9
    <2>3. i - 1 \in 1..(N - 1) /\ (i - 1) + 1 = i /\ i - 1 \in Nat
      BY <2>1, <2>2, <1>5
    <2>4. q[i - 1] = "Flush"
      BY <2>1, <2>3, <1>5
    <2>5. ASSUME NEW j \in 1..((i - 1) - 1) PROVE q[j] # "Flush"
      <3>1. j \in 1..(N - 1) /\ j + 1 \in 1..(i - 1)
        BY <2>3, <1>5
      <3> QED
        BY <3>1, <2>1, <1>5
    <2>6. flush[s].before <= (received[s] + 1) + ((i - 1) - 1)
      BY <2>1, <2>3, <1>4
    <2>7. i - 1 \in 1..Len(q)
      BY <2>3, <1>5 DEF N
    <2> QED
      BY <2>3, <2>4, <2>5, <2>6, <2>7 DEF FlushAt
  <1>10. FlushQueued'
    <2> SUFFICES ASSUME NEW d \in Sources, flush'[d].state = "waiting"
                 PROVE  \E i \in Nat : FlushAt(queue'[d], received'[d], flush'[d].before, i)
      BY DEF FlushQueued
    <2>1. CASE d = s
      <3>1. h # "Flush" /\ flush[s].state = "waiting"
        BY <2>1, <1>7
      <3>2. PICK i \in Nat : FlushAt(queue[s], received[s], flush[s].before, i)
        BY <3>1 DEF FlushInv, FlushQueued
      <3>3. FlushAt(q, received[s] + 1, flush[s].before, i - 1) /\ i - 1 \in Nat
        BY <3>1, <3>2, <1>9
      <3>4. queue'[d] = q /\ received'[d] = received[s] + 1 /\ flush'[d].before = flush[s].before
        BY <2>1, <3>1, <1>7
      <3> QED
        BY <3>3, <3>4
    <2>2. CASE d # s
      BY <2>2, <1>7 DEF FlushInv, FlushQueued
    <2> QED
      BY <2>1, <2>2
  <1>11. FlushMeansReceived'
    <2> SUFFICES ASSUME NEW d \in Sources, flush'[d].state = "Ok"
                 PROVE  received'[d] >= flush'[d].before
      BY DEF FlushMeansReceived
    <2>1. CASE d # s
      BY <2>1, <1>7 DEF FlushInv, FlushMeansReceived
    <2>2. CASE d = s /\ flush[s].state = "Ok"
      <3>1. received[s] >= flush[s].before /\ flush'[s].before = flush[s].before
        BY <2>2, <1>7 DEF FlushInv, FlushMeansReceived
      <3>2. received'[s] = received[s] \/ received'[s] = received[s] + 1
        BY <1>7
      <3> QED
        BY <2>2, <3>1, <3>2, <1>4
    <2>3. CASE d = s /\ flush[s].state # "Ok"
      <3>1. h = "Flush" /\ flush[s].state = "waiting"
        BY <2>3, <1>7
      <3>2. PICK i \in Nat : FlushAt(queue[s], received[s], flush[s].before, i)
        BY <3>1 DEF FlushInv, FlushQueued
      <3>3. /\ i \in 1..N /\ flush[s].before <= received[s] + (i - 1)
            /\ \A j \in 1..(i - 1) : queue[s][j] # "Flush"
        BY <3>2 DEF FlushAt
      <3>4. i = 1
        <4>1. 1 \notin 1..(i - 1)
          BY <3>1, <3>3, <1>5
        <4> QED
          BY <4>1, <3>3
      <3>5. flush[s].before <= received[s]
        BY <3>3, <3>4, <1>4
      <3> QED
        BY <2>3, <3>1, <3>5, <1>4, <1>7
    <2> QED
      BY <2>1, <2>2, <2>3
  <1>12. NothingLost'
    <2> SUFFICES ASSUME NEW d \in Sources, flush'[d].state = "none"
                 PROVE  /\ \A i \in 1..Len(queue'[d]) : queue'[d][i] # "Flush"
                        /\ Alive(d) => sent[d] <= received'[d] + Len(queue'[d])
      BY <1>2 DEF NothingLost, Alive
    <2>1. CASE d = s
      <3>1. flush[s].state = "none"
        BY <2>1, <1>7
      <3>2. /\ \A i \in 1..N : queue[s][i] # "Flush"
            /\ Alive(s) => sent[s] <= received[s] + N
        BY <3>1 DEF FlushInv, NothingLost
      <3>3. h # "Flush" /\ received'[s] = received[s] + 1
        BY <3>2, <1>5, <1>7
      <3>4. \A i \in 1..(N - 1) : i + 1 \in 1..N
        BY <1>5
      <3>5. \A i \in 1..Len(q) : q[i] # "Flush"
        BY <3>2, <3>4, <1>5
      <3>6. Alive(s) => sent[s] <= (received[s] + 1) + Len(q)
        BY <3>2, <1>4, <1>5
      <3> QED
        BY <2>1, <3>3, <3>5, <3>6, <1>7
    <2>2. CASE d # s
      BY <2>2, <1>7 DEF FlushInv, NothingLost
    <2> QED
      BY <2>1, <2>2
  <1> QED
    BY <1>6, <1>8, <1>10, <1>11, <1>12 DEF FlushInv

\* Receivers leave the set: their flushes fail and their channels are dead.
LEMMA DropFlushInv ==
  ASSUME FlushInv, NEW gone, gone \subseteq Range(set),
         set' \in Retained(set, Sources \ gone), DropReceivers(gone),
         UNCHANGED <<added, polled, sent, received>>
  PROVE  FlushInv'
  <1>1. FlushTypes
    BY DEF FlushInv
  <1>2. /\ set' \in BoundedSeq(Range(set), Len(set))
        /\ Range(set') = Range(set) \cap (Sources \ gone)
    BY DEF Retained
  <1>3. Range(set) \subseteq Sources /\ Len(set) \in Nat
    BY <1>1 DEF FlushTypes, Range
  <1>4. set' \in Seq(Sources)
    <2>1. PICK m \in 0..Len(set) : set' \in [1..m -> Range(set)]
      BY <1>2 DEF BoundedSeq, SeqOf
    <2>2. m \in Nat /\ set' \in [1..m -> Sources]
      BY <2>1, <1>3
    <2> QED
      BY <2>2
  <1>5. /\ queue' = [s \in Sources |-> IF s \in gone THEN <<>> ELSE queue[s]]
        /\ flush' = [s \in Sources |->
                       IF s \in gone /\ flush[s].state = "waiting"
                         THEN [flush[s] EXCEPT !.state = "Closed"] ELSE flush[s]]
    BY DEF DropReceivers
  <1>6. FlushTypes'
    <2>1. queue' \in [Sources -> Seq(Payloads)]
      BY <1>1, <1>5 DEF FlushTypes
    <2>2. flush' \in [Sources -> [state : {"none", "waiting", "Ok", "Timeout", "Closed"},
                                  before : Nat]]
      BY <1>1, <1>5 DEF FlushTypes
    <2> QED
      BY <2>1, <2>2, <1>1, <1>4 DEF FlushTypes
  <1>7. MembersAdded'
    BY <1>2 DEF FlushInv, MembersAdded
  <1>8. \A d \in Sources :
           /\ flush'[d].state = "waiting" => d \notin gone
           /\ flush'[d].state = "none" => flush[d].state = "none"
           /\ flush'[d].state = "Ok" => flush[d].state = "Ok" /\ flush'[d] = flush[d]
           /\ d \notin gone => queue'[d] = queue[d] /\ flush'[d] = flush[d]
           /\ d \in gone => queue'[d] = <<>>
    BY <1>1, <1>5 DEF FlushTypes
  <1>9. FlushMeansReceived'
    BY <1>8 DEF FlushInv, FlushMeansReceived
  <1>10. FlushQueued'
    BY <1>8 DEF FlushInv, FlushQueued
  <1> DEFINE AliveNext(d) == d \notin added \/ d \in Range(set')
  <1>11. \A d \in Sources : AliveNext(d) => d \notin gone /\ Alive(d)
    BY <1>2 DEF FlushInv, MembersAdded, Alive
  <1>12. NothingLost'
    <2> SUFFICES ASSUME NEW d \in Sources, flush'[d].state = "none"
                 PROVE  /\ \A i \in 1..Len(queue'[d]) : queue'[d][i] # "Flush"
                        /\ AliveNext(d) => sent[d] <= received[d] + Len(queue'[d])
      BY DEF NothingLost, Alive
    <2>1. CASE d \in gone
      BY <2>1, <1>8, <1>11
    <2>2. CASE d \notin gone
      BY <2>2, <1>8, <1>11 DEF FlushInv, NothingLost
    <2> QED
      BY <2>1, <2>2
  <1> QED
    BY <1>6, <1>7, <1>9, <1>10, <1>12 DEF FlushInv

\* A receiver joins the set: its channel was alive before and still is.
LEMMA AddFlushInv ==
  ASSUME FlushInv, NEW s \in Sources, Add(s)
  PROVE  FlushInv'
  <1>1. /\ s \notin added /\ added' = added \cup {s} /\ set' = Append(set, s)
        /\ UNCHANGED <<queue, sent, flush, polled, received>>
    BY DEF Add, channels
  <1>2. FlushTypes
    BY DEF FlushInv
  <1>3. set \in Seq(Sources)
    BY <1>2 DEF FlushTypes
  <1>4. set' \in Seq(Sources) /\ Range(set') = Range(set) \cup {s}
    <2> DEFINE N == Len(set)
    <2>1. /\ set' \in Seq(Sources) /\ N \in Nat /\ Len(set') = N + 1 /\ set'[N + 1] = s
          /\ \A i \in 1..N : set'[i] = set[i]
          /\ DOMAIN set' = 1..(N + 1) /\ DOMAIN set = 1..N
      BY <1>1, <1>3
    <2>2. /\ \A i \in 1..(N + 1) : i \in 1..N \/ i = N + 1
          /\ 1..N \subseteq 1..(N + 1) /\ N + 1 \in 1..(N + 1)
      BY <2>1
    <2> QED
      BY <2>1, <2>2 DEF Range
  <1>5. FlushTypes'
    BY <1>1, <1>2, <1>4 DEF FlushTypes
  <1>6. MembersAdded'
    BY <1>1, <1>4 DEF FlushInv, MembersAdded
  <1>7. FlushMeansReceived' /\ FlushQueued'
    BY <1>1 DEF FlushInv, FlushMeansReceived, FlushQueued
  <1> DEFINE AliveNext(d) == d \notin added' \/ d \in Range(set')
  <1>8. \A d \in Sources : AliveNext(d) => Alive(d)
    BY <1>1, <1>4 DEF Alive
  <1>9. NothingLost'
    <2> SUFFICES ASSUME NEW d \in Sources, flush[d].state = "none"
                 PROVE  /\ \A i \in 1..Len(queue[d]) : queue[d][i] # "Flush"
                        /\ AliveNext(d) => sent[d] <= received[d] + Len(queue[d])
      BY <1>1 DEF NothingLost, Alive
    <2> QED
      BY <1>8 DEF FlushInv, NothingLost
  <1> QED
    BY <1>5, <1>6, <1>7, <1>9 DEF FlushInv

\* Steps that touch neither queues nor the set.
LEMMA QuietFlushInv ==
  ASSUME FlushInv, UNCHANGED <<queue, sent, received, flush, set, added>>, polled' \in Nat
  PROVE  FlushInv'
  <1>1. FlushTypes' /\ MembersAdded'
    BY DEF FlushInv, FlushTypes, MembersAdded
  <1>2. NothingLost'
    BY DEF FlushInv, NothingLost, Alive
  <1>3. FlushQueued' /\ FlushMeansReceived'
    BY DEF FlushInv, FlushQueued, FlushMeansReceived
  <1> QED
    BY <1>1, <1>2, <1>3 DEF FlushInv

LEMMA FlushTimeoutFlushInv ==
  ASSUME FlushInv, NEW s \in Sources, FlushTimeout(s)
  PROVE  FlushInv'
  <1>1. FlushTypes
    BY DEF FlushInv
  <1>2. /\ flush' = [flush EXCEPT ![s].state = "Timeout"]
        /\ UNCHANGED <<queue, set, added, polled, sent, received>>
    BY DEF FlushTimeout
  <1>3. FlushTypes'
    BY <1>1, <1>2 DEF FlushTypes
  <1>4. /\ flush'[s].state = "Timeout" /\ \A d \in Sources \ {s} : flush'[d] = flush[d]
    BY <1>1, <1>2 DEF FlushTypes
  <1>5. \A d \in Sources : flush'[d].state \in {"none", "waiting", "Ok"} => flush'[d] = flush[d]
    BY <1>4
  <1>6. MembersAdded'
    BY <1>2 DEF FlushInv, MembersAdded
  <1>7. NothingLost'
    BY <1>2, <1>5 DEF FlushInv, NothingLost, Alive
  <1>8. FlushQueued' /\ FlushMeansReceived'
    BY <1>2, <1>5 DEF FlushInv, FlushQueued, FlushMeansReceived
  <1> QED
    BY <1>3, <1>6, <1>7, <1>8 DEF FlushInv

LEMMA NextFlushInv == FlushInv /\ [Next]_vars => FlushInv'
  <1> SUFFICES ASSUME FlushInv, [Next]_vars PROVE FlushInv'
    OBVIOUS
  <1>0. polled \in Nat /\ set \in Seq(Sources)
    BY DEF FlushInv, FlushTypes
  <1>1. ASSUME NEW s \in Sources, NEW p \in {"Msg", "Quit"}, Send(s, p) PROVE FlushInv'
    BY <1>1, SendFlushInv
  <1>2. ASSUME NEW s \in Sources, Flush(s) \/ FlushTimeout(s) \/ Add(s) PROVE FlushInv'
    BY <1>2, FlushFlushInv, FlushTimeoutFlushInv, AddFlushInv
  <1>3. ASSUME NEW s \in Sources, CloseSender(s) PROVE FlushInv'
    BY <1>0, <1>3, QuietFlushInv DEF CloseSender
  <1>4. ASSUME NEW gone \in SUBSET Range(set), RemoveReceivers(gone) PROVE FlushInv'
    BY <1>4, DropFlushInv DEF RemoveReceivers
  <1>5. CASE ListSources \/ Check \/ Begin
    <2>1. Culled \subseteq Range(set)
      BY DEF Culled
    <2>2. Retain /\ UNCHANGED <<added, polled, sent, received>>
      BY <1>5 DEF ListSources, Check, Begin
    <2> QED
      BY <2>1, <2>2, DropFlushInv DEF Retain
  <1>6. ASSUME NEW s \in Sources, SelectMessage(s) PROVE FlushInv'
    BY <1>6, TakeFlushInv DEF SelectMessage
  <1>7. CASE PollMessage
    <2>1. set[polled + 1] \in Sources
      BY <1>0, <1>7 DEF PollMessage
    <2> QED
      BY <1>7, <2>1, TakeFlushInv DEF PollMessage
  <1>8. ASSUME NEW s \in Sources, SelectDisconnected(s) PROVE FlushInv'
    BY <1>8, QuietFlushInv DEF SelectDisconnected, channels
  <1>9. CASE SelectNothing \/ PollEnds
    BY <1>0, <1>9, QuietFlushInv DEF SelectNothing, PollEnds, channels
  <1>10. CASE PollNothing
    <2>1. polled' = polled + 1 /\ UNCHANGED <<queue, sent, received, flush, set, added>>
      BY <1>10 DEF PollNothing, channels
    <2> QED
      BY <1>0, <2>1, QuietFlushInv
  <1>11. CASE UNCHANGED vars
    BY <1>0, <1>11, QuietFlushInv DEF vars
  <1> QED
    BY <1>1, <1>2, <1>3, <1>4, <1>5, <1>6, <1>7, <1>8, <1>9, <1>10, <1>11
    DEF Next, Reading, Sendable

\* flush_blocking returns Ok only after the reader has received all that was
\* sent on the channel before it, whichever receive calls, removals, timeouts
\* and other channels come between.
THEOREM ReceiversFlushMeansReceived == Spec => []FlushMeansReceived
  <1>1. FlushInv => FlushMeansReceived
    BY DEF FlushInv
  <1> QED
    BY <1>1, InitFlushInv, NextFlushInv, PTL DEF Spec
=============================================================================
