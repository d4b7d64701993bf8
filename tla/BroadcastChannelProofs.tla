----------------------- MODULE BroadcastChannelProofs -----------------------
(***************************************************************************)
(* Proof that the backpressure of BroadcastChannel keeps tokio's broadcast *)
(* buffer from overflowing, for every number of senders and receivers,     *)
(* every max_messages >= 1, every max_bytes and every set of sizes.        *)
(*                                                                         *)
(* The argument: the messages a receiver has not read are all live, every  *)
(* live message is counted in messages_in_flight, and try_send never takes *)
(* messages_in_flight above max_messages.                                  *)
(***************************************************************************)
EXTENDS BroadcastChannel, FiniteSetTheorems, SequenceTheorems, TLAPS

SizeInCall == \A s \in Senders : spc[s] # "idle" => size[s] \in Sizes

Reserved == {s \in Senders : spc[s] = "reserved"}

\* The receivers that num_receivers counts.
Counted ==
    {r \in Receivers : rpc[r] \in {"subscribing", "idle", "holding", "notify"}}

ReceiverCount == num_receivers = Cardinality(Counted)

\* Receivers read only what was sent.
Positions ==
    \A r \in Receivers :
        /\ next[r] <= Len(log) + 1
        /\ rpc[r] = "holding" => next[r] >= 2
        /\ rpc[r] \in {"draining", "drain_notify"} => until[r] <= Len(log) + 1

CountWithinLimit == messages_in_flight <= MaxMessages

Inv == /\ TypeOK
       /\ SizeInCall
       /\ ReceiverCount
       /\ Positions
       /\ MessageAccounting
       /\ CountWithinLimit

-----------------------------------------------------------------------------

LEMMA LiveFinite ==
  ASSUME log \in Seq(Sizes)
  PROVE  IsFiniteSet(Live) /\ Cardinality(Live) \in Nat
  <1>1. IsFiniteSet(1..Len(log))
    BY FS_Interval
  <1>2. IsFiniteSet(Live)
    BY <1>1, FS_Subset DEF Live
  <1> QED
    BY <1>2, FS_CardinalityType

LEMMA ReservedFinite == IsFiniteSet(Reserved) /\ Cardinality(Reserved) \in Nat
  <1>1. IsFiniteSet(Reserved)
    BY FS_Subset, BroadcastAssumption DEF Reserved
  <1> QED
    BY <1>1, FS_CardinalityType

LEMMA CountedFinite == IsFiniteSet(Counted) /\ Cardinality(Counted) \in Nat
  <1>1. IsFiniteSet(Counted)
    BY FS_Subset, BroadcastAssumption DEF Counted
  <1> QED
    BY <1>1, FS_CardinalityType

\* What no step changes who refers to stays live.
LEMMA LiveSame ==
  ASSUME log' = log,
         \A r \in Receivers, p \in 1..Len(log) : Refers(r, p)' <=> Refers(r, p)
  PROVE  Live' = Live
  BY DEF Live

LEMMA ReceiversSame ==
  ASSUME UNCHANGED <<log, rpc, next, until>>
  PROVE  Live' = Live /\ Counted' = Counted
  BY DEF Live, Counted, Refers, Unread, Holding, Attached

\* A receiver lags by no more messages than are live.
LEMMA LagIsLive ==
  ASSUME Inv, NEW r \in Receivers, NEW hi \in Nat, hi <= Len(log),
         \A p \in 1..Len(log) : next[r] <= p /\ p <= hi => Unread(r, p)
  PROVE  hi + 1 - next[r] <= MaxMessages
  <1>1. /\ next[r] \in Nat \ {0}
        /\ messages_in_flight \in Nat
        /\ Len(log) \in Nat
        /\ MaxMessages \in Nat
    BY BroadcastAssumption DEF Inv, TypeOK
  <1>2. next[r]..hi \subseteq Live
    BY <1>1 DEF Live, Refers
  <1>3. IsFiniteSet(Live) /\ Cardinality(Live) \in Nat
    BY LiveFinite DEF Inv, TypeOK
  <1>4. Cardinality(next[r]..hi) <= Cardinality(Live)
    BY <1>2, <1>3, FS_Subset
  <1>5. Cardinality(next[r]..hi) = IF next[r] > hi THEN 0 ELSE hi - next[r] + 1
    <2>1. next[r] \in Int /\ hi \in Int
      BY <1>1
    <2> HIDE <1>1
    <2> QED
      BY <2>1, FS_Interval
  <1>6. Cardinality(Live) <= messages_in_flight
    BY <1>1, <1>3, ReservedFinite DEF Inv, MessageAccounting, Reserved
  <1> QED
    BY <1>1, <1>3, <1>4, <1>5, <1>6 DEF Inv, CountWithinLimit

LEMMA InvNoLag == Inv => NoLag
  <1> SUFFICES ASSUME Inv, NEW r \in Receivers
               PROVE  /\ Attached(r) => Len(log) + 1 - next[r] <= MaxMessages
                      /\ rpc[r] \in {"draining", "drain_notify"}
                           => until[r] - next[r] <= MaxMessages
    BY DEF NoLag
  <1>1. CASE Attached(r)
    <2>1. Len(log) \in Nat
      BY DEF Inv, TypeOK
    <2>2. rpc[r] \notin {"draining", "drain_notify"}
      BY <1>1 DEF Attached
    <2> QED
      BY <1>1, <2>1, <2>2, LagIsLive DEF Unread
  <1>2. CASE rpc[r] \in {"draining", "drain_notify"}
    <2>1. /\ Len(log) \in Nat /\ next[r] \in Nat \ {0} /\ until[r] \in Nat
          /\ until[r] <= Len(log) + 1 /\ MaxMessages \in Nat
      BY <1>2, BroadcastAssumption DEF Inv, TypeOK, Positions
    <2>2. CASE until[r] = 0
      BY <1>2, <2>1, <2>2 DEF Attached
    <2>3. CASE until[r] # 0
      <3>1. until[r] - 1 \in Nat /\ until[r] - 1 <= Len(log)
        BY <2>1, <2>3
      <3>2. \A p \in 1..Len(log) : next[r] <= p /\ p <= until[r] - 1 => Unread(r, p)
        BY <1>2, <2>1 DEF Unread
      <3>3. (until[r] - 1) + 1 - next[r] <= MaxMessages
        BY <3>1, <3>2, LagIsLive
      <3> QED
        BY <1>2, <2>1, <3>3 DEF Attached
    <2> QED
      BY <2>2, <2>3
  <1> QED
    BY <1>1, <1>2

LEMMA InitInv == Init => Inv
  <1> SUFFICES ASSUME Init PROVE Inv
    OBVIOUS
  <1> USE BroadcastAssumption
  <1>1. TypeOK
    BY DEF Init, TypeOK, SenderStates, ReceiverStates
  <1>2. SizeInCall /\ CountWithinLimit /\ Positions
    BY DEF Init, SizeInCall, CountWithinLimit, Positions
  <1>3. Counted = {First}
    BY DEF Init, Counted
  <1>4. ReceiverCount
    BY <1>3, FS_Singleton DEF Init, ReceiverCount
  <1>5. Live = {} /\ Reserved = {}
    BY DEF Init, Live, Reserved
  <1>6. MessageAccounting
    <2>1. Cardinality(Live) = 0 /\ Cardinality(Reserved) = 0
      BY <1>5, FS_EmptySet
    <2>2. messages_in_flight = Cardinality(Live) + Cardinality(Reserved)
      BY <2>1 DEF Init
    <2> QED
      BY <2>2 DEF MessageAccounting, Reserved
  <1> QED
    BY <1>1, <1>2, <1>4, <1>6 DEF Inv

-----------------------------------------------------------------------------
(* One lemma per kind of step. *)

\* Steps of senders that count nothing: the calls, the failed attempts, and
\* every change of who is parked.
LEMMA SenderIdleStep ==
  ASSUME Inv, UNCHANGED <<log, counters, num_receivers, rpc, next, until>>,
         spc' \in [Senders -> SenderStates],
         size' \in [Senders -> Nat], warned' \in [Senders -> BOOLEAN],
         sends' \in 0..MaxSends,
         \A s \in Senders : /\ spc'[s] = "reserved" <=> spc[s] = "reserved"
                            /\ spc'[s] # "idle" => size'[s] \in Sizes
  PROVE  Inv'
  <1>1. Reserved' = Reserved
    BY DEF Reserved
  <1>2. Live' = Live /\ Counted' = Counted
    BY ReceiversSame
  <1>3. MessageAccounting'
    BY <1>1, <1>2 DEF Inv, MessageAccounting, Reserved, counters
  <1>4. ReceiverCount'
    BY <1>2 DEF Inv, ReceiverCount
  <1> QED
    BY <1>3, <1>4 DEF Inv, TypeOK, SizeInCall, Positions, CountWithinLimit, counters

\* notify_waiters as the last part of a step of receiver r that refers to the
\* same messages as before.
LEMMA ReceiverSameStep ==
  ASSUME Inv, UNCHANGED <<log, counters, sends, size, warned>>,
         num_receivers' \in Nat,
         spc' = spc \/ NotifyWaiters,
         rpc' \in [Receivers -> ReceiverStates],
         next' \in [Receivers -> Nat \ {0}],
         until' \in [Receivers -> Nat],
         \A r \in Receivers, p \in 1..Len(log) : Refers(r, p)' <=> Refers(r, p),
         ReceiverCount', Positions'
  PROVE  Inv'
  <1>t. TypeOK
    BY DEF Inv
  <1>1. /\ spc' \in [Senders -> SenderStates]
        /\ \A s \in Senders : /\ spc'[s] = "reserved" <=> spc[s] = "reserved"
                              /\ spc'[s] = "idle" <=> spc[s] = "idle"
    BY <1>t DEF TypeOK, SenderStates, NotifyWaiters, Woken
  <1>2. Reserved' = Reserved
    BY <1>1 DEF Reserved
  <1>3. Live' = Live
    BY LiveSame
  <1>4. MessageAccounting'
    BY <1>2, <1>3 DEF Inv, MessageAccounting, Reserved, counters
  <1>5. SizeInCall'
    BY <1>1 DEF Inv, SizeInCall
  <1> QED
    BY <1>1, <1>4, <1>5 DEF Inv, TypeOK, CountWithinLimit, counters

\* The last reference to p goes away and is counted off; or it was not the last.
LEMMA DropReferenceStep ==
  ASSUME Inv, UNCHANGED <<log, num_receivers, sends, senderVars>>,
         NEW r \in Receivers, NEW p \in 1..Len(log), Refers(r, p),
         NEW notifying \in ReceiverStates, NEW done \in ReceiverStates,
         DropReference(r, p, notifying, done),
         next' \in [Receivers -> Nat \ {0}],
         until' \in [Receivers -> Nat],
         ~Refers(r, p)',
         \A q \in Receivers, i \in 1..Len(log) :
            q # r \/ i # p => (Refers(q, i)' <=> Refers(q, i)),
         ReceiverCount', Positions'
  PROVE  Inv'
  <1>t. TypeOK
    BY DEF Inv
  <1>1. Reserved' = Reserved
    BY DEF Reserved, senderVars
  <1>2. Len(log) \in Nat /\ log[p] \in Nat
    <2>1. log \in Seq(Sizes)
      BY <1>t DEF TypeOK
    <2>2. log[p] \in Sizes /\ Len(log) \in Nat
      BY <2>1
    <2> QED
      BY <2>2, BroadcastAssumption
  <1>3. rpc' \in [Receivers -> ReceiverStates]
    BY <1>t DEF DropReference, TypeOK
  <1>4. CASE \E q \in Receivers \ {r} : Refers(q, p)
    <2>1. Live' = Live
      BY <1>4 DEF Live
    <2>2. MessageAccounting'
      BY <1>1, <1>4, <2>1 DEF Inv, MessageAccounting, Reserved, DropReference, counters
    <2> QED
      BY <1>t, <1>3, <1>4, <2>2 DEF Inv, TypeOK, CountWithinLimit, DropReference,
           counters, senderVars, SizeInCall
  <1>5. CASE ~ \E q \in Receivers \ {r} : Refers(q, p)
    <2>1. p \in Live /\ Live' = Live \ {p}
      BY <1>5 DEF Live
    <2>2. IsFiniteSet(Live)
      BY <1>t, LiveFinite DEF TypeOK
    <2>3. /\ Cardinality(Live') = Cardinality(Live) - 1
          /\ Cardinality(Live') \in Nat
      BY <2>1, <2>2, FS_RemoveElement, FS_CardinalityType
    <2>4. messages_in_flight' = messages_in_flight - 1
      BY <1>5 DEF DropReference
    <2>5. messages_in_flight = Cardinality(Live) + Cardinality(Reserved)
      BY DEF Inv, MessageAccounting, Reserved
    <2>6. Cardinality(Live) \in Nat /\ Cardinality(Reserved) \in Nat
      BY <2>2, FS_CardinalityType, ReservedFinite
    <2>7. /\ messages_in_flight' = Cardinality(Live') + Cardinality(Reserved)
          /\ messages_in_flight' \in Nat
          /\ messages_in_flight' <= MaxMessages
      <3>1. messages_in_flight <= MaxMessages /\ MaxMessages \in Nat
        BY BroadcastAssumption DEF Inv, CountWithinLimit
      <3> QED
        BY <3>1, <2>3, <2>4, <2>5, <2>6
    <2>8. MessageAccounting'
      BY <1>1, <2>7 DEF MessageAccounting, Reserved
    <2>9. bytes_in_flight' \in Int
      BY <1>t, <1>2, <1>5 DEF DropReference, TypeOK
    <2> QED
      BY <1>t, <1>3, <2>7, <2>8, <2>9 DEF Inv, TypeOK, CountWithinLimit, senderVars,
           SizeInCall
  <1> QED
    BY <1>4, <1>5

LEMMA SenderSteps ==
  ASSUME Inv, NEW s \in Senders,
         \/ SendCall(s) \/ NoReceivers(s) \/ Full(s) \/ Park(s) \/ Timeout(s)
         \/ InnerSendFailsNotify(s)
  PROVE  Inv'
  <1>t. TypeOK /\ SizeInCall
    BY DEF Inv
  <1> USE BroadcastAssumption DEF TypeOK, SizeInCall, SenderStates
  <1>1. CASE SendCall(s)
    <2>1. PICK z \in Sizes : SendAsync(s, z)
      BY <1>1 DEF SendCall
    <2> QED
      BY <1>t, <2>1, SenderIdleStep DEF SendAsync
  <1>2. CASE NoReceivers(s) \/ Full(s)
    BY <1>t, <1>2, SenderIdleStep DEF NoReceivers, Full
  <1>3. CASE Park(s) \/ Timeout(s)
    BY <1>t, <1>3, SenderIdleStep DEF Park, Timeout
  <1>4. CASE InnerSendFailsNotify(s)
    BY <1>t, <1>4, SenderIdleStep DEF InnerSendFailsNotify, Woken
  <1> QED
    BY <1>1, <1>2, <1>3, <1>4

LEMMA ReserveStep ==
  ASSUME Inv, NEW s \in Senders, Reserve(s)
  PROVE  Inv'
  <1>t. TypeOK /\ SizeInCall
    BY DEF Inv
  <1>1. Reserved' = Reserved \cup {s} /\ s \notin Reserved
    BY <1>t DEF Reserve, Reserved, TypeOK, SenderStates
  <1>2. Cardinality(Reserved') = Cardinality(Reserved) + 1
    BY <1>1, ReservedFinite, FS_AddElement
  <1>3. Live' = Live /\ Counted' = Counted
    BY ReceiversSame DEF Reserve
  <1>4. Cardinality(Live) \in Nat /\ Cardinality(Reserved) \in Nat
    BY <1>t, LiveFinite, ReservedFinite DEF TypeOK
  <1>5. messages_in_flight = Cardinality(Live) + Cardinality(Reserved)
    BY DEF Inv, MessageAccounting, Reserved
  <1>6. messages_in_flight' = Cardinality(Live') + Cardinality(Reserved')
    BY <1>2, <1>3, <1>4, <1>5 DEF Reserve
  <1>7. MessageAccounting'
    BY <1>6 DEF MessageAccounting, Reserved
  <1>8. CountWithinLimit'
    BY <1>t, BroadcastAssumption DEF Reserve, WithinLimits, CountWithinLimit, TypeOK
  <1>9. ReceiverCount' /\ Positions'
    BY <1>3 DEF Inv, ReceiverCount, Positions, Reserve
  <1>10. TypeOK' /\ SizeInCall'
    BY <1>t, BroadcastAssumption DEF Reserve, TypeOK, SizeInCall, SenderStates
  <1> QED
    BY <1>7, <1>8, <1>9, <1>10 DEF Inv

\* inner.send turns a reservation into a live message.
LEMMA InnerSendStep ==
  ASSUME Inv, NEW s \in Senders, InnerSend(s)
  PROVE  Inv'
  <1>t. TypeOK /\ SizeInCall
    BY DEF Inv
  <1> DEFINE new == Len(log) + 1
  <1>1. /\ size[s] \in Sizes
        /\ Len(log) \in Nat
        /\ log' \in Seq(Sizes)
        /\ Len(log') = new
    BY <1>t DEF InnerSend, TypeOK, SizeInCall
  <1>2. s \in Reserved /\ Reserved' = Reserved \ {s}
    BY <1>t DEF InnerSend, Reserved, TypeOK, SenderStates
  <1>3. Cardinality(Reserved') = Cardinality(Reserved) - 1
    BY <1>2, ReservedFinite, FS_RemoveElement
  <1>4. PICK r \in Receivers : Attached(r)
    BY DEF InnerSend
  <1>5. \A q \in Receivers : \A p \in 1..new : Refers(q, p)' <=> Refers(q, p)
    BY DEF InnerSend, Refers, Unread, Holding, Attached
  <1>6. Refers(r, new)
    BY <1>4 DEF Refers, Unread, Inv, Positions
  <1>7. Live' = Live \cup {new} /\ new \notin Live
    <2>1. new \in 1..Len(log') /\ new \notin 1..Len(log)
      BY <1>1
    <2>2. 1..Len(log') = 1..Len(log) \cup {new}
      BY <1>1
    <2> QED
      BY <1>5, <1>6, <2>1, <2>2 DEF Live
  <1>8. Cardinality(Live') = Cardinality(Live) + 1
    BY <1>t, <1>7, LiveFinite, FS_AddElement DEF TypeOK
  <1>9. Cardinality(Live) \in Nat /\ Cardinality(Reserved) \in Nat
    BY <1>t, LiveFinite, ReservedFinite DEF TypeOK
  <1>10. messages_in_flight = Cardinality(Live) + Cardinality(Reserved)
    BY DEF Inv, MessageAccounting, Reserved
  <1>11. messages_in_flight' = Cardinality(Live') + Cardinality(Reserved')
    BY <1>3, <1>8, <1>9, <1>10 DEF InnerSend, counters
  <1>12. MessageAccounting'
    BY <1>11 DEF MessageAccounting, Reserved
  <1>13. ReceiverCount' /\ CountWithinLimit'
    BY DEF Inv, InnerSend, counters, ReceiverCount, Counted, CountWithinLimit
  <1>14. Positions'
    BY <1>t, <1>1 DEF Inv, InnerSend, Positions, TypeOK
  <1>15. TypeOK' /\ SizeInCall'
    BY <1>t, <1>1 DEF InnerSend, TypeOK, SizeInCall, SenderStates, counters
  <1> QED
    BY <1>12, <1>13, <1>14, <1>15 DEF Inv

LEMMA InnerSendFailsStep ==
  ASSUME Inv, NEW s \in Senders, InnerSendFails(s)
  PROVE  Inv'
  <1>t. TypeOK /\ SizeInCall
    BY DEF Inv
  <1>1. s \in Reserved /\ Reserved' = Reserved \ {s}
    BY <1>t DEF InnerSendFails, Reserved, TypeOK, SenderStates
  <1>2. /\ Cardinality(Reserved') = Cardinality(Reserved) - 1
        /\ Cardinality(Reserved') \in Nat
    BY <1>1, ReservedFinite, FS_RemoveElement, FS_CardinalityType
  <1>3. Live' = Live /\ Counted' = Counted
    BY ReceiversSame DEF InnerSendFails
  <1>4. Cardinality(Live) \in Nat /\ Cardinality(Reserved) \in Nat
    BY <1>t, LiveFinite, ReservedFinite DEF TypeOK
  <1>5. messages_in_flight = Cardinality(Live) + Cardinality(Reserved)
    BY DEF Inv, MessageAccounting, Reserved
  <1>6. /\ messages_in_flight' = Cardinality(Live') + Cardinality(Reserved')
        /\ messages_in_flight' \in Nat
    BY <1>2, <1>3, <1>4, <1>5 DEF InnerSendFails
  <1>7. MessageAccounting'
    BY <1>6 DEF MessageAccounting, Reserved
  <1>8. CountWithinLimit'
    BY <1>t, BroadcastAssumption DEF Inv, InnerSendFails, CountWithinLimit, TypeOK
  <1>9. ReceiverCount' /\ Positions'
    BY <1>3 DEF Inv, ReceiverCount, Positions, InnerSendFails
  <1>10. TypeOK' /\ SizeInCall'
    BY <1>t, <1>6, BroadcastAssumption
       DEF InnerSendFails, TypeOK, SizeInCall, SenderStates
  <1> QED
    BY <1>7, <1>8, <1>9, <1>10 DEF Inv

LEMMA SubscribeStep ==
  ASSUME Inv, NEW r \in Receivers, Subscribe(r)
  PROVE  Inv'
  <1>t. TypeOK
    BY DEF Inv
  <1>1. Counted' = Counted \cup {r} /\ r \notin Counted
    BY <1>t DEF Subscribe, Counted, TypeOK, ReceiverStates
  <1>2. Cardinality(Counted') = Cardinality(Counted) + 1
    BY <1>1, CountedFinite, FS_AddElement
  <1>3. ReceiverCount' /\ num_receivers' \in Nat
    BY <1>t, <1>2 DEF Inv, ReceiverCount, Subscribe, TypeOK
  <1>4. Positions'
    BY <1>t DEF Inv, Positions, Subscribe, TypeOK, ReceiverStates
  <1>5. \A q \in Receivers, p \in 1..Len(log) : Refers(q, p)' <=> Refers(q, p)
    BY <1>t DEF Subscribe, Refers, Unread, Holding, Attached, TypeOK, ReceiverStates
  <1> QED
    BY <1>t, <1>3, <1>4, <1>5, ReceiverSameStep
       DEF Subscribe, TypeOK, ReceiverStates, senderVars

LEMMA DropReceiverStep ==
  ASSUME Inv, NEW r \in Receivers, DropReceiver(r)
  PROVE  Inv'
  <1>t. TypeOK
    BY DEF Inv
  <1>1. r \in Counted /\ Counted' = Counted \ {r}
    BY <1>t DEF DropReceiver, Counted, TypeOK, ReceiverStates
  <1>2. /\ Cardinality(Counted') = Cardinality(Counted) - 1
        /\ Cardinality(Counted') \in Nat
    BY <1>1, CountedFinite, FS_RemoveElement, FS_CardinalityType
  <1>3. ReceiverCount' /\ num_receivers' \in Nat
    BY <1>t, <1>2 DEF Inv, ReceiverCount, DropReceiver, TypeOK
  <1>4. Positions'
    BY <1>t DEF Inv, Positions, DropReceiver, TypeOK, ReceiverStates
  <1>5. \A q \in Receivers, p \in 1..Len(log) : Refers(q, p)' <=> Refers(q, p)
    BY <1>t DEF DropReceiver, Refers, Unread, Holding, Attached, TypeOK, ReceiverStates
  <1> QED
    BY <1>t, <1>3, <1>4, <1>5, ReceiverSameStep
       DEF DropReceiver, TypeOK, ReceiverStates, senderVars

\* Steps of a receiver that keep what it refers to and whether it is counted.
LEMMA ReceiverSteps ==
  ASSUME Inv, NEW r \in Receivers,
         \/ InnerSubscribe(r) \/ Recv(r) \/ RecvNotify(r) \/ DropNotify(r)
         \/ Detach(r) \/ DrainNotify(r) \/ Drained(r)
  PROVE  Inv'
  <1>t. TypeOK /\ Positions /\ Len(log) \in Nat
    BY DEF Inv, TypeOK
  <1>1. Counted' = Counted /\ num_receivers' = num_receivers
    BY <1>t DEF Counted, TypeOK, ReceiverStates, InnerSubscribe, Recv, RecvNotify,
         DropNotify, Detach, DrainNotify, Drained
  <1>2. ReceiverCount'
    BY <1>1 DEF Inv, ReceiverCount
  <1>3. Positions'
    BY <1>t DEF Positions, TypeOK, ReceiverStates, InnerSubscribe, Recv, RecvNotify,
         DropNotify, Detach, DrainNotify, Drained
  <1>4. ASSUME NEW q \in Receivers, NEW p \in 1..Len(log)
        PROVE  Refers(q, p)' <=> Refers(q, p)
    <2>1. CASE q # r
      BY <1>t, <2>1 DEF Refers, Unread, Holding, Attached, TypeOK, ReceiverStates,
           InnerSubscribe, Recv, RecvNotify, DropNotify, Detach, DrainNotify, Drained
    <2>2. CASE q = r /\ (InnerSubscribe(r) \/ Recv(r))
      BY <1>t, <2>2 DEF Refers, Unread, Holding, Attached, TypeOK, ReceiverStates,
           InnerSubscribe, Recv
    <2>3. CASE q = r /\ (RecvNotify(r) \/ DropNotify(r) \/ DrainNotify(r))
      BY <1>t, <2>3 DEF Refers, Unread, Holding, Attached, TypeOK, ReceiverStates,
           RecvNotify, DropNotify, DrainNotify
    <2>4. CASE q = r /\ (Detach(r) \/ Drained(r))
      BY <1>t, <2>4 DEF Refers, Unread, Holding, Attached, TypeOK, ReceiverStates,
           Detach, Drained
    <2> QED
      BY <2>1, <2>2, <2>3, <2>4
  <1>5. /\ UNCHANGED <<log, counters, sends, size, warned>>
        /\ spc' = spc \/ NotifyWaiters
        /\ rpc' \in [Receivers -> ReceiverStates]
        /\ next' \in [Receivers -> Nat \ {0}]
        /\ until' \in [Receivers -> Nat]
    <2>1. CASE InnerSubscribe(r) \/ Recv(r)
      <3>1. UNCHANGED <<log, counters, sends, senderVars>>
        BY <2>1 DEF InnerSubscribe, Recv
      <3>2. spc' = spc /\ size' = size /\ warned' = warned
        BY <3>1 DEF senderVars
      <3>3. rpc' \in [Receivers -> ReceiverStates]
        BY <1>t, <2>1 DEF TypeOK, ReceiverStates, InnerSubscribe, Recv
      <3>4. next' \in [Receivers -> Nat \ {0}]
        BY <1>t, <2>1 DEF TypeOK, InnerSubscribe, Recv
      <3>5. until' \in [Receivers -> Nat]
        BY <1>t, <2>1 DEF TypeOK, InnerSubscribe, Recv
      <3> QED
        BY <3>1, <3>2, <3>3, <3>4, <3>5
    <2>2. CASE RecvNotify(r) \/ DropNotify(r) \/ DrainNotify(r)
      BY <1>t, <2>2 DEF TypeOK, ReceiverStates, RecvNotify, DropNotify, DrainNotify
    <2>3. CASE Detach(r) \/ Drained(r)
      <3>1. UNCHANGED <<log, counters, sends, senderVars>>
        BY <2>3 DEF Detach, Drained
      <3>2. spc' = spc /\ size' = size /\ warned' = warned
        BY <3>1 DEF senderVars
      <3>3. rpc' \in [Receivers -> ReceiverStates]
        BY <1>t, <2>3 DEF TypeOK, ReceiverStates, Detach, Drained
      <3>4. next' \in [Receivers -> Nat \ {0}]
        BY <1>t, <2>3 DEF TypeOK, Detach, Drained
      <3>5. until' \in [Receivers -> Nat]
        <4>1. CASE Detach(r)
          BY <1>t, <4>1 DEF TypeOK, Detach
        <4>2. CASE Drained(r)
          BY <1>t, <4>2 DEF TypeOK, Drained
        <4> QED
          BY <2>3, <4>1, <4>2
      <3> QED
        BY <3>1, <3>2, <3>3, <3>4, <3>5
    <2> QED
      BY <2>1, <2>2, <2>3
  <1> QED
    BY <1>t, <1>1, <1>2, <1>3, <1>4, <1>5, ReceiverSameStep DEF TypeOK

LEMMA RecvReturnStep ==
  ASSUME Inv, NEW r \in Receivers, RecvReturn(r)
  PROVE  Inv'
  <1>t. TypeOK /\ Positions /\ Len(log) \in Nat
    BY DEF Inv, TypeOK
  <1>p. PICK p \in Nat : p = next[r] - 1
    BY <1>t DEF TypeOK
  <1>1. p \in 1..Len(log)
    BY <1>t, <1>p DEF Positions, RecvReturn, TypeOK
  <1>2. /\ rpc[r] = "holding" /\ rpc'[r] \in {"notify", "idle"}
        /\ \A q \in Receivers \ {r} : rpc'[q] = rpc[q]
    BY <1>t DEF RecvReturn, DropReference, TypeOK
  <1>3. Refers(r, p) /\ ~Refers(r, p)'
    BY <1>t, <1>p, <1>1, <1>2 DEF Refers, Unread, Holding, Attached, RecvReturn, TypeOK
  <1>4. ASSUME NEW q \in Receivers, NEW i \in 1..Len(log), q # r \/ i # p
        PROVE  Refers(q, i)' <=> Refers(q, i)
    <2>1. next' = next /\ until' = until
      BY DEF RecvReturn
    <2>2. CASE q # r
      BY <1>2, <2>1, <2>2 DEF Refers, Unread, Holding, Attached
    <2>3. CASE q = r /\ i # p
      BY <1>t, <1>p, <1>2, <2>1, <2>3 DEF Refers, Unread, Holding, Attached, TypeOK
    <2> QED
      BY <1>4, <2>2, <2>3
  <1>5. Counted' = Counted
    BY <1>2 DEF Counted
  <1>6. ReceiverCount'
    BY <1>5 DEF Inv, ReceiverCount, RecvReturn
  <1>7. Positions'
    BY <1>t, <1>2 DEF Positions, RecvReturn
  <1>8. DropReference(r, p, "notify", "idle")
    BY <1>p DEF RecvReturn
  <1>9. /\ UNCHANGED <<log, num_receivers, sends, senderVars>>
        /\ next' \in [Receivers -> Nat \ {0}] /\ until' \in [Receivers -> Nat]
    BY <1>t DEF RecvReturn, TypeOK
  <1>10. "notify" \in ReceiverStates /\ "idle" \in ReceiverStates
    BY DEF ReceiverStates
  <1> QED
    BY <1>1, <1>3, <1>4, <1>6, <1>7, <1>8, <1>9, <1>10, DropReferenceStep

LEMMA DrainStep ==
  ASSUME Inv, NEW r \in Receivers, Drain(r)
  PROVE  Inv'
  <1>t. TypeOK /\ Positions /\ Len(log) \in Nat
    BY DEF Inv, TypeOK
  <1>p. PICK p \in Nat : p = next[r]
    BY <1>t DEF TypeOK
  <1>1. p \in 1..Len(log)
    BY <1>t, <1>p DEF Positions, Drain, TypeOK
  <1>2. /\ rpc[r] = "draining" /\ rpc'[r] \in {"drain_notify", "draining"}
        /\ \A q \in Receivers \ {r} : rpc'[q] = rpc[q] /\ next'[q] = next[q]
        /\ next'[r] = p + 1 /\ until' = until /\ next[r] < until[r]
    BY <1>t, <1>p DEF Drain, DropReference, TypeOK
  <1>3. Refers(r, p) /\ ~Refers(r, p)'
    BY <1>t, <1>p, <1>1, <1>2 DEF Refers, Unread, Holding, Attached, TypeOK
  <1>4. ASSUME NEW q \in Receivers, NEW i \in 1..Len(log), q # r \/ i # p
        PROVE  Refers(q, i)' <=> Refers(q, i)
    <2>2. CASE q # r
      BY <1>2, <2>2 DEF Refers, Unread, Holding, Attached
    <2>3. CASE q = r /\ i # p
      BY <1>t, <1>p, <1>1, <1>2, <2>3 DEF Refers, Unread, Holding, Attached, TypeOK
    <2> QED
      BY <1>4, <2>2, <2>3
  <1>5. Counted' = Counted
    BY <1>2 DEF Counted
  <1>6. ReceiverCount'
    BY <1>5 DEF Inv, ReceiverCount, Drain
  <1>7. Positions'
    BY <1>t, <1>p, <1>1, <1>2 DEF Positions, Drain, TypeOK
  <1>8. DropReference(r, p, "drain_notify", "draining")
    BY <1>p DEF Drain
  <1>9. /\ UNCHANGED <<log, num_receivers, sends, senderVars>>
        /\ next' \in [Receivers -> Nat \ {0}] /\ until' \in [Receivers -> Nat]
    BY <1>t DEF Drain, TypeOK
  <1>10. "drain_notify" \in ReceiverStates /\ "draining" \in ReceiverStates
    BY DEF ReceiverStates
  <1> QED
    BY <1>1, <1>3, <1>4, <1>6, <1>7, <1>8, <1>9, <1>10, DropReferenceStep

LEMMA NextInv == Inv /\ [Next]_vars => Inv'
  <1> SUFFICES ASSUME Inv, [Next]_vars PROVE Inv'
    OBVIOUS
  <1>1. CASE UNCHANGED vars
    <2>1. Live' = Live /\ Counted' = Counted
      BY <1>1, ReceiversSame DEF vars
    <2>2. MessageAccounting' /\ ReceiverCount'
      BY <1>1, <2>1 DEF Inv, MessageAccounting, ReceiverCount, vars
    <2> QED
      BY <1>1, <2>2 DEF Inv, vars, TypeOK, SizeInCall, Positions, CountWithinLimit
  <1>2. CASE \E s \in Senders : SendCall(s) \/ SenderStep(s)
    BY <1>2, SenderSteps, ReserveStep, InnerSendStep, InnerSendFailsStep DEF SenderStep
  <1>3. CASE \E r \in Receivers :
               Subscribe(r) \/ ReceiverStep(r) \/ DropReceiver(r) \/ DropStep(r)
    BY <1>3, SubscribeStep, DropReceiverStep, ReceiverSteps, RecvReturnStep, DrainStep
       DEF ReceiverStep, DropStep
  <1> QED
    BY <1>1, <1>2, <1>3 DEF Next

\* The counters of the channel are exact in every reachable state.
THEOREM BroadcastAccounting == Spec => [](TypeOK /\ MessageAccounting)
  <1>1. Inv => TypeOK /\ MessageAccounting
    BY DEF Inv
  <1> QED
    BY <1>1, InitInv, NextInv, PTL DEF Spec

\* The broadcast buffer never overflows: the Lagged branch of recv is dead code.
THEOREM BroadcastNoLag == Spec => []NoLag
  <1> QED
    BY InitInv, NextInv, InvNoLag, PTL DEF Spec

-----------------------------------------------------------------------------

LEMMA NextAlone == Inv /\ OversizedIsAlone /\ [Next]_vars => OversizedIsAlone'
  <1> SUFFICES ASSUME Inv, OversizedIsAlone, [Next]_vars,
                      bytes_in_flight' > MaxBytes
               PROVE  messages_in_flight' <= 1
    BY DEF OversizedIsAlone
  <1>t. TypeOK
    BY DEF Inv
  <1> USE BroadcastAssumption DEF TypeOK, OversizedIsAlone
  <1>1. ASSUME NEW s \in Senders, Reserve(s) PROVE messages_in_flight' <= 1
    BY <1>t, <1>1 DEF Reserve, WithinLimits
  <1>2. ASSUME NEW s \in Senders, InnerSendFails(s) PROVE messages_in_flight' <= 1
    BY <1>t, <1>2 DEF InnerSendFails
  <1>3. ASSUME NEW r \in Receivers, NEW p \in Nat, NEW a, NEW b,
               log[p] \in Nat, DropReference(r, p, a, b)
        PROVE  messages_in_flight' <= 1
    BY <1>t, <1>3 DEF DropReference, counters
  <1>4. ASSUME NEW r \in Receivers, RecvReturn(r) \/ Drain(r)
        PROVE  messages_in_flight' <= 1
    <2>1. CASE RecvReturn(r)
      <3>1. next[r] - 1 \in 1..Len(log)
        BY <1>t, <2>1 DEF Inv, Positions, RecvReturn
      <3>2. log[next[r] - 1] \in Sizes
        BY <1>t, <3>1
      <3>3. next[r] - 1 \in Nat /\ log[next[r] - 1] \in Nat
        <4>1. next[r] - 1 \in Nat
          BY <1>t
        <4>2. log[next[r] - 1] \in Nat
          BY <3>2
        <4> QED
          BY <4>1, <4>2
      <3> QED
        BY <2>1, <3>3, <1>3 DEF RecvReturn
    <2>2. CASE Drain(r)
      <3>1. next[r] \in 1..Len(log)
        BY <1>t, <2>2 DEF Inv, Positions, Drain
      <3>2. log[next[r]] \in Sizes
        BY <1>t, <3>1
      <3>3. next[r] \in Nat /\ log[next[r]] \in Nat
        <4>1. next[r] \in Nat
          BY <1>t
        <4>2. log[next[r]] \in Nat
          BY <3>2
        <4> QED
          BY <4>1, <4>2
      <3> QED
        BY <2>2, <3>3, <1>3 DEF Drain
    <2> QED
      BY <1>4, <2>1, <2>2
  <1>5. CASE UNCHANGED counters
    BY <1>t, <1>5 DEF counters
  <1> QED
    BY <1>1, <1>2, <1>4, <1>5
    DEF Next, vars, counters, SendCall, SendAsync, SenderStep, NoReceivers, Full,
        InnerSend, InnerSendFailsNotify, Park, Timeout, Subscribe, ReceiverStep,
        InnerSubscribe, Recv, RecvNotify, DropReceiver, DropStep, DropNotify,
        Detach, DrainNotify, Drained

\* Only a message that is alone in the channel may exceed the byte limit.
THEOREM BroadcastOversizedIsAlone == Spec => []OversizedIsAlone
  <1>1. Init => OversizedIsAlone
    BY BroadcastAssumption DEF Init, OversizedIsAlone
  <1> QED
    BY <1>1, InitInv, NextInv, NextAlone, PTL DEF Spec

-----------------------------------------------------------------------------
(* The channel implements a bounded queue for each subscriber. *)

\* The end of a sequence.
LEMMA SuffixFacts ==
  ASSUME NEW S, NEW q \in Seq(S), NEW n \in Nat \ {0}, n <= Len(q) + 1
  PROVE  LET w == SubSeq(q, n, Len(q))
         IN  /\ w \in Seq(S) /\ Len(w) = Len(q) + 1 - n
             /\ \A i \in 1..Len(w) : w[i] = q[n + i - 1]
  <1>1. Len(q) \in Int /\ n \in Int /\ Len(q) \in Nat
    OBVIOUS
  <1>2. \A i \in n..Len(q) : q[i] \in S
    BY <1>1, ElementOfSeq
  <1>3. /\ SubSeq(q, n, Len(q)) \in Seq(S)
        /\ Len(SubSeq(q, n, Len(q))) = IF n <= Len(q) THEN Len(q) - n + 1 ELSE 0
        /\ \A i \in 1..(Len(q) - n + 1) : SubSeq(q, n, Len(q))[i] = q[n + i - 1]
    BY <1>1, <1>2, SubSeqProperties
  <1> QED
    BY <1>1, <1>3

LEMMA BacklogFacts ==
  ASSUME Inv, NEW r \in Receivers, Attached(r)
  PROVE  /\ Backlog(r) \in Seq(Sizes)
         /\ Len(Backlog(r)) = Len(log) + 1 - next[r]
         /\ \A i \in 1..Len(Backlog(r)) : Backlog(r)[i] = log[next[r] + i - 1]
  <1>1. log \in Seq(Sizes) /\ next[r] \in Nat \ {0} /\ next[r] <= Len(log) + 1
    BY DEF Inv, TypeOK, Positions
  <1> QED
    BY <1>1, SuffixFacts DEF Backlog

LEMMA NoLagNext == Inv' => NoLag'
  BY InvNoLag, PTL

\* A step that does not concern what receivers have to read is not seen.
LEMMA QueueSame ==
  ASSUME UNCHANGED <<log, next>>,
         \A r \in Receivers : Attached(r)' <=> Attached(r)
  PROVE  UNCHANGED Queue!vars
  <1>1. \A r \in Receivers : Backlog(r)' = Backlog(r)
    BY DEF Backlog
  <1> QED
    BY <1>1 DEF Queue!vars

\* inner.send is a publication.
LEMMA QueuePublish ==
  ASSUME Inv, Inv', NEW s \in Senders, InnerSend(s)
  PROVE  Queue!Publish(size[s])
  <1>1. /\ spc[s] = "reserved" /\ log' = Append(log, size[s])
        /\ UNCHANGED <<rpc, next>> /\ size[s] \in Sizes /\ log \in Seq(Sizes)
        /\ Len(log) \in Nat /\ Len(log') = Len(log) + 1
    BY DEF InnerSend, Inv, TypeOK, SizeInCall
  <1>2. \A r \in Receivers : Attached(r)' <=> Attached(r)
    BY <1>1 DEF Attached
  <1>3. {r \in Receivers : Attached(r)} # {}
    BY DEF InnerSend
  <1>4. \A r \in Receivers : Attached(r) => Len(Backlog(r)) < MaxMessages
    <2> SUFFICES ASSUME NEW r \in Receivers, Attached(r) PROVE Len(Backlog(r)) < MaxMessages
      OBVIOUS
    <2>1. Len(log') + 1 - next'[r] <= MaxMessages
      BY <1>2, NoLagNext DEF NoLag
    <2>2. Len(Backlog(r)) = Len(log) + 1 - next[r] /\ next[r] \in Nat
      BY BacklogFacts DEF Inv, TypeOK
    <2> QED
      BY <1>1, <2>1, <2>2, BroadcastAssumption
  <1>5. \A r \in Receivers : Attached(r) => Backlog(r)' = Append(Backlog(r), size[s])
    <2> SUFFICES ASSUME NEW r \in Receivers, Attached(r)
                 PROVE  Backlog(r)' = Append(Backlog(r), size[s])
      OBVIOUS
    <2>1. PICK q : q = Backlog(r)
      OBVIOUS
    <2>2. PICK w : w = Backlog(r)'
      OBVIOUS
    <2>3. /\ q \in Seq(Sizes) /\ Len(q) = Len(log) + 1 - next[r]
          /\ \A i \in 1..Len(q) : q[i] = log[next[r] + i - 1]
      BY <2>1, BacklogFacts
    <2>4. /\ w \in Seq(Sizes) /\ Len(w) = Len(log') + 1 - next[r]
          /\ \A i \in 1..Len(w) : w[i] = log'[next[r] + i - 1]
      <3>1. w = SubSeq(log', next[r], Len(log'))
        BY <1>1, <1>2, <2>2 DEF Backlog
      <3>2. log' \in Seq(Sizes) /\ next[r] \in Nat \ {0} /\ next[r] <= Len(log') + 1
        BY <1>1 DEF Inv, TypeOK, Positions
      <3> QED
        BY <3>1, <3>2, SuffixFacts
    <2>5. next[r] \in Nat \ {0} /\ next[r] <= Len(log) + 1
      BY DEF Inv, TypeOK, Positions
    <2>6. /\ Append(q, size[s]) \in Seq(Sizes) /\ Len(Append(q, size[s])) = Len(q) + 1
          /\ \A i \in 1..Len(q) : Append(q, size[s])[i] = q[i]
          /\ Append(q, size[s])[Len(q) + 1] = size[s]
      BY <1>1, <2>3, AppendProperties
    <2>7. /\ \A i \in 1..Len(log) : log'[i] = log[i]
          /\ log'[Len(log) + 1] = size[s]
      BY <1>1, AppendProperties
    <2>8. Len(w) = Len(q) + 1 /\ Len(q) \in Nat
      BY <1>1, <2>3, <2>4, <2>5
    <2>9. ASSUME NEW i \in 1..Len(w) PROVE w[i] = Append(q, size[s])[i]
      <3>1. CASE i = Len(q) + 1
        <4>1. next[r] + i - 1 = Len(log) + 1
          BY <3>1, <1>1, <2>3, <2>5, <2>8
        <4> QED
          BY <3>1, <4>1, <2>4, <2>6, <2>7
      <3>2. CASE i # Len(q) + 1
        <4>1. i \in 1..Len(q) /\ next[r] + i - 1 \in 1..Len(log)
          BY <3>2, <1>1, <2>3, <2>5, <2>8
        <4> QED
          BY <4>1, <2>3, <2>4, <2>6, <2>7
      <3> QED
        BY <3>1, <3>2
    <2>10. w = Append(q, size[s])
      BY <2>4, <2>6, <2>8, <2>9, SeqEqual
    <2> QED
      BY <2>1, <2>2, <2>10
  <1>6. \A r \in Receivers : Backlog(r)' = IF Attached(r) THEN Append(Backlog(r), size[s]) ELSE <<>>
    BY <1>2, <1>5 DEF Backlog
  <1> QED
    BY <1>2, <1>3, <1>4, <1>6 DEF Queue!Publish

\* inner.recv receives.
LEMMA QueueReceive ==
  ASSUME Inv, NEW r \in Receivers, Recv(r)
  PROVE  Queue!Receive(r)
  <1>1. /\ rpc[r] = "idle" /\ next[r] <= Len(log) /\ log' = log
        /\ next' = [next EXCEPT ![r] = @ + 1] /\ rpc' = [rpc EXCEPT ![r] = "holding"]
        /\ rpc \in [Receivers -> ReceiverStates] /\ next \in [Receivers -> Nat \ {0}]
        /\ log \in Seq(Sizes) /\ Len(log) \in Nat /\ next[r] \in Nat \ {0}
    BY DEF Recv, Inv, TypeOK
  <1>2. Attached(r) /\ \A q \in Receivers : Attached(q)' <=> Attached(q)
    BY <1>1 DEF Attached
  <1>3. \A q \in Receivers \ {r} : Backlog(q)' = Backlog(q)
    BY <1>1, <1>2 DEF Backlog
  <1>4. Tail(SubSeq(log, next[r], Len(log))) = SubSeq(log, next[r] + 1, Len(log))
    <2>1. next[r] \in 1..Len(log) /\ Len(log) \in next[r]..Len(log)
      BY <1>1
    <2> QED
      BY <1>1, <2>1, HeadTailOfSubSeq
  <1>5. Backlog(r)' = Tail(Backlog(r))
    BY <1>1, <1>2, <1>4 DEF Backlog
  <1>6. Backlog(r) # <<>>
    <2>1. Len(Backlog(r)) = Len(log) + 1 - next[r]
      BY <1>2, BacklogFacts
    <2>2. Len(Backlog(r)) # 0
      BY <1>1, <2>1
    <2> QED
      BY <2>2
  <1> QED
    BY <1>2, <1>3, <1>5, <1>6 DEF Queue!Receive

\* inner.subscribe, which starts behind what was sent so far
LEMMA QueueSubscribe ==
  ASSUME Inv, NEW r \in Receivers, InnerSubscribe(r)
  PROVE  Queue!Subscribe(r)
  <1>1. /\ rpc[r] = "subscribing" /\ log' = log
        /\ next' = [next EXCEPT ![r] = Len(log) + 1] /\ rpc' = [rpc EXCEPT ![r] = "idle"]
        /\ rpc \in [Receivers -> ReceiverStates] /\ next \in [Receivers -> Nat \ {0}]
        /\ log \in Seq(Sizes) /\ Len(log) \in Nat
    BY DEF InnerSubscribe, Inv, TypeOK
  <1>2. /\ ~Attached(r) /\ Attached(r)'
        /\ \A q \in Receivers \ {r} : Attached(q)' <=> Attached(q)
    BY <1>1 DEF Attached
  <1>3. \A q \in Receivers \ {r} : Backlog(q)' = Backlog(q)
    BY <1>1, <1>2 DEF Backlog
  <1>4. SubSeq(log, Len(log) + 1, Len(log)) = <<>>
    <2>1. Len(log) + 1 \in Int /\ Len(log) \in Int /\ Len(log) < Len(log) + 1
      BY <1>1
    <2> QED
      BY <2>1, SubSeqEmpty
  <1>5. Backlog(r)' = Backlog(r)
    BY <1>1, <1>2, <1>4 DEF Backlog
  <1> QED
    BY <1>2, <1>3, <1>5 DEF Queue!Subscribe

\* The drop of the tokio receiver
LEMMA QueueUnsubscribe ==
  ASSUME Inv, NEW r \in Receivers, Detach(r)
  PROVE  Queue!Unsubscribe(r)
  <1>1. /\ rpc[r] = "detach" /\ UNCHANGED <<log, next>>
        /\ rpc' = [rpc EXCEPT ![r] = "draining"] /\ rpc \in [Receivers -> ReceiverStates]
    BY DEF Detach, Inv, TypeOK
  <1>2. /\ Attached(r) /\ ~Attached(r)'
        /\ \A q \in Receivers \ {r} : Attached(q)' <=> Attached(q)
    BY <1>1 DEF Attached
  <1>3. /\ \A q \in Receivers \ {r} : Backlog(q)' = Backlog(q)
        /\ Backlog(r)' = <<>>
    BY <1>1, <1>2 DEF Backlog
  <1> QED
    BY <1>2, <1>3 DEF Queue!Unsubscribe

LEMMA QueueStep == Inv /\ Inv' /\ [Next]_vars => [Queue!Next]_Queue!vars
  <1> SUFFICES ASSUME Inv, Inv', [Next]_vars PROVE [Queue!Next]_Queue!vars
    OBVIOUS
  <1>1. rpc \in [Receivers -> ReceiverStates]
    BY DEF Inv, TypeOK
  <1>2. CASE UNCHANGED <<log, rpc, next>>
    BY <1>2, QueueSame DEF Attached
  <1>3. ASSUME NEW s \in Senders, SendCall(s) \/ SenderStep(s)
        PROVE  [Queue!Next]_Queue!vars
    <2>1. CASE InnerSend(s)
      <3>1. size[s] \in Sizes
        BY <2>1 DEF InnerSend, Inv, SizeInCall
      <3> QED
        BY <2>1, <3>1, QueuePublish DEF Queue!Next
    <2>2. CASE ~InnerSend(s)
      BY <1>2, <1>3, <2>2 DEF SendCall, SenderStep, SendAsync, NoReceivers, Reserve, Full,
         InnerSendFails, InnerSendFailsNotify, Park, Timeout
    <2> QED
      BY <2>1, <2>2
  <1>4. ASSUME NEW r \in Receivers,
               Subscribe(r) \/ ReceiverStep(r) \/ DropReceiver(r) \/ DropStep(r)
        PROVE  [Queue!Next]_Queue!vars
    <2>1. CASE Recv(r)
      BY <2>1, QueueReceive DEF Queue!Next
    <2>2. CASE InnerSubscribe(r)
      BY <2>2, QueueSubscribe DEF Queue!Next
    <2>3. CASE Detach(r)
      BY <2>3, QueueUnsubscribe DEF Queue!Next
    <2>4. CASE Subscribe(r) \/ RecvReturn(r) \/ RecvNotify(r) \/ DropReceiver(r)
               \/ DropNotify(r) \/ DrainNotify(r) \/ Drained(r)
      <3>1. UNCHANGED <<log, next>> /\ \A q \in Receivers : Attached(q)' <=> Attached(q)
        BY <1>1, <2>4 DEF Subscribe, RecvReturn, RecvNotify, DropReceiver, DropNotify,
           DrainNotify, Drained, DropReference, Attached
      <3> QED
        BY <3>1, QueueSame
    <2>5. CASE Drain(r)
      <3>1. /\ rpc[r] = "draining" /\ log' = log /\ next' = [next EXCEPT ![r] = @ + 1]
            /\ \E pc \in {"drain_notify", "draining"} : rpc' = [rpc EXCEPT ![r] = pc]
        BY <2>5 DEF Drain, DropReference
      <3>2. ~Attached(r) /\ \A q \in Receivers : Attached(q)' <=> Attached(q)
        BY <1>1, <3>1 DEF Attached
      <3>3. \A q \in Receivers : Backlog(q)' = Backlog(q)
        BY <3>1, <3>2 DEF Backlog, Inv, TypeOK
      <3> QED
        BY <3>2, <3>3 DEF Queue!vars
    <2> QED
      BY <1>4, <2>1, <2>2, <2>3, <2>4, <2>5 DEF ReceiverStep, DropStep
  <1> QED
    BY <1>2, <1>3, <1>4 DEF Next, vars

\* To the users of send_async, recv and subscribe the channel is a queue for each
\* receiver, with room for max_messages, that loses and reorders nothing.
THEOREM BroadcastImplementsQueue == Spec => ImplementsQueue
  <1>1. Init => Queue!Init
    <2> SUFFICES ASSUME Init PROVE Queue!Init
      OBVIOUS
    <2>1. \A r \in Receivers : Attached(r) <=> r = First
      BY DEF Init, Attached
    <2>2. SubSeq(<<>>, 1, 0) = <<>>
      BY SubSeqEmpty
    <2>3. \A r \in Receivers : Backlog(r) = <<>>
      BY <2>2 DEF Backlog, Init
    <2> QED
      BY <2>1, <2>3, BroadcastAssumption DEF Queue!Init
  <1> QED
    BY <1>1, InitInv, NextInv, QueueStep, PTL DEF Spec, ImplementsQueue, Queue!Spec
=============================================================================
