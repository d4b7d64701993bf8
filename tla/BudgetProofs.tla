---------------------------- MODULE BudgetProofs -----------------------------
(****************************************************************************)
(* Proofs about the two byte budgets of the system: QuotaChannel, for every *)
(* set of senders, every finite set of receiver handles, every capacity and *)
(* every set of message sizes, and PipelineBudget, for every set of queries *)
(* (plans, waves, failing fetches, segment limits) of every set of          *)
(* partitions.                                                              *)
(****************************************************************************)
EXTENDS QuotaChannel, PipelineBudget, FiniteSetTheorems, SequenceTheorems, TLAPS

\* A call in progress has one of the sizes a message may have.
SizeInCall == \A s \in Senders : spc[s] # "idle" => size[s] \in Sizes

\* The handles that num_receivers counts.
Counted == {r \in Receivers : rpc[r] \in {"idle", "account", "notify"}}

TypeInv == TypeOK /\ SizeInCall /\ ReceiverCount /\ OneActiveSender

-----------------------------------------------------------------------------

LEMMA CountedFinite == IsFiniteSet(Counted) /\ Cardinality(Counted) \in Nat
  <1>1. Counted \subseteq Receivers
    BY DEF Counted
  <1>2. IsFiniteSet(Counted)
    BY <1>1, FS_Subset, QuotaAssumption
  <1> QED
    BY <1>2, FS_CardinalityType

\* Drop::drop never takes num_receivers below zero: the handle that is being
\* dropped is counted.
LEMMA CountedOnDrop ==
  ASSUME TypeInv, NEW r \in Receivers, r \in Counted
  PROVE  num_receivers - 1 = Cardinality(Counted \ {r}) /\ num_receivers - 1 \in Nat
  <1>1. /\ IsFiniteSet(Counted \ {r})
        /\ Cardinality(Counted \ {r}) = Cardinality(Counted) - 1
    BY CountedFinite, FS_RemoveElement
  <1>2. Cardinality(Counted \ {r}) \in Nat
    BY <1>1, FS_CardinalityType
  <1>3. num_receivers = Cardinality(Counted)
    BY DEF TypeInv, ReceiverCount, Counted
  <1> QED
    BY <1>1, <1>2, <1>3

LEMMA InitTypeInv == Init => TypeInv
  <1> SUFFICES ASSUME Init PROVE TypeInv
    OBVIOUS
  <1> USE QuotaAssumption
  <1>1. TypeOK
    BY DEF Init, TypeOK, SenderStates, ReceiverStates
  <1>2. SizeInCall
    BY DEF Init, SizeInCall
  <1>3. {r \in Receivers : rpc[r] \in {"idle", "account", "notify"}} = {First}
    BY DEF Init
  <1>4. ReceiverCount
    BY <1>3, FS_Singleton DEF Init, ReceiverCount
  <1>5. OneActiveSender
    BY DEF Init, OneActiveSender
  <1> QED
    BY <1>1, <1>2, <1>4, <1>5 DEF TypeInv

\* The steps that leave the set of counted handles and their number alone.
LEMMA CountedSame ==
  ASSUME TypeInv, num_receivers' = num_receivers,
         \A r \in Receivers : rpc'[r] \in {"idle", "account", "notify"}
                               <=> rpc[r] \in {"idle", "account", "notify"}
  PROVE  ReceiverCount'
  <1>1. {r \in Receivers : rpc'[r] \in {"idle", "account", "notify"}}
          = {r \in Receivers : rpc[r] \in {"idle", "account", "notify"}}
    OBVIOUS
  <1> QED
    BY <1>1 DEF TypeInv, ReceiverCount

\* The indices of a queue before and after its head is taken.
LEMMA ShiftedIndex ==
  \A n \in Nat \ {0} : /\ \A i \in 1..(n - 1) : i + 1 \in 1..n
                       /\ \A i \in 1..n : i # 1 => i - 1 \in 1..(n - 1) /\ i - 1 + 1 = i
  OBVIOUS

\* The fair mutex: a caller that is not queued joins at the end.
LEMMA LockQueued ==
  ASSUME TypeInv, NEW s \in Senders, spc[s] = "idle",
         active_sender' = Append(active_sender, s),
         spc' = [spc EXCEPT ![s] = "ready"]
  PROVE  active_sender' \in Seq(Senders) /\ OneActiveSender'
  <1> USE DEF TypeInv, TypeOK, SenderStates
  <1>1. /\ active_sender' \in Seq(Senders)
        /\ Len(active_sender') = Len(active_sender) + 1
        /\ \A i \in 1..Len(active_sender) : active_sender'[i] = active_sender[i]
        /\ active_sender'[Len(active_sender) + 1] = s
        /\ Len(active_sender) \in Nat
    OBVIOUS
  <1>0. /\ \A i \in 1..Len(active_sender) : active_sender[i] # s
        /\ \A i, j \in 1..Len(active_sender) : active_sender[i] = active_sender[j] => i = j
    BY DEF OneActiveSender
  <1>2. ASSUME NEW i \in 1..Len(active_sender'), NEW j \in 1..Len(active_sender'),
               active_sender'[i] = active_sender'[j]
        PROVE  i = j
    <2>1. CASE i <= Len(active_sender) /\ j <= Len(active_sender)
      <3>1. i \in 1..Len(active_sender) /\ j \in 1..Len(active_sender)
        BY <1>1, <2>1
      <3> QED
        BY <1>1, <1>0, <1>2, <3>1
    <2>2. CASE i = Len(active_sender) + 1 /\ j <= Len(active_sender)
      BY <1>0, <1>1, <1>2, <2>2
    <2>3. CASE j = Len(active_sender) + 1 /\ i <= Len(active_sender)
      BY <1>0, <1>1, <1>2, <2>3
    <2>4. /\ i <= Len(active_sender) \/ i = Len(active_sender) + 1
          /\ j <= Len(active_sender) \/ j = Len(active_sender) + 1
      BY <1>1
    <2> QED
      BY <2>1, <2>2, <2>3, <2>4
  <1>3. ASSUME NEW t \in Senders, spc'[t] \in {"waiting", "push"}
        PROVE  Holds(t)'
    <2>1. Holds(t)
      BY <1>3 DEF OneActiveSender
    <2>2. active_sender # <<>> /\ Len(active_sender) \in Nat \ {0}
      BY <2>1, EmptySeq DEF Holds
    <2>3. active_sender' # <<>> /\ active_sender'[1] = active_sender[1]
      BY <1>1, <2>2, EmptySeq
    <2> QED
      BY <2>1, <2>2, <2>3, <1>1 DEF Holds
  <1>4. ASSUME NEW t \in Senders
        PROVE  spc'[t] = "idle" <=>
                 \A i \in 1..Len(active_sender') : active_sender'[i] # t
    <2>1. CASE t = s
      BY <1>1, <2>1
    <2>2. CASE t # s
      BY <1>1, <2>2 DEF OneActiveSender
    <2> QED
      BY <2>1, <2>2
  <1> QED
    BY <1>1, <1>2, <1>3, <1>4 DEF OneActiveSender

\* The holder returns and the mutex is handed to the next in line.
LEMMA LockReleased ==
  ASSUME TypeInv, NEW s \in Senders, Holds(s), Return(s)
  PROVE  active_sender' \in Seq(Senders) /\ OneActiveSender'
  <1> USE DEF TypeInv, TypeOK, SenderStates
  <1>1. /\ active_sender # <<>>
        /\ active_sender' \in Seq(Senders)
        /\ Len(active_sender') = Len(active_sender) - 1
        /\ \A i \in 1..Len(active_sender') : active_sender'[i] = active_sender[i + 1]
        /\ active_sender[1] = s
        /\ Len(active_sender) \in Nat \ {0}
    BY HeadTailProperties, EmptySeq DEF Holds, Return
  <1>2. ASSUME NEW i \in 1..Len(active_sender'), NEW j \in 1..Len(active_sender'),
               active_sender'[i] = active_sender'[j]
        PROVE  i = j
    <2>1. i + 1 \in 1..Len(active_sender) /\ j + 1 \in 1..Len(active_sender)
      BY <1>1
    <2>2. active_sender[i + 1] = active_sender[j + 1]
      BY <1>1, <1>2
    <2>3. i + 1 = j + 1
      BY <2>1, <2>2 DEF OneActiveSender
    <2> QED
      BY <2>3, <1>1
  <1>3. \A t \in Senders : spc'[t] \notin {"waiting", "push"}
    BY <1>1 DEF OneActiveSender, Holds, Return
  <1>4. ASSUME NEW t \in Senders
        PROVE  spc'[t] = "idle" <=>
                 \A i \in 1..Len(active_sender') : active_sender'[i] # t
    <2>1. CASE t = s
      <3>1. ASSUME NEW i \in 1..Len(active_sender')
            PROVE  active_sender[i + 1] # s
        <4>1. i + 1 \in 1..Len(active_sender) /\ 1 \in 1..Len(active_sender) /\ i + 1 # 1
          BY <1>1
        <4> QED
          BY <1>1, <4>1 DEF OneActiveSender
      <3> QED
        BY <1>1, <2>1, <3>1 DEF Return
    <2>2. CASE t # s
      <3>1. (\A i \in 1..Len(active_sender') : active_sender'[i] # t)
              <=> \A i \in 1..Len(active_sender) : active_sender[i] # t
        <4>1. ASSUME NEW i \in 1..Len(active_sender), active_sender[i] = t
              PROVE  i - 1 \in 1..Len(active_sender') /\ active_sender'[i - 1] = t
          <5>1. i # 1
            BY <1>1, <2>2, <4>1
          <5>2. i - 1 \in 1..Len(active_sender') /\ i - 1 + 1 = i
            BY <1>1, <5>1, ShiftedIndex
          <5> QED
            BY <1>1, <4>1, <5>2
        <4>2. ASSUME NEW i \in 1..Len(active_sender'), active_sender'[i] = t
              PROVE  i + 1 \in 1..Len(active_sender) /\ active_sender[i + 1] = t
          <5>1. i + 1 \in 1..Len(active_sender)
            BY <1>1, ShiftedIndex
          <5> QED
            BY <1>1, <4>2, <5>1
        <4> QED
          BY <4>1, <4>2
      <3> QED
        BY <2>2, <3>1 DEF Return, OneActiveSender
    <2> QED
      BY <2>1, <2>2
  <1> QED
    BY <1>1, <1>2, <1>3, <1>4 DEF OneActiveSender

\* Only the lock's holder is past it, so steps that leave the lock alone keep
\* OneActiveSender as long as nobody but the holder moves out of "ready".
LEMMA LockKept ==
  ASSUME TypeInv, active_sender' = active_sender,
         \A t \in Senders : /\ spc'[t] = "idle" <=> spc[t] = "idle"
                            /\ spc'[t] \in {"waiting", "push"} =>
                                 Holds(t) \/ spc[t] \in {"waiting", "push"}
  PROVE  OneActiveSender'
  BY DEF TypeInv, OneActiveSender, Holds

LEMMA NextTypeInv == TypeInv /\ [Next]_vars => TypeInv'
  <1> SUFFICES ASSUME TypeInv, [Next]_vars PROVE TypeInv'
    OBVIOUS
  <1>t. TypeOK /\ SizeInCall
    BY DEF TypeInv
  <1> USE QuotaAssumption DEF TypeOK, SizeInCall, SenderStates, ReceiverStates
  <1>1. ASSUME NEW s \in Senders, NEW o \in {"send", "try_send"},
               NEW z \in Sizes, Call(s, o, z)
        PROVE  TypeInv'
    <2>1. ReceiverCount'
      BY <1>1, CountedSame DEF Call
    <2>2. active_sender' \in Seq(Senders) /\ OneActiveSender'
      BY <1>1, LockQueued DEF Call
    <2>3. TypeOK' /\ SizeInCall'
      BY <1>1, <1>t, <2>2 DEF Call
    <2> QED
      BY <2>1, <2>2, <2>3 DEF TypeInv
  <1>2. ASSUME NEW s \in Senders, Reserve(s) PROVE TypeInv'
    <2>1. ReceiverCount'
      BY <1>2, CountedSame DEF Reserve
    <2>2. OneActiveSender'
      BY <1>2, <1>t, LockKept DEF Reserve
    <2>3. TypeOK' /\ SizeInCall'
      BY <1>2, <1>t DEF Reserve
    <2> QED
      BY <2>1, <2>2, <2>3 DEF TypeInv
  <1>3. ASSUME NEW s \in Senders, TrySendFull(s) \/ GiveUp(s) PROVE TypeInv'
    <2>1. ReceiverCount'
      BY <1>3, CountedSame DEF TrySendFull, GiveUp
    <2>2. active_sender' \in Seq(Senders) /\ OneActiveSender'
      BY <1>3, LockReleased DEF TrySendFull, GiveUp
    <2>3. TypeOK' /\ SizeInCall'
      BY <1>3, <1>t, <2>2 DEF TrySendFull, GiveUp, Return
    <2> QED
      BY <2>1, <2>2, <2>3 DEF TypeInv
  <1>4. ASSUME NEW s \in Senders, Wait(s) PROVE TypeInv'
    <2>1. ReceiverCount'
      BY <1>4, CountedSame DEF Wait
    <2>2. OneActiveSender'
      BY <1>4, <1>t, LockKept DEF Wait
    <2>3. TypeOK' /\ SizeInCall'
      BY <1>4, <1>t DEF Wait
    <2> QED
      BY <2>1, <2>2, <2>3 DEF TypeInv
  <1>5. ASSUME NEW s \in Senders, Timeout(s) PROVE TypeInv'
    <2>1. ReceiverCount'
      BY <1>5, CountedSame DEF Timeout
    <2>2. OneActiveSender'
      BY <1>5, <1>t, LockKept DEF Timeout
    <2>3. TypeOK' /\ SizeInCall'
      BY <1>5, <1>t DEF Timeout
    <2> QED
      BY <2>1, <2>2, <2>3 DEF TypeInv
  <1>6. ASSUME NEW s \in Senders, Push(s) PROVE TypeInv'
    <2>1. ReceiverCount'
      BY <1>6, CountedSame DEF Push
    <2>2. Holds(s)
      BY <1>6 DEF Push, TypeInv, OneActiveSender
    <2>3. active_sender' \in Seq(Senders) /\ OneActiveSender'
      BY <1>6, <2>2, LockReleased DEF Push
    <2>4. TypeOK' /\ SizeInCall'
      BY <1>6, <1>t, <2>3 DEF Push, Return
    <2> QED
      BY <2>1, <2>3, <2>4 DEF TypeInv
  <1>7. ASSUME NEW r \in Receivers, Take(r) PROVE TypeInv'
    <2>1. ReceiverCount'
      BY <1>7, <1>t, CountedSame DEF Take
    <2>2. OneActiveSender'
      BY <1>7, LockKept DEF Take, senderVars
    <2>3. Head(queue) \in Sizes /\ queue' \in Seq(Sizes)
      BY <1>7, <1>t, HeadTailProperties DEF Take
    <2>4. TypeOK' /\ SizeInCall'
      BY <1>7, <1>t, <2>3 DEF Take, senderVars
    <2> QED
      BY <2>1, <2>2, <2>4 DEF TypeInv
  <1>8. ASSUME NEW r \in Receivers, Account(r) PROVE TypeInv'
    <2>1. ReceiverCount'
      BY <1>8, <1>t, CountedSame DEF Account
    <2>2. OneActiveSender'
      BY <1>8, LockKept DEF Account, senderVars
    <2>3. TypeOK' /\ SizeInCall'
      BY <1>8, <1>t DEF Account, senderVars
    <2> QED
      BY <2>1, <2>2, <2>3 DEF TypeInv
  <1>9. ASSUME NEW r \in Receivers, Notify(r) \/ DropNotify(r) PROVE TypeInv'
    <2>1. ReceiverCount'
      BY <1>9, <1>t, CountedSame DEF Notify, DropNotify
    <2>2. OneActiveSender'
      BY <1>9, <1>t, LockKept DEF Notify, DropNotify, NotifyAll
    <2>3. /\ UNCHANGED <<queue, bytes_in_flight, num_receivers, active_sender, sends,
                       op, size, warned, got>>
          /\ NotifyAll
      BY <1>9 DEF Notify, DropNotify
    <2>4. rpc' \in [Receivers -> ReceiverStates]
      <3>1. \/ rpc' = [rpc EXCEPT ![r] = "idle"]
            \/ rpc' = [rpc EXCEPT ![r] = "drop_inner"]
        BY <1>9 DEF Notify, DropNotify
      <3> QED
        BY <3>1, <1>t
    <2>5. /\ spc' \in [Senders -> SenderStates]
          /\ \A s \in Senders : spc'[s] = "idle" <=> spc[s] = "idle"
      BY <2>3, <1>t DEF NotifyAll
    <2>6. TypeOK'
      BY <2>3, <2>4, <2>5, <1>t
    <2>7. SizeInCall'
      BY <2>3, <2>5, <1>t
    <2> QED
      BY <2>1, <2>2, <2>6, <2>7 DEF TypeInv
  <1>10. ASSUME NEW r \in Receivers, NEW new \in Receivers, CloneReceiver(r, new)
         PROVE  TypeInv'
    <2>1. /\ new \notin Counted
          /\ Counted' = Counted \cup {new}
      BY <1>10, <1>t DEF CloneReceiver, Counted
    <2>2. Cardinality(Counted') = Cardinality(Counted) + 1
      BY <2>1, CountedFinite, FS_AddElement
    <2>3. ReceiverCount'
      BY <1>10, <2>2 DEF CloneReceiver, TypeInv, ReceiverCount, Counted
    <2>4. OneActiveSender'
      BY <1>10, LockKept DEF CloneReceiver, senderVars
    <2>5. TypeOK' /\ SizeInCall'
      BY <1>10, <1>t DEF CloneReceiver, senderVars
    <2> QED
      BY <2>3, <2>4, <2>5 DEF TypeInv
  <1>11. ASSUME NEW r \in Receivers, DropReceiver(r) PROVE TypeInv'
    <2>1. /\ r \in Counted
          /\ Counted' = Counted \ {r}
      BY <1>11, <1>t DEF DropReceiver, Counted
    <2>2. num_receivers' = Cardinality(Counted') /\ num_receivers' \in Nat
      BY <1>11, <2>1, CountedOnDrop DEF DropReceiver
    <2>3. ReceiverCount'
      BY <2>2 DEF ReceiverCount, Counted
    <2>4. OneActiveSender'
      BY <1>11, LockKept DEF DropReceiver, senderVars
    <2>5. TypeOK' /\ SizeInCall'
      BY <1>11, <1>t, <2>2 DEF DropReceiver, senderVars
    <2> QED
      BY <2>3, <2>4, <2>5 DEF TypeInv
  <1>12. ASSUME NEW r \in Receivers, DropInner(r) PROVE TypeInv'
    <2>1. ReceiverCount'
      BY <1>12, <1>t, CountedSame DEF DropInner
    <2>2. OneActiveSender'
      BY <1>12, LockKept DEF DropInner, senderVars
    <2>3. TypeOK' /\ SizeInCall'
      BY <1>12, <1>t DEF DropInner, senderVars
    <2> QED
      BY <2>1, <2>2, <2>3 DEF TypeInv
  <1>13. CASE UNCHANGED vars
    <2>1. ReceiverCount' /\ OneActiveSender'
      BY <1>13, CountedSame, LockKept DEF vars
    <2> QED
      BY <1>13, <1>t, <2>1 DEF vars, TypeInv
  <1> QED
    BY <1>1, <1>2, <1>3, <1>4, <1>5, <1>6, <1>7, <1>8, <1>9, <1>10, <1>11,
       <1>12, <1>13
    DEF Next, SendCall, TrySendCall, SenderStep, ReceiverStep, DropStep

\* In every behaviour of the channel the state is well typed, num_receivers
\* is the number of live handles, and only the holder of `active_sender' is
\* past it.
THEOREM QuotaTypeCorrect == Spec => [](TypeOK /\ ReceiverCount /\ OneActiveSender)
  <1>1. TypeInv => TypeOK /\ ReceiverCount /\ OneActiveSender
    BY DEF TypeInv
  <1> QED
    BY <1>1, InitTypeInv, NextTypeInv, PTL DEF Spec

-----------------------------------------------------------------------------

LEMMA InitWakeup == Init => NoLostWakeup
  BY DEF Init, NoLostWakeup

\* Parked senders and the pending notifications: bytes only go down, and the
\* last handle only goes away, in steps that leave a notifier behind.
LEMMA NextWakeup == TypeInv /\ NoLostWakeup /\ [Next]_vars => NoLostWakeup'
  <1> SUFFICES ASSUME TypeInv, NoLostWakeup, [Next]_vars,
                      NEW s \in Senders, spc'[s] = "waiting", Proceeds(s)'
               PROVE  \E r \in Receivers : rpc'[r] \in {"notify", "drop_notify"}
    BY DEF NoLostWakeup
  <1>t. TypeOK
    BY DEF TypeInv
  <1> USE QuotaAssumption DEF TypeOK, SenderStates, ReceiverStates, Proceeds, Room
  <1>1. ASSUME NEW t \in Senders,
               SendCall(t) \/ TrySendCall(t) \/ Reserve(t) \/ TrySendFull(t)
                 \/ GiveUp(t) \/ Timeout(t) \/ Push(t)
        PROVE  rpc' = rpc /\ spc[s] = "waiting" /\ Proceeds(s)
    <2>1. CASE SendCall(t) \/ TrySendCall(t)
      BY <1>t, <2>1 DEF SendCall, TrySendCall, Call
    <2>2. CASE Reserve(t)
      BY <1>t, <2>2 DEF Reserve
    <2>3. CASE TrySendFull(t) \/ GiveUp(t) \/ Push(t)
      BY <1>t, <2>3 DEF TrySendFull, GiveUp, Push, Return
    <2>4. CASE Timeout(t)
      BY <1>t, <2>4 DEF Timeout
    <2> QED
      BY <1>1, <2>1, <2>2, <2>3, <2>4
  <1>2. ASSUME NEW t \in Senders, Wait(t)
        PROVE  rpc' = rpc /\ spc[s] = "waiting" /\ Proceeds(s)
    BY <1>2, <1>t DEF Wait
  <1>3. ASSUME NEW r \in Receivers, Account(r)
        PROVE  rpc'[r] = "notify"
    BY <1>3, <1>t DEF Account
  <1>4. ASSUME NEW r \in Receivers, Notify(r) \/ DropNotify(r)
        PROVE  FALSE
    BY <1>4, <1>t DEF Notify, DropNotify, NotifyAll
  <1>5. ASSUME NEW r \in Receivers, DropReceiver(r), num_receivers - 1 = 0
        PROVE  rpc'[r] = "drop_notify"
    BY <1>5, <1>t DEF DropReceiver
  <1>6. ASSUME NEW r \in Receivers,
               \/ Take(r) \/ DropInner(r)
               \/ DropReceiver(r) /\ num_receivers - 1 # 0
               \/ \E new \in Receivers : CloneReceiver(r, new)
        PROVE  /\ spc[s] = "waiting" /\ Proceeds(s)
               /\ \A q \in Receivers : rpc[q] \in {"notify", "drop_notify"} => rpc'[q] = rpc[q]
    BY <1>6, <1>t DEF Take, DropInner, DropReceiver, CloneReceiver, senderVars
  <1>7. CASE UNCHANGED vars
    BY <1>7 DEF vars, NoLostWakeup
  <1> QED
    BY <1>1, <1>2, <1>3, <1>4, <1>5, <1>6, <1>7
    DEF Next, SenderStep, ReceiverStep, DropStep, NoLostWakeup

\* No sender sleeps on while it could go on, whatever the interleaving of
\* senders, receivers, clones and drops: a notify_all is always still to come.
THEOREM QuotaNoLostWakeup == Spec => []NoLostWakeup
  <1> QED
    BY InitTypeInv, NextTypeInv, InitWakeup, NextWakeup, PTL DEF Spec

-----------------------------------------------------------------------------

\* What the messages of a set have in common with Bytes: one message more or
\* less changes the number of bytes by its size.
LEMMA BytesOfOne ==
  ASSUME NEW m, m[3] \in Nat
  PROVE  /\ IsFiniteSet({m} \X (1..m[3]))
         /\ Cardinality({m} \X (1..m[3])) = m[3]
  <1> DEFINE f == [k \in 1..m[3] |-> <<m, k>>]
  <1>1. f \in Bijection(1..m[3], {m} \X (1..m[3]))
    BY DEF Bijection, Injection, Surjection, IsInjective
  <1>2. ExistsBijection(1..m[3], {m} \X (1..m[3]))
    BY <1>1 DEF ExistsBijection
  <1>3. IsFiniteSet(1..m[3]) /\ Cardinality(1..m[3]) = m[3]
    <2>1. \A n \in Nat : IsFiniteSet(1..n) /\ Cardinality(1..n) = n
      BY FS_Interval
    <2> QED
      BY <2>1
  <1> QED
    BY <1>2, <1>3, FS_Bijection

LEMMA BytesAdded ==
  ASSUME NEW M, NEW m, m \notin M, m[3] \in Nat, IsFiniteSet(Bytes(M))
  PROVE  /\ IsFiniteSet(Bytes(M \cup {m}))
         /\ Cardinality(Bytes(M \cup {m})) = Cardinality(Bytes(M)) + m[3]
  <1>1. Bytes(M \cup {m}) = Bytes(M) \cup ({m} \X (1..m[3]))
    BY DEF Bytes
  <1>2. Bytes(M) \cap ({m} \X (1..m[3])) = {}
    BY DEF Bytes
  <1>3. Cardinality(Bytes(M) \cap ({m} \X (1..m[3]))) = 0
    BY <1>2, FS_EmptySet
  <1>4. /\ IsFiniteSet({m} \X (1..m[3]))
        /\ Cardinality({m} \X (1..m[3])) = m[3]
    BY BytesOfOne
  <1>5. Cardinality(Bytes(M)) \in Nat
    BY FS_CardinalityType
  <1> DEFINE B == Bytes(M)
             C == {m} \X (1..m[3])
  <1> HIDE DEF B, C
  <1>6. /\ IsFiniteSet(B \cup C)
        /\ Cardinality(B \cup C) = Cardinality(B) + Cardinality(C) - Cardinality(B \cap C)
    <2>1. IsFiniteSet(B) /\ IsFiniteSet(C)
      BY <1>4 DEF B, C
    <2> QED
      BY <2>1, FS_Union
  <1>7. Cardinality(B) \in Nat /\ Cardinality(C) = m[3] /\ Cardinality(B \cap C) = 0
    BY <1>3, <1>4, <1>5 DEF B, C
  <1>8. Cardinality(B \cup C) = Cardinality(B) + m[3]
    BY <1>6, <1>7
  <1> QED
    BY <1>1, <1>6, <1>8 DEF B, C

LEMMA BytesRemoved ==
  ASSUME NEW M, NEW m \in M, m[3] \in Nat, IsFiniteSet(Bytes(M))
  PROVE  /\ IsFiniteSet(Bytes(M \ {m}))
         /\ Cardinality(Bytes(M \ {m})) = Cardinality(Bytes(M)) - m[3]
         /\ m[3] <= Cardinality(Bytes(M))
  <1>1. Bytes(M \ {m}) \in SUBSET Bytes(M)
    BY DEF Bytes
  <1>2. IsFiniteSet(Bytes(M \ {m})) /\ Cardinality(Bytes(M \ {m})) \in Nat
    BY <1>1, FS_Subset, FS_CardinalityType
  <1>3. (M \ {m}) \cup {m} = M
    OBVIOUS
  <1>4. Cardinality(Bytes((M \ {m}) \cup {m})) = Cardinality(Bytes(M \ {m})) + m[3]
    BY <1>2, BytesAdded
  <1> QED
    BY <1>2, <1>3, <1>4

\* Renaming messages without changing their sizes changes no number of bytes.
LEMMA BytesRenamed ==
  ASSUME NEW M, NEW N, NEW f \in Bijection(M, N), IsFiniteSet(Bytes(M)),
         \A m \in M : f[m][3] = m[3]
  PROVE  IsFiniteSet(Bytes(N)) /\ Cardinality(Bytes(N)) = Cardinality(Bytes(M))
  <1> DEFINE g == [b \in Bytes(M) |-> <<f[b[1]], b[2]>>]
  <1>f. /\ f \in [M -> N]
        /\ \A m, n \in M : m # n => f[m] # f[n]
        /\ \A n \in N : \E m \in M : f[m] = n
    BY DEF Bijection, Injection, Surjection, IsInjective
  <1>1. ASSUME NEW b \in Bytes(M)
        PROVE  b = <<b[1], b[2]>> /\ b[1] \in M /\ b[2] \in 1..b[1][3]
    BY DEF Bytes
  <1>2. ASSUME NEW b \in Bytes(M)
        PROVE  g[b] \in Bytes(N)
    <2>1. f[b[1]] \in N /\ b[2] \in 1..f[b[1]][3]
      BY <1>1, <1>f
    <2> QED
      BY <2>1 DEF Bytes
  <1>3. ASSUME NEW b \in Bytes(M), NEW c \in Bytes(M), g[b] = g[c]
        PROVE  b = c
    <2>1. f[b[1]] = f[c[1]] /\ b[2] = c[2]
      BY <1>3
    <2>2. b[1] = c[1]
      BY <2>1, <1>1, <1>f
    <2> QED
      BY <2>1, <2>2, <1>1
  <1>4. ASSUME NEW c \in Bytes(N)
        PROVE  \E b \in Bytes(M) : g[b] = c
    <2>1. c = <<c[1], c[2]>> /\ c[1] \in N /\ c[2] \in 1..c[1][3]
      BY DEF Bytes
    <2>2. PICK m \in M : f[m] = c[1]
      BY <2>1, <1>f
    <2>3. <<m, c[2]>> \in Bytes(M)
      BY <2>1, <2>2 DEF Bytes
    <2> QED
      BY <2>1, <2>2, <2>3
  <1>5. g \in Bijection(Bytes(M), Bytes(N))
    <2>1. g \in [Bytes(M) -> Bytes(N)]
      BY <1>2
    <2> HIDE DEF g
    <2> QED
      BY <2>1, <1>3, <1>4 DEF Bijection, Injection, Surjection, IsInjective
  <1>6. ExistsBijection(Bytes(M), Bytes(N))
    BY <1>5 DEF ExistsBijection
  <1> QED
    BY <1>6, FS_Bijection

\* The bytes of the messages in flight are what the channel counts, as long as
\* it has a receiver.
AccountInv ==
    InnerReceivers # {} =>
        /\ IsFiniteSet(Bytes(InFlight))
        /\ bytes_in_flight = Cardinality(Bytes(InFlight))

LEMMA MessageSizes ==
  ASSUME TypeInv
  PROVE  \A m \in InFlight : m[3] \in Nat
  <1>1. \A i \in 1..Len(queue) : queue[i] \in Nat
    <2>1. queue \in Seq(Sizes) /\ Sizes \subseteq Nat
      BY QuotaAssumption DEF TypeInv, TypeOK
    <2>2. \A i \in 1..Len(queue) : queue[i] \in Sizes
      BY <2>1, ElementOfSeq
    <2> QED
      BY <2>1, <2>2
  <1>2. /\ \A s \in Senders : size[s] \in Nat
        /\ \A r \in Receivers : got[r] \in Nat
    BY DEF TypeInv, TypeOK
  <1> QED
    BY <1>1, <1>2 DEF InFlight

\* Taking the head of the queue moves every message one place forward.
LEMMA TakeRenames ==
  ASSUME TypeInv, NEW r \in Receivers, Take(r)
  PROVE  \E f \in Bijection(InFlight, InFlight') : \A m \in InFlight : f[m][3] = m[3]
  <1> DEFINE f == [m \in InFlight |->
                     IF m[1] # "queued" THEN m
                     ELSE IF m[2] = 1 THEN <<"taken", r, m[3]>>
                     ELSE <<"queued", m[2] - 1, m[3]>>]
  <1>t. TypeOK
    BY DEF TypeInv
  <1>q. /\ queue # <<>> /\ Len(queue) \in Nat \ {0}
        /\ Len(queue') = Len(queue) - 1
        /\ \A i \in 1..Len(queue') : queue'[i] = queue[i + 1]
        /\ Head(queue) = queue[1]
    BY <1>t, HeadTailProperties, EmptySeq DEF Take, TypeOK
  <1>s. spc' = spc /\ size' = size
    BY DEF Take, senderVars
  <1>r. /\ rpc[r] # "account" /\ rpc'[r] = "account" /\ got'[r] = queue[1]
        /\ \A t \in Receivers \ {r} : rpc'[t] = rpc[t] /\ got'[t] = got[t]
    BY <1>t, <1>q DEF Take, TypeOK
  <1>1. ASSUME NEW m \in InFlight
        PROVE  \/ m[1] = "queued" /\ m[2] \in 1..Len(queue) /\ m = <<"queued", m[2], queue[m[2]]>>
               \/ m[1] = "reserved" /\ m[2] \in Senders /\ spc[m[2]] = "push"
                    /\ m = <<"reserved", m[2], size[m[2]]>>
               \/ m[1] = "taken" /\ m[2] \in Receivers \ {r} /\ rpc[m[2]] = "account"
                    /\ m = <<"taken", m[2], got[m[2]]>>
    BY <1>r DEF InFlight
  <1>2. ASSUME NEW n \in InFlight'
        PROVE  \/ n[1] = "queued" /\ n[2] \in 1..Len(queue') /\ n = <<"queued", n[2], queue'[n[2]]>>
               \/ n[1] = "reserved" /\ n[2] \in Senders /\ spc[n[2]] = "push"
                    /\ n = <<"reserved", n[2], size[n[2]]>>
               \/ n[1] = "taken" /\ n[2] \in Receivers \ {r} /\ rpc[n[2]] = "account"
                    /\ n = <<"taken", n[2], got[n[2]]>>
               \/ n = <<"taken", r, queue[1]>>
    BY <1>r, <1>s DEF InFlight
  <1>3. ASSUME NEW m \in InFlight
        PROVE  f[m] \in InFlight' /\ f[m][3] = m[3]
    <2>1. CASE m[1] = "queued" /\ m[2] = 1
      BY <1>1, <1>q, <1>r, <2>1 DEF InFlight
    <2>2. CASE m[1] = "queued" /\ m[2] # 1
      <3>1. m[2] - 1 \in 1..Len(queue') /\ queue'[m[2] - 1] = queue[m[2]]
        BY <1>1, <1>q, <2>2
      <3> QED
        BY <1>1, <3>1, <2>2 DEF InFlight
    <2>3. CASE m[1] # "queued"
      BY <1>1, <1>r, <1>s, <2>3 DEF InFlight
    <2> QED
      BY <2>1, <2>2, <2>3
  <1>4. ASSUME NEW m \in InFlight, NEW n \in InFlight, f[m] = f[n]
        PROVE  m = n
    BY <1>1, <1>4, <1>q
  <1>5. ASSUME NEW n \in InFlight'
        PROVE  \E m \in InFlight : f[m] = n
    <2>1. CASE n[1] = "queued"
      <3>1. /\ n[2] + 1 \in 1..Len(queue) /\ n[2] + 1 # 1 /\ (n[2] + 1) - 1 = n[2]
            /\ n = <<"queued", n[2], queue[n[2] + 1]>>
        BY <1>2, <1>q, <2>1
      <3> DEFINE m == <<"queued", n[2] + 1, queue[n[2] + 1]>>
      <3>2. m \in InFlight
        BY <3>1 DEF InFlight
      <3>3. m[1] = "queued" /\ m[2] = n[2] + 1 /\ m[3] = queue[n[2] + 1]
        OBVIOUS
      <3> HIDE DEF m
      <3>4. m[2] - 1 = n[2] /\ m[2] # 1
        BY <3>1, <3>3
      <3>5. m[1] = "queued" /\ m[2] # 1 /\ <<"queued", m[2] - 1, m[3]>> = n
        BY <3>1, <3>3, <3>4
      <3>6. f[m] = n
        BY <3>2, <3>5
      <3> QED
        BY <3>2, <3>6
    <2>2. CASE n = <<"taken", r, queue[1]>>
      <3>1. <<"queued", 1, queue[1]>> \in InFlight
        BY <1>q DEF InFlight
      <3> QED
        BY <2>2, <3>1
    <2>3. CASE n[1] # "queued" /\ n # <<"taken", r, queue[1]>>
      <3>1. n \in InFlight
        BY <1>2, <2>3 DEF InFlight
      <3> QED
        BY <2>3, <3>1
    <2> QED
      BY <2>1, <2>2, <2>3
  <1>6. f \in [InFlight -> InFlight']
    BY <1>3
  <1>7. \A m \in InFlight : f[m][3] = m[3]
    BY <1>3
  <1> HIDE DEF f
  <1>8. f \in Bijection(InFlight, InFlight')
    BY <1>4, <1>5, <1>6 DEF Bijection, Injection, Surjection, IsInjective
  <1> QED
    BY <1>7, <1>8

\* What each step does to the set of messages in flight.
LEMMA ReserveAdds ==
  ASSUME TypeInv, NEW s \in Senders, Reserve(s)
  PROVE  LET m == <<"reserved", s, size[s]>>
         IN  m \notin InFlight /\ InFlight' = InFlight \cup {m}
  <1> DEFINE m == <<"reserved", s, size[s]>>
  <1>1. /\ spc[s] # "push" /\ spc'[s] = "push"
        /\ \A t \in Senders \ {s} : spc'[t] = spc[t]
        /\ queue' = queue /\ size' = size /\ rpc' = rpc /\ got' = got
    BY DEF Reserve, TypeInv, TypeOK
  <1>2. {t \in Senders : spc'[t] = "push"} = {t \in Senders : spc[t] = "push"} \cup {s}
    BY <1>1
  <1> QED
    BY <1>1, <1>2 DEF InFlight

LEMMA AccountRemoves ==
  ASSUME TypeInv, NEW r \in Receivers, Account(r)
  PROVE  LET m == <<"taken", r, got[r]>>
         IN  m \in InFlight /\ InFlight' = InFlight \ {m}
  <1>1. /\ rpc[r] = "account" /\ rpc'[r] # "account"
        /\ \A t \in Receivers \ {r} : rpc'[t] = rpc[t] /\ got'[t] = got[t]
        /\ queue' = queue /\ size' = size /\ spc' = spc
    BY DEF Account, TypeInv, TypeOK, senderVars
  <1> QED
    BY <1>1 DEF InFlight

\* The push turns the sender's reservation into the last message of the queue.
LEMMA PushMoves ==
  ASSUME TypeInv, NEW s \in Senders, Push(s), InnerReceivers # {}
  PROVE  LET m == <<"reserved", s, size[s]>>
             n == <<"queued", Len(queue) + 1, size[s]>>
         IN  m \in InFlight /\ n \notin InFlight /\ InFlight' = (InFlight \ {m}) \cup {n}
  <1> DEFINE m == <<"reserved", s, size[s]>>
             n == <<"queued", Len(queue) + 1, size[s]>>
  <1>1. /\ spc[s] = "push" /\ spc'[s] # "push"
        /\ \A t \in Senders \ {s} : spc'[t] = spc[t]
        /\ size' = size /\ rpc' = rpc /\ got' = got
        /\ size[s] \in Sizes
    BY DEF Push, Return, TypeInv, TypeOK, SizeInCall
  <1>2. /\ Len(queue) \in Nat
        /\ Len(queue') = Len(queue) + 1
        /\ \A i \in 1..Len(queue) : queue'[i] = queue[i]
        /\ queue'[Len(queue) + 1] = size[s]
    BY <1>1 DEF Push, TypeInv, TypeOK
  <1>3. {<<"queued", i, queue'[i]>> : i \in 1..Len(queue')}
          = {<<"queued", i, queue[i]>> : i \in 1..Len(queue)} \cup {n}
    BY <1>2
  <1>4. {<<"reserved", t, size'[t]>> : t \in {u \in Senders : spc'[u] = "push"}}
          = {<<"reserved", t, size[t]>> : t \in {u \in Senders : spc[u] = "push"}} \ {m}
    BY <1>1
  <1> QED
    BY <1>1, <1>2, <1>3, <1>4 DEF InFlight

\* Every other step leaves the messages in flight, and their count, alone.
LEMMA OthersKeep ==
  ASSUME TypeInv, [Next]_vars, InnerReceivers' # {},
         \A s \in Senders : ~Reserve(s) /\ ~Push(s),
         \A r \in Receivers : ~Take(r) /\ ~Account(r)
  PROVE  InFlight' = InFlight /\ bytes_in_flight' = bytes_in_flight
  <1>t. TypeOK
    BY DEF TypeInv
  <1> USE DEF TypeOK, SenderStates, ReceiverStates
  <1>1. ASSUME queue' = queue, bytes_in_flight' = bytes_in_flight,
               \A t \in Senders : /\ spc'[t] = "push" <=> spc[t] = "push"
                                  /\ spc[t] = "push" => size'[t] = size[t],
               \A t \in Receivers : /\ rpc'[t] = "account" <=> rpc[t] = "account"
                                    /\ rpc[t] = "account" => got'[t] = got[t]
        PROVE  InFlight' = InFlight /\ bytes_in_flight' = bytes_in_flight
    BY <1>1 DEF InFlight
  <1>2. ASSUME NEW s \in Senders,
               SendCall(s) \/ TrySendCall(s) \/ TrySendFull(s) \/ Wait(s) \/ GiveUp(s)
                 \/ Timeout(s)
        PROVE  InFlight' = InFlight /\ bytes_in_flight' = bytes_in_flight
    <2>1. CASE SendCall(s) \/ TrySendCall(s)
      BY <1>t, <1>1, <2>1 DEF SendCall, TrySendCall, Call
    <2>2. CASE TrySendFull(s) \/ GiveUp(s)
      BY <1>t, <1>1, <2>2 DEF TrySendFull, GiveUp, Return
    <2>3. CASE Wait(s) \/ Timeout(s)
      BY <1>t, <1>1, <2>3 DEF Wait, Timeout
    <2> QED
      BY <1>2, <2>1, <2>2, <2>3
  <1>3. ASSUME NEW r \in Receivers, Notify(r) \/ DropNotify(r)
        PROVE  InFlight' = InFlight /\ bytes_in_flight' = bytes_in_flight
    BY <1>t, <1>1, <1>3 DEF Notify, DropNotify, NotifyAll
  <1>4. ASSUME NEW r \in Receivers,
               DropReceiver(r) \/ \E new \in Receivers : CloneReceiver(r, new)
        PROVE  InFlight' = InFlight /\ bytes_in_flight' = bytes_in_flight
    BY <1>t, <1>1, <1>4 DEF DropReceiver, CloneReceiver, senderVars
  <1>5. ASSUME NEW r \in Receivers, DropInner(r)
        PROVE  InFlight' = InFlight /\ bytes_in_flight' = bytes_in_flight
    <2>1. InnerReceivers # {r}
      BY <1>t, <1>5 DEF DropInner, InnerReceivers
    <2> QED
      BY <1>t, <1>1, <1>5, <2>1 DEF DropInner, senderVars
  <1>6. CASE UNCHANGED vars
    BY <1>1, <1>6 DEF vars
  <1> QED
    BY <1>2, <1>3, <1>4, <1>5, <1>6
    DEF Next, SenderStep, ReceiverStep, DropStep

\* A crossbeam receiver that is gone never comes back.
LEMMA InnerStays ==
  ASSUME TypeInv, [Next]_vars, InnerReceivers' # {}
  PROVE  InnerReceivers # {}
  <1>t. TypeOK
    BY DEF TypeInv
  <1> PICK q \in Receivers : rpc'[q] \notin {"unborn", "gone"}
    BY DEF InnerReceivers
  <1> USE DEF TypeOK, ReceiverStates
  <1>1. CASE rpc'[q] = rpc[q]
    BY <1>1 DEF InnerReceivers
  <1>2. ASSUME NEW r \in Receivers, Take(r) \/ Account(r) \/ Notify(r) \/ DropReceiver(r)
                                      \/ DropNotify(r) \/ DropInner(r)
        PROVE  rpc[r] \notin {"unborn", "gone"}
    BY <1>2 DEF Take, Account, Notify, DropReceiver, DropNotify, DropInner
  <1>3. ASSUME NEW r \in Receivers, NEW new \in Receivers, CloneReceiver(r, new)
        PROVE  rpc[r] \notin {"unborn", "gone"}
    BY <1>3 DEF CloneReceiver
  <1>4. ASSUME NEW s \in Senders, SendCall(s) \/ TrySendCall(s) \/ SenderStep(s) \/ Timeout(s)
        PROVE  rpc' = rpc
    BY <1>4 DEF SendCall, TrySendCall, SenderStep, Call, Reserve, TrySendFull, Wait, GiveUp,
                Push, Timeout
  <1>5. CASE UNCHANGED vars
    BY <1>1, <1>5 DEF vars
  <1> QED
    BY <1>1, <1>2, <1>3, <1>4, <1>5 DEF Next, ReceiverStep, DropStep, InnerReceivers

LEMMA InitAccount == Init => AccountInv /\ WithinBudget
  <1> SUFFICES ASSUME Init PROVE AccountInv /\ WithinBudget
    OBVIOUS
  <1>1. InFlight = {}
    BY DEF Init, InFlight
  <1>2. Bytes(InFlight) = {}
    BY <1>1 DEF Bytes
  <1>3. bytes_in_flight = 0
    BY DEF Init
  <1> QED
    BY <1>2, <1>3, FS_EmptySet, QuotaAssumption DEF AccountInv, WithinBudget

LEMMA NextAccount == TypeInv /\ AccountInv /\ [Next]_vars => AccountInv'
  <1> SUFFICES ASSUME TypeInv, AccountInv, [Next]_vars, InnerReceivers' # {}
               PROVE  /\ IsFiniteSet(Bytes(InFlight'))
                      /\ bytes_in_flight' = Cardinality(Bytes(InFlight'))
    BY DEF AccountInv, Bytes
  <1>a. /\ InnerReceivers # {}
        /\ IsFiniteSet(Bytes(InFlight))
        /\ bytes_in_flight = Cardinality(Bytes(InFlight))
        /\ bytes_in_flight \in Nat
    BY InnerStays DEF AccountInv, TypeInv, TypeOK
  <1>1. ASSUME NEW s \in Senders, Reserve(s)
        PROVE  /\ IsFiniteSet(Bytes(InFlight'))
               /\ bytes_in_flight' = Cardinality(Bytes(InFlight'))
    <2> DEFINE m == <<"reserved", s, size[s]>>
    <2>1. m \notin InFlight /\ InFlight' = InFlight \cup {m}
      BY <1>1, ReserveAdds
    <2>2. m[3] = size[s] /\ m[3] \in Nat
      BY DEF TypeInv, TypeOK
    <2>3. bytes_in_flight' = bytes_in_flight + m[3]
      BY <1>1, <2>2 DEF Reserve
    <2> HIDE DEF m
    <2> QED
      BY <1>a, <2>1, <2>2, <2>3, BytesAdded
  <1>2. ASSUME NEW s \in Senders, Push(s)
        PROVE  /\ IsFiniteSet(Bytes(InFlight'))
               /\ bytes_in_flight' = Cardinality(Bytes(InFlight'))
    <2> DEFINE m == <<"reserved", s, size[s]>>
               n == <<"queued", Len(queue) + 1, size[s]>>
    <2>1. m \in InFlight /\ n \notin InFlight /\ InFlight' = (InFlight \ {m}) \cup {n}
      BY <1>2, <1>a, PushMoves
    <2>2. m[3] = size[s] /\ n[3] = size[s] /\ size[s] \in Nat
      BY DEF TypeInv, TypeOK
    <2>3. bytes_in_flight' = bytes_in_flight
      BY <1>2 DEF Push
    <2> HIDE DEF m, n
    <2>4. /\ IsFiniteSet(Bytes(InFlight \ {m}))
          /\ Cardinality(Bytes(InFlight \ {m})) = bytes_in_flight - size[s]
      BY <1>a, <2>1, <2>2, BytesRemoved
    <2>5. n \notin InFlight \ {m}
      BY <2>1
    <2>6. /\ IsFiniteSet(Bytes((InFlight \ {m}) \cup {n}))
          /\ Cardinality(Bytes((InFlight \ {m}) \cup {n})) = bytes_in_flight - size[s] + size[s]
      BY <2>2, <2>4, <2>5, BytesAdded
    <2> QED
      BY <1>a, <2>1, <2>2, <2>3, <2>6
  <1>3. ASSUME NEW r \in Receivers, Take(r)
        PROVE  /\ IsFiniteSet(Bytes(InFlight'))
               /\ bytes_in_flight' = Cardinality(Bytes(InFlight'))
    <2>1. PICK f \in Bijection(InFlight, InFlight') : \A m \in InFlight : f[m][3] = m[3]
      BY <1>3, TakeRenames
    <2>2. bytes_in_flight' = bytes_in_flight
      BY <1>3 DEF Take
    <2> QED
      BY <1>a, <2>1, <2>2, BytesRenamed
  <1>4. ASSUME NEW r \in Receivers, Account(r)
        PROVE  /\ IsFiniteSet(Bytes(InFlight'))
               /\ bytes_in_flight' = Cardinality(Bytes(InFlight'))
    <2> DEFINE m == <<"taken", r, got[r]>>
    <2>1. m \in InFlight /\ InFlight' = InFlight \ {m}
      BY <1>4, AccountRemoves
    <2>2. m[3] = got[r] /\ m[3] \in Nat
      BY DEF TypeInv, TypeOK
    <2> HIDE DEF m
    <2>3. /\ IsFiniteSet(Bytes(InFlight \ {m}))
          /\ Cardinality(Bytes(InFlight \ {m})) = bytes_in_flight - m[3]
          /\ m[3] <= bytes_in_flight
      BY <1>a, <2>1, <2>2, BytesRemoved
    <2>4. bytes_in_flight' = bytes_in_flight - m[3]
      BY <1>4, <2>2, <2>3 DEF Account
    <2> QED
      BY <2>1, <2>3, <2>4
  <1>5. CASE /\ \A s \in Senders : ~Reserve(s) /\ ~Push(s)
             /\ \A r \in Receivers : ~Take(r) /\ ~Account(r)
    BY <1>a, <1>5, OthersKeep
  <1> QED
    BY <1>1, <1>2, <1>3, <1>4, <1>5

\* An empty count means that no message in flight has a size.
LEMMA EmptyMeansEmpty ==
  ASSUME TypeInv, AccountInv, InnerReceivers # {}, bytes_in_flight = 0, NEW m \in InFlight
  PROVE  m[3] = 0
  <1>1. Bytes(InFlight) = {}
    BY FS_EmptySet DEF AccountInv
  <1>2. m[3] \in Nat
    BY MessageSizes
  <1>3. ASSUME 0 < m[3] PROVE FALSE
    <2>1. <<m, 1>> \in {m} \X (1..m[3])
      BY <1>2, <1>3
    <2> QED
      BY <1>1, <2>1 DEF Bytes
  <1> QED
    BY <1>2, <1>3

\* The message that exceeds the capacity alone, and nothing beside it.
Alone(M, m, n) == m \in M /\ m[3] = n /\ \A k \in M \ {m} : k[3] = 0

LEMMA NextBudget == TypeInv /\ AccountInv /\ WithinBudget /\ [Next]_vars => WithinBudget'
  <1> SUFFICES ASSUME TypeInv, AccountInv, WithinBudget, [Next]_vars,
                      InnerReceivers' # {}, Capacity < bytes_in_flight'
               PROVE  \E m : Alone(InFlight', m, bytes_in_flight')
    BY DEF WithinBudget, Alone
  <1>t. TypeOK
    BY DEF TypeInv
  <1>a. /\ InnerReceivers # {}
        /\ IsFiniteSet(Bytes(InFlight))
        /\ bytes_in_flight = Cardinality(Bytes(InFlight))
        /\ bytes_in_flight \in Nat
        /\ Capacity \in Nat
    BY InnerStays, QuotaAssumption DEF AccountInv, TypeInv, TypeOK
  <1>b. Capacity < bytes_in_flight => \E m : Alone(InFlight, m, bytes_in_flight)
    BY <1>a DEF WithinBudget, Alone
  <1>1. ASSUME NEW s \in Senders, Reserve(s)
        PROVE  \E m : Alone(InFlight', m, bytes_in_flight')
    <2> DEFINE m == <<"reserved", s, size[s]>>
    <2>1. m \notin InFlight /\ InFlight' = InFlight \cup {m}
      BY <1>1, ReserveAdds
    <2>2. m[3] = size[s] /\ size[s] \in Nat
      BY DEF TypeInv, TypeOK
    <2>3. bytes_in_flight' = bytes_in_flight + size[s] /\ bytes_in_flight = 0
      BY <1>1, <1>a, <2>2 DEF Reserve, Room
    <2>4. \A k \in InFlight : k[3] = 0
      BY <1>a, <2>3, EmptyMeansEmpty
    <2> HIDE DEF m
    <2>5. Alone(InFlight', m, bytes_in_flight')
      BY <2>1, <2>2, <2>3, <2>4 DEF Alone
    <2> QED
      BY <2>5
  <1>2. ASSUME NEW s \in Senders, Push(s)
        PROVE  \E m : Alone(InFlight', m, bytes_in_flight')
    <2> DEFINE m == <<"reserved", s, size[s]>>
               n == <<"queued", Len(queue) + 1, size[s]>>
    <2>1. m \in InFlight /\ n \notin InFlight /\ InFlight' = (InFlight \ {m}) \cup {n}
      BY <1>2, <1>a, PushMoves
    <2>2. m[3] = size[s] /\ n[3] = size[s]
      OBVIOUS
    <2>3. bytes_in_flight' = bytes_in_flight
      BY <1>2 DEF Push
    <2> HIDE DEF m, n
    <2>4. PICK k : Alone(InFlight, k, bytes_in_flight)
      BY <1>b, <2>3
    <2>5. CASE k = m
      <3>1. Alone(InFlight', n, bytes_in_flight')
        BY <2>1, <2>2, <2>3, <2>4, <2>5 DEF Alone
      <3> QED
        BY <3>1
    <2>6. CASE k # m
      <3>1. Alone(InFlight', k, bytes_in_flight')
        BY <2>1, <2>2, <2>3, <2>4, <2>6 DEF Alone
      <3> QED
        BY <3>1
    <2> QED
      BY <2>5, <2>6
  <1>3. ASSUME NEW r \in Receivers, Take(r)
        PROVE  \E m : Alone(InFlight', m, bytes_in_flight')
    <2>1. PICK f \in Bijection(InFlight, InFlight') : \A m \in InFlight : f[m][3] = m[3]
      BY <1>3, TakeRenames
    <2>2. bytes_in_flight' = bytes_in_flight
      BY <1>3 DEF Take
    <2>3. PICK k : Alone(InFlight, k, bytes_in_flight)
      BY <1>b, <2>2
    <2>4. /\ f \in [InFlight -> InFlight']
          /\ \A n \in InFlight' : \E m \in InFlight : f[m] = n
      BY <2>1 DEF Bijection, Injection, Surjection, IsInjective
    <2>5. Alone(InFlight', f[k], bytes_in_flight')
      BY <2>1, <2>2, <2>3, <2>4 DEF Alone
    <2> QED
      BY <2>5
  <1>4. ASSUME NEW r \in Receivers, Account(r)
        PROVE  \E m : Alone(InFlight', m, bytes_in_flight')
    <2> DEFINE m == <<"taken", r, got[r]>>
    <2>1. m \in InFlight /\ InFlight' = InFlight \ {m}
      BY <1>4, AccountRemoves
    <2>2. m[3] = got[r] /\ got[r] \in Nat
      BY DEF TypeInv, TypeOK
    <2> HIDE DEF m
    <2>3. got[r] <= bytes_in_flight /\ bytes_in_flight' = bytes_in_flight - got[r]
      BY <1>4, <1>a, <2>1, <2>2, BytesRemoved DEF Account
    <2>4. Capacity < bytes_in_flight
      BY <1>a, <2>2, <2>3
    <2>5. PICK k : Alone(InFlight, k, bytes_in_flight)
      BY <1>b, <2>4
    <2>6. k # m
      BY <1>a, <2>2, <2>3, <2>5 DEF Alone
    <2>7. Alone(InFlight', k, bytes_in_flight')
      BY <1>a, <2>1, <2>2, <2>3, <2>5, <2>6 DEF Alone
    <2> QED
      BY <2>7
  <1>5. CASE /\ \A s \in Senders : ~Reserve(s) /\ ~Push(s)
             /\ \A r \in Receivers : ~Take(r) /\ ~Account(r)
    BY <1>b, <1>5, OthersKeep
  <1> QED
    BY <1>1, <1>2, <1>3, <1>4, <1>5

\* The bytes in flight stay within the capacity, or all of them belong to one
\* message in flight that is larger than the whole capacity.
THEOREM QuotaWithinBudget == Spec => []WithinBudget
  <1> QED
    BY InitTypeInv, NextTypeInv, InitAccount, NextAccount, NextBudget, PTL DEF Spec

\* The byte count of the channel is the number of bytes reserved, queued, or
\* taken and not yet counted off: the saturating subtraction never saturates.
THEOREM QuotaByteAccounting == Spec => []ByteAccounting
  <1>1. AccountInv => ByteAccounting
    BY DEF AccountInv, ByteAccounting
  <1> QED
    BY <1>1, InitTypeInv, NextTypeInv, InitAccount, NextAccount, PTL DEF Spec

-----------------------------------------------------------------------------
\* The fetch pipeline: the types, and the parts of the inductive invariant.

FutureStates == {"idle", "try", "enqueue", "recheck", "parked", "hold", "done"}
IoStates == {"admit", "announce", "stream", "deliver", "leave", "ended"}
CpuStates == {"recv", "emit", "drop", "ended"}
StoreStates == {"none", "open", "ready", "done"}
Ops == {"free", "grow", "clear", "calm", "cancel", "publish", "empty", "count", "arm", "wake"}
Messages == [kind : {"count", "manifest", "chunks"}, segment : Segments, bytes : Nat]
Stores == [at : StoreStates, announced : BOOLEAN, received : Nat, bytes : Nat,
           slotReleased : BOOLEAN]

\* A record with the fields of the budget.
BudgetRecord(b) ==
  b = [current |-> b.current, force |-> b.force, empties |-> b.empties, all |-> b.all,
       bypass |-> b.bypass, queue |-> b.queue, cancelled |-> b.cancelled,
       permits |-> b.permits]

\* Steps of calls of the budget.
StepList(steps) ==
  steps \in Seq(ToSet(steps)) /\ \A i \in DOMAIN steps : steps[i].op \in Ops

PipelineTypeOK ==
  /\ query \in Scenarios
  /\ BudgetRecord(budget) /\ budget.force \in BOOLEAN
  /\ fut \in [Futures -> [at : FutureStates, reserved : Nat]]
  /\ io \in [Partitions -> [at : IoStates, wave : Nat, out : Seq(Messages)]]
  /\ chan \in [Partitions -> Seq(Messages)]
  /\ cpu \in [Partitions -> [at : CpuStates, order : Seq(Segments)]]
  /\ stores \in [Segments -> Stores]
  /\ todo = [t \in Threads |-> todo[t]]
  /\ \A t \in Threads : StepList(todo[t])

\* Steps that vacate the slot of s, and calls that vacate none.
Vacates(steps, s) ==
  \E i \in DOMAIN steps : steps[i].op = "publish" /\ steps[i].segment = s
Quiet(steps) == StepList(steps) /\ \A i \in DOMAIN steps : steps[i].op # "publish"
Publishes(t, s) == Vacates(todo[t], s)
Mentions(messages, s) == \E i \in DOMAIN messages : messages[i].segment = s
Own(p) == ToSet(query.order[p])

\* What a partition has in hand is about its own segments.
InHand(p, s) ==
  \/ Mentions(io[p].out, s) \/ Mentions(chan[p], s)
  \/ s \in ToSet(cpu[p].order)
  \/ Publishes(Io(p), s) \/ Publishes(Cpu(p), s)
KeptApart ==
  \A p \in Partitions : \A s \in Segments : InHand(p, s) => s \in Own(p)

Running(f) == fut[f].at \notin {"idle", "done"}

\* Only futures of the current wave run, each while the loop is at its await.
WaveByWave ==
  /\ \A p \in Partitions :
       /\ io[p].at # "ended" => io[p].wave \in 1..Waves(p)
       /\ io[p].at \in {"admit", "stream"} => io[p].out = <<>>
       /\ io[p].at = "leave" => query.failing[p] # {} \/ cpu[p].at = "ended"
  /\ \A f \in Futures : Running(f) /\ IsAdmission(f) =>
       /\ f[3] = io[f[1]].wave
       /\ io[f[1]].at \in {"admit", "announce"}
       /\ io[f[1]].at = "announce" => fut[f].at = "hold"
  /\ \A f \in Futures : Running(f) /\ ~IsAdmission(f) =>
       /\ InWave(f, io[f[1]].wave)
       /\ io[f[1]].at \in {"stream", "deliver", "leave"}

\* An open segment is in the emit_order of its worker and has its slot.
OpenIsKept ==
  /\ \A p \in Partitions : cpu[p].at = "ended" => cpu[p].order = <<>> /\ ThreadFree(Cpu(p))
  /\ \A p \in Partitions : \A s \in Own(p) :
       stores[s].at = "open" => s \in ToSet(cpu[p].order)
  /\ \A s \in Segments : stores[s].at \in {"none", "open"} => ~stores[s].slotReleased

\* The gate: at most limit segments that count against it.
GateInv ==
  /\ IsFiniteSet(budget.all) /\ budget.all \subseteq Segments
  /\ budget.bypass \subseteq budget.all
  /\ Cardinality(budget.all \ budget.bypass) <= query.limit

\* Nothing will be expected of the slot of s again.
Over(p, s) == \/ stores[s].at \in {"ready", "done"}
              \/ Failed(p)
              \/ cpu[p].at = "ended"

\* s is on its way to the worker of p, or there.
Under(p, s) ==
  \/ stores[s].at = "open"
  \/ Mentions(io[p].out, s) \/ Mentions(chan[p], s)
  \/ \E f \in Futures : f[1] = p /\ fut[f].at = "hold" /\ s \in SegmentsOf(f)

\* A slot is vacated only when it is over with its segment, and until then
\* the segment has it.
SlotInv ==
  \A p \in Partitions : \A s \in Own(p) :
    /\ Publishes(Io(p), s) \/ Publishes(Cpu(p), s) => Over(p, s)
    /\ Under(p, s) => s \in budget.all \/ Over(p, s)

\* Somebody will vacate the slot of s: a guard, a thread that is about to, or the worker,
\* who will see the segment or has it.
Vouched(p, s) ==
  \/ \E f \in Futures : /\ f[1] = p /\ fut[f].at = "hold" /\ s \in SegmentsOf(f)
                        /\ IsAdmission(f) => io[p].at = "admit"
  \/ Publishes(Io(p), s) \/ Publishes(Cpu(p), s)
  \/ Mentions(io[p].out, s) \/ Mentions(chan[p], s)
  \/ stores[s].at = "open"

VouchedInv == \A p \in Partitions : \A s \in Own(p) \cap budget.all : Vouched(p, s)

PipelineInv ==
  /\ PipelineTypeOK /\ KeptApart /\ WaveByWave /\ OpenIsKept /\ GateInv /\ SlotInv
  /\ VouchedInv

-----------------------------------------------------------------------------
\* The operators the pipeline is built from.

\* The elements of a sequence are finitely many.
LEMMA RangeFinite ==
  ASSUME NEW q, q \in Seq(ToSet(q))
  PROVE  IsFiniteSet(ToSet(q))
  <1>1. q \in Surjection(1..Len(q), ToSet(q))
    BY DEF Surjection, ToSet
  <1>2. IsFiniteSet(1..Len(q))
    BY FS_Interval
  <1> QED
    BY <1>1, <1>2, FS_Surjection

LEMMA OwnSeq ==
  ASSUME NEW S, NEW q \in Seq(S)
  PROVE  q \in Seq(ToSet(q))
  BY SeqOfRange DEF Range, ToSet

\* What the assumption on the queries says of the one that runs.
LEMMA QueryFacts ==
  ASSUME query \in Scenarios
  PROVE  /\ WellFormed(query)
         /\ query.limit \in Nat \ {0}
         /\ \A p \in Partitions : query.order[p] \in Seq(Own(p)) /\ IsFiniteSet(Own(p))
  BY QueryAssumption, RangeFinite DEF WellFormed, Own

\* A segment that a partition plans for belongs to it alone.
LEMMA OwnFacts ==
  ASSUME query \in Scenarios, NEW p \in Partitions, NEW s \in Own(p)
  PROVE  s \in Segments /\ PartitionOf(s) = p
  <1>1. \A r \in Partitions : s \in Own(r) => r = p
    BY QueryFacts DEF WellFormed, Own
  <1>2. \E r \in Partitions : s \in Own(r)
    OBVIOUS
  <1> QED
    BY <1>1, <1>2 DEF Segments, PartitionOf, Own

LEMMA SegmentFacts ==
  ASSUME NEW s \in Segments
  PROVE  \E p \in Partitions : s \in Own(p)
  BY DEF Segments, Own

LEMMA FutureFacts ==
  ASSUME NEW f \in Futures
  PROVE  /\ f[1] \in Partitions
         /\ IsAdmission(f) => f[3] \in 1..Waves(f[1]) /\ f = Admission(f[1], f[3])
         /\ ~IsAdmission(f) => f[3] \in DOMAIN query.fetches[f[1]] /\ f[2] = "fetch"
  BY DEF Futures, Admission, Fetch, IsAdmission

LEMMA AdmissionFacts ==
  ASSUME NEW p \in Partitions, NEW w \in 1..Waves(p)
  PROVE  /\ Admission(p, w) \in Futures /\ IsAdmission(Admission(p, w))
         /\ Admission(p, w)[1] = p /\ Admission(p, w)[3] = w
  BY DEF Futures, Admission, IsAdmission

\* The positions of a wave are positions of the plan.
LEMMA WaveRange ==
  ASSUME query \in Scenarios, NEW p \in Partitions, NEW w \in Nat \ {0}
  PROVE  /\ WaveSegments(p, w) \in Seq(Own(p))
         /\ ToSet(WaveSegments(p, w)) \subseteq Own(p)
  <1> DEFINE q == query.order[p]
             a == (w - 1) * query.limit + 1
             b == Min({w * query.limit, Len(q)})
  <1>1. q \in Seq(Own(p)) /\ query.limit \in Nat \ {0}
    BY QueryFacts
  <1>2. w * query.limit \in Nat /\ (w - 1) * query.limit \in Nat
    BY <1>1
  <1>3. a \in Nat /\ a >= 1 /\ Len(q) \in Nat
    BY <1>1, <1>2
  <1>4. b \in Int /\ b <= Len(q)
    BY <1>2, <1>3 DEF Min
  <1> HIDE DEF a, b
  <1>5. SubSeq(q, a, b) \in Seq(Own(p))
    BY <1>1, <1>3, <1>4
  <1>6. WaveSegments(p, w) = SubSeq(q, a, b)
    BY DEF WaveSegments, a, b
  <1> QED
    BY <1>5, <1>6 DEF ToSet

\* A future is about planned segments of its own partition.
LEMMA SegmentsOfFacts ==
  ASSUME query \in Scenarios, NEW f \in Futures
  PROVE  SegmentsOf(f) \subseteq Own(f[1]) /\ IsFiniteSet(SegmentsOf(f))
  <1>1. f[1] \in Partitions
    BY FutureFacts
  <1>2. SegmentsOf(f) \subseteq Own(f[1])
    <2>1. CASE IsAdmission(f)
      BY <2>1, FutureFacts, WaveRange DEF SegmentsOf
    <2>2. CASE ~IsAdmission(f)
      BY <2>2, FutureFacts, QueryFacts DEF SegmentsOf, Chunks, WellFormed, Own
    <2> QED
      BY <2>1, <2>2
  <1> QED
    BY <1>1, <1>2, QueryFacts, FS_Subset

\* The number of waves of a plan, and when a wave is its last.
LEMMA WavesType ==
  ASSUME query \in Scenarios, NEW p \in Partitions
  PROVE  Waves(p) \in Int
  <1> DEFINE n == Len(query.order[p])
             l == query.limit
  <1>1. n \in Nat /\ l \in Nat \ {0}
    BY QueryFacts
  <1>2. \A a, d \in Nat : d > 0 => a \div d \in Int
    OBVIOUS
  <1>3. Waves(p) = (n + l - 1) \div l
    BY DEF Waves
  <1> HIDE DEF n, l
  <1>4. (n + l - 1) \in Nat /\ l \in Nat /\ l > 0
    BY <1>1
  <1>5. ASSUME NEW a \in Nat, a = n + l - 1
        PROVE  a \div l \in Int
    BY <1>2, <1>4
  <1> QED
    BY <1>3, <1>4, <1>5

\* A fetch belongs to one wave.
LEMMA OneWave ==
  ASSUME query \in Scenarios, NEW p \in Partitions, query.order[p] # <<>>
  PROVE  1 \in 1..Waves(p)
  <1> DEFINE n == Len(query.order[p])
             l == query.limit
  <1>1. n \in Nat \ {0} /\ l \in Nat \ {0}
    BY QueryFacts
  <1>2. (n + l - 1) \in Nat /\ n + l - 1 >= l
    BY <1>1
  <1>3. \A a, d \in Nat : d > 0 /\ a >= d => a \div d >= 1 /\ a \div d \in Int
    OBVIOUS
  <1> HIDE DEF n, l
  <1>4. ASSUME NEW a \in Nat, a = n + l - 1
        PROVE  a \div l \in Int /\ a \div l >= 1
    BY <1>1, <1>2, <1>3, <1>4
  <1>5. (n + l - 1) \div l \in Int /\ (n + l - 1) \div l >= 1
    BY <1>2, <1>4
  <1> QED
    BY <1>5 DEF Waves, n, l

-----------------------------------------------------------------------------
(* Lists of steps *)

LEMMA EmptySteps == StepList(<<>>) /\ \A s : ~Vacates(<<>>, s)
  BY DEF StepList, Vacates, ToSet

LEMMA OneStep ==
  ASSUME NEW e, e.op \in Ops
  PROVE  /\ StepList(<<e>>)
         /\ \A s : Vacates(<<e>>, s) <=> e.op = "publish" /\ e.segment = s
  BY DEF StepList, Vacates, ToSet

\* What two lists of steps vacate, one after the other vacates.
LEMMA ConcatSteps ==
  ASSUME NEW a, NEW b, StepList(a), StepList(b)
  PROVE  /\ StepList(a \o b)
         /\ \A s : Vacates(a \o b, s) <=> Vacates(a, s) \/ Vacates(b, s)
  <1> DEFINE S == ToSet(a) \cup ToSet(b)
  <1>1. a \in Seq(S) /\ b \in Seq(S)
    BY DEF StepList
  <1>2. a \o b \in Seq(S) /\ Len(a \o b) = Len(a) + Len(b)
    BY <1>1
  <1>3. /\ \A i \in 1..Len(a) : (a \o b)[i] = a[i]
        /\ \A i \in 1..Len(b) : (a \o b)[Len(a) + i] = b[i]
    BY <1>1
  <1>4. \A i \in DOMAIN (a \o b) : \/ i \in 1..Len(a)
                                  \/ \E j \in 1..Len(b) : i = Len(a) + j
    <2> TAKE i \in DOMAIN (a \o b)
    <2>1. i \in 1..(Len(a) + Len(b)) /\ Len(a) \in Nat /\ Len(b) \in Nat
      BY <1>1, <1>2
    <2>2. i \notin 1..Len(a) => i - Len(a) \in 1..Len(b) /\ i = Len(a) + (i - Len(a))
      BY <2>1
    <2> QED
      BY <2>2
  <1>5. a \o b \in Seq(ToSet(a \o b))
    BY <1>2, OwnSeq
  <1>6. \A i \in DOMAIN (a \o b) : (a \o b)[i].op \in Ops
    <2> TAKE i \in DOMAIN (a \o b)
    <2>1. CASE i \in 1..Len(a)
      BY <2>1, <1>1, <1>3 DEF StepList
    <2>2. CASE \E j \in 1..Len(b) : i = Len(a) + j
      BY <2>2, <1>1, <1>3 DEF StepList
    <2> QED
      BY <2>1, <2>2, <1>4
  <1>7. ASSUME NEW s
        PROVE  Vacates(a \o b, s) <=> Vacates(a, s) \/ Vacates(b, s)
    <2>1. Vacates(a, s) => Vacates(a \o b, s)
      BY <1>1, <1>2, <1>3 DEF Vacates
    <2>2. Vacates(b, s) => Vacates(a \o b, s)
      <3> SUFFICES ASSUME NEW j \in DOMAIN b, b[j].op = "publish", b[j].segment = s
                   PROVE  Vacates(a \o b, s)
        BY DEF Vacates
      <3>1. Len(a) + j \in DOMAIN (a \o b)
        BY <1>1, <1>2
      <3> QED
        BY <3>1, <1>1, <1>3 DEF Vacates
    <2>3. Vacates(a \o b, s) => Vacates(a, s) \/ Vacates(b, s)
      <3> SUFFICES ASSUME NEW i \in DOMAIN (a \o b), (a \o b)[i].op = "publish",
                          (a \o b)[i].segment = s
                   PROVE  Vacates(a, s) \/ Vacates(b, s)
        BY DEF Vacates
      <3>1. CASE i \in 1..Len(a)
        BY <3>1, <1>1, <1>3 DEF Vacates
      <3>2. CASE \E j \in 1..Len(b) : i = Len(a) + j
        BY <3>2, <1>1, <1>3 DEF Vacates
      <3> QED
        BY <3>1, <3>2, <1>4
    <2> QED
      BY <2>1, <2>2, <2>3
  <1> QED
    BY <1>5, <1>6, <1>7 DEF StepList

LEMMA TailSteps ==
  ASSUME NEW a, StepList(a), a # <<>>
  PROVE  /\ StepList(Tail(a)) /\ Head(a).op \in Ops
         /\ \A s : Vacates(Tail(a), s) => Vacates(a, s)
         /\ \A s : Vacates(a, s) =>
              Vacates(Tail(a), s) \/ (Head(a).op = "publish" /\ Head(a).segment = s)
         /\ Head(a).op = "publish" => Vacates(a, Head(a).segment)
  <1> DEFINE S == ToSet(a)
  <1>1. a \in Seq(S) /\ Len(a) \in Nat /\ Len(a) >= 1 /\ Head(a) = a[1]
    BY DEF StepList
  <1>2. /\ Tail(a) \in Seq(S) /\ Len(Tail(a)) = Len(a) - 1
        /\ \A i \in 1..Len(Tail(a)) : Tail(a)[i] = a[i + 1]
    BY <1>1
  <1>3. \A i \in DOMAIN Tail(a) : i + 1 \in DOMAIN a
    BY <1>1, <1>2
  <1>4. \A i \in DOMAIN a : i = 1 \/ (i - 1 \in DOMAIN Tail(a) /\ Tail(a)[i - 1] = a[i])
    BY <1>1, <1>2
  <1>5. Tail(a) \in Seq(ToSet(Tail(a)))
    BY <1>2, OwnSeq
  <1>6. StepList(Tail(a)) /\ Head(a).op \in Ops
    BY <1>1, <1>2, <1>3, <1>5 DEF StepList
  <1>7. \A s : Vacates(Tail(a), s) => Vacates(a, s)
    BY <1>2, <1>3 DEF Vacates
  <1>8. \A s : Vacates(a, s) =>
              Vacates(Tail(a), s) \/ (Head(a).op = "publish" /\ Head(a).segment = s)
    BY <1>1, <1>4 DEF Vacates
  <1>9. Head(a).op = "publish" => Vacates(a, Head(a).segment)
    BY <1>1 DEF Vacates
  <1> QED
    BY <1>6, <1>7, <1>8, <1>9
LEMMA QuietFacts ==
  ASSUME NEW steps, Quiet(steps)
  PROVE  StepList(steps) /\ \A s : ~Vacates(steps, s)
  BY DEF Quiet, Vacates

LEMMA QuietConcat ==
  ASSUME NEW a, NEW b, Quiet(a), Quiet(b)
  PROVE  Quiet(a \o b)
  <1>1. StepList(a) /\ StepList(b) /\ StepList(a \o b)
    BY ConcatSteps DEF Quiet
  <1>2. \A s : ~Vacates(a \o b, s)
    BY <1>1, ConcatSteps, QuietFacts
  <1> QED
    BY <1>1, <1>2 DEF Quiet, Vacates

\* The calls that vacate nothing.
LEMMA QuietCalls ==
  /\ Quiet(<<>>) /\ Quiet(Wake) /\ Quiet(Reset) /\ Quiet(EmptyEmit)
  /\ Quiet(<<[op |-> "clear"]>>) /\ Quiet(<<[op |-> "count"]>>) /\ Quiet(<<[op |-> "arm"]>>)
  /\ \A n : Quiet(Free(n)) /\ Quiet(Release(n))
  /\ \A f : Quiet(<<[op |-> "cancel", waiter |-> f]>>)
  /\ \A m, n : Quiet(AdjustReservation(m, n))
  <1>1. ASSUME NEW e, e.op \in Ops, e.op # "publish"
        PROVE  Quiet(<<e>>)
    BY <1>1, OneStep DEF Quiet
  <1>2. Quiet(<<>>)
    BY EmptySteps DEF Quiet
  <1>3. Quiet(Wake) /\ Quiet(Reset) /\ Quiet(EmptyEmit)
    <2>1. Quiet(Wake) /\ Quiet(EmptyEmit)
      BY <1>1 DEF Wake, EmptyEmit, Ops
    <2>2. Quiet(<<[op |-> "clear"]>>) /\ Quiet(<<[op |-> "calm"]>>)
      BY <1>1 DEF Ops
    <2>3. Reset = <<[op |-> "clear"]>> \o <<[op |-> "calm"]>>
      BY DEF Reset
    <2> QED
      BY <2>1, <2>2, <2>3, QuietConcat
  <1>4. \A n : Quiet(Free(n))
    BY <1>1 DEF Free, Ops
  <1>5. \A n : Quiet(Free(n) \o Reset \o Wake)
    BY <1>3, <1>4, QuietConcat
  <1>6. \A f : Quiet(<<[op |-> "cancel", waiter |-> f]>>)
    BY <1>1 DEF Ops
  <1>7. \A m : Quiet(<<[op |-> "grow", bytes |-> m]>>)
    BY <1>1 DEF Ops
  <1>8. \A m, n : Quiet(AdjustReservation(m, n))
    BY <1>2, <1>5, <1>7 DEF AdjustReservation
  <1>9. /\ Quiet(<<[op |-> "clear"]>>) /\ Quiet(<<[op |-> "count"]>>)
        /\ Quiet(<<[op |-> "arm"]>>)
    BY <1>1 DEF Ops
  <1> QED
    BY <1>2, <1>3, <1>4, <1>5, <1>6, <1>8, <1>9 DEF Release

LEMMA PublishSteps ==
  ASSUME NEW s
  PROVE  StepList(Publish(s)) /\ \A r : Vacates(Publish(s), r) <=> r = s
  BY OneStep DEF Publish, Ops

\* Publishing a set of segments vacates exactly those.
LEMMA PublishAllSteps ==
  ASSUME NEW S, IsFiniteSet(S)
  PROVE  StepList(PublishAll(S)) /\ \A s : Vacates(PublishAll(S), s) <=> s \in S
  <1> DEFINE n == Cardinality(S)
             q == SetToSeq(S)
  <1>1. n \in Nat
    BY FS_CardinalityType
  <1>2. \E f \in [1..n -> S] : IsInjective(f)
    BY FS_CardinalityType DEF ExistsBijection, Bijection, Injection
  <1>3. q \in [1..n -> S] /\ IsInjective(q)
    BY <1>2 DEF SetToSeq
  <1>4. q \in Surjection(1..n, S)
    <2>1. q \in Injection(1..n, S)
      BY <1>3 DEF Injection, IsInjective
    <2>2. IsFiniteSet(1..n) /\ Cardinality(1..n) = n
      BY <1>1, FS_Interval
    <2> QED
      BY <2>1, <2>2, <1>1, FS_Injection
  <1>5. \A s : s \in S <=> \E i \in 1..n : q[i] = s
    BY <1>3, <1>4 DEF Surjection
  <1> DEFINE r == [i \in 1..n |-> [op |-> "publish", segment |-> q[i]]]
  <1>6. PublishAll(S) = r
    BY DEF PublishAll
  <1> HIDE DEF n, q
  <1>7. r \in [1..n -> ToSet(r)]
    BY DEF ToSet
  <1>8. r \in Seq(ToSet(r))
    BY <1>1, <1>7, SeqDef
  <1>9. DOMAIN r = 1..n
        /\ \A i \in 1..n : r[i].op = "publish" /\ r[i].op \in Ops /\ r[i].segment = q[i]
    BY DEF Ops
  <1> HIDE DEF r
  <1> QED
    BY <1>5, <1>6, <1>8, <1>9 DEF StepList, Vacates

\* ReservationGuard::drop vacates at most the segments it was to admit.
LEMMA DropGuardSteps ==
  ASSUME query \in Scenarios, NEW f \in Futures
  PROVE  /\ StepList(DropGuard(f))
         /\ \A s : Vacates(DropGuard(f), s) <=> s \in SegmentsOf(f)
  <1> DEFINE a == IF fut[f].reserved = 0 THEN <<>> ELSE Free(fut[f].reserved) \o Wake
  <1>1. Quiet(a)
    BY QuietCalls, QuietConcat
  <1>2. IsFiniteSet(SegmentsOf(f))
    BY SegmentsOfFacts
  <1> HIDE DEF a
  <1>3. StepList(a) /\ \A s : ~Vacates(a, s)
    BY <1>1, QuietFacts
  <1>4. DropGuard(f) = a \o PublishAll(SegmentsOf(f))
    BY DEF DropGuard, a
  <1> QED
    BY <1>2, <1>3, <1>4, PublishAllSteps, ConcatSteps

\* SegmentStore::drop vacates its own slot, and only if it still has it.
LEMMA DropStoreSteps ==
  ASSUME NEW s
  PROVE  /\ StepList(DropStore(s))
         /\ \A r : Vacates(DropStore(s), r) <=> r = s /\ ~stores[s].slotReleased
  <1>1. StepList(Release(stores[s].bytes)) /\ \A r : ~Vacates(Release(stores[s].bytes), r)
    BY QuietCalls, QuietFacts
  <1>2. CASE stores[s].slotReleased
    BY <1>1, <1>2, ConcatSteps, EmptySteps DEF DropStore
  <1>3. CASE ~stores[s].slotReleased
    BY <1>1, <1>3, ConcatSteps, PublishSteps DEF DropStore
  <1> QED
    BY <1>2, <1>3

LEMMA ThreadFacts ==
  /\ \A p \in Partitions : Io(p) \in Threads /\ Cpu(p) \in Threads
  /\ \A p, r \in Partitions : Io(p) # Cpu(r) /\ (Io(p) = Io(r) => p = r)
                                           /\ (Cpu(p) = Cpu(r) => p = r)
  /\ \A t \in Threads : \E p \in Partitions : t = Io(p) \/ t = Cpu(p)
  BY DEF Threads, Io, Cpu

\* The call that a thread enters.
LEMMA CallStep ==
  ASSUME PipelineTypeOK, NEW t \in Threads, NEW steps, StepList(steps),
         todo' = [todo EXCEPT ![t] = steps]
  PROVE  /\ todo' = [u \in Threads |-> todo'[u]]
         /\ \A u \in Threads : StepList(todo'[u])
         /\ \A s : Publishes(t, s)' <=> Vacates(steps, s)
         /\ \A u \in Threads \ {t} : \A s : Publishes(u, s)' <=> Publishes(u, s)
  <1>1. todo = [u \in Threads |-> todo[u]] /\ \A u \in Threads : StepList(todo[u])
    BY DEF PipelineTypeOK
  <1>2. todo' = [u \in Threads |-> IF u = t THEN steps ELSE todo[u]]
    BY <1>1
  <1> QED
    BY <1>1, <1>2 DEF Publishes
-----------------------------------------------------------------------------
(* Messages *)

LEMMA MentionsNone == \A s : ~Mentions(<<>>, s)
  BY DEF Mentions

LEMMA MentionsAppend ==
  ASSUME NEW S, NEW q \in Seq(S), NEW m \in S
  PROVE  \A s : Mentions(Append(q, m), s) <=> Mentions(q, s) \/ m.segment = s
  <1>1. /\ Append(q, m) \in Seq(S) /\ Len(Append(q, m)) = Len(q) + 1
        /\ \A i \in 1..Len(q) : Append(q, m)[i] = q[i]
        /\ Append(q, m)[Len(q) + 1] = m
    OBVIOUS
  <1>2. Len(q) \in Nat /\ DOMAIN q = 1..Len(q) /\ DOMAIN Append(q, m) = 1..(Len(q) + 1)
    BY <1>1
  <1>3. \A i \in 1..(Len(q) + 1) : i \in 1..Len(q) \/ i = Len(q) + 1
    BY <1>2
  <1>4. 1..Len(q) \subseteq 1..(Len(q) + 1) /\ Len(q) + 1 \in 1..(Len(q) + 1)
    BY <1>2
  <1> QED
    BY <1>1, <1>2, <1>3, <1>4 DEF Mentions

LEMMA MentionsTail ==
  ASSUME NEW S, NEW q \in Seq(S), q # <<>>
  PROVE  /\ Head(q) \in S /\ Tail(q) \in Seq(S)
         /\ \A s : Mentions(q, s) <=> Mentions(Tail(q), s) \/ Head(q).segment = s
  <1>1. Len(q) \in Nat /\ Len(q) >= 1 /\ Head(q) = q[1] /\ DOMAIN q = 1..Len(q)
    OBVIOUS
  <1>2. /\ Tail(q) \in Seq(S) /\ DOMAIN Tail(q) = 1..(Len(q) - 1)
        /\ \A i \in 1..(Len(q) - 1) : Tail(q)[i] = q[i + 1]
    OBVIOUS
  <1>3. \A i \in DOMAIN Tail(q) : i + 1 \in DOMAIN q
    BY <1>1, <1>2
  <1>4. \A i \in DOMAIN q : i = 1 \/ (i - 1 \in DOMAIN Tail(q) /\ Tail(q)[i - 1] = q[i])
    BY <1>1, <1>2
  <1>5. 1 \in DOMAIN q /\ Head(q) \in S
    BY <1>1
  <1>6. \A s : Mentions(q, s) => Mentions(Tail(q), s) \/ Head(q).segment = s
    BY <1>1, <1>4 DEF Mentions
  <1>7. \A s : Mentions(Tail(q), s) => Mentions(q, s)
    <2> SUFFICES ASSUME NEW i \in DOMAIN Tail(q)
                 PROVE  Mentions(q, Tail(q)[i].segment)
      BY DEF Mentions
    <2> QED
      BY <1>2, <1>3 DEF Mentions
  <1>8. Mentions(q, Head(q).segment)
    BY <1>1, <1>5 DEF Mentions
  <1> QED
    BY <1>2, <1>5, <1>6, <1>7, <1>8

LEMMA OrderTail ==
  ASSUME NEW S, NEW q \in Seq(S), q # <<>>
  PROVE  /\ Head(q) \in S /\ Head(q) \in ToSet(q) /\ Tail(q) \in Seq(S)
         /\ \A s : s \in ToSet(q) <=> s \in ToSet(Tail(q)) \/ Head(q) = s
  <1>1. Len(q) \in Nat /\ Len(q) >= 1 /\ Head(q) = q[1] /\ DOMAIN q = 1..Len(q)
    OBVIOUS
  <1>2. /\ Tail(q) \in Seq(S) /\ DOMAIN Tail(q) = 1..(Len(q) - 1)
        /\ \A i \in 1..(Len(q) - 1) : Tail(q)[i] = q[i + 1]
    OBVIOUS
  <1>3. \A i \in DOMAIN Tail(q) : i + 1 \in DOMAIN q
    BY <1>1, <1>2
  <1>4. \A i \in DOMAIN q : i = 1 \/ (i - 1 \in DOMAIN Tail(q) /\ Tail(q)[i - 1] = q[i])
    BY <1>1, <1>2
  <1>5. 1 \in DOMAIN q /\ Head(q) \in S /\ Head(q) \in ToSet(q)
    BY <1>1 DEF ToSet
  <1>6. \A s : s \in ToSet(q) => s \in ToSet(Tail(q)) \/ Head(q) = s
    BY <1>1, <1>4 DEF ToSet
  <1>7. \A s : s \in ToSet(Tail(q)) => s \in ToSet(q)
    <2> SUFFICES ASSUME NEW i \in DOMAIN Tail(q)
                 PROVE  Tail(q)[i] \in ToSet(q)
      BY DEF ToSet
    <2> QED
      BY <1>2, <1>3 DEF ToSet
  <1> QED
    BY <1>2, <1>5, <1>6, <1>7

LEMMA OrderAppend ==
  ASSUME NEW S, NEW q \in Seq(S), NEW m \in S
  PROVE  /\ Append(q, m) \in Seq(S)
         /\ \A s : s \in ToSet(Append(q, m)) <=> s \in ToSet(q) \/ m = s
  <1>1. /\ Append(q, m) \in Seq(S) /\ Len(Append(q, m)) = Len(q) + 1
        /\ \A i \in 1..Len(q) : Append(q, m)[i] = q[i]
        /\ Append(q, m)[Len(q) + 1] = m
    OBVIOUS
  <1>2. Len(q) \in Nat /\ DOMAIN q = 1..Len(q) /\ DOMAIN Append(q, m) = 1..(Len(q) + 1)
    BY <1>1
  <1>3. \A i \in 1..(Len(q) + 1) : i \in 1..Len(q) \/ i = Len(q) + 1
    BY <1>2
  <1>4. 1..Len(q) \subseteq 1..(Len(q) + 1) /\ Len(q) + 1 \in 1..(Len(q) + 1)
    BY <1>2
  <1> QED
    BY <1>1, <1>2, <1>3, <1>4 DEF ToSet

\* The segment-count announcement of a wave names its segments, no other.
LEMMA AnnouncementFacts ==
  ASSUME NEW q \in Seq(Segments)
  PROVE  /\ Announcement(q) \in Seq(Messages)
         /\ \A s : Mentions(Announcement(q), s) <=> s \in ToSet(q)
  <1> DEFINE n == Len(q)
  <1>1. n \in Nat /\ DOMAIN q = 1..n /\ \A i \in 1..n : q[i] \in Segments
    OBVIOUS
  <1> HIDE DEF n
  <1>2. CASE query.horizon
    <2> DEFINE a == Announcement(q)
    <2>1. a = [k \in 1..(2 * n) |->
                 [kind |-> IF k % 2 = 1 THEN "count" ELSE "manifest",
                  segment |-> q[(k + 1) \div 2], bytes |-> 0]]
      BY <1>2 DEF Announcement, n
    <2>2. \A k \in 1..(2 * n) : (k + 1) \div 2 \in 1..n
      BY <1>1
    <2>3. \A i \in 1..n : 2 * i \in 1..(2 * n) /\ (2 * i + 1) \div 2 = i
      BY <1>1
    <2> HIDE DEF a
    <2>4. DOMAIN a = 1..(2 * n) /\ \A k \in 1..(2 * n) : a[k].segment = q[(k + 1) \div 2]
      BY <2>1
    <2>5. a \in [1..(2 * n) -> Messages]
      BY <1>1, <2>1, <2>2 DEF Messages
    <2>6. a \in Seq(Messages)
      BY <1>1, <2>5, SeqDef
    <2>7. ASSUME NEW s, Mentions(a, s)
          PROVE  s \in ToSet(q)
      BY <1>1, <2>2, <2>4, <2>7 DEF Mentions, ToSet
    <2>8. ASSUME NEW s, s \in ToSet(q)
          PROVE  Mentions(a, s)
      <3>1. PICK i \in 1..n : q[i] = s
        BY <1>1, <2>8 DEF ToSet
      <3>2. 2 * i \in DOMAIN a /\ a[2 * i].segment = s
        BY <3>1, <2>3, <2>4
      <3> QED
        BY <3>2 DEF Mentions
    <2> QED
      BY <2>6, <2>7, <2>8 DEF a
  <1>3. CASE ~query.horizon
    <2> DEFINE a == Announcement(q)
    <2>1. a = [k \in 1..n |-> [kind |-> "count", segment |-> q[k], bytes |-> 0]]
      BY <1>3 DEF Announcement, n
    <2> HIDE DEF a
    <2>2. DOMAIN a = 1..n /\ \A k \in 1..n : a[k].segment = q[k]
      BY <2>1
    <2>3. a \in [1..n -> Messages]
      BY <1>1, <2>1 DEF Messages
    <2>4. a \in Seq(Messages)
      BY <1>1, <2>3, SeqDef
    <2>5. \A s : Mentions(a, s) <=> s \in ToSet(q)
      BY <1>1, <2>2 DEF Mentions, ToSet
    <2> QED
      BY <2>4, <2>5 DEF a
  <1> QED
    BY <1>2, <1>3

\* A delivery is about the segments of the fetch it delivers.
LEMMA DeliveryFacts ==
  ASSUME query \in Scenarios, NEW f \in Futures, ~IsAdmission(f),
         NEW sorted \in InEmissionOrder(f)
  PROVE  /\ Delivery(f, sorted) \in Seq(Messages)
         /\ \A s : Mentions(Delivery(f, sorted), s) <=> s \in SegmentsOf(f)
  <1> DEFINE n == Cardinality(SegmentsOf(f))
             a == Delivery(f, sorted)
  <1>1. f[1] \in Partitions /\ SegmentsOf(f) \subseteq Own(f[1]) /\ n \in Nat
    BY FutureFacts, SegmentsOfFacts, FS_CardinalityType
  <1>2. sorted \in [1..n -> SegmentsOf(f)] /\ ToSet(sorted) = SegmentsOf(f)
    BY DEF InEmissionOrder
  <1>3. \A s \in SegmentsOf(f) : Chunks(f)[s] \in Nat
    BY FutureFacts, QueryFacts DEF SegmentsOf, Chunks, WellFormed
  <1>4. \A s \in SegmentsOf(f) : s \in Segments
    BY <1>1, OwnFacts
  <1>5. a = [i \in 1..n |-> [kind |-> "chunks", segment |-> sorted[i],
                              bytes |-> Chunks(f)[sorted[i]]]]
    BY <1>2 DEF Delivery
  <1> HIDE DEF a, n
  <1>6. DOMAIN a = 1..n /\ \A i \in 1..n : a[i].segment = sorted[i]
    BY <1>5
  <1>7. a \in [1..n -> Messages]
    BY <1>2, <1>3, <1>4, <1>5 DEF Messages
  <1>8. a \in Seq(Messages)
    BY <1>1, <1>7, SeqDef
  <1>9. \A s : Mentions(a, s) <=> s \in SegmentsOf(f)
    BY <1>2, <1>6 DEF Mentions, ToSet
  <1> QED
    BY <1>8, <1>9 DEF a
-----------------------------------------------------------------------------
(* The budget after a step of a call *)

LEMMA AfterFacts ==
  ASSUME NEW b, BudgetRecord(b), b.force \in BOOLEAN, NEW step, step.op \in Ops
  PROVE  /\ BudgetRecord(After(b, step)) /\ After(b, step).force \in BOOLEAN
         /\ step.op = "publish" => /\ After(b, step).all = b.all \ {step.segment}
                                  /\ After(b, step).bypass = b.bypass \ {step.segment}
         /\ step.op # "publish" => /\ After(b, step).all = b.all
                                  /\ After(b, step).bypass = b.bypass
  <1> USE DEF BudgetRecord
  <1>1. CASE step.op = "free"
    BY <1>1 DEF After
  <1>2. CASE step.op = "grow"
    BY <1>2 DEF After
  <1>3. CASE step.op \in {"clear", "calm"}
    BY <1>3 DEF After
  <1>4. CASE step.op = "cancel"
    BY <1>4 DEF After
  <1>5. CASE step.op = "publish"
    BY <1>5 DEF After
  <1>6. CASE step.op \in {"empty", "count", "arm"}
    BY <1>6 DEF After
  <1>7. CASE step.op = "wake"
    <2>1. After(b, step) = WakeNext(b)
      BY <1>7 DEF After
    <2>2. BudgetRecord(WakeNext(b)) /\ WakeNext(b).force = b.force
          /\ WakeNext(b).all = b.all /\ WakeNext(b).bypass = b.bypass
      BY DEF WakeNext
    <2> QED
      BY <2>1, <2>2, <1>7
  <1> QED
    BY <1>1, <1>2, <1>3, <1>4, <1>5, <1>6, <1>7 DEF Ops

\* The admission of a set of segments, field by field.
LEMMA ClaimFacts ==
  ASSUME NEW b, BudgetRecord(b), NEW f, NEW n, NEW past
  PROVE  /\ BudgetRecord(Claim(b, f, n, past)) /\ Claim(b, f, n, past).force = b.force
         /\ Claim(b, f, n, past).all = b.all \cup SegmentsOf(f)
         /\ Claim(b, f, n, past).bypass = b.bypass \cup past
  <1> DEFINE x == b.bypass \cup past
             y == b.all \cup SegmentsOf(f)
             c == b.current + n
  <1>1. Claim(b, f, n, past) = [b EXCEPT !.current = c, !.bypass = x, !.all = y]
    BY DEF Claim
  <1> HIDE DEF x, y, c
  <1>2. ASSUME NEW d, d = [b EXCEPT !.current = c, !.bypass = x, !.all = y]
        PROVE  BudgetRecord(d) /\ d.force = b.force /\ d.all = y /\ d.bypass = x
    BY <1>2 DEF BudgetRecord
  <1> QED
    BY <1>1, <1>2 DEF x, y

-----------------------------------------------------------------------------
(* The plan does not change *)

\* The plan of a call that enters the budget leaves the gate alone.
LEMMA PlanFrame ==
  ASSUME query' = query
  PROVE  /\ Futures' = Futures /\ Segments' = Segments /\ Messages' = Messages
         /\ \A p : Own(p)' = Own(p) /\ Waves(p)' = Waves(p)
         /\ \A f : SegmentsOf(f)' = SegmentsOf(f)
         /\ \A f, w : InWave(f, w)' = InWave(f, w)
         /\ \A s : PartitionOf(s)' = PartitionOf(s)
  <1>1. \A p, w : WaveSegments(p, w)' = WaveSegments(p, w)
    BY DEF WaveSegments
  <1>2. \A p : Own(p)' = Own(p) /\ Waves(p)' = Waves(p)
    BY DEF Own, Waves
  <1>3. Futures' = Futures
    BY <1>2 DEF Futures
  <1>4. \A f : SegmentsOf(f)' = SegmentsOf(f)
    BY <1>1 DEF SegmentsOf, Chunks
  <1>5. \A f, w : InWave(f, w)' = InWave(f, w)
    BY <1>1, <1>4 DEF InWave
  <1>6. Segments' = Segments /\ Messages' = Messages
    BY DEF Segments, Messages
  <1>7. \A s : PartitionOf(s)' = PartitionOf(s)
    BY DEF PartitionOf
  <1> QED
    BY <1>2, <1>3, <1>4, <1>5, <1>6, <1>7
-----------------------------------------------------------------------------
(* The type invariant *)

LEMMA FollowQuiet ==
  ASSUME NEW b, NEW step
  PROVE  Quiet(Follow(b, step))
  <1>1. Follow(b, step) \in {<<>>, Wake, <<[op |-> "count"]>>, <<[op |-> "clear"]>>,
                              <<[op |-> "arm"]>>}
    BY DEF Follow
  <1> QED
    BY <1>1, QuietCalls

\* What the next step of a call leaves to do.
LEMMA ContinueStep ==
  ASSUME PipelineTypeOK, NEW t \in Threads, Continue(t)
  PROVE  /\ todo[t] # <<>> /\ StepList(todo[t]) /\ Head(todo[t]).op \in Ops
         /\ budget' = After(budget, Head(todo[t]))
         /\ todo' = [u \in Threads |-> todo'[u]]
         /\ \A u \in Threads : StepList(todo'[u])
         /\ \A u \in Threads : \A s : Publishes(u, s)' => Publishes(u, s)
         /\ \A u \in Threads : \A s : Publishes(u, s) =>
              \/ Publishes(u, s)'
              \/ Head(todo[t]).op = "publish" /\ Head(todo[t]).segment = s
         /\ Head(todo[t]).op = "publish" => Publishes(t, Head(todo[t]).segment)
  <1> DEFINE step == Head(todo[t])
             rest == Follow(budget, step) \o Tail(todo[t])
  <1>1. todo[t] # <<>> /\ StepList(todo[t]) /\ todo' = [todo EXCEPT ![t] = rest]
    BY DEF Continue, PipelineTypeOK
  <1>2. /\ StepList(Tail(todo[t])) /\ step.op \in Ops
        /\ \A s : Vacates(Tail(todo[t]), s) => Vacates(todo[t], s)
        /\ \A s : Vacates(todo[t], s) =>
             Vacates(Tail(todo[t]), s) \/ (step.op = "publish" /\ step.segment = s)
        /\ step.op = "publish" => Vacates(todo[t], step.segment)
    BY <1>1, TailSteps
  <1>3. StepList(rest) /\ \A s : Vacates(rest, s) <=> Vacates(Tail(todo[t]), s)
    BY <1>2, FollowQuiet, QuietFacts, ConcatSteps
  <1> HIDE DEF rest
  <1>4. /\ todo' = [u \in Threads |-> todo'[u]]
        /\ \A u \in Threads : StepList(todo'[u])
        /\ \A s : Publishes(t, s)' <=> Vacates(rest, s)
        /\ \A u \in Threads \ {t} : \A s : Publishes(u, s)' <=> Publishes(u, s)
    BY <1>1, <1>3, CallStep
  <1>5. \A s : Publishes(t, s) <=> Vacates(todo[t], s)
    BY DEF Publishes
  <1>6. budget' = After(budget, step)
    BY DEF Continue
  <1> HIDE DEF step
  <1>7. ASSUME NEW u \in Threads, NEW s
        PROVE  /\ Publishes(u, s)' => Publishes(u, s)
               /\ Publishes(u, s) => \/ Publishes(u, s)'
                                     \/ step.op = "publish" /\ step.segment = s
    <2>1. CASE u = t
      BY <2>1, <1>2, <1>3, <1>4, <1>5
    <2>2. CASE u # t
      BY <2>2, <1>4
    <2> QED
      BY <2>1, <2>2
  <1> QED
    BY <1>1, <1>2, <1>4, <1>5, <1>6, <1>7 DEF step

-----------------------------------------------------------------------------
\* Every step keeps the types.

\* The types of the initial state.
LEMMA TypeInit ==
  ASSUME PipelineInit
  PROVE  PipelineTypeOK
  <1>1. BudgetRecord(budget) /\ budget.force \in BOOLEAN
    BY DEF PipelineInit, BudgetRecord
  <1>2. fut \in [Futures -> [at : FutureStates, reserved : Nat]]
    BY DEF PipelineInit, FutureStates
  <1>3. io \in [Partitions -> [at : IoStates, wave : Nat, out : Seq(Messages)]]
    BY DEF PipelineInit, IoStates
  <1>4. chan \in [Partitions -> Seq(Messages)]
    BY DEF PipelineInit
  <1>5. cpu \in [Partitions -> [at : CpuStates, order : Seq(Segments)]]
    BY DEF PipelineInit, CpuStates
  <1>6. stores \in [Segments -> Stores]
    BY DEF PipelineInit, Stores, StoreStates
  <1>7. todo = [t \in Threads |-> todo[t]] /\ \A t \in Threads : StepList(todo[t])
    BY EmptySteps DEF PipelineInit
  <1>8. query \in Scenarios
    BY DEF PipelineInit
  <1> QED
    BY <1>1, <1>2, <1>3, <1>4, <1>5, <1>6, <1>7, <1>8 DEF PipelineTypeOK

\* Every step of a future keeps the types.
LEMMA TypeFuture ==
  ASSUME PipelineTypeOK, NEW f \in Futures, FutureStep(f)
  PROVE  PipelineTypeOK'
  <1>0. /\ query \in Scenarios /\ f[1] \in Partitions /\ Io(f[1]) \in Threads
        /\ BudgetRecord(budget) /\ budget.force \in BOOLEAN
        /\ fut \in [Futures -> [at : FutureStates, reserved : Nat]]
        /\ io \in [Partitions -> [at : IoStates, wave : Nat, out : Seq(Messages)]]
    BY FutureFacts, ThreadFacts DEF PipelineTypeOK
  <1>q. query' = query
    BY DEF FutureStep, ReserveWithPriority, Admit, FastPathFails, Enqueue, Park, Woken,
           FetchLands, FetchFails
  <1>p. /\ query' \in Scenarios /\ Futures' = Futures /\ Segments' = Segments
        /\ Messages' = Messages
    BY <1>0, <1>q, PlanFrame
  <1>r. Reservations(f) \subseteq Nat
    <2>1. CASE IsAdmission(f)
      BY <2>1 DEF Reservations
    <2>2. CASE ~IsAdmission(f)
      <3>1. f[1] \in Partitions /\ f[3] \in DOMAIN query.fetches[f[1]]
        BY <2>2, FutureFacts
      <3>2. query.fetches[f[1]][f[3]].sizes \subseteq Nat
        BY <1>0, <3>1, QueryFacts DEF WellFormed
      <3> QED
        BY <2>2, <3>2 DEF Reservations
    <2> QED
      BY <2>1, <2>2
  <1>1. CASE ReserveWithPriority(f)
    <2>1. /\ UNCHANGED <<io, chan, cpu, stores, todo>>
          /\ \E n \in Nat, at \in {"hold", "try"} :
                fut' = [fut EXCEPT ![f] = [at |-> at, reserved |-> n]]
          /\ budget' = budget \/ \E n \in Nat : budget' = Claim(budget, f, n, Entering(budget, f))
      BY <1>1, <1>r DEF ReserveWithPriority
    <2>2. BudgetRecord(budget') /\ budget'.force \in BOOLEAN
      BY <2>1, <1>0, ClaimFacts
    <2>3. fut' \in [Futures -> [at : FutureStates, reserved : Nat]]
      BY <2>1, <1>0 DEF FutureStates
    <2> QED
      BY <2>1, <2>2, <2>3, <1>p DEF PipelineTypeOK, BudgetRecord
  <1>2. CASE Admit(f)
    <2> DEFINE calls == (IF fut[f].at = "recheck"
                           THEN <<[op |-> "cancel", waiter |-> f]>> ELSE <<>>)
                        \o (IF budget'.current < query.budget THEN Wake ELSE <<>>)
    <2>1. /\ UNCHANGED <<io, chan, cpu, stores>>
          /\ fut' = [fut EXCEPT ![f].at = "hold"]
          /\ budget' = Claim(budget, f, fut[f].reserved,
                             IF budget.force THEN Entering(budget, f) ELSE {})
          /\ todo' = [todo EXCEPT ![Io(f[1])] = calls]
      BY <1>2 DEF Admit
    <2>2. Quiet(calls)
      BY QuietCalls, QuietConcat
    <2> HIDE DEF calls
    <2>3. BudgetRecord(budget') /\ budget'.force \in BOOLEAN
      BY <2>1, <1>0, ClaimFacts
    <2>4. fut' \in [Futures -> [at : FutureStates, reserved : Nat]]
      BY <2>1, <1>0 DEF FutureStates
    <2>5. todo' = [t \in Threads |-> todo'[t]] /\ \A t \in Threads : StepList(todo'[t])
      BY <2>1, <2>2, <1>0, QuietFacts, CallStep
    <2> QED
      BY <2>1, <2>3, <2>4, <2>5, <1>p DEF PipelineTypeOK, BudgetRecord
  <1>3. CASE FastPathFails(f) \/ Enqueue(f) \/ Park(f) \/ Woken(f)
    <2>1. /\ UNCHANGED <<io, chan, cpu, stores, todo>>
          /\ \E at \in FutureStates : fut' = [fut EXCEPT ![f].at = at]
      BY <1>3 DEF FastPathFails, Enqueue, Park, Woken, FutureStates
    <2>2. BudgetRecord(budget') /\ budget'.force \in BOOLEAN
      BY <1>3, <1>0 DEF FastPathFails, Enqueue, Park, Woken, BudgetRecord
    <2>3. fut' \in [Futures -> [at : FutureStates, reserved : Nat]]
      BY <2>1, <1>0
    <2> QED
      BY <2>1, <2>2, <2>3, <1>p DEF PipelineTypeOK, BudgetRecord
  <1>4. CASE FetchLands(f)
    <2>1. /\ UNCHANGED <<budget, chan, cpu, stores>> /\ ~IsAdmission(f)
          /\ fut' = [fut EXCEPT ![f].at = "done"]
          /\ todo' = [todo EXCEPT ![Io(f[1])] = AdjustReservation(fut[f].reserved, Actual(f))]
      BY <1>4 DEF FetchLands
    <2>2. PICK sorted \in InEmissionOrder(f) :
            io' = [io EXCEPT ![f[1]].at = "deliver", ![f[1]].out = Delivery(f, sorted)]
      BY <1>4 DEF FetchLands
    <2>3. Delivery(f, sorted) \in Seq(Messages)
      BY <2>1, <1>0, DeliveryFacts
    <2>4. io' \in [Partitions -> [at : IoStates, wave : Nat, out : Seq(Messages)]]
      BY <2>2, <2>3, <1>0 DEF IoStates
    <2>5. fut' \in [Futures -> [at : FutureStates, reserved : Nat]]
      BY <2>1, <1>0 DEF FutureStates
    <2>6. todo' = [t \in Threads |-> todo'[t]] /\ \A t \in Threads : StepList(todo'[t])
      BY <2>1, <1>0, QuietCalls, QuietFacts, CallStep
    <2> QED
      BY <2>1, <2>4, <2>5, <2>6, <1>p DEF PipelineTypeOK, BudgetRecord
  <1>5. CASE FetchFails(f)
    <2>1. /\ UNCHANGED <<budget, chan, cpu, stores>>
          /\ fut' = [fut EXCEPT ![f].at = "done"]
          /\ todo' = [todo EXCEPT ![Io(f[1])] = DropGuard(f)]
          /\ io' = [io EXCEPT ![f[1]].at = "leave"]
      BY <1>5 DEF FetchFails
    <2>2. io' \in [Partitions -> [at : IoStates, wave : Nat, out : Seq(Messages)]]
      BY <2>1, <1>0 DEF IoStates
    <2>3. fut' \in [Futures -> [at : FutureStates, reserved : Nat]]
      BY <2>1, <1>0 DEF FutureStates
    <2>4. todo' = [t \in Threads |-> todo'[t]] /\ \A t \in Threads : StepList(todo'[t])
      BY <2>1, <1>0, DropGuardSteps, CallStep
    <2> QED
      BY <2>1, <2>2, <2>3, <2>4, <1>p DEF PipelineTypeOK, BudgetRecord
  <1> QED
    BY <1>1, <1>2, <1>3, <1>4, <1>5 DEF FutureStep
\* Every step of an IO loop keeps the types.
LEMMA TypeLoop ==
  ASSUME PipelineTypeOK, WaveByWave, NEW p \in Partitions,
         Announce(p) \/ Send(p) \/ Sent(p) \/ SendFails(p) \/ Leave(p) \/ NextWave(p)
  PROVE  PipelineTypeOK'
  <1>0. /\ query \in Scenarios /\ Io(p) \in Threads
        /\ fut \in [Futures -> [at : FutureStates, reserved : Nat]]
        /\ io \in [Partitions -> [at : IoStates, wave : Nat, out : Seq(Messages)]]
        /\ chan \in [Partitions -> Seq(Messages)]
    BY ThreadFacts DEF PipelineTypeOK
  <1>q. UNCHANGED <<query, budget, cpu, stores>>
    BY DEF Announce, Send, Sent, SendFails, Leave, NextWave
  <1>p. /\ query' \in Scenarios /\ Futures' = Futures /\ Segments' = Segments
        /\ Messages' = Messages
    BY <1>0, <1>q, PlanFrame
  <1>w. io[p].at # "ended" => io[p].wave \in 1..Waves(p)
    BY DEF WaveByWave
  <1>1. CASE Announce(p)
    <2>1. /\ UNCHANGED <<fut, chan, todo>> /\ io[p].at = "admit"
          /\ io' = [io EXCEPT ![p].at = "announce",
                              ![p].out = Announcement(WaveSegments(p, io[p].wave))]
      BY <1>1 DEF Announce
    <2>2. io[p].wave \in Nat \ {0}
      BY <2>1, <1>w
    <2>3. WaveSegments(p, io[p].wave) \in Seq(Segments)
      <3>1. WaveSegments(p, io[p].wave) \in Seq(Own(p)) /\ Own(p) \subseteq Segments
        BY <2>2, <1>0, WaveRange, OwnFacts
      <3> QED
        BY <3>1, SeqMonotonic
    <2>4. io' \in [Partitions -> [at : IoStates, wave : Nat, out : Seq(Messages)]]
      BY <2>1, <2>3, <1>0, AnnouncementFacts DEF IoStates
    <2> QED
      BY <2>1, <2>4, <1>p, <1>q DEF PipelineTypeOK, BudgetRecord
  <1>2. CASE Send(p)
    <2>1. /\ UNCHANGED <<fut, todo>> /\ io[p].out # <<>>
          /\ chan' = [chan EXCEPT ![p] = Append(@, Head(io[p].out))]
          /\ io' = [io EXCEPT ![p].out = Tail(@)]
      BY <1>2 DEF Send
    <2>2. Head(io[p].out) \in Messages /\ Tail(io[p].out) \in Seq(Messages)
      BY <2>1, <1>0, MentionsTail
    <2>3. io' \in [Partitions -> [at : IoStates, wave : Nat, out : Seq(Messages)]]
      BY <2>1, <2>2, <1>0
    <2>4. chan' \in [Partitions -> Seq(Messages)]
      BY <2>1, <2>2, <1>0
    <2> QED
      BY <2>1, <2>3, <2>4, <1>p, <1>q DEF PipelineTypeOK, BudgetRecord
  <1>3. CASE Sent(p)
    <2>1. /\ UNCHANGED <<chan, todo>>
          /\ fut' = fut \/ fut' = [fut EXCEPT ![Admission(p, io[p].wave)].at = "done"]
          /\ io' = [io EXCEPT ![p].at = "stream"]
      BY <1>3 DEF Sent
    <2>2. io' \in [Partitions -> [at : IoStates, wave : Nat, out : Seq(Messages)]]
      BY <2>1, <1>0 DEF IoStates
    <2>3. fut' \in [Futures -> [at : FutureStates, reserved : Nat]]
      BY <2>1, <1>0 DEF FutureStates
    <2> QED
      BY <2>1, <2>2, <2>3, <1>p, <1>q DEF PipelineTypeOK, BudgetRecord
  <1>4. CASE SendFails(p)
    <2>1. CASE io[p].at = "announce"
      <3> DEFINE f == Admission(p, io[p].wave)
      <3>1. /\ todo' = [todo EXCEPT ![Io(p)] = DropGuard(f)]
            /\ fut' = [fut EXCEPT ![f].at = "done"]
            /\ io' = [io EXCEPT ![p].at = "ended"]
            /\ chan' = chan
        BY <1>4, <2>1 DEF SendFails
      <3>2. f \in Futures
        BY <2>1, <1>w, AdmissionFacts
      <3> HIDE DEF f
      <3>3. io' \in [Partitions -> [at : IoStates, wave : Nat, out : Seq(Messages)]]
        BY <3>1, <1>0 DEF IoStates
      <3>4. fut' \in [Futures -> [at : FutureStates, reserved : Nat]]
        BY <3>1, <1>0 DEF FutureStates
      <3>5. todo' = [t \in Threads |-> todo'[t]] /\ \A t \in Threads : StepList(todo'[t])
        BY <3>1, <3>2, <1>0, DropGuardSteps, CallStep
      <3> QED
        BY <3>1, <3>3, <3>4, <3>5, <1>p, <1>q DEF PipelineTypeOK, BudgetRecord
    <2>2. CASE io[p].at # "announce"
      <3>1. UNCHANGED <<fut, todo, chan>> /\ io' = [io EXCEPT ![p].at = "leave"]
        BY <1>4, <2>2 DEF SendFails
      <3>2. io' \in [Partitions -> [at : IoStates, wave : Nat, out : Seq(Messages)]]
        BY <3>1, <1>0 DEF IoStates
      <3> QED
        BY <3>1, <3>2, <1>p, <1>q DEF PipelineTypeOK, BudgetRecord
    <2> QED
      BY <2>1, <2>2
  <1>5. CASE Leave(p)
    <2>1. ASSUME NEW f \in Futures, chan' = chan, io' = io,
                 todo' = [todo EXCEPT ![Io(p)] = DropGuard(f)],
                 fut' = [fut EXCEPT ![f].at = "done"]
          PROVE  PipelineTypeOK'
      <3>1. fut' \in [Futures -> [at : FutureStates, reserved : Nat]]
        BY <2>1, <1>0 DEF FutureStates
      <3>2. todo' = [t \in Threads |-> todo'[t]] /\ \A t \in Threads : StepList(todo'[t])
        BY <2>1, <1>0, DropGuardSteps, CallStep
      <3> QED
        BY <2>1, <3>1, <3>2, <1>p, <1>q DEF PipelineTypeOK, BudgetRecord
    <2>2. ASSUME UNCHANGED <<chan, todo>>, io' = [io EXCEPT ![p].at = "ended"],
                 fut' = [f \in Futures |-> IF f[1] = p THEN [fut[f] EXCEPT !.at = "done"]
                                                     ELSE fut[f]]
          PROVE  PipelineTypeOK'
      <3>1. io' \in [Partitions -> [at : IoStates, wave : Nat, out : Seq(Messages)]]
        BY <2>2, <1>0 DEF IoStates
      <3>2. fut' \in [Futures -> [at : FutureStates, reserved : Nat]]
        BY <2>2, <1>0 DEF FutureStates
      <3> QED
        BY <2>2, <3>1, <3>2, <1>p, <1>q DEF PipelineTypeOK, BudgetRecord
    <2> QED
      BY <1>5, <2>1, <2>2 DEF Leave
  <1>6. CASE NextWave(p)
    <2>1. /\ UNCHANGED <<fut, chan, todo>>
          /\ \/ io' = [io EXCEPT ![p].at = "admit", ![p].wave = @ + 1]
             \/ io' = [io EXCEPT ![p].at = "ended"]
      BY <1>6 DEF NextWave
    <2>2. io[p].wave + 1 \in Nat
      BY <1>0
    <2>3. io' \in [Partitions -> [at : IoStates, wave : Nat, out : Seq(Messages)]]
      <3>1. CASE io' = [io EXCEPT ![p].at = "admit", ![p].wave = @ + 1]
        BY <3>1, <2>2, <1>0 DEF IoStates
      <3>2. CASE io' = [io EXCEPT ![p].at = "ended"]
        BY <3>2, <1>0 DEF IoStates
      <3> QED
        BY <2>1, <3>1, <3>2
    <2> QED
      BY <2>1, <2>3, <1>p, <1>q DEF PipelineTypeOK, BudgetRecord
  <1> QED
    BY <1>1, <1>2, <1>3, <1>4, <1>5, <1>6

\* What the worker makes of a message.
LEMMA ReceiveFacts ==
  ASSUME PipelineTypeOK, NEW p \in Partitions, Receive(p)
  PROVE  \E m \in Messages, st \in Stores :
           /\ chan[p] # <<>> /\ m = Head(chan[p]) /\ m.segment \in Segments
           /\ chan' = [chan EXCEPT ![p] = Tail(@)]
           /\ stores[m.segment].at \in {"none", "open"}
           /\ stores' = [stores EXCEPT ![m.segment] = st]
           /\ \/ st.at = "open" /\ st.slotReleased = stores[m.segment].slotReleased
              \/ st.at = "ready" /\ st.slotReleased
           /\ cpu[p].at = "recv"
           /\ \E at \in {"recv", "emit"} :
                cpu' = [cpu EXCEPT ![p].at = at, ![p].order =
                          IF stores[m.segment].at = "none" THEN Append(@, m.segment) ELSE @]
           /\ \/ /\ todo' = [todo EXCEPT ![Cpu(p)] = <<>>]
                 /\ st.at = "ready" => stores[m.segment].slotReleased
              \/ /\ todo' = [todo EXCEPT ![Cpu(p)] = Publish(m.segment)]
                 /\ st.at = "ready"
           /\ UNCHANGED <<query, budget, fut, io>>
  <1> DEFINE m == Head(chan[p])
             s == m.segment
             old == stores[s]
             announced == old.announced \/ m.kind = "count"
             received == old.received + (IF m.kind = "chunks" THEN 1 ELSE 0)
             st == [old EXCEPT !.at = "open", !.announced = announced,
                               !.received = received]
             done == Complete(s, st)
  <1>1. chan[p] # <<>> /\ chan[p] \in Seq(Messages) /\ cpu[p].at = "recv"
    BY DEF Receive, PipelineTypeOK
  <1>2. m \in Messages
    BY <1>1, MentionsTail
  <1>3. s \in Segments /\ m.bytes \in Nat
    BY <1>2 DEF Messages
  <1>4. old \in Stores
    BY <1>3 DEF PipelineTypeOK
  <1>5. PICK bytes \in BytesAfter(s, m.bytes) :
          stores' = [stores EXCEPT ![s] =
              IF done THEN [st EXCEPT !.bytes = bytes, !.at = "ready", !.slotReleased = TRUE]
                      ELSE [st EXCEPT !.bytes = bytes]]
    BY Zenon DEF Receive
  <1> DEFINE new ==
         IF done THEN [st EXCEPT !.bytes = bytes, !.at = "ready", !.slotReleased = TRUE]
                 ELSE [st EXCEPT !.bytes = bytes]
  <1>b. /\ stores[s].at \in {"none", "open"}
        /\ stores' = [stores EXCEPT ![s] = new]
        /\ cpu' = [cpu EXCEPT
             ![p].order = IF stores[s].at = "none" THEN Append(@, s) ELSE @,
             ![p].at = IF m.kind = "count" /\ ~done THEN "recv" ELSE "emit"]
        /\ todo' = [todo EXCEPT ![Cpu(p)] =
                      IF done /\ ~st.slotReleased THEN Publish(s) ELSE <<>>]
        /\ chan' = [chan EXCEPT ![p] = Tail(@)]
        /\ UNCHANGED <<query, budget, fut, io>>
    BY <1>5 DEF Receive
  <1>a. announced \in BOOLEAN /\ received \in Nat
    BY <1>4 DEF Stores
  <1>c. bytes \in Nat
    BY <1>3, <1>4 DEF Stores, BytesAfter
  <1> HIDE DEF m, done, announced, received
  <1>6. st \in Stores /\ st.at = "open" /\ st.slotReleased = old.slotReleased
    BY <1>a, <1>4 DEF Stores, StoreStates
  <1> HIDE DEF st
  <1>7. /\ new \in Stores
        /\ done => new.at = "ready" /\ new.slotReleased
        /\ ~done => new.at = "open" /\ new.slotReleased = old.slotReleased
    BY <1>6, <1>c DEF Stores, StoreStates
  <1> HIDE DEF new, s
  <1>8. \/ todo' = [todo EXCEPT ![Cpu(p)] = <<>>] /\ (new.at = "ready" => old.slotReleased)
        \/ todo' = [todo EXCEPT ![Cpu(p)] = Publish(s)] /\ new.at = "ready"
    BY <1>b, <1>6, <1>7
  <1>9. \E at \in {"recv", "emit"} :
          cpu' = [cpu EXCEPT ![p].at = at, ![p].order =
                    IF stores[s].at = "none" THEN Append(@, s) ELSE @]
    BY <1>b
  <1>10. m = Head(chan[p])
    BY DEF m
  <1>11. new \in Stores
    BY <1>7
  <1> WITNESS m \in Messages, new \in Stores
  <1> QED
    BY <1>1, <1>3, <1>b, <1>6, <1>7, <1>8, <1>9, <1>10 DEF s

\* What an incremental flush does, whether or not there is a horizon.
LEMMA FlushIncrementalFacts ==
  ASSUME NEW p \in Partitions, FlushIncremental(p)
  PROVE  LET s == Head(cpu[p].order)
         IN  \E emitted \in BOOLEAN, freed \in 0..stores[s].bytes \cup {0},
                hangUp \in MayHangUp(p) :
               /\ stores' = [stores EXCEPT ![s].bytes = @ - freed]
               /\ todo' = [todo EXCEPT ![Cpu(p)] =
                    (IF emitted THEN Reset ELSE EmptyEmit)
                      \o (IF freed > 0 THEN Release(freed) ELSE <<>>)]
               /\ cpu' = [cpu EXCEPT ![p].at = IF hangUp THEN "drop" ELSE "recv"]
  <1> DEFINE s == Head(cpu[p].order)
             Flush(emitted, freed, hangUp) ==
               /\ stores' = [stores EXCEPT ![s].bytes = @ - freed]
               /\ todo' = [todo EXCEPT ![Cpu(p)] =
                    (IF emitted THEN Reset ELSE EmptyEmit)
                      \o (IF freed > 0 THEN Release(freed) ELSE <<>>)]
               /\ cpu' = [cpu EXCEPT ![p].at = IF hangUp THEN "drop" ELSE "recv"]
  <1>1. PICK emitted \in MayEmit(s), freed \in MayFree(s), hangUp \in MayHangUp(p) :
          Flush(emitted, freed, hangUp)
    BY DEF FlushIncremental
  <1>2. MayEmit(s) \subseteq BOOLEAN /\ MayFree(s) \subseteq 0..stores[s].bytes \cup {0}
    BY DEF MayEmit, MayFree
  <1>3. emitted \in BOOLEAN /\ freed \in 0..stores[s].bytes \cup {0}
    BY <1>1, <1>2
  <1> QED
    BY <1>1, <1>3, Zenon

\* Every step of a worker keeps the types.
LEMMA TypeWorker ==
  ASSUME PipelineTypeOK, NEW p \in Partitions, CpuStep(p)
  PROVE  PipelineTypeOK'
  <1>0. /\ query \in Scenarios /\ Cpu(p) \in Threads
        /\ chan \in [Partitions -> Seq(Messages)]
        /\ cpu \in [Partitions -> [at : CpuStates, order : Seq(Segments)]]
        /\ stores \in [Segments -> Stores]
    <2>1. Cpu(p) \in Threads
      BY ThreadFacts
    <2> QED
      BY <2>1 DEF PipelineTypeOK
  <1>q. UNCHANGED <<query, budget, fut, io>>
    <2>1. CASE Receive(p)
      BY <2>1 DEF Receive
    <2>2. CASE NothingToEmit(p) \/ SkipIncremental(p) \/ WorkerReturns(p)
      BY <2>2 DEF NothingToEmit, SkipIncremental, WorkerReturns
    <2>3. CASE FlushHead(p) \/ DropNext(p)
      BY <2>3 DEF FlushHead, DropNext
    <2>4. CASE FlushIncremental(p)
      BY <2>4 DEF FlushIncremental
    <2> QED
      BY <2>1, <2>2, <2>3, <2>4 DEF CpuStep
  <1>p. /\ query' \in Scenarios /\ Futures' = Futures /\ Segments' = Segments
        /\ Messages' = Messages
    BY <1>0, <1>q, PlanFrame
  <1>1. CASE Receive(p)
    <2>1. PICK m \in Messages, st \in Stores :
            /\ chan[p] # <<>> /\ m.segment \in Segments
            /\ chan' = [chan EXCEPT ![p] = Tail(@)]
            /\ stores' = [stores EXCEPT ![m.segment] = st]
            /\ \E at \in {"recv", "emit"} :
                cpu' = [cpu EXCEPT ![p].at = at, ![p].order =
                          IF stores[m.segment].at = "none" THEN Append(@, m.segment) ELSE @]
            /\ \/ todo' = [todo EXCEPT ![Cpu(p)] = <<>>]
               \/ todo' = [todo EXCEPT ![Cpu(p)] = Publish(m.segment)]
      BY <1>1, ReceiveFacts
    <2>2. chan' \in [Partitions -> Seq(Messages)]
      BY <2>1, <1>0, MentionsTail
    <2>3. stores' \in [Segments -> Stores]
      BY <2>1, <1>0
    <2>4. cpu' \in [Partitions -> [at : CpuStates, order : Seq(Segments)]]
      <3>1. cpu[p].order \in Seq(Segments) /\ Append(cpu[p].order, m.segment) \in Seq(Segments)
        BY <2>1, <1>0, OrderAppend
      <3>2. PICK at \in {"recv", "emit"}, q \in Seq(Segments) :
              cpu' = [cpu EXCEPT ![p].at = at, ![p].order = q]
        <4>1. CASE stores[m.segment].at = "none"
          BY <4>1, <2>1, <3>1
        <4>2. CASE stores[m.segment].at # "none"
          BY <4>2, <2>1, <3>1
        <4> QED
          BY <4>1, <4>2
      <3> QED
        BY <3>2, <1>0 DEF CpuStates
    <2>5. todo' = [t \in Threads |-> todo'[t]] /\ \A t \in Threads : StepList(todo'[t])
      BY <2>1, <1>0, EmptySteps, PublishSteps, CallStep
    <2> QED
      BY <2>2, <2>3, <2>4, <2>5, <1>p, <1>q DEF PipelineTypeOK, BudgetRecord
  <1>2. CASE NothingToEmit(p) \/ SkipIncremental(p) \/ WorkerReturns(p)
    <2>1. /\ UNCHANGED <<chan, stores, todo>>
          /\ \E at \in CpuStates : cpu' = [cpu EXCEPT ![p].at = at]
      BY <1>2 DEF NothingToEmit, SkipIncremental, WorkerReturns, CpuStates
    <2>2. cpu' \in [Partitions -> [at : CpuStates, order : Seq(Segments)]]
      BY <2>1, <1>0
    <2> QED
      BY <2>1, <2>2, <1>p, <1>q DEF PipelineTypeOK, BudgetRecord
  <1>3. CASE FlushHead(p) \/ DropNext(p)
    <2> DEFINE s == Head(cpu[p].order)
    <2>1. /\ chan' = chan /\ cpu[p].order # <<>>
          /\ stores' = [stores EXCEPT ![s].at = "done", ![s].bytes = 0]
          /\ \E at \in CpuStates : cpu' = [cpu EXCEPT ![p].at = at, ![p].order = Tail(@)]
          /\ \/ todo' = [todo EXCEPT ![Cpu(p)] = Release(stores[s].bytes)]
             \/ todo' = [todo EXCEPT ![Cpu(p)] = DropStore(s)]
      <3>1. CASE FlushHead(p)
        <4>1. /\ chan' = chan /\ cpu[p].order # <<>>
              /\ stores' = [stores EXCEPT ![s].at = "done", ![s].bytes = 0]
              /\ todo' = [todo EXCEPT ![Cpu(p)] = Release(stores[s].bytes)]
          BY <3>1 DEF FlushHead
        <4>2. PICK hangUp \in MayHangUp(p) :
                cpu' = [cpu EXCEPT ![p].order = Tail(@),
                                   ![p].at = IF hangUp THEN "drop" ELSE "emit"]
          BY <3>1 DEF FlushHead
        <4> DEFINE at == IF hangUp THEN "drop" ELSE "emit"
        <4>3. at \in CpuStates
          BY DEF CpuStates
        <4>4. cpu' = [cpu EXCEPT ![p].at = at, ![p].order = Tail(@)]
          BY <4>2, <1>0
        <4> HIDE DEF at
        <4> QED
          BY <4>1, <4>3, <4>4
      <3>2. CASE DropNext(p)
        <4>1. /\ chan' = chan /\ cpu[p].order # <<>>
              /\ stores' = [stores EXCEPT ![s].at = "done", ![s].bytes = 0]
              /\ todo' = [todo EXCEPT ![Cpu(p)] = DropStore(s)]
              /\ cpu' = [cpu EXCEPT ![p].at = "drop", ![p].order = Tail(@)]
          BY <3>2, <1>0 DEF DropNext
        <4> QED
          BY <4>1 DEF CpuStates
      <3> QED
        BY <1>3, <3>1, <3>2
    <2>2. s \in Segments /\ Tail(cpu[p].order) \in Seq(Segments)
      BY <2>1, <1>0, OrderTail
    <2> HIDE DEF s
    <2>3. cpu' \in [Partitions -> [at : CpuStates, order : Seq(Segments)]]
      BY <2>1, <2>2, <1>0
    <2>4. stores' \in [Segments -> Stores]
      <3>1. stores[s] \in Stores
        BY <2>2, <1>0
      <3>2. [stores[s] EXCEPT !.at = "done", !.bytes = 0] \in Stores
        BY <3>1 DEF Stores, StoreStates
      <3>3. stores' = [stores EXCEPT ![s] = [stores[s] EXCEPT !.at = "done", !.bytes = 0]]
        BY <2>1, <2>2, <1>0
      <3> QED
        BY <3>2, <3>3, <1>0
    <2>5. todo' = [t \in Threads |-> todo'[t]] /\ \A t \in Threads : StepList(todo'[t])
      <3>1. CASE todo' = [todo EXCEPT ![Cpu(p)] = Release(stores[s].bytes)]
        BY <3>1, <1>0, QuietCalls, QuietFacts, CallStep
      <3>2. CASE todo' = [todo EXCEPT ![Cpu(p)] = DropStore(s)]
        BY <3>2, <1>0, DropStoreSteps, CallStep
      <3> QED
        BY <2>1, <3>1, <3>2
    <2> QED
      BY <2>1, <2>3, <2>4, <2>5, <1>p, <1>q DEF PipelineTypeOK, BudgetRecord
  <1>4. CASE FlushIncremental(p)
    <2> DEFINE s == Head(cpu[p].order)
    <2>0. chan' = chan /\ cpu[p].order # <<>>
      BY <1>4 DEF FlushIncremental
    <2>1. PICK emitted \in BOOLEAN, freed \in 0..stores[s].bytes \cup {0}, hangUp \in MayHangUp(p) :
            /\ stores' = [stores EXCEPT ![s].bytes = @ - freed]
            /\ todo' = [todo EXCEPT ![Cpu(p)] =
                 (IF emitted THEN Reset ELSE EmptyEmit)
                   \o (IF freed > 0 THEN Release(freed) ELSE <<>>)]
            /\ cpu' = [cpu EXCEPT ![p].at = IF hangUp THEN "drop" ELSE "recv"]
      BY <1>4, FlushIncrementalFacts
    <2>2. s \in Segments
      BY <2>0, <1>0, OrderTail
    <2> HIDE DEF s
    <2>3. stores[s].bytes - freed \in Nat
      BY <2>2, <1>0 DEF Stores
    <2>4. cpu' \in [Partitions -> [at : CpuStates, order : Seq(Segments)]]
      BY <2>1, <1>0 DEF CpuStates
    <2>5. stores' \in [Segments -> Stores]
      BY <2>1, <2>2, <2>3, <1>0 DEF Stores
    <2>6. todo' = [t \in Threads |-> todo'[t]] /\ \A t \in Threads : StepList(todo'[t])
      <3> DEFINE call == (IF emitted THEN Reset ELSE EmptyEmit)
                           \o (IF freed > 0 THEN Release(freed) ELSE <<>>)
      <3>1. Quiet(call)
        BY QuietCalls, QuietConcat
      <3>2. todo' = [todo EXCEPT ![Cpu(p)] = call]
        BY <2>1
      <3> HIDE DEF call
      <3> QED
        BY <3>1, <3>2, <1>0, QuietFacts, CallStep
    <2> QED
      BY <2>0, <2>4, <2>5, <2>6, <1>p, <1>q DEF PipelineTypeOK, BudgetRecord
  <1> QED
    BY <1>1, <1>2, <1>3, <1>4 DEF CpuStep

\* The next step of a call keeps the types.
LEMMA TypeContinue ==
  ASSUME PipelineTypeOK, NEW t \in Threads, Continue(t)
  PROVE  PipelineTypeOK'
  <1>1. /\ query' \in Scenarios /\ Futures' = Futures /\ Segments' = Segments
        /\ Messages' = Messages /\ UNCHANGED <<fut, io, chan, cpu, stores>>
    BY PlanFrame DEF PipelineTypeOK, Continue
  <1>2. /\ budget' = After(budget, Head(todo[t])) /\ Head(todo[t]).op \in Ops
        /\ todo' = [u \in Threads |-> todo'[u]] /\ \A u \in Threads : StepList(todo'[u])
    BY ContinueStep
  <1>3. BudgetRecord(budget') /\ budget'.force \in BOOLEAN
    BY <1>2, AfterFacts DEF PipelineTypeOK
  <1> QED
    BY <1>1, <1>2, <1>3 DEF PipelineTypeOK, BudgetRecord
-----------------------------------------------------------------------------
(* The inductive invariant: the futures *)

-----------------------------------------------------------------------------
\* Every step keeps the invariant, action by action.

LEMMA InvFacts ==
  ASSUME PipelineInv
  PROVE  /\ PipelineTypeOK /\ KeptApart /\ WaveByWave /\ OpenIsKept /\ GateInv /\ SlotInv
         /\ VouchedInv /\ query \in Scenarios
  BY DEF PipelineInv, PipelineTypeOK

\* A future that moves between trying and waiting.
LEMMA WaitingInv ==
  ASSUME PipelineInv, PipelineTypeOK', NEW f \in Futures,
         FastPathFails(f) \/ Enqueue(f) \/ Park(f) \/ Woken(f)
  PROVE  PipelineInv'
  <1>1. /\ UNCHANGED <<query, io, chan, cpu, stores, todo>>
        /\ fut[f].at \in {"try", "enqueue", "recheck", "parked"}
        /\ \E at \in {"try", "enqueue", "recheck", "parked"} : fut' = [fut EXCEPT ![f].at = at]
    BY DEF FastPathFails, Enqueue, Park, Woken
  <1>2. budget'.all = budget.all /\ budget'.bypass = budget.bypass
    <2>1. BudgetRecord(budget)
      BY InvFacts DEF PipelineTypeOK
    <2>2. ASSUME NEW x, budget' = [budget EXCEPT !.queue = x]
          PROVE  budget'.all = budget.all /\ budget'.bypass = budget.bypass
      BY <2>1, <2>2 DEF BudgetRecord
    <2>3. ASSUME NEW x, budget' = [budget EXCEPT !.permits = x]
          PROVE  budget'.all = budget.all /\ budget'.bypass = budget.bypass
      BY <2>1, <2>3 DEF BudgetRecord
    <2> QED
      BY <2>2, <2>3 DEF FastPathFails, Enqueue, Park, Woken
  <1>3. /\ Futures' = Futures /\ Segments' = Segments
        /\ \A p : Own(p)' = Own(p) /\ Waves(p)' = Waves(p)
        /\ \A g : SegmentsOf(g)' = SegmentsOf(g)
        /\ \A g, w : InWave(g, w)' = InWave(g, w)
    BY <1>1, PlanFrame
  <1>4. \A g \in Futures : /\ fut'[g].at = "hold" <=> fut[g].at = "hold"
                           /\ Running(g)' <=> Running(g)
    BY <1>1, InvFacts DEF PipelineTypeOK, Running
  <1>5. KeptApart'
    BY <1>1, <1>3, InvFacts DEF KeptApart, InHand, Publishes
  <1>6. WaveByWave'
    BY <1>1, <1>3, <1>4, InvFacts DEF WaveByWave
  <1>7. OpenIsKept'
    BY <1>1, <1>3, InvFacts DEF OpenIsKept, ThreadFree
  <1>8. GateInv'
    BY <1>1, <1>2, <1>3, InvFacts DEF GateInv
  <1>9. SlotInv'
    BY <1>1, <1>2, <1>3, <1>4, InvFacts DEF SlotInv, Publishes, Over, Under, Failed
  <1>10. VouchedInv'
    BY <1>1, <1>2, <1>3, <1>4, InvFacts DEF VouchedInv, Vouched, Publishes
  <1> QED
    BY <1>5, <1>6, <1>7, <1>8, <1>9, <1>10 DEF PipelineInv
\* What the gate counts when segments enter it, past it or because they fit.
LEMMA GateCount ==
  ASSUME NEW A, NEW B, NEW C, NEW P, NEW limit \in Nat,
         IsFiniteSet(A), IsFiniteSet(C), B \subseteq A, Cardinality(A \ B) <= limit,
         P \subseteq C \ A,
         P = C \ A \/ Cardinality(A) - Cardinality(B) + Cardinality(C \ A) <= limit
  PROVE  /\ IsFiniteSet(A \cup C) /\ B \cup P \subseteq A \cup C
         /\ Cardinality((A \cup C) \ (B \cup P)) <= limit
  <1>1. IsFiniteSet(A \cup C) /\ B \cup P \subseteq A \cup C
    BY FS_Union
  <1>2. CASE P = C \ A
    <2>1. (A \cup C) \ (B \cup P) = A \ B
      BY <1>2
    <2> QED
      BY <1>1, <2>1
  <1>3. CASE Cardinality(A) - Cardinality(B) + Cardinality(C \ A) <= limit
    <2> DEFINE D == A \ B
               N == C \ A
               E == (A \cup C) \ (B \cup P)
    <2>1. E \subseteq D \cup N /\ D \cap N = {} /\ A \cap B = B
      OBVIOUS
    <2>2. IsFiniteSet(N) /\ IsFiniteSet(D) /\ IsFiniteSet(B)
      BY FS_Subset
    <2>3. Cardinality(D) = Cardinality(A) - Cardinality(B)
      BY <2>1, FS_Difference
    <2> HIDE DEF D, N, E
    <2>4. /\ IsFiniteSet(D \cup N)
          /\ Cardinality(D \cup N) = Cardinality(D) + Cardinality(N) - Cardinality({})
      BY <2>1, <2>2, FS_Union
    <2>5. IsFiniteSet(E) /\ Cardinality(E) <= Cardinality(D \cup N)
      BY <2>1, <2>4, FS_Subset
    <2>6. /\ Cardinality(E) \in Nat /\ Cardinality(D) \in Nat /\ Cardinality(N) \in Nat
          /\ Cardinality({}) = 0
      BY <2>2, <2>5, FS_CardinalityType, FS_EmptySet
    <2>7. Cardinality(D) + Cardinality(N) <= limit
      BY <1>3, <2>3 DEF N
    <2>8. Cardinality(E) <= limit
      BY <2>4, <2>5, <2>6, <2>7
    <2> QED
      BY <1>1, <2>8 DEF E
  <1> QED
    BY <1>2, <1>3

\* A future that enters the gate: with everything that is not open past it, or
\* because it fits.
LEMMA HoldInv ==
  ASSUME PipelineInv, PipelineTypeOK', NEW f \in Futures, NEW past,
         UNCHANGED <<query, io, chan, cpu, stores>>,
         \A p \in Partitions : \A s :
           /\ Publishes(Io(p), s)' <=> Publishes(Io(p), s)
           /\ Publishes(Cpu(p), s)' <=> Publishes(Cpu(p), s),
         \A p \in Partitions : ThreadFree(Cpu(p)) => ThreadFree(Cpu(p))',
         fut[f].at \notin {"hold", "done"},
         IF IsAdmission(f) THEN io[f[1]].at = "admit" /\ io[f[1]].wave = f[3]
                           ELSE io[f[1]].at \in {"stream", "deliver", "leave"} /\ InWave(f, io[f[1]].wave),
         fut'[f].at = "hold", \A g \in Futures \ {f} : fut'[g] = fut[g],
         budget'.all = budget.all \cup SegmentsOf(f),
         budget'.bypass = budget.bypass \cup past, past \subseteq Entering(budget, f),
         past = Entering(budget, f) \/ SegmentsFit(budget, f)
  PROVE  PipelineInv'
  <1>1. query \in Scenarios /\ f[1] \in Partitions
    BY InvFacts, FutureFacts
  <1>3. /\ Futures' = Futures /\ Segments' = Segments
        /\ \A p : Own(p)' = Own(p) /\ Waves(p)' = Waves(p)
        /\ \A g : SegmentsOf(g)' = SegmentsOf(g)
        /\ \A g, w : InWave(g, w)' = InWave(g, w)
    BY PlanFrame
  <1>4. SegmentsOf(f) \subseteq Own(f[1]) /\ SegmentsOf(f) \subseteq Segments
        /\ IsFiniteSet(SegmentsOf(f))
    BY <1>1, SegmentsOfFacts, OwnFacts
  <1>5. KeptApart'
    BY <1>3, InvFacts DEF KeptApart, InHand
  <1>6. WaveByWave'
    BY <1>1, <1>3, InvFacts DEF WaveByWave, Running
  <1>7. OpenIsKept'
    BY <1>3, InvFacts DEF OpenIsKept
  <1>8. GateInv'
    <2>1. /\ IsFiniteSet(budget.all) /\ budget.all \subseteq Segments
          /\ budget.bypass \subseteq budget.all
          /\ Cardinality(budget.all \ budget.bypass) <= query.limit /\ query.limit \in Nat
      BY InvFacts, QueryFacts DEF GateInv
    <2>2. /\ past \subseteq SegmentsOf(f) \ budget.all
          /\ \/ past = SegmentsOf(f) \ budget.all
             \/ Cardinality(budget.all) - Cardinality(budget.bypass)
                  + Cardinality(SegmentsOf(f) \ budget.all) <= query.limit
      BY DEF Entering, SegmentsFit, EffectiveLen
    <2> DEFINE A == budget.all
               B == budget.bypass
               C == SegmentsOf(f)
               l == query.limit
    <2>a. /\ l \in Nat /\ IsFiniteSet(A) /\ IsFiniteSet(C) /\ B \subseteq A
          /\ Cardinality(A \ B) <= l /\ past \subseteq C \ A
          /\ past = C \ A \/ Cardinality(A) - Cardinality(B) + Cardinality(C \ A) <= l
          /\ budget'.all = A \cup C /\ budget'.bypass = B \cup past
      BY <2>1, <2>2, <1>4
    <2> HIDE DEF A, B, C, l
    <2>b. /\ IsFiniteSet(A \cup C) /\ B \cup past \subseteq A \cup C
          /\ Cardinality((A \cup C) \ (B \cup past)) <= l
      BY ONLY <2>a, GateCount
    <2>3. /\ IsFiniteSet(budget'.all) /\ budget'.bypass \subseteq budget'.all
          /\ Cardinality(budget'.all \ budget'.bypass) <= query.limit
      BY <2>a, <2>b DEF l
    <2>4. budget'.all \subseteq Segments
      BY <2>1, <1>4
    <2> QED
      BY <2>3, <2>4, <1>3 DEF GateInv
  <1>9. SlotInv'
    BY <1>3, InvFacts DEF SlotInv, Over, Under, Failed
  <1>10. VouchedInv'
    <2> SUFFICES ASSUME NEW p \in Partitions, NEW s \in Own(p), s \in budget'.all
                 PROVE  Vouched(p, s)'
      BY <1>3 DEF VouchedInv
    <2>1. CASE s \in budget.all
      <3>1. Vouched(p, s)
        BY <2>1, InvFacts DEF VouchedInv
      <3> QED
        BY <3>1, <1>3 DEF Vouched
    <2>2. CASE s \in SegmentsOf(f)
      <3>1. p = f[1]
        BY <2>2, <1>1, <1>4, OwnFacts
      <3> QED
        BY <2>2, <3>1, <1>3 DEF Vouched
    <2> QED
      BY <2>1, <2>2
  <1> QED
    BY <1>5, <1>6, <1>7, <1>8, <1>9, <1>10 DEF PipelineInv
\* reserve, on its first try and after a wake-up.
LEMMA ReserveInv ==
  ASSUME PipelineInv, PipelineTypeOK', NEW f \in Futures, ReserveWithPriority(f)
  PROVE  PipelineInv'
  <1>1. /\ UNCHANGED <<query, io, chan, cpu, stores, todo>> /\ fut[f].at = "idle"
        /\ IF IsAdmission(f) THEN io[f[1]].at = "admit" /\ io[f[1]].wave = f[3]
                             ELSE io[f[1]].at = "stream" /\ InWave(f, io[f[1]].wave)
    BY DEF ReserveWithPriority, CanPoll
  <1>2. /\ \A p \in Partitions : \A s :
             /\ Publishes(Io(p), s)' <=> Publishes(Io(p), s)
             /\ Publishes(Cpu(p), s)' <=> Publishes(Cpu(p), s)
        /\ \A p \in Partitions : ThreadFree(Cpu(p)) => ThreadFree(Cpu(p))'
    BY <1>1 DEF Publishes, ThreadFree
  <1>3. PICK n : \/ /\ fut' = [fut EXCEPT ![f] = [at |-> "hold", reserved |-> n]]
                    /\ budget' = Claim(budget, f, n, Entering(budget, f))
                 \/ /\ fut' = [fut EXCEPT ![f] = [at |-> "try", reserved |-> n]]
                    /\ budget' = budget
    BY DEF ReserveWithPriority
  <1>4. fut \in [Futures -> [at : FutureStates, reserved : Nat]] /\ BudgetRecord(budget)
    BY InvFacts DEF PipelineTypeOK
  <1>5. CASE /\ fut' = [fut EXCEPT ![f] = [at |-> "hold", reserved |-> n]]
             /\ budget' = Claim(budget, f, n, Entering(budget, f))
    <2>1. /\ fut'[f].at = "hold" /\ \A g \in Futures \ {f} : fut'[g] = fut[g]
      BY <1>4, <1>5
    <2>2. /\ budget'.all = budget.all \cup SegmentsOf(f)
          /\ budget'.bypass = budget.bypass \cup Entering(budget, f)
      BY <1>4, <1>5, ClaimFacts
    <2> QED
      BY <1>1, <1>2, <2>1, <2>2, HoldInv
  <1>6. CASE /\ fut' = [fut EXCEPT ![f] = [at |-> "try", reserved |-> n]]
             /\ budget' = budget
    <2>1. /\ Futures' = Futures /\ Segments' = Segments
          /\ \A p : Own(p)' = Own(p) /\ Waves(p)' = Waves(p)
          /\ \A g : SegmentsOf(g)' = SegmentsOf(g)
          /\ \A g, w : InWave(g, w)' = InWave(g, w)
      BY <1>1, PlanFrame
    <2>2. /\ fut'[f].at = "try" /\ \A g \in Futures \ {f} : fut'[g] = fut[g]
          /\ \A g \in Futures : fut'[g].at = "hold" <=> fut[g].at = "hold"
      BY <1>1, <1>4, <1>6
    <2>3. KeptApart'
      BY <1>1, <2>1, InvFacts DEF KeptApart, InHand, Publishes
    <2>4. WaveByWave'
      BY <1>1, <2>1, <2>2, InvFacts DEF WaveByWave, Running
    <2>5. OpenIsKept'
      BY <1>1, <2>1, InvFacts DEF OpenIsKept, ThreadFree
    <2>6. GateInv'
      BY <1>1, <1>6, <2>1, InvFacts DEF GateInv
    <2>7. SlotInv'
      BY <1>1, <1>2, <1>6, <2>1, <2>2, InvFacts DEF SlotInv, Over, Under, Failed
    <2>8. VouchedInv'
      BY <1>1, <1>2, <1>6, <2>1, <2>2, InvFacts DEF VouchedInv, Vouched
    <2> QED
      BY <2>3, <2>4, <2>5, <2>6, <2>7, <2>8 DEF PipelineInv
  <1> QED
    BY <1>3, <1>5, <1>6

\* await_admission, on its first try and after a wake-up.
LEMMA AdmitInv ==
  ASSUME PipelineInv, PipelineTypeOK', NEW f \in Futures, Admit(f)
  PROVE  PipelineInv'
  <1> DEFINE past == IF budget.force THEN Entering(budget, f) ELSE {}
             calls == (IF fut[f].at = "recheck"
                         THEN <<[op |-> "cancel", waiter |-> f]>> ELSE <<>>)
                      \o (IF budget'.current < query.budget THEN Wake ELSE <<>>)
  <1>1. /\ UNCHANGED <<query, io, chan, cpu, stores>>
        /\ fut[f].at \in {"try", "recheck"} /\ ThreadFree(Io(f[1]))
        /\ fut' = [fut EXCEPT ![f].at = "hold"]
        /\ budget' = Claim(budget, f, fut[f].reserved, past)
        /\ todo' = [todo EXCEPT ![Io(f[1])] = calls]
        /\ budget.force \/ SegmentsFit(budget, f)
    BY DEF Admit, WaiterAdmittable
  <1>2. Quiet(calls)
    BY QuietCalls, QuietConcat
  <1> HIDE DEF calls
  <1>3. /\ fut \in [Futures -> [at : FutureStates, reserved : Nat]] /\ BudgetRecord(budget)
        /\ PipelineTypeOK /\ f[1] \in Partitions
    BY InvFacts, FutureFacts DEF PipelineTypeOK
  <1>4. /\ \A s : ~Publishes(Io(f[1]), s)' /\ ~Publishes(Io(f[1]), s)
        /\ \A u \in Threads \ {Io(f[1])} : \A s : Publishes(u, s)' <=> Publishes(u, s)
    BY <1>1, <1>2, <1>3, ThreadFacts, CallStep, QuietFacts, EmptySteps
       DEF ThreadFree, Publishes
  <1>5. \A p \in Partitions : \A s :
          /\ Publishes(Io(p), s)' <=> Publishes(Io(p), s)
          /\ Publishes(Cpu(p), s)' <=> Publishes(Cpu(p), s)
    BY <1>3, <1>4, ThreadFacts
  <1>6. \A p \in Partitions : ThreadFree(Cpu(p)) => ThreadFree(Cpu(p))'
    BY <1>1, <1>3, ThreadFacts DEF ThreadFree, PipelineTypeOK
  <1>7. IF IsAdmission(f) THEN io[f[1]].at = "admit" /\ io[f[1]].wave = f[3]
                          ELSE io[f[1]].at \in {"stream", "deliver", "leave"} /\ InWave(f, io[f[1]].wave)
    <2>1. Running(f) /\ fut[f].at # "hold"
      BY <1>1 DEF Running
    <2>2. CASE IsAdmission(f)
      BY <2>1, <2>2, InvFacts DEF WaveByWave
    <2>3. CASE ~IsAdmission(f)
      BY <2>1, <2>3, InvFacts DEF WaveByWave
    <2> QED
      BY <2>2, <2>3
  <1>8. /\ fut'[f].at = "hold" /\ \A g \in Futures \ {f} : fut'[g] = fut[g]
    BY <1>1, <1>3
  <1>9. /\ budget'.all = budget.all \cup SegmentsOf(f)
        /\ budget'.bypass = budget.bypass \cup past
    BY <1>1, <1>3, ClaimFacts
  <1>10. past \subseteq Entering(budget, f) /\ (past = Entering(budget, f) \/ SegmentsFit(budget, f))
    BY <1>1
  <1> HIDE DEF past
  <1> QED
    BY <1>1, <1>5, <1>6, <1>7, <1>8, <1>9, <1>10, HoldInv

\* A call of an IO loop, and what it publishes.
LEMMA LoopCall ==
  ASSUME PipelineTypeOK, NEW p \in Partitions, ThreadFree(Io(p)),
         NEW steps, StepList(steps), todo' = [todo EXCEPT ![Io(p)] = steps]
  PROVE  /\ \A s : ~Publishes(Io(p), s) /\ (Publishes(Io(p), s)' <=> Vacates(steps, s))
         /\ \A r \in Partitions \ {p} : \A s : Publishes(Io(r), s)' <=> Publishes(Io(r), s)
         /\ \A r \in Partitions : \A s : Publishes(Cpu(r), s)' <=> Publishes(Cpu(r), s)
         /\ \A r \in Partitions : ThreadFree(Cpu(r)) => ThreadFree(Cpu(r))'
  <1>1. /\ Io(p) \in Threads
        /\ \A r \in Partitions : Cpu(r) \in Threads \ {Io(p)}
        /\ \A r \in Partitions \ {p} : Io(r) \in Threads \ {Io(p)}
    BY ThreadFacts
  <1>2. /\ \A s : Publishes(Io(p), s)' <=> Vacates(steps, s)
        /\ \A u \in Threads \ {Io(p)} : \A s : Publishes(u, s)' <=> Publishes(u, s)
    BY <1>1, CallStep
  <1>3. \A s : ~Publishes(Io(p), s)
    BY EmptySteps DEF ThreadFree, Publishes
  <1>4. \A r \in Partitions : ThreadFree(Cpu(r)) => ThreadFree(Cpu(r))'
    BY <1>1 DEF ThreadFree, PipelineTypeOK
  <1> QED
    BY <1>1, <1>2, <1>3, <1>4

\* A fetch that lands trues up its reservation.
LEMMA FetchLandsInv ==
  ASSUME PipelineInv, PipelineTypeOK', NEW f \in Futures, FetchLands(f)
  PROVE  PipelineInv'
  <1> DEFINE p == f[1]
  <1>1. /\ UNCHANGED <<query, budget, chan, cpu, stores>> /\ ~IsAdmission(f)
        /\ fut[f].at = "hold" /\ ThreadFree(Io(p)) /\ io[p].at = "stream"
        /\ fut' = [fut EXCEPT ![f].at = "done"]
        /\ todo' = [todo EXCEPT ![Io(p)] = AdjustReservation(fut[f].reserved, Actual(f))]
    BY DEF FetchLands, CanPoll
  <1>2. PICK sorted \in InEmissionOrder(f) :
          io' = [io EXCEPT ![p].at = "deliver", ![p].out = Delivery(f, sorted)]
    BY DEF FetchLands
  <1>t. /\ PipelineTypeOK /\ query \in Scenarios
        /\ fut \in [Futures -> [at : FutureStates, reserved : Nat]]
        /\ io \in [Partitions -> [at : IoStates, wave : Nat, out : Seq(Messages)]]
        /\ chan \in [Partitions -> Seq(Messages)]
    BY InvFacts DEF PipelineTypeOK
  <1>f. /\ Futures' = Futures /\ Segments' = Segments
        /\ \A r : Own(r)' = Own(r) /\ Waves(r)' = Waves(r)
        /\ \A g : SegmentsOf(g)' = SegmentsOf(g)
        /\ \A g, w : InWave(g, w)' = InWave(g, w)
    BY <1>1, PlanFrame
  <1>3. p \in Partitions /\ SegmentsOf(f) \subseteq Own(p)
    BY <1>t, FutureFacts, SegmentsOfFacts
  <1>4. \A s : Mentions(io'[p].out, s) <=> s \in SegmentsOf(f)
    BY <1>1, <1>2, <1>3, <1>t, DeliveryFacts
  <1>5. /\ io'[p].at = "deliver" /\ io'[p].wave = io[p].wave
        /\ \A r \in Partitions \ {p} : io'[r] = io[r]
    BY <1>2, <1>3, <1>t
  <1>6. \A s : ~Mentions(io[p].out, s)
    BY <1>1, <1>3, InvFacts, MentionsNone DEF WaveByWave
  <1>7. \A r \in Partitions : \A s :
          /\ Publishes(Io(r), s)' <=> Publishes(Io(r), s)
          /\ Publishes(Cpu(r), s)' <=> Publishes(Cpu(r), s)
    BY <1>1, <1>3, <1>t, LoopCall, QuietCalls, QuietFacts
  <1>8. \A r \in Partitions : ThreadFree(Cpu(r)) => ThreadFree(Cpu(r))'
    BY <1>1, <1>3, <1>t, LoopCall, QuietCalls, QuietFacts
  <1>9. fut'[f].at = "done" /\ \A g \in Futures \ {f} : fut'[g] = fut[g]
    BY <1>1, <1>t
  <1> HIDE DEF p
  <1>10. KeptApart'
    <2> SUFFICES ASSUME NEW r \in Partitions, NEW s \in Segments, InHand(r, s)'
                 PROVE  s \in Own(r)
      BY <1>f DEF KeptApart
    <2>1. CASE r = p /\ s \in SegmentsOf(f)
      BY <2>1, <1>3
    <2>2. CASE ~(r = p /\ s \in SegmentsOf(f))
      <3>1. InHand(r, s)
        BY <2>2, <1>1, <1>4, <1>5, <1>7 DEF InHand
      <3> QED
        BY <3>1, InvFacts DEF KeptApart
    <2> QED
      BY <2>1, <2>2
  <1>11. WaveByWave'
    <2>1. io[p].at = "stream" /\ UNCHANGED <<query, cpu>> /\ WaveByWave
      BY <1>1, InvFacts
    <2>2. \A r \in Partitions :
            /\ io'[r].at # "ended" => io'[r].wave \in 1..Waves(r)
            /\ io'[r].at \in {"admit", "stream"} => io'[r].out = <<>>
            /\ io'[r].at = "leave" => query.failing[r] # {} \/ cpu[r].at = "ended"
      BY <2>1, <1>3, <1>5 DEF WaveByWave
    <2>3. \A g \in Futures : Running(g)' =>
            Running(g) /\ fut'[g] = fut[g] /\ (g[1] = p => ~IsAdmission(g))
      BY <2>1, <1>9 DEF WaveByWave, Running
    <2>4. \A g \in Futures : g[1] \in Partitions
      BY FutureFacts
    <2> QED
      BY <2>1, <2>2, <2>3, <2>4, <1>5, <1>f DEF WaveByWave
  <1>12. OpenIsKept'
    BY <1>1, <1>8, <1>f, InvFacts DEF OpenIsKept
  <1>13. GateInv'
    BY <1>1, <1>f, InvFacts DEF GateInv
  <1>14. SlotInv'
    <2> SUFFICES ASSUME NEW r \in Partitions, NEW s \in Own(r)
                 PROVE  /\ Publishes(Io(r), s)' \/ Publishes(Cpu(r), s)' => Over(r, s)'
                        /\ Under(r, s)' => s \in budget'.all \/ Over(r, s)'
      BY <1>f DEF SlotInv
    <2>1. Over(r, s) => Over(r, s)'
      BY <1>1, <1>5 DEF Over, Failed
    <2>2. Under(r, s)' => Under(r, s)
      BY <1>1, <1>4, <1>5, <1>9, <1>f DEF Under, p
    <2> QED
      BY <2>1, <2>2, <1>1, <1>7, InvFacts DEF SlotInv
  <1>15. VouchedInv'
    <2> SUFFICES ASSUME NEW r \in Partitions, NEW s \in Own(r), Vouched(r, s)
                 PROVE  Vouched(r, s)'
      BY <1>1, <1>f, InvFacts DEF VouchedInv
    <2> QED
      BY <1>1, <1>4, <1>5, <1>6, <1>7, <1>9, <1>f DEF Vouched, p
  <1> QED
    BY <1>10, <1>11, <1>12, <1>13, <1>14, <1>15 DEF PipelineInv

\* A fetch that fails drops its guard and the loop leaves.
LEMMA FetchFailsInv ==
  ASSUME PipelineInv, PipelineTypeOK', NEW f \in Futures, FetchFails(f)
  PROVE  PipelineInv'
  <1> DEFINE p == f[1]
  <1>1. /\ UNCHANGED <<query, budget, chan, cpu, stores>> /\ ~IsAdmission(f)
        /\ fut[f].at = "hold" /\ ThreadFree(Io(p)) /\ io[p].at = "stream"
        /\ fut' = [fut EXCEPT ![f].at = "done"]
        /\ todo' = [todo EXCEPT ![Io(p)] = DropGuard(f)]
        /\ io' = [io EXCEPT ![p].at = "leave"]
        /\ query.failing[p] # {}
    BY DEF FetchFails, CanPoll
  <1>t. /\ PipelineTypeOK /\ query \in Scenarios
        /\ fut \in [Futures -> [at : FutureStates, reserved : Nat]]
        /\ io \in [Partitions -> [at : IoStates, wave : Nat, out : Seq(Messages)]]
        /\ chan \in [Partitions -> Seq(Messages)]
    BY InvFacts DEF PipelineTypeOK
  <1>f. /\ Futures' = Futures /\ Segments' = Segments
        /\ \A r : Own(r)' = Own(r) /\ Waves(r)' = Waves(r)
        /\ \A g : SegmentsOf(g)' = SegmentsOf(g)
        /\ \A g, w : InWave(g, w)' = InWave(g, w)
    BY <1>1, PlanFrame
  <1>3. p \in Partitions /\ SegmentsOf(f) \subseteq Own(p)
    BY <1>t, FutureFacts, SegmentsOfFacts
  <1>5. /\ io'[p].at = "leave" /\ io'[p].wave = io[p].wave /\ io'[p].out = io[p].out
        /\ \A r \in Partitions \ {p} : io'[r] = io[r]
    BY <1>1, <1>3, <1>t
  <1>7. /\ \A s : ~Publishes(Io(p), s) /\ (Publishes(Io(p), s)' <=> s \in SegmentsOf(f))
        /\ \A r \in Partitions \ {p} : \A s : Publishes(Io(r), s)' <=> Publishes(Io(r), s)
        /\ \A r \in Partitions : \A s : Publishes(Cpu(r), s)' <=> Publishes(Cpu(r), s)
        /\ \A r \in Partitions : ThreadFree(Cpu(r)) => ThreadFree(Cpu(r))'
    BY <1>1, <1>3, <1>t, LoopCall, DropGuardSteps
  <1>9. fut'[f].at = "done" /\ \A g \in Futures \ {f} : fut'[g] = fut[g]
    BY <1>1, <1>t
  <1> HIDE DEF p
  <1>10. KeptApart'
    <2> SUFFICES ASSUME NEW r \in Partitions, NEW s \in Segments, InHand(r, s)'
                 PROVE  s \in Own(r)
      BY <1>f DEF KeptApart
    <2>1. CASE r = p /\ s \in SegmentsOf(f)
      BY <2>1, <1>3
    <2>2. CASE ~(r = p /\ s \in SegmentsOf(f))
      <3>1. InHand(r, s)
        BY <2>2, <1>1, <1>5, <1>7 DEF InHand
      <3> QED
        BY <3>1, InvFacts DEF KeptApart
    <2> QED
      BY <2>1, <2>2
  <1>11. WaveByWave'
    BY <1>1, <1>3, <1>5, <1>9, <1>f, InvFacts DEF WaveByWave, Running, p
  <1>12. OpenIsKept'
    BY <1>1, <1>7, <1>f, InvFacts DEF OpenIsKept
  <1>13. GateInv'
    BY <1>1, <1>f, InvFacts DEF GateInv
  <1>14. SlotInv'
    <2> SUFFICES ASSUME NEW r \in Partitions, NEW s \in Own(r)
                 PROVE  /\ Publishes(Io(r), s)' \/ Publishes(Cpu(r), s)' => Over(r, s)'
                        /\ Under(r, s)' => s \in budget'.all \/ Over(r, s)'
      BY <1>f DEF SlotInv
    <2>1. (Over(r, s) => Over(r, s)') /\ Over(p, s)'
      BY <1>1, <1>5 DEF Over, Failed
    <2>2. Under(r, s)' => Under(r, s)
      BY <1>1, <1>5, <1>9, <1>f DEF Under
    <2> QED
      BY <2>1, <2>2, <1>1, <1>7, InvFacts DEF SlotInv
  <1>15. VouchedInv'
    <2> SUFFICES ASSUME NEW r \in Partitions, NEW s \in Own(r), Vouched(r, s)
                 PROVE  Vouched(r, s)'
      BY <1>1, <1>f, InvFacts DEF VouchedInv
    <2> QED
      BY <1>1, <1>5, <1>7, <1>9, <1>f DEF Vouched, p
  <1> QED
    BY <1>10, <1>11, <1>12, <1>13, <1>14, <1>15 DEF PipelineInv
-----------------------------------------------------------------------------
(* The inductive invariant: the IO loops *)

\* The admission of a wave is committed when its announcement is queued.
LEMMA AnnounceInv ==
  ASSUME PipelineInv, PipelineTypeOK', NEW p \in Partitions, Announce(p)
  PROVE  PipelineInv'
  <1> DEFINE f == Admission(p, io[p].wave)
  <1>1. /\ UNCHANGED <<query, budget, fut, chan, cpu, stores, todo>>
        /\ io[p].at = "admit" /\ fut[f].at = "hold"
        /\ io' = [io EXCEPT ![p].at = "announce",
                            ![p].out = Announcement(WaveSegments(p, io[p].wave))]
    BY DEF Announce
  <1>t. /\ PipelineTypeOK /\ query \in Scenarios
        /\ fut \in [Futures -> [at : FutureStates, reserved : Nat]]
        /\ io \in [Partitions -> [at : IoStates, wave : Nat, out : Seq(Messages)]]
        /\ chan \in [Partitions -> Seq(Messages)]
    BY InvFacts DEF PipelineTypeOK
  <1>f. /\ Futures' = Futures /\ Segments' = Segments
        /\ \A r : Own(r)' = Own(r) /\ Waves(r)' = Waves(r)
        /\ \A g : SegmentsOf(g)' = SegmentsOf(g)
        /\ \A g, w : InWave(g, w)' = InWave(g, w)
    BY <1>1, PlanFrame
  <1>2. io[p].wave \in 1..Waves(p) /\ io[p].out = <<>>
    BY <1>1, InvFacts DEF WaveByWave
  <1>3. /\ f \in Futures /\ IsAdmission(f) /\ f[1] = p /\ f[3] = io[p].wave
        /\ SegmentsOf(f) \subseteq Own(p)
        /\ SegmentsOf(f) = ToSet(WaveSegments(p, io[p].wave))
    BY <1>2, <1>t, AdmissionFacts, SegmentsOfFacts DEF SegmentsOf
  <1>4. \A s : Mentions(io'[p].out, s) <=> s \in SegmentsOf(f)
    <2>1. WaveSegments(p, io[p].wave) \in Seq(Own(p)) /\ Own(p) \subseteq Segments
      BY <1>2, <1>t, WaveRange, OwnFacts
    <2>2. WaveSegments(p, io[p].wave) \in Seq(Segments)
      BY <2>1, SeqMonotonic
    <2> QED
      BY <2>2, <1>1, <1>3, <1>t, AnnouncementFacts
  <1>5. /\ io'[p].at = "announce" /\ io'[p].wave = io[p].wave
        /\ \A r \in Partitions \ {p} : io'[r] = io[r]
    BY <1>1, <1>t
  <1>6. \A s : ~Mentions(io[p].out, s)
    BY <1>2, MentionsNone
  <1>7. \A r \in Partitions : \A s :
          /\ Publishes(Io(r), s)' <=> Publishes(Io(r), s)
          /\ Publishes(Cpu(r), s)' <=> Publishes(Cpu(r), s)
          /\ ThreadFree(Cpu(r)) => ThreadFree(Cpu(r))'
    BY <1>1 DEF Publishes, ThreadFree
  <1>8. \A g \in Futures : Running(g) /\ g[1] = p => g = f
    <2> SUFFICES ASSUME NEW g \in Futures, Running(g), g[1] = p
                 PROVE  g = f
      OBVIOUS
    <2>1. IsAdmission(g) /\ g[3] = io[p].wave
      BY <1>1, InvFacts DEF WaveByWave
    <2> QED
      BY <2>1, FutureFacts
  <1> HIDE DEF f
  <1>10. KeptApart'
    <2> SUFFICES ASSUME NEW r \in Partitions, NEW s \in Segments, InHand(r, s)'
                 PROVE  s \in Own(r)
      BY <1>f DEF KeptApart
    <2>1. CASE r = p /\ s \in SegmentsOf(f)
      BY <2>1, <1>3
    <2>2. CASE ~(r = p /\ s \in SegmentsOf(f))
      <3>1. InHand(r, s)
        BY <2>2, <1>1, <1>4, <1>5, <1>7 DEF InHand
      <3> QED
        BY <3>1, InvFacts DEF KeptApart
    <2> QED
      BY <2>1, <2>2
  <1>11. WaveByWave'
    <2>1. /\ UNCHANGED <<query, fut, cpu>> /\ WaveByWave
          /\ \A g \in Futures : Running(g)' <=> Running(g)
      BY <1>1, InvFacts DEF Running
    <2>2. \A r \in Partitions :
            /\ io'[r].at # "ended" => io'[r].wave \in 1..Waves(r)
            /\ io'[r].at \in {"admit", "stream"} => io'[r].out = <<>>
            /\ io'[r].at = "leave" => query.failing[r] # {} \/ cpu[r].at = "ended"
      BY <2>1, <1>2, <1>5 DEF WaveByWave
    <2>3. \A g \in Futures : g[1] \in Partitions
      BY FutureFacts
    <2>4. ASSUME NEW g \in Futures, Running(g), IsAdmission(g)
          PROVE  /\ g[3] = io'[g[1]].wave /\ io'[g[1]].at \in {"admit", "announce"}
                 /\ io'[g[1]].at = "announce" => fut[g].at = "hold"
      <3>1. CASE g[1] = p
        BY <3>1, <2>4, <1>1, <1>3, <1>5, <1>8
      <3>2. CASE g[1] # p
        BY <3>2, <2>1, <2>3, <2>4, <1>5 DEF WaveByWave
      <3> QED
        BY <3>1, <3>2
    <2>5. ASSUME NEW g \in Futures, Running(g), ~IsAdmission(g)
          PROVE  InWave(g, io'[g[1]].wave) /\ io'[g[1]].at \in {"stream", "deliver", "leave"}
      <3>1. g[1] # p
        BY <2>5, <1>3, <1>8
      <3> QED
        BY <3>1, <2>1, <2>3, <2>5, <1>5 DEF WaveByWave
    <2> QED
      BY <2>1, <2>2, <2>4, <2>5, <1>f DEF WaveByWave
  <1>12. OpenIsKept'
    BY <1>1, <1>7, <1>f, InvFacts DEF OpenIsKept
  <1>13. GateInv'
    BY <1>1, <1>f, InvFacts DEF GateInv
  <1>14. SlotInv'
    <2> SUFFICES ASSUME NEW r \in Partitions, NEW s \in Own(r)
                 PROVE  /\ Publishes(Io(r), s)' \/ Publishes(Cpu(r), s)' => Over(r, s)'
                        /\ Under(r, s)' => s \in budget'.all \/ Over(r, s)'
      BY <1>f DEF SlotInv
    <2>1. Over(r, s) => Over(r, s)'
      BY <1>1, <1>5 DEF Over, Failed
    <2>2. Under(r, s)' => Under(r, s)
      BY <1>1, <1>3, <1>4, <1>5, <1>f DEF Under
    <2> QED
      BY <2>1, <2>2, <1>1, <1>7, InvFacts DEF SlotInv
  <1>15. VouchedInv'
    <2> SUFFICES ASSUME NEW r \in Partitions, NEW s \in Own(r), Vouched(r, s)
                 PROVE  Vouched(r, s)'
      BY <1>1, <1>f, InvFacts DEF VouchedInv
    <2> QED
      <3>1. \A g \in Futures : fut[g].at = "hold" => Running(g)
        BY DEF Running
      <3> QED
        BY <3>1, <1>1, <1>3, <1>4, <1>5, <1>6, <1>7, <1>8, <1>f DEF Vouched
  <1> QED
    BY <1>10, <1>11, <1>12, <1>13, <1>14, <1>15 DEF PipelineInv

\* A message passes from the loop to the channel of its worker.
LEMMA SendInv ==
  ASSUME PipelineInv, PipelineTypeOK', NEW p \in Partitions, Send(p)
  PROVE  PipelineInv'
  <1>1. /\ UNCHANGED <<query, budget, fut, cpu, stores, todo>>
        /\ io[p].at \in {"announce", "deliver"} /\ io[p].out # <<>>
        /\ chan' = [chan EXCEPT ![p] = Append(@, Head(io[p].out))]
        /\ io' = [io EXCEPT ![p].out = Tail(@)]
    BY DEF Send
  <1>t. /\ PipelineTypeOK /\ query \in Scenarios
        /\ fut \in [Futures -> [at : FutureStates, reserved : Nat]]
        /\ io \in [Partitions -> [at : IoStates, wave : Nat, out : Seq(Messages)]]
        /\ chan \in [Partitions -> Seq(Messages)]
    BY InvFacts DEF PipelineTypeOK
  <1>f. /\ Futures' = Futures /\ Segments' = Segments
        /\ \A r : Own(r)' = Own(r) /\ Waves(r)' = Waves(r)
        /\ \A g : SegmentsOf(g)' = SegmentsOf(g)
        /\ \A g, w : InWave(g, w)' = InWave(g, w)
    BY <1>1, PlanFrame
  <1>3. /\ Head(io[p].out) \in Messages
        /\ \A s : Mentions(io[p].out, s) <=>
                    Mentions(Tail(io[p].out), s) \/ Head(io[p].out).segment = s
    BY <1>1, <1>t, MentionsTail
  <1>4. \A s : \/ Mentions(io'[p].out, s) \/ Mentions(chan'[p], s)
               <=> \/ Mentions(io[p].out, s) \/ Mentions(chan[p], s)
    <2>1. io'[p].out = Tail(io[p].out) /\ chan'[p] = Append(chan[p], Head(io[p].out))
      BY <1>1, <1>t
    <2>2. \A s : Mentions(chan'[p], s) <=> Mentions(chan[p], s) \/ Head(io[p].out).segment = s
      BY <2>1, <1>3, <1>t, MentionsAppend
    <2> QED
      BY <2>1, <2>2, <1>3
  <1>5. /\ io'[p].at = io[p].at /\ io'[p].wave = io[p].wave
        /\ \A r \in Partitions \ {p} : io'[r] = io[r] /\ chan'[r] = chan[r]
    BY <1>1, <1>t
  <1>7. \A r \in Partitions : \A s :
          /\ Publishes(Io(r), s)' <=> Publishes(Io(r), s)
          /\ Publishes(Cpu(r), s)' <=> Publishes(Cpu(r), s)
          /\ ThreadFree(Cpu(r)) => ThreadFree(Cpu(r))'
    BY <1>1 DEF Publishes, ThreadFree
  <1>10. KeptApart'
    BY <1>1, <1>4, <1>5, <1>7, <1>f, InvFacts DEF KeptApart, InHand
  <1>11. WaveByWave'
    <2>1. /\ UNCHANGED <<query, fut, cpu>> /\ WaveByWave
          /\ \A g \in Futures : Running(g)' <=> Running(g)
      BY <1>1, InvFacts DEF Running
    <2>2. \A g \in Futures : g[1] \in Partitions
      BY FutureFacts
    <2>3. \A r \in Partitions : io'[r].at = io[r].at /\ io'[r].wave = io[r].wave
      BY <1>5
    <2>4. \A r \in Partitions : io'[r].at \in {"admit", "stream"} => io'[r].out = <<>>
      BY <2>1, <1>1, <1>5 DEF WaveByWave
    <2> QED
      BY <2>1, <2>2, <2>3, <2>4, <1>f DEF WaveByWave
  <1>12. OpenIsKept'
    BY <1>1, <1>7, <1>f, InvFacts DEF OpenIsKept
  <1>13. GateInv'
    BY <1>1, <1>f, InvFacts DEF GateInv
  <1>14. SlotInv'
    <2> SUFFICES ASSUME NEW r \in Partitions, NEW s \in Own(r)
                 PROVE  /\ Publishes(Io(r), s)' \/ Publishes(Cpu(r), s)' => Over(r, s)'
                        /\ Under(r, s)' => s \in budget'.all \/ Over(r, s)'
      BY <1>f DEF SlotInv
    <2>1. Over(r, s) => Over(r, s)'
      BY <1>1, <1>5 DEF Over, Failed
    <2>2. Under(r, s)' => Under(r, s)
      BY <1>1, <1>4, <1>5, <1>f DEF Under
    <2> QED
      BY <2>1, <2>2, <1>1, <1>7, InvFacts DEF SlotInv
  <1>15. VouchedInv'
    <2> SUFFICES ASSUME NEW r \in Partitions, NEW s \in Own(r), Vouched(r, s)
                 PROVE  Vouched(r, s)'
      BY <1>1, <1>f, InvFacts DEF VouchedInv
    <2> QED
      BY <1>1, <1>4, <1>5, <1>7, <1>f DEF Vouched
  <1> QED
    BY <1>10, <1>11, <1>12, <1>13, <1>14, <1>15 DEF PipelineInv

\* The loop goes on to its next wave, or ends.
LEMMA NextWaveInv ==
  ASSUME PipelineInv, PipelineTypeOK', NEW p \in Partitions, NextWave(p)
  PROVE  PipelineInv'
  <1>1. /\ UNCHANGED <<query, budget, fut, chan, cpu, stores, todo>>
        /\ io[p].at = "stream"
        /\ \A f \in FetchesOf(p, io[p].wave) : fut[f].at = "done"
        /\ io' = IF io[p].wave < Waves(p)
                   THEN [io EXCEPT ![p].at = "admit", ![p].wave = @ + 1]
                   ELSE [io EXCEPT ![p].at = "ended"]
    BY DEF NextWave
  <1>t. /\ PipelineTypeOK /\ query \in Scenarios
        /\ fut \in [Futures -> [at : FutureStates, reserved : Nat]]
        /\ io \in [Partitions -> [at : IoStates, wave : Nat, out : Seq(Messages)]]
        /\ chan \in [Partitions -> Seq(Messages)]
    BY InvFacts DEF PipelineTypeOK
  <1>f. /\ Futures' = Futures /\ Segments' = Segments
        /\ \A r : Own(r)' = Own(r) /\ Waves(r)' = Waves(r)
        /\ \A g : SegmentsOf(g)' = SegmentsOf(g)
        /\ \A g, w : InWave(g, w)' = InWave(g, w)
    BY <1>1, PlanFrame
  <1>2. io[p].wave \in 1..Waves(p) /\ io[p].out = <<>>
    BY <1>1, InvFacts DEF WaveByWave
  <1>5. /\ io'[p].out = io[p].out
        /\ \/ io'[p].at = "admit" /\ io'[p].wave \in 1..Waves(p)
           \/ io'[p].at = "ended"
        /\ \A r \in Partitions \ {p} : io'[r] = io[r]
    <2>1. CASE io[p].wave < Waves(p)
      <3>1. io' = [io EXCEPT ![p].at = "admit", ![p].wave = @ + 1]
        BY <2>1, <1>1
      <3>2. /\ io'[p].out = io[p].out /\ io'[p].at = "admit" /\ io'[p].wave = io[p].wave + 1
            /\ \A r \in Partitions \ {p} : io'[r] = io[r]
        BY <3>1, <1>t
      <3>3. io[p].wave + 1 \in 1..Waves(p)
        BY <2>1, <1>2, <1>t, WavesType
      <3> QED
        BY <3>2, <3>3
    <2>2. CASE ~(io[p].wave < Waves(p))
      BY <2>2, <1>1, <1>t
    <2> QED
      BY <2>1, <2>2
  <1>7. \A r \in Partitions : \A s :
          /\ Publishes(Io(r), s)' <=> Publishes(Io(r), s)
          /\ Publishes(Cpu(r), s)' <=> Publishes(Cpu(r), s)
          /\ ThreadFree(Cpu(r)) => ThreadFree(Cpu(r))'
    BY <1>1 DEF Publishes, ThreadFree
  <1>8. \A g \in Futures : g[1] = p => ~Running(g)
    <2> SUFFICES ASSUME NEW g \in Futures, g[1] = p, Running(g)
                 PROVE  FALSE
      OBVIOUS
    <2>1. ~IsAdmission(g) /\ InWave(g, io[p].wave)
      BY <1>1, InvFacts DEF WaveByWave
    <2> QED
      BY <2>1, <1>1 DEF FetchesOf, Running
  <1>10. KeptApart'
    BY <1>1, <1>5, <1>7, <1>f, InvFacts DEF KeptApart, InHand
  <1>11. WaveByWave'
    <2>1. /\ UNCHANGED <<query, fut, cpu>> /\ WaveByWave
          /\ \A g \in Futures : Running(g)' <=> Running(g)
      BY <1>1, InvFacts DEF Running
    <2>2. \A r \in Partitions :
            /\ io'[r].at # "ended" => io'[r].wave \in 1..Waves(r)
            /\ io'[r].at \in {"admit", "stream"} => io'[r].out = <<>>
            /\ io'[r].at = "leave" => query.failing[r] # {} \/ cpu[r].at = "ended"
      BY <2>1, <1>2, <1>5 DEF WaveByWave
    <2>3. \A g \in Futures : g[1] \in Partitions
      BY FutureFacts
    <2> QED
      BY <2>1, <2>2, <2>3, <1>5, <1>8, <1>f DEF WaveByWave
  <1>12. OpenIsKept'
    BY <1>1, <1>7, <1>f, InvFacts DEF OpenIsKept
  <1>13. GateInv'
    BY <1>1, <1>f, InvFacts DEF GateInv
  <1>14. SlotInv'
    <2> SUFFICES ASSUME NEW r \in Partitions, NEW s \in Own(r)
                 PROVE  /\ Publishes(Io(r), s)' \/ Publishes(Cpu(r), s)' => Over(r, s)'
                        /\ Under(r, s)' => s \in budget'.all \/ Over(r, s)'
      BY <1>f DEF SlotInv
    <2>1. Over(r, s) => Over(r, s)'
      BY <1>1, <1>5 DEF Over, Failed
    <2>2. Under(r, s)' => Under(r, s)
      BY <1>1, <1>5, <1>f DEF Under
    <2> QED
      BY <2>1, <2>2, <1>1, <1>7, InvFacts DEF SlotInv
  <1>15. VouchedInv'
    <2> SUFFICES ASSUME NEW r \in Partitions, NEW s \in Own(r), Vouched(r, s)
                 PROVE  Vouched(r, s)'
      BY <1>1, <1>f, InvFacts DEF VouchedInv
    <2> QED
      <3>1. \A g \in Futures : fut[g].at = "hold" => Running(g)
        BY DEF Running
      <3> QED
        BY <3>1, <1>1, <1>5, <1>7, <1>8, <1>f DEF Vouched
  <1> QED
    BY <1>10, <1>11, <1>12, <1>13, <1>14, <1>15 DEF PipelineInv
\* A loop moves on and some of its futures are done.  Whoever held a guard, and
\* is needed to vouch for a slot, publishes it.
LEMMA DoneInv ==
  ASSUME PipelineInv, PipelineTypeOK', NEW p \in Partitions,
         UNCHANGED <<query, budget, chan, cpu, stores>>,
         \A r \in Partitions \ {p} : io'[r] = io[r],
         io'[p].wave = io[p].wave, io'[p].out = io[p].out, io[p].at # "ended",
         io'[p].at = "stream" => io[p].out = <<>>,
         io'[p].at # "admit", io'[p].at # "announce",
         io[p].at = "leave" => io'[p].at \in {"leave", "ended"},
         io'[p].at = "leave" => query.failing[p] # {} \/ cpu[p].at = "ended",
         \A g \in Futures : fut'[g] = fut[g] \/ (g[1] = p /\ fut'[g].at = "done"),
         \A g \in Futures : g[1] = p /\ Running(g)' =>
           ~IsAdmission(g) /\ io'[p].at \in {"stream", "deliver", "leave"},
         NEW dropped,
         \A s : Publishes(Io(p), s)' => Publishes(Io(p), s) \/ s \in dropped,
         \A s : Publishes(Io(p), s) \/ s \in dropped => Publishes(Io(p), s)',
         dropped \subseteq Own(p), dropped # {} => Failed(p)' \/ cpu[p].at = "ended",
         \A g \in Futures : g[1] = p /\ fut[g].at = "hold" /\ fut'[g].at # "hold" =>
           SegmentsOf(g) \subseteq dropped \/ (IsAdmission(g) /\ io[p].at = "announce"),
         \A r \in Partitions \ {p} : \A s : Publishes(Io(r), s)' <=> Publishes(Io(r), s),
         \A r \in Partitions : \A s : Publishes(Cpu(r), s)' <=> Publishes(Cpu(r), s),
         \A r \in Partitions : ThreadFree(Cpu(r)) => ThreadFree(Cpu(r))'
  PROVE  PipelineInv'
  <1>f. /\ Futures' = Futures /\ Segments' = Segments
        /\ \A r : Own(r)' = Own(r) /\ Waves(r)' = Waves(r)
        /\ \A g : SegmentsOf(g)' = SegmentsOf(g)
        /\ \A g, w : InWave(g, w)' = InWave(g, w)
    BY PlanFrame
  <1>1. \A g \in Futures : g[1] \in Partitions
    BY FutureFacts
  <1>2. \A g \in Futures : /\ fut'[g].at = "hold" => fut[g].at = "hold"
                           /\ g[1] # p => fut'[g] = fut[g]
                           /\ Running(g)' => Running(g) /\ fut'[g] = fut[g]
    BY DEF Running
  <1>3. \A r \in Partitions : io'[r].wave = io[r].wave /\ io'[r].out = io[r].out
    OBVIOUS
  <1>10. KeptApart'
    BY <1>3, <1>f, InvFacts DEF KeptApart, InHand
  <1>11. WaveByWave'
    <2>1. WaveByWave
      BY InvFacts
    <2>2. \A r \in Partitions :
            /\ io'[r].at # "ended" => io'[r].wave \in 1..Waves(r)
            /\ io'[r].at \in {"admit", "stream"} => io'[r].out = <<>>
            /\ io'[r].at = "leave" => query.failing[r] # {} \/ cpu[r].at = "ended"
      BY <2>1 DEF WaveByWave
    <2>3. ASSUME NEW g \in Futures, Running(g)', IsAdmission(g)
          PROVE  /\ g[3] = io'[g[1]].wave /\ io'[g[1]].at \in {"admit", "announce"}
                 /\ io'[g[1]].at = "announce" => fut'[g].at = "hold"
      BY <2>1, <2>3, <1>1, <1>2 DEF WaveByWave
    <2>4. ASSUME NEW g \in Futures, Running(g)', ~IsAdmission(g)
          PROVE  InWave(g, io'[g[1]].wave) /\ io'[g[1]].at \in {"stream", "deliver", "leave"}
      BY <2>1, <2>4, <1>1, <1>2, <1>3 DEF WaveByWave
    <2> QED
      BY <2>2, <2>3, <2>4, <1>f DEF WaveByWave
  <1>12. OpenIsKept'
    BY <1>f, InvFacts DEF OpenIsKept
  <1>13. GateInv'
    BY <1>f, InvFacts DEF GateInv
  <1>14. SlotInv'
    <2> SUFFICES ASSUME NEW r \in Partitions, NEW s \in Own(r)
                 PROVE  /\ Publishes(Io(r), s)' \/ Publishes(Cpu(r), s)' => Over(r, s)'
                        /\ Under(r, s)' => s \in budget'.all \/ Over(r, s)'
      BY <1>f DEF SlotInv
    <2>1. Over(r, s) => Over(r, s)'
      BY DEF Over, Failed
    <2>2. Under(r, s)' => Under(r, s)
      BY <1>2, <1>3, <1>f DEF Under
    <2>3. r = p /\ s \in dropped => Over(r, s)'
      BY DEF Over
    <2> QED
      BY <2>1, <2>2, <2>3, InvFacts DEF SlotInv
  <1>15. VouchedInv'
    <2> SUFFICES ASSUME NEW r \in Partitions, NEW s \in Own(r), Vouched(r, s)
                 PROVE  Vouched(r, s)'
      BY <1>f, InvFacts DEF VouchedInv
    <2>1. ASSUME NEW g \in Futures, g[1] = r, fut[g].at = "hold", s \in SegmentsOf(g),
                 IsAdmission(g) => io[r].at = "admit"
          PROVE  Vouched(r, s)'
      <3>1. CASE r = p /\ fut'[g].at # "hold"
        BY <3>1, <2>1 DEF Vouched
      <3>2. CASE fut'[g].at = "hold"
        <4>1. IsAdmission(g) => io'[r].at = "admit"
          BY <3>2, <2>1, <1>2 DEF Running
        <4> QED
          BY <4>1, <3>2, <2>1, <1>f DEF Vouched
      <3> QED
        BY <3>1, <3>2, <2>1, <1>2
    <2> QED
      BY <2>1, <1>3 DEF Vouched
  <1> QED
    BY <1>10, <1>11, <1>12, <1>13, <1>14, <1>15 DEF PipelineInv
\* A delivery that is queued hands its reservation over.
LEMMA SentInv ==
  ASSUME PipelineInv, PipelineTypeOK', NEW p \in Partitions, Sent(p)
  PROVE  PipelineInv'
  <1> DEFINE f == Admission(p, io[p].wave)
  <1>1. /\ UNCHANGED <<query, budget, chan, cpu, stores, todo>> /\ io[p].out = <<>>
        /\ io[p].at \in {"announce", "deliver"} /\ io' = [io EXCEPT ![p].at = "stream"]
        /\ fut' = IF io[p].at = "announce" THEN [fut EXCEPT ![f].at = "done"] ELSE fut
    BY DEF Sent
  <1>t. /\ fut \in [Futures -> [at : FutureStates, reserved : Nat]]
        /\ io \in [Partitions -> [at : IoStates, wave : Nat, out : Seq(Messages)]]
    BY InvFacts DEF PipelineTypeOK
  <1>2. /\ f \in Futures /\ f[1] = p
    BY <1>1, InvFacts, AdmissionFacts DEF WaveByWave
  <1>3. \A g \in Futures : Running(g) /\ g[1] = p /\ IsAdmission(g) =>
          io[p].at = "announce" /\ g = f
    <2> SUFFICES ASSUME NEW g \in Futures, Running(g), g[1] = p, IsAdmission(g)
                 PROVE  io[p].at = "announce" /\ g = f
      OBVIOUS
    <2>1. g[3] = io[p].wave /\ io[p].at \in {"admit", "announce"}
      BY InvFacts DEF WaveByWave
    <2> QED
      BY <2>1, <1>1, FutureFacts
  <1> HIDE DEF f
  <1>4. /\ \A r \in Partitions \ {p} : io'[r] = io[r]
        /\ io'[p].wave = io[p].wave /\ io'[p].out = io[p].out /\ io'[p].at = "stream"
    BY <1>1, <1>t
  <1>5. /\ \A g \in Futures : fut'[g] = fut[g] \/ (g = f /\ fut'[g].at = "done")
        /\ io[p].at = "announce" => fut'[f].at = "done"
        /\ io[p].at # "announce" => fut' = fut
    BY <1>1, <1>2, <1>t
  <1>6. \A g \in Futures : g[1] = p /\ Running(g)' => ~IsAdmission(g)
    BY <1>3, <1>5 DEF Running
  <1>7. \A g \in Futures : g[1] = p /\ fut[g].at = "hold" /\ fut'[g].at # "hold" =>
          IsAdmission(g) /\ io[p].at = "announce"
    BY <1>1, <1>5, <1>2, AdmissionFacts, InvFacts DEF WaveByWave, f
  <1>8. \A r \in Partitions : \A s :
          /\ Publishes(Io(r), s)' <=> Publishes(Io(r), s)
          /\ Publishes(Cpu(r), s)' <=> Publishes(Cpu(r), s)
          /\ ThreadFree(Cpu(r)) => ThreadFree(Cpu(r))'
    BY <1>1 DEF Publishes, ThreadFree
  <1>9. \A g \in Futures : fut'[g] = fut[g] \/ (g[1] = p /\ fut'[g].at = "done")
    BY <1>2, <1>5
  <1>10. \A g \in Futures : g[1] = p /\ Running(g)' =>
           ~IsAdmission(g) /\ io'[p].at \in {"stream", "deliver", "leave"}
    BY <1>4, <1>6
  <1>d. PICK none : none = {}
    OBVIOUS
  <1>11. \A g \in Futures : g[1] = p /\ fut[g].at = "hold" /\ fut'[g].at # "hold" =>
           SegmentsOf(g) \subseteq none \/ (IsAdmission(g) /\ io[p].at = "announce")
    BY <1>7
  <1>12. /\ \A s : Publishes(Io(p), s)' => Publishes(Io(p), s) \/ s \in none
         /\ \A s : Publishes(Io(p), s) \/ s \in none => Publishes(Io(p), s)'
         /\ none \subseteq Own(p) /\ (none # {} => Failed(p)' \/ cpu[p].at = "ended")
    BY <1>8, <1>d
  <1>13. /\ \A r \in Partitions \ {p} : \A s : Publishes(Io(r), s)' <=> Publishes(Io(r), s)
         /\ \A r \in Partitions : \A s : Publishes(Cpu(r), s)' <=> Publishes(Cpu(r), s)
         /\ \A r \in Partitions : ThreadFree(Cpu(r)) => ThreadFree(Cpu(r))'
    BY <1>8
  <1> QED
    BY <1>1, <1>4, <1>9, <1>10, <1>11, <1>12, <1>13, DoneInv

\* A message that finds the channel closed makes the loop leave.
LEMMA SendFailsInv ==
  ASSUME PipelineInv, PipelineTypeOK', NEW p \in Partitions, SendFails(p)
  PROVE  PipelineInv'
  <1>1. /\ UNCHANGED <<query, budget, chan, cpu, stores>> /\ ThreadFree(Io(p))
        /\ io[p].at \in {"announce", "deliver"} /\ cpu[p].at = "ended"
    BY DEF SendFails, ReceiverClosed
  <1>t. /\ PipelineTypeOK /\ query \in Scenarios
        /\ fut \in [Futures -> [at : FutureStates, reserved : Nat]]
        /\ io \in [Partitions -> [at : IoStates, wave : Nat, out : Seq(Messages)]]
    BY InvFacts DEF PipelineTypeOK
  <1>2. CASE io[p].at = "announce"
    <2> DEFINE f == Admission(p, io[p].wave)
    <2>1. /\ todo' = [todo EXCEPT ![Io(p)] = DropGuard(f)]
          /\ fut' = [fut EXCEPT ![f].at = "done"]
          /\ io' = [io EXCEPT ![p].at = "ended"]
      BY <1>2 DEF SendFails
    <2>2. f \in Futures /\ f[1] = p /\ SegmentsOf(f) \subseteq Own(p)
      BY <1>2, <1>t, InvFacts, AdmissionFacts, SegmentsOfFacts DEF WaveByWave
    <2>3. \A g \in Futures : Running(g) /\ g[1] = p => g = f
      <3> SUFFICES ASSUME NEW g \in Futures, Running(g), g[1] = p
                   PROVE  g = f
        OBVIOUS
      <3>1. IsAdmission(g) /\ g[3] = io[p].wave
        BY <1>2, InvFacts DEF WaveByWave
      <3> QED
        BY <3>1, FutureFacts
    <2> HIDE DEF f
    <2>4. /\ \A r \in Partitions \ {p} : io'[r] = io[r]
          /\ io'[p].wave = io[p].wave /\ io'[p].out = io[p].out /\ io'[p].at = "ended"
      BY <2>1, <1>t
    <2>5. fut'[f].at = "done" /\ \A g \in Futures \ {f} : fut'[g] = fut[g]
      BY <2>1, <2>2, <1>t
    <2>6. /\ \A s : ~Publishes(Io(p), s) /\ (Publishes(Io(p), s)' <=> s \in SegmentsOf(f))
          /\ \A r \in Partitions \ {p} : \A s : Publishes(Io(r), s)' <=> Publishes(Io(r), s)
          /\ \A r \in Partitions : \A s : Publishes(Cpu(r), s)' <=> Publishes(Cpu(r), s)
          /\ \A r \in Partitions : ThreadFree(Cpu(r)) => ThreadFree(Cpu(r))'
      BY <2>1, <2>2, <1>1, <1>t, LoopCall, DropGuardSteps
    <2>7. \A g \in Futures : g[1] = p => ~Running(g)'
      BY <2>3, <2>5 DEF Running
    <2>8. \A g \in Futures : fut'[g] = fut[g] \/ (g[1] = p /\ fut'[g].at = "done")
      BY <2>2, <2>5
    <2>9. \A g \in Futures : g[1] = p /\ fut[g].at = "hold" /\ fut'[g].at # "hold" =>
            SegmentsOf(g) \subseteq SegmentsOf(f)
      BY <2>5
    <2> QED
      BY <1>1, <2>2, <2>4, <2>6, <2>7, <2>8, <2>9, DoneInv
  <1>3. CASE io[p].at = "deliver"
    <2>1. UNCHANGED <<todo, fut>> /\ io' = [io EXCEPT ![p].at = "leave"]
      BY <1>3 DEF SendFails
    <2>2. /\ \A r \in Partitions \ {p} : io'[r] = io[r]
          /\ io'[p].wave = io[p].wave /\ io'[p].out = io[p].out /\ io'[p].at = "leave"
      BY <2>1, <1>t
    <2>3. \A r \in Partitions : \A s :
            /\ Publishes(Io(r), s)' <=> Publishes(Io(r), s)
            /\ Publishes(Cpu(r), s)' <=> Publishes(Cpu(r), s)
            /\ ThreadFree(Cpu(r)) => ThreadFree(Cpu(r))'
      BY <2>1 DEF Publishes, ThreadFree
    <2>4. \A g \in Futures : g[1] = p /\ Running(g)' => ~IsAdmission(g)
      BY <2>1, <1>3, InvFacts DEF WaveByWave, Running
    <2>d. PICK none : none = {}
      OBVIOUS
    <2>5. /\ \A s : Publishes(Io(p), s)' => Publishes(Io(p), s) \/ s \in none
          /\ \A s : Publishes(Io(p), s) \/ s \in none => Publishes(Io(p), s)'
          /\ none \subseteq Own(p) /\ (none # {} => Failed(p)' \/ cpu[p].at = "ended")
      BY <2>3, <2>d
    <2>6. \A g \in Futures : g[1] = p /\ Running(g)' =>
             ~IsAdmission(g) /\ io'[p].at \in {"stream", "deliver", "leave"}
      BY <2>2, <2>4
    <2>7. /\ \A g \in Futures : fut'[g] = fut[g]
          /\ \A g \in Futures : g[1] = p /\ fut[g].at = "hold" /\ fut'[g].at # "hold" =>
               SegmentsOf(g) \subseteq none
      BY <2>1
    <2>8. /\ \A r \in Partitions \ {p} : \A s : Publishes(Io(r), s)' <=> Publishes(Io(r), s)
          /\ \A r \in Partitions : \A s : Publishes(Cpu(r), s)' <=> Publishes(Cpu(r), s)
          /\ \A r \in Partitions : ThreadFree(Cpu(r)) => ThreadFree(Cpu(r))'
      BY <2>3
    <2> QED
      BY <1>1, <1>3, <2>2, <2>5, <2>6, <2>7, <2>8, DoneInv
  <1> QED
    BY <1>1, <1>2, <1>3

\* A loop that leaves drops the guards of its futures, one at a time.
LEMMA LeaveInv ==
  ASSUME PipelineInv, PipelineTypeOK', NEW p \in Partitions, Leave(p)
  PROVE  PipelineInv'
  <1> DEFINE mine == {f \in Futures : f[1] = p}
             held == {f \in mine : ~IsAdmission(f) /\ fut[f].at = "hold"}
  <1>1. /\ UNCHANGED <<query, budget, chan, cpu, stores>> /\ ThreadFree(Io(p))
        /\ io[p].at = "leave"
        /\ \/ \E f \in held : /\ todo' = [todo EXCEPT ![Io(p)] = DropGuard(f)]
                               /\ fut' = [fut EXCEPT ![f].at = "done"]
                               /\ io' = io
           \/ /\ held = {}
              /\ fut' = [f \in Futures |->
                           IF f \in mine THEN [fut[f] EXCEPT !.at = "done"] ELSE fut[f]]
              /\ io' = [io EXCEPT ![p].at = "ended"]
              /\ todo' = todo
    BY DEF Leave
  <1>t. /\ PipelineTypeOK /\ query \in Scenarios
        /\ fut \in [Futures -> [at : FutureStates, reserved : Nat]]
        /\ io \in [Partitions -> [at : IoStates, wave : Nat, out : Seq(Messages)]]
    BY InvFacts DEF PipelineTypeOK
  <1>2. query.failing[p] # {} \/ cpu[p].at = "ended"
    BY <1>1, InvFacts DEF WaveByWave
  <1>3. \A g \in Futures : Running(g) /\ g[1] = p => ~IsAdmission(g)
    BY <1>1, InvFacts DEF WaveByWave
  <1>4. ASSUME NEW f \in held, todo' = [todo EXCEPT ![Io(p)] = DropGuard(f)],
               fut' = [fut EXCEPT ![f].at = "done"], io' = io
        PROVE  PipelineInv'
    <2>2. f \in Futures /\ f[1] = p /\ SegmentsOf(f) \subseteq Own(p)
      BY <1>t, SegmentsOfFacts
    <2>5. fut'[f].at = "done" /\ \A g \in Futures \ {f} : fut'[g] = fut[g]
      BY <1>4, <2>2, <1>t
    <2>6. /\ \A s : ~Publishes(Io(p), s) /\ (Publishes(Io(p), s)' <=> s \in SegmentsOf(f))
          /\ \A r \in Partitions \ {p} : \A s : Publishes(Io(r), s)' <=> Publishes(Io(r), s)
          /\ \A r \in Partitions : \A s : Publishes(Cpu(r), s)' <=> Publishes(Cpu(r), s)
          /\ \A r \in Partitions : ThreadFree(Cpu(r)) => ThreadFree(Cpu(r))'
      BY <1>4, <2>2, <1>1, <1>t, LoopCall, DropGuardSteps
    <2>7. \A g \in Futures : g[1] = p /\ Running(g)' =>
            ~IsAdmission(g) /\ io'[p].at \in {"stream", "deliver", "leave"}
      BY <1>1, <1>3, <1>4, <2>5 DEF Running
    <2>8. \A g \in Futures : fut'[g] = fut[g] \/ (g[1] = p /\ fut'[g].at = "done")
      BY <2>2, <2>5
    <2>9. \A g \in Futures : g[1] = p /\ fut[g].at = "hold" /\ fut'[g].at # "hold" =>
            SegmentsOf(g) \subseteq SegmentsOf(f)
      BY <2>5
    <2>10. Failed(p)' \/ cpu[p].at = "ended"
      BY <1>1, <1>2, <1>4 DEF Failed
    <2>11. /\ UNCHANGED <<query, budget, chan, cpu, stores>>
           /\ \A r \in Partitions \ {p} : io'[r] = io[r]
           /\ io'[p].wave = io[p].wave /\ io'[p].out = io[p].out
           /\ io[p].at = "leave" /\ io'[p].at = "leave"
      BY <1>1, <1>4
    <2>12. PICK dropped : dropped = SegmentsOf(f)
      OBVIOUS
    <2>13. /\ \A s : Publishes(Io(p), s)' => Publishes(Io(p), s) \/ s \in dropped
           /\ \A s : Publishes(Io(p), s) \/ s \in dropped => Publishes(Io(p), s)'
           /\ dropped \subseteq Own(p)
           /\ \A g \in Futures : g[1] = p /\ fut[g].at = "hold" /\ fut'[g].at # "hold" =>
                SegmentsOf(g) \subseteq dropped
      BY <2>2, <2>6, <2>9, <2>12
    <2> HIDE DEF held, mine
    <2> QED
      BY <1>2, <2>6, <2>7, <2>8, <2>10, <2>11, <2>13, DoneInv
  <1>5. ASSUME held = {}, io' = [io EXCEPT ![p].at = "ended"], todo' = todo,
               fut' = [f \in Futures |->
                         IF f \in mine THEN [fut[f] EXCEPT !.at = "done"] ELSE fut[f]]
        PROVE  PipelineInv'
    <2>1. \A g \in Futures : /\ g[1] = p => fut'[g].at = "done"
                             /\ g[1] # p => fut'[g] = fut[g]
      BY <1>5, <1>t
    <2>2. /\ \A r \in Partitions \ {p} : io'[r] = io[r]
          /\ io'[p].wave = io[p].wave /\ io'[p].out = io[p].out /\ io'[p].at = "ended"
      BY <1>5, <1>t
    <2>3. \A r \in Partitions : \A s :
            /\ Publishes(Io(r), s)' <=> Publishes(Io(r), s)
            /\ Publishes(Cpu(r), s)' <=> Publishes(Cpu(r), s)
            /\ ThreadFree(Cpu(r)) => ThreadFree(Cpu(r))'
      BY <1>5 DEF Publishes, ThreadFree
    <2>4. \A g \in Futures : g[1] = p => ~Running(g)'
      BY <2>1 DEF Running
    <2>5. \A g \in Futures : g[1] = p => fut[g].at # "hold"
      BY <1>3, <1>5 DEF Running
    <2>6. \A s : /\ Publishes(Io(p), s)' => Publishes(Io(p), s) \/ s \in {}
                 /\ Publishes(Io(p), s) \/ s \in {} => Publishes(Io(p), s)'
      BY <2>3
    <2>7. \A g \in Futures : fut'[g] = fut[g] \/ (g[1] = p /\ fut'[g].at = "done")
      BY <2>1
    <2> HIDE DEF held, mine
    <2> QED
      BY <1>1, <2>2, <2>3, <2>4, <2>5, <2>6, <2>7, DoneInv
  <1> QED
    BY <1>1, <1>4, <1>5
-----------------------------------------------------------------------------
(* The inductive invariant: the CPU workers *)

\* A call of a CPU worker, and what it publishes.
LEMMA WorkerCall ==
  ASSUME PipelineTypeOK, NEW p \in Partitions, ThreadFree(Cpu(p)),
         NEW steps, StepList(steps), todo' = [todo EXCEPT ![Cpu(p)] = steps]
  PROVE  /\ \A s : ~Publishes(Cpu(p), s) /\ (Publishes(Cpu(p), s)' <=> Vacates(steps, s))
         /\ \A r \in Partitions \ {p} : \A s : Publishes(Cpu(r), s)' <=> Publishes(Cpu(r), s)
         /\ \A r \in Partitions : \A s : Publishes(Io(r), s)' <=> Publishes(Io(r), s)
         /\ \A r \in Partitions \ {p} : ThreadFree(Cpu(r)) => ThreadFree(Cpu(r))'
  <1>1. /\ Cpu(p) \in Threads
        /\ \A r \in Partitions : Io(r) \in Threads \ {Cpu(p)}
        /\ \A r \in Partitions \ {p} : Cpu(r) \in Threads \ {Cpu(p)}
    BY ThreadFacts
  <1>2. /\ \A s : Publishes(Cpu(p), s)' <=> Vacates(steps, s)
        /\ \A u \in Threads \ {Cpu(p)} : \A s : Publishes(u, s)' <=> Publishes(u, s)
    BY <1>1, CallStep
  <1>3. \A s : ~Publishes(Cpu(p), s)
    BY EmptySteps DEF ThreadFree, Publishes
  <1>4. \A r \in Partitions \ {p} : ThreadFree(Cpu(r)) => ThreadFree(Cpu(r))'
    BY <1>1 DEF ThreadFree, PipelineTypeOK
  <1> QED
    BY <1>1, <1>2, <1>3, <1>4

\* A step of a worker that touches at most one segment s.
LEMMA WorkerInv ==
  ASSUME PipelineInv, PipelineTypeOK', NEW p \in Partitions, NEW s \in Own(p),
         UNCHANGED <<query, budget, fut, io>>,
         \A r \in Partitions \ {p} : cpu'[r] = cpu[r] /\ chan'[r] = chan[r],
         \A r \in Segments \ {s} : stores'[r].at = stores[r].at
                                 /\ stores'[r].slotReleased = stores[r].slotReleased,
         \A r : r # s => (r \in ToSet(cpu'[p].order) <=> r \in ToSet(cpu[p].order)),
         \A r : r # s => (Mentions(chan'[p], r) <=> Mentions(chan[p], r)),
         Mentions(chan'[p], s) => Mentions(chan[p], s),
         cpu[p].at # "ended",
         cpu'[p].at = "ended" => cpu'[p].order = <<>> /\ ThreadFree(Cpu(p))',
         stores[s].at \in {"ready", "done"} => stores'[s].at \in {"ready", "done"},
         stores'[s].at = "open" => /\ s \in ToSet(cpu'[p].order)
                                   /\ stores[s].at = "open" \/ Mentions(chan[p], s),
         stores'[s].at \in {"none", "open"} => ~stores'[s].slotReleased,
         \A r : ~Publishes(Cpu(p), r),
         \A r : Publishes(Cpu(p), r)' => r = s /\ stores'[s].at \in {"ready", "done"},
         (stores[s].at = "open" /\ stores'[s].at # "open")
           \/ (Mentions(chan[p], s) /\ ~Mentions(chan'[p], s)) =>
             stores'[s].at = "open" \/ Publishes(Cpu(p), s)',
         \A r \in Partitions \ {p} : \A q : Publishes(Cpu(r), q)' <=> Publishes(Cpu(r), q),
         \A r \in Partitions : \A q : Publishes(Io(r), q)' <=> Publishes(Io(r), q),
         \A r \in Partitions \ {p} : ThreadFree(Cpu(r)) => ThreadFree(Cpu(r))'
  PROVE  PipelineInv'
  <1>f. /\ Futures' = Futures /\ Segments' = Segments
        /\ \A r : Own(r)' = Own(r) /\ Waves(r)' = Waves(r)
        /\ \A g : SegmentsOf(g)' = SegmentsOf(g)
        /\ \A g, w : InWave(g, w)' = InWave(g, w)
    BY PlanFrame
  <1>1. /\ \A r \in Partitions : Own(r) \subseteq Segments
        /\ \A r \in Partitions : s \in Own(r) => r = p
    BY InvFacts, OwnFacts
  <1>10. KeptApart'
    <2> SUFFICES ASSUME NEW r \in Partitions, NEW q \in Segments, InHand(r, q)'
                 PROVE  q \in Own(r)
      BY <1>f DEF KeptApart
    <2>1. CASE r = p /\ q = s
      BY <2>1
    <2>2. CASE ~(r = p /\ q = s)
      <3>1. InHand(r, q)
        BY <2>2 DEF InHand
      <3> QED
        BY <3>1, InvFacts DEF KeptApart
    <2> QED
      BY <2>1, <2>2
  <1>11. WaveByWave'
    <2>1. WaveByWave /\ \A g \in Futures : Running(g)' <=> Running(g)
      BY InvFacts DEF Running
    <2>2. \A r \in Partitions : cpu[r].at = "ended" => cpu'[r].at = "ended"
      OBVIOUS
    <2> QED
      BY <2>1, <2>2, <1>f DEF WaveByWave
  <1>12. OpenIsKept'
    <2>1. OpenIsKept
      BY InvFacts
    <2>2. \A r \in Partitions : cpu'[r].at = "ended" =>
            cpu'[r].order = <<>> /\ ThreadFree(Cpu(r))'
      BY <2>1 DEF OpenIsKept
    <2>3. \A r \in Partitions : \A q \in Own(r) :
            stores'[q].at = "open" => q \in ToSet(cpu'[r].order)
      <3> SUFFICES ASSUME NEW r \in Partitions, NEW q \in Own(r), stores'[q].at = "open"
                   PROVE  q \in ToSet(cpu'[r].order)
        OBVIOUS
      <3>1. CASE q = s
        BY <3>1, <1>1
      <3>2. CASE q # s
        BY <3>2, <2>1, <1>1 DEF OpenIsKept
      <3> QED
        BY <3>1, <3>2
    <2>4. \A q \in Segments : stores'[q].at \in {"none", "open"} => ~stores'[q].slotReleased
      BY <2>1 DEF OpenIsKept
    <2> QED
      BY <2>2, <2>3, <2>4, <1>f DEF OpenIsKept
  <1>13. GateInv'
    BY <1>f, InvFacts DEF GateInv
  <1>14. SlotInv'
    <2> SUFFICES ASSUME NEW r \in Partitions, NEW q \in Own(r)
                 PROVE  /\ Publishes(Io(r), q)' \/ Publishes(Cpu(r), q)' => Over(r, q)'
                        /\ Under(r, q)' => q \in budget'.all \/ Over(r, q)'
      BY <1>f DEF SlotInv
    <2>1. Over(r, q) => Over(r, q)'
      <3>1. CASE q = s
        BY <3>1 DEF Over, Failed
      <3>2. CASE q # s
        BY <3>2, <1>1 DEF Over, Failed
      <3> QED
        BY <3>1, <3>2
    <2>2. Under(r, q)' => Under(r, q)
      <3>1. CASE q = s
        <4>1. r = p
          BY <3>1, <1>1
        <4> QED
          BY <3>1, <4>1, <1>f DEF Under
      <3>2. CASE q # s
        BY <3>2, <1>1, <1>f DEF Under
      <3> QED
        BY <3>1, <3>2
    <2>3. Publishes(Cpu(r), q)' => Publishes(Cpu(r), q) \/ Over(r, q)'
      BY DEF Over
    <2> QED
      BY <2>1, <2>2, <2>3, InvFacts DEF SlotInv
  <1>15. VouchedInv'
    <2> SUFFICES ASSUME NEW r \in Partitions, NEW q \in Own(r), Vouched(r, q)
                 PROVE  Vouched(r, q)'
      BY <1>f, InvFacts DEF VouchedInv
    <2>1. CASE q = s
      <3>1. r = p
        BY <2>1, <1>1
      <3> QED
        BY <2>1, <3>1, <1>f DEF Vouched
    <2>2. CASE q # s
      BY <2>2, <1>1, <1>f DEF Vouched
    <2> QED
      BY <2>1, <2>2
  <1> QED
    BY <1>10, <1>11, <1>12, <1>13, <1>14, <1>15 DEF PipelineInv

\* A worker that only moves on.
LEMMA IdleWorkerInv ==
  ASSUME PipelineInv, PipelineTypeOK', NEW p \in Partitions,
         NothingToEmit(p) \/ SkipIncremental(p) \/ WorkerReturns(p)
  PROVE  PipelineInv'
  <1>1. /\ UNCHANGED <<query, budget, fut, io, chan, stores, todo>>
        /\ ThreadFree(Cpu(p)) /\ cpu[p].at # "ended"
        /\ \E at : /\ cpu' = [cpu EXCEPT ![p].at = at]
                   /\ at = "ended" => cpu[p].order = <<>>
    BY DEF NothingToEmit, SkipIncremental, WorkerReturns, Stopping
  <1>t. /\ PipelineTypeOK /\ query \in Scenarios
        /\ chan \in [Partitions -> Seq(Messages)]
        /\ cpu \in [Partitions -> [at : CpuStates, order : Seq(Segments)]]
        /\ stores \in [Segments -> Stores]
    BY InvFacts DEF PipelineTypeOK
  <1>f. /\ Futures' = Futures /\ Segments' = Segments
        /\ \A r : Own(r)' = Own(r) /\ Waves(r)' = Waves(r)
        /\ \A g : SegmentsOf(g)' = SegmentsOf(g)
        /\ \A g, w : InWave(g, w)' = InWave(g, w)
    BY <1>1, PlanFrame
  <1>2. /\ \A r \in Partitions : cpu'[r].order = cpu[r].order
        /\ \A r \in Partitions \ {p} : cpu'[r] = cpu[r]
    BY <1>1, <1>t
  <1>7. \A r \in Partitions : \A s :
          /\ Publishes(Io(r), s)' <=> Publishes(Io(r), s)
          /\ Publishes(Cpu(r), s)' <=> Publishes(Cpu(r), s)
          /\ ThreadFree(Cpu(r)) <=> ThreadFree(Cpu(r))'
    BY <1>1 DEF Publishes, ThreadFree
  <1>8. \A r \in Partitions : cpu[r].at = "ended" => cpu'[r].at = "ended"
    BY <1>1, <1>2
  <1>9. cpu'[p].at = "ended" => cpu[p].order = <<>>
    BY <1>1, <1>t
  <1>10. KeptApart'
    BY <1>1, <1>2, <1>7, <1>f, InvFacts DEF KeptApart, InHand
  <1>11. WaveByWave'
    BY <1>1, <1>8, <1>f, InvFacts DEF WaveByWave, Running
  <1>12. OpenIsKept'
    <2>1. OpenIsKept
      BY InvFacts
    <2>2. \A r \in Partitions : cpu'[r].at = "ended" =>
            cpu'[r].order = <<>> /\ ThreadFree(Cpu(r))'
      BY <2>1, <1>1, <1>2, <1>7, <1>9 DEF OpenIsKept
    <2> QED
      BY <2>1, <2>2, <1>1, <1>2, <1>f DEF OpenIsKept
  <1>13. GateInv'
    BY <1>1, <1>f, InvFacts DEF GateInv
  <1>14. SlotInv'
    BY <1>1, <1>7, <1>8, <1>f, InvFacts DEF SlotInv, Over, Under, Failed
  <1>15. VouchedInv'
    BY <1>1, <1>7, <1>f, InvFacts DEF VouchedInv, Vouched
  <1> QED
    BY <1>10, <1>11, <1>12, <1>13, <1>14, <1>15 DEF PipelineInv

\* The worker ingests a message.
LEMMA ReceiveInv ==
  ASSUME PipelineInv, PipelineTypeOK', NEW p \in Partitions, Receive(p)
  PROVE  PipelineInv'
  <1>t. /\ PipelineTypeOK /\ query \in Scenarios
        /\ chan \in [Partitions -> Seq(Messages)]
        /\ cpu \in [Partitions -> [at : CpuStates, order : Seq(Segments)]]
        /\ stores \in [Segments -> Stores]
    BY InvFacts DEF PipelineTypeOK
  <1>1. PICK m \in Messages, st \in Stores :
           /\ chan[p] # <<>> /\ m = Head(chan[p]) /\ m.segment \in Segments
           /\ chan' = [chan EXCEPT ![p] = Tail(@)]
           /\ stores[m.segment].at \in {"none", "open"}
           /\ stores' = [stores EXCEPT ![m.segment] = st]
           /\ \/ st.at = "open" /\ st.slotReleased = stores[m.segment].slotReleased
              \/ st.at = "ready" /\ st.slotReleased
           /\ cpu[p].at = "recv"
           /\ \E at \in {"recv", "emit"} :
                cpu' = [cpu EXCEPT ![p].at = at, ![p].order =
                          IF stores[m.segment].at = "none" THEN Append(@, m.segment) ELSE @]
           /\ \/ /\ todo' = [todo EXCEPT ![Cpu(p)] = <<>>]
                 /\ st.at = "ready" => stores[m.segment].slotReleased
              \/ /\ todo' = [todo EXCEPT ![Cpu(p)] = Publish(m.segment)]
                 /\ st.at = "ready"
           /\ UNCHANGED <<query, budget, fut, io>>
    BY <1>t, ReceiveFacts
  <1>2. ThreadFree(Cpu(p))
    BY DEF Receive
  <1> DEFINE s == m.segment
  <1>3. \A r : Mentions(chan[p], r) <=> Mentions(chan'[p], r) \/ r = s
    <2>1. chan'[p] = Tail(chan[p])
      BY <1>1, <1>t
    <2> QED
      BY <2>1, <1>1, <1>t, MentionsTail
  <1>4. s \in Own(p)
    BY <1>1, <1>3, InvFacts DEF KeptApart, InHand
  <1>5. ~stores[s].slotReleased
    BY <1>1, InvFacts DEF OpenIsKept
  <1>6. /\ stores'[s] = st /\ \A r \in Segments \ {s} : stores'[r] = stores[r]
    BY <1>1, <1>t
  <1>7. \A r \in Partitions \ {p} : cpu'[r] = cpu[r] /\ chan'[r] = chan[r]
    BY <1>1, <1>t
  <1>8. cpu'[p].at \in {"recv", "emit"}
        /\ cpu'[p].order = IF stores[s].at = "none" THEN Append(cpu[p].order, s)
                                                   ELSE cpu[p].order
    BY <1>1, <1>t
  <1>9. \A r : r \in ToSet(cpu'[p].order)
              <=> r \in ToSet(cpu[p].order) \/ (stores[s].at = "none" /\ r = s)
    <2>1. \A r : r \in ToSet(Append(cpu[p].order, s)) <=> r \in ToSet(cpu[p].order) \/ r = s
      BY <1>1, <1>t, OrderAppend
    <2> QED
      BY <2>1, <1>8
  <1>10. stores[s].at = "open" => s \in ToSet(cpu[p].order)
    BY <1>4, InvFacts DEF OpenIsKept
  <1>11. /\ \A r : ~Publishes(Cpu(p), r) /\ (Publishes(Cpu(p), r)' <=> r = s /\ st.at = "ready")
         /\ \A r \in Partitions \ {p} : \A q : Publishes(Cpu(r), q)' <=> Publishes(Cpu(r), q)
         /\ \A r \in Partitions : \A q : Publishes(Io(r), q)' <=> Publishes(Io(r), q)
         /\ \A r \in Partitions \ {p} : ThreadFree(Cpu(r)) => ThreadFree(Cpu(r))'
    <2>1. CASE st.at = "ready"
      <3>1. todo' = [todo EXCEPT ![Cpu(p)] = Publish(s)]
        BY <2>1, <1>1, <1>5
      <3>2. StepList(Publish(s)) /\ \A r : Vacates(Publish(s), r) <=> r = s
        BY PublishSteps
      <3>3. /\ \A r : ~Publishes(Cpu(p), r) /\ (Publishes(Cpu(p), r)' <=> Vacates(Publish(s), r))
            /\ \A r \in Partitions \ {p} : \A q : Publishes(Cpu(r), q)' <=> Publishes(Cpu(r), q)
            /\ \A r \in Partitions : \A q : Publishes(Io(r), q)' <=> Publishes(Io(r), q)
            /\ \A r \in Partitions \ {p} : ThreadFree(Cpu(r)) => ThreadFree(Cpu(r))'
        BY <3>1, <3>2, <1>2, <1>t, WorkerCall
      <3> QED
        BY <3>2, <3>3, <2>1
    <2>2. CASE st.at # "ready"
      <3>1. todo' = [todo EXCEPT ![Cpu(p)] = <<>>]
        BY <2>2, <1>1
      <3>2. StepList(<<>>) /\ \A r : ~Vacates(<<>>, r)
        BY EmptySteps
      <3>3. /\ \A r : ~Publishes(Cpu(p), r) /\ (Publishes(Cpu(p), r)' <=> Vacates(<<>>, r))
            /\ \A r \in Partitions \ {p} : \A q : Publishes(Cpu(r), q)' <=> Publishes(Cpu(r), q)
            /\ \A r \in Partitions : \A q : Publishes(Io(r), q)' <=> Publishes(Io(r), q)
            /\ \A r \in Partitions \ {p} : ThreadFree(Cpu(r)) => ThreadFree(Cpu(r))'
        BY <3>1, <3>2, <1>2, <1>t, WorkerCall
      <3> QED
        BY <3>2, <3>3, <2>2
    <2> QED
      BY <2>1, <2>2
  <1>12. /\ st.at \in {"open", "ready"} /\ (st.at = "open" => ~st.slotReleased)
         /\ stores[s].at \in {"none", "open"} /\ cpu[p].at # "ended"
         /\ UNCHANGED <<query, budget, fut, io>>
    BY <1>1, <1>5
  <1> HIDE DEF s
  <1> QED
    BY <1>3, <1>4, <1>6, <1>7, <1>8, <1>9, <1>10, <1>11, <1>12, WorkerInv

\* The worker emits a complete segment and frees its slot.
LEMMA FlushInv ==
  ASSUME PipelineInv, PipelineTypeOK', NEW p \in Partitions, FlushHead(p) \/ DropNext(p)
  PROVE  PipelineInv'
  <1>t. /\ PipelineTypeOK /\ query \in Scenarios
        /\ chan \in [Partitions -> Seq(Messages)]
        /\ cpu \in [Partitions -> [at : CpuStates, order : Seq(Segments)]]
        /\ stores \in [Segments -> Stores]
    BY InvFacts DEF PipelineTypeOK
  <1>0. PICK s : s = Head(cpu[p].order)
    OBVIOUS
  <1>1. /\ UNCHANGED <<query, budget, fut, io, chan>> /\ cpu[p].order # <<>>
        /\ ThreadFree(Cpu(p)) /\ cpu[p].at # "ended"
        /\ stores' = [stores EXCEPT ![s].at = "done", ![s].bytes = 0]
        /\ \E at \in {"emit", "drop"} : cpu' = [cpu EXCEPT ![p].at = at, ![p].order = Tail(@)]
        /\ \/ todo' = [todo EXCEPT ![Cpu(p)] = Release(stores[s].bytes)] /\ stores[s].at # "open"
           \/ todo' = [todo EXCEPT ![Cpu(p)] = DropStore(s)]
    BY <1>0 DEF FlushHead, DropNext, Stopping
  <1>2. /\ s \in Segments /\ s \in ToSet(cpu[p].order)
        /\ \A r : r \in ToSet(cpu[p].order) <=> r \in ToSet(Tail(cpu[p].order)) \/ s = r
    BY <1>0, <1>1, <1>t, OrderTail
  <1>3. s \in Own(p)
    BY <1>2, InvFacts DEF KeptApart, InHand
  <1>4. /\ stores'[s].at = "done" /\ stores'[s].slotReleased = stores[s].slotReleased
        /\ \A r \in Segments \ {s} : stores'[r] = stores[r]
    <2>1. stores[s] \in Stores
      BY <1>2, <1>t
    <2>2. /\ stores'[s] = [stores[s] EXCEPT !.at = "done", !.bytes = 0]
          /\ \A r \in Segments \ {s} : stores'[r] = stores[r]
      BY <1>1, <1>2, <1>t
    <2> QED
      BY <2>1, <2>2 DEF Stores
  <1>5. /\ cpu'[p].order = Tail(cpu[p].order) /\ cpu'[p].at # "ended"
        /\ \A r \in Partitions \ {p} : cpu'[r] = cpu[r]
    BY <1>1, <1>t
  <1>6. /\ \A r : ~Publishes(Cpu(p), r) /\ (Publishes(Cpu(p), r)' => r = s)
        /\ stores[s].at = "open" => Publishes(Cpu(p), s)'
        /\ \A r \in Partitions \ {p} : \A q : Publishes(Cpu(r), q)' <=> Publishes(Cpu(r), q)
        /\ \A r \in Partitions : \A q : Publishes(Io(r), q)' <=> Publishes(Io(r), q)
        /\ \A r \in Partitions \ {p} : ThreadFree(Cpu(r)) => ThreadFree(Cpu(r))'
    <2>1. CASE todo' = [todo EXCEPT ![Cpu(p)] = Release(stores[s].bytes)] /\ stores[s].at # "open"
      BY <2>1, <1>1, <1>t, WorkerCall, QuietCalls, QuietFacts
    <2>2. CASE todo' = [todo EXCEPT ![Cpu(p)] = DropStore(s)]
      <3>1. stores[s].at = "open" => ~stores[s].slotReleased
        BY <1>2, InvFacts DEF OpenIsKept
      <3>2. /\ StepList(DropStore(s))
            /\ \A r : Vacates(DropStore(s), r) <=> r = s /\ ~stores[s].slotReleased
        BY DropStoreSteps
      <3>3. /\ \A r : ~Publishes(Cpu(p), r) /\ (Publishes(Cpu(p), r)' <=> Vacates(DropStore(s), r))
            /\ \A r \in Partitions \ {p} : \A q : Publishes(Cpu(r), q)' <=> Publishes(Cpu(r), q)
            /\ \A r \in Partitions : \A q : Publishes(Io(r), q)' <=> Publishes(Io(r), q)
            /\ \A r \in Partitions \ {p} : ThreadFree(Cpu(r)) => ThreadFree(Cpu(r))'
        BY <2>2, <3>2, <1>1, <1>t, WorkerCall
      <3>4. \A r : Vacates(DropStore(s), r) => r = s
        BY <3>2
      <3>5. stores[s].at = "open" => Vacates(DropStore(s), s)
        BY <3>1, <3>2, Zenon
      <3> QED
        BY <3>3, <3>4, <3>5
    <2> QED
      BY <2>1, <2>2, <1>1
  <1>7. \A r \in Partitions : chan'[r] = chan[r]
    BY <1>1
  <1> QED
    BY <1>1, <1>2, <1>3, <1>4, <1>5, <1>6, <1>7, WorkerInv

\* The worker emits rows of the segment it is at.
LEMMA FlushIncrementalInv ==
  ASSUME PipelineInv, PipelineTypeOK', NEW p \in Partitions, FlushIncremental(p)
  PROVE  PipelineInv'
  <1>t. /\ PipelineTypeOK /\ query \in Scenarios
        /\ chan \in [Partitions -> Seq(Messages)]
        /\ cpu \in [Partitions -> [at : CpuStates, order : Seq(Segments)]]
        /\ stores \in [Segments -> Stores]
    BY InvFacts DEF PipelineTypeOK
  <1>0. PICK s : s = Head(cpu[p].order)
    OBVIOUS
  <1> DEFINE head == Head(cpu[p].order)
  <1>1. /\ UNCHANGED <<query, budget, fut, io, chan>> /\ cpu[p].order # <<>>
        /\ ThreadFree(Cpu(p)) /\ cpu[p].at # "ended" /\ stores[s].at = "open"
    BY <1>0 DEF FlushIncremental
  <1>2. PICK emitted \in BOOLEAN, freed \in 0..stores[head].bytes \cup {0}, hangUp \in MayHangUp(p) :
            /\ stores' = [stores EXCEPT ![head].bytes = @ - freed]
            /\ todo' = [todo EXCEPT ![Cpu(p)] =
                 (IF emitted THEN Reset ELSE EmptyEmit)
                   \o (IF freed > 0 THEN Release(freed) ELSE <<>>)]
            /\ cpu' = [cpu EXCEPT ![p].at = IF hangUp THEN "drop" ELSE "recv"]
    BY FlushIncrementalFacts
  <1>3. s \in Segments /\ s \in ToSet(cpu[p].order)
    BY <1>0, <1>1, <1>t, OrderTail
  <1>4. s \in Own(p) /\ ~stores[s].slotReleased
    BY <1>1, <1>3, InvFacts DEF KeptApart, InHand, OpenIsKept
  <1>5. \A r \in Segments : /\ stores'[r].at = stores[r].at
                            /\ stores'[r].slotReleased = stores[r].slotReleased
    BY <1>0, <1>2, <1>t DEF Stores
  <1>6. /\ cpu'[p].order = cpu[p].order /\ cpu'[p].at # "ended"
        /\ \A r \in Partitions \ {p} : cpu'[r] = cpu[r]
    BY <1>2, <1>t
  <1>7. /\ \A r : ~Publishes(Cpu(p), r) /\ ~Publishes(Cpu(p), r)'
        /\ \A r \in Partitions \ {p} : \A q : Publishes(Cpu(r), q)' <=> Publishes(Cpu(r), q)
        /\ \A r \in Partitions : \A q : Publishes(Io(r), q)' <=> Publishes(Io(r), q)
        /\ \A r \in Partitions \ {p} : ThreadFree(Cpu(r)) => ThreadFree(Cpu(r))'
    <2> DEFINE call == (IF emitted THEN Reset ELSE EmptyEmit)
                         \o (IF freed > 0 THEN Release(freed) ELSE <<>>)
    <2>1. Quiet(call)
      BY QuietCalls, QuietConcat
    <2>2. todo' = [todo EXCEPT ![Cpu(p)] = call]
      BY <1>2
    <2> HIDE DEF call
    <2> QED
      BY <2>1, <2>2, <1>1, <1>t, QuietFacts, WorkerCall
  <1>8. \A r \in Partitions : chan'[r] = chan[r]
    BY <1>1
  <1> QED
    BY <1>1, <1>3, <1>4, <1>5, <1>6, <1>7, <1>8, WorkerInv
-----------------------------------------------------------------------------
(* The inductive invariant: the calls of the budget *)

\* The next step of a call: its publish vacates a slot that is over with.
LEMMA ContinueInv ==
  ASSUME PipelineInv, PipelineTypeOK', NEW t \in Threads, Continue(t)
  PROVE  PipelineInv'
  <1>0. PICK step : step = Head(todo[t])
    OBVIOUS
  <1>1. UNCHANGED <<query, fut, io, chan, cpu, stores>>
    BY DEF Continue
  <1>2. /\ todo[t] # <<>> /\ step.op \in Ops /\ budget' = After(budget, step)
        /\ \A u \in Threads : \A s : Publishes(u, s)' => Publishes(u, s)
        /\ \A u \in Threads : \A s : Publishes(u, s) =>
             \/ Publishes(u, s)'
             \/ step.op = "publish" /\ step.segment = s
        /\ step.op = "publish" => Publishes(t, step.segment)
    BY <1>0, InvFacts, ContinueStep
  <1>3. /\ step.op = "publish" => /\ budget'.all = budget.all \ {step.segment}
                                 /\ budget'.bypass = budget.bypass \ {step.segment}
        /\ step.op # "publish" => budget'.all = budget.all /\ budget'.bypass = budget.bypass
    BY <1>2, InvFacts, AfterFacts DEF PipelineTypeOK
  <1>f. /\ Futures' = Futures /\ Segments' = Segments
        /\ \A r : Own(r)' = Own(r) /\ Waves(r)' = Waves(r)
        /\ \A g : SegmentsOf(g)' = SegmentsOf(g)
        /\ \A g, w : InWave(g, w)' = InWave(g, w)
    BY <1>1, PlanFrame
  <1>4. PICK p \in Partitions : t = Io(p) \/ t = Cpu(p)
    BY ThreadFacts
  <1>5. \A r \in Partitions : Io(r) \in Threads /\ Cpu(r) \in Threads
    BY ThreadFacts
  <1>6. \A r \in Partitions : ThreadFree(Cpu(r)) => ThreadFree(Cpu(r))'
    BY <1>2, <1>5, InvFacts DEF ThreadFree, Continue, PipelineTypeOK
  \* Who gives up its slot is over.
  <1>7. \A r \in Partitions : \A s \in Own(r) : s \in budget.all =>
          s \in budget'.all \/ Over(r, s)
    <2> SUFFICES ASSUME NEW r \in Partitions, NEW s \in Own(r),
                        step.op = "publish", step.segment = s
                 PROVE  Over(r, s)
      BY <1>3
    <2>1. s \in Own(p) /\ (Publishes(Io(p), s) \/ Publishes(Cpu(p), s))
      <3>1. Publishes(Io(p), s) \/ Publishes(Cpu(p), s)
        BY <1>2, <1>4
      <3>2. s \in Segments
        BY InvFacts, OwnFacts
      <3> QED
        BY <3>1, <3>2, InvFacts DEF KeptApart, InHand
    <2>2. r = p
      BY <2>1, InvFacts, OwnFacts
    <2> QED
      BY <2>1, <2>2, InvFacts DEF SlotInv
  <1>10. KeptApart'
    BY <1>1, <1>2, <1>5, <1>f, InvFacts DEF KeptApart, InHand
  <1>11. WaveByWave'
    BY <1>1, <1>f, InvFacts DEF WaveByWave, Running
  <1>12. OpenIsKept'
    BY <1>1, <1>6, <1>f, InvFacts DEF OpenIsKept
  <1>13. GateInv'
    <2>1. /\ IsFiniteSet(budget.all) /\ budget.all \subseteq Segments
          /\ budget.bypass \subseteq budget.all
          /\ Cardinality(budget.all \ budget.bypass) <= query.limit /\ query.limit \in Nat
      BY InvFacts, QueryFacts DEF GateInv
    <2>2. CASE step.op # "publish"
      BY <2>1, <2>2, <1>1, <1>3, <1>f DEF GateInv
    <2>3. CASE step.op = "publish"
      <3> DEFINE D == budget.all \ budget.bypass
                 E == budget'.all \ budget'.bypass
      <3>1. budget'.all \in SUBSET budget.all /\ E \in SUBSET D /\ D \in SUBSET budget.all
        BY <2>3, <1>3
      <3>2. IsFiniteSet(budget'.all) /\ IsFiniteSet(D)
        BY <2>1, <3>1, FS_Subset
      <3> HIDE DEF D, E
      <3>3. IsFiniteSet(E) /\ Cardinality(E) <= Cardinality(D)
        BY <3>1, <3>2, FS_Subset
      <3>4. Cardinality(D) \in Nat /\ Cardinality(E) \in Nat
        BY <3>2, <3>3, FS_CardinalityType
      <3>5. Cardinality(E) <= query.limit
        BY <2>1, <3>3, <3>4 DEF D
      <3> QED
        BY <2>1, <2>3, <3>1, <3>2, <3>5, <1>1, <1>3, <1>f DEF GateInv, E
    <2> QED
      BY <2>2, <2>3
  <1>14. SlotInv'
    <2> SUFFICES ASSUME NEW r \in Partitions, NEW s \in Own(r)
                 PROVE  /\ Publishes(Io(r), s)' \/ Publishes(Cpu(r), s)' => Over(r, s)'
                        /\ Under(r, s)' => s \in budget'.all \/ Over(r, s)'
      BY <1>f DEF SlotInv
    <2>1. Over(r, s)' <=> Over(r, s)
      BY <1>1 DEF Over, Failed
    <2>2. Under(r, s)' => Under(r, s)
      BY <1>1, <1>f DEF Under
    <2> QED
      BY <2>1, <2>2, <1>2, <1>5, <1>7, InvFacts DEF SlotInv
  <1>15. VouchedInv'
    <2> SUFFICES ASSUME NEW r \in Partitions, NEW s \in Own(r), s \in budget'.all
                 PROVE  Vouched(r, s)'
      BY <1>f DEF VouchedInv
    <2>1. s \in budget.all /\ ~(step.op = "publish" /\ step.segment = s)
      BY <1>3
    <2>2. Vouched(r, s)
      BY <2>1, InvFacts DEF VouchedInv
    <2> QED
      BY <2>1, <2>2, <1>1, <1>2, <1>5, <1>f DEF Vouched
  <1> QED
    BY <1>10, <1>11, <1>12, <1>13, <1>14, <1>15 DEF PipelineInv

-----------------------------------------------------------------------------
(* The theorems *)

\* The initial states satisfy the invariant.
LEMMA PipelineInvInit ==
  ASSUME PipelineInit
  PROVE  PipelineInv
  <1>1. PipelineTypeOK /\ query \in Scenarios
    BY TypeInit DEF PipelineInit
  <1>2. /\ \A p \in Partitions : /\ io[p].out = <<>> /\ chan[p] = <<>> /\ cpu[p].order = <<>>
                                 /\ io[p].wave = 1
                                 /\ io[p].at = IF query.order[p] = <<>> THEN "ended" ELSE "admit"
                                 /\ cpu[p].at \in {"ended", "recv"}
        /\ \A f \in Futures : fut[f].at = "idle"
        /\ \A s \in Segments : stores[s].at = "none" /\ ~stores[s].slotReleased
        /\ \A t \in Threads : todo[t] = <<>>
        /\ budget.all = {} /\ budget.bypass = {}
    BY DEF PipelineInit
  <1>3. \A p \in Partitions : Io(p) \in Threads /\ Cpu(p) \in Threads
    BY ThreadFacts
  <1>4. \A s : \A p \in Partitions : /\ ~Publishes(Io(p), s) /\ ~Publishes(Cpu(p), s)
                                     /\ ~Mentions(io[p].out, s) /\ ~Mentions(chan[p], s)
                                     /\ s \notin ToSet(cpu[p].order)
    BY <1>2, <1>3, EmptySteps, MentionsNone DEF Publishes, ToSet
  <1>5. KeptApart
    BY <1>4 DEF KeptApart, InHand
  <1>6. WaveByWave
    <2>1. \A p \in Partitions : io[p].at # "ended" => io[p].wave \in 1..Waves(p)
      BY <1>1, <1>2, OneWave
    <2> QED
      BY <2>1, <1>2 DEF WaveByWave, Running
  <1>7. OpenIsKept
    <2>1. \A p \in Partitions : Own(p) \subseteq Segments
      BY <1>1, OwnFacts
    <2> QED
      BY <2>1, <1>2, <1>3 DEF OpenIsKept, ThreadFree
  <1>8. GateInv
    <2>1. budget.all \ budget.bypass = {}
      BY <1>2
    <2> QED
      BY <2>1, <1>1, <1>2, FS_EmptySet, QueryFacts DEF GateInv
  <1>9. SlotInv
    <2>1. \A p \in Partitions : Own(p) \subseteq Segments
      BY <1>1, OwnFacts
    <2>2. \A p \in Partitions : \A s \in Own(p) : ~Under(p, s)
      BY <2>1, <1>2, <1>4 DEF Under
    <2> QED
      BY <2>2, <1>4 DEF SlotInv
  <1>10. VouchedInv
    BY <1>2 DEF VouchedInv
  <1> QED
    BY <1>1, <1>5, <1>6, <1>7, <1>8, <1>9, <1>10 DEF PipelineInv

\* Every step preserves it.
LEMMA PipelineInvNext ==
  ASSUME PipelineInv, [PipelineNext]_pipelineVars
  PROVE  PipelineInv'
  <1>0. PipelineTypeOK /\ WaveByWave
    BY InvFacts
  <1>1. ASSUME NEW f \in Futures, FutureStep(f)
        PROVE  PipelineInv'
    <2>1. PipelineTypeOK'
      BY <1>0, <1>1, TypeFuture
    <2> QED
      BY <1>1, <2>1, ReserveInv, AdmitInv, WaitingInv, FetchLandsInv, FetchFailsInv
         DEF FutureStep
  <1>2. ASSUME NEW p \in Partitions,
               Announce(p) \/ Send(p) \/ Sent(p) \/ SendFails(p) \/ Leave(p) \/ NextWave(p)
        PROVE  PipelineInv'
    <2>1. PipelineTypeOK'
      BY <1>0, <1>2, TypeLoop
    <2> QED
      BY <1>2, <2>1, AnnounceInv, SendInv, SentInv, SendFailsInv, LeaveInv, NextWaveInv
  <1>3. ASSUME NEW p \in Partitions, CpuStep(p)
        PROVE  PipelineInv'
    <2>1. PipelineTypeOK'
      BY <1>0, <1>3, TypeWorker
    <2> QED
      BY <1>3, <2>1, ReceiveInv, IdleWorkerInv, FlushInv, FlushIncrementalInv DEF CpuStep
  <1>4. ASSUME NEW t \in Threads, Continue(t)
        PROVE  PipelineInv'
    <2>1. PipelineTypeOK'
      BY <1>0, <1>4, TypeContinue
    <2> QED
      BY <1>4, <2>1, ContinueInv
  <1>5. ASSUME UNCHANGED pipelineVars
        PROVE  PipelineInv'
    <2>1. UNCHANGED <<query, budget, fut, io, chan, cpu, stores, todo>>
      BY <1>5 DEF pipelineVars
    <2>f. /\ Futures' = Futures /\ Segments' = Segments /\ Messages' = Messages
          /\ \A r : Own(r)' = Own(r) /\ Waves(r)' = Waves(r)
          /\ \A g : SegmentsOf(g)' = SegmentsOf(g)
          /\ \A g, w : InWave(g, w)' = InWave(g, w)
      BY <2>1, PlanFrame
    <2>2. PipelineTypeOK'
      BY <2>1, <2>f, InvFacts DEF PipelineTypeOK, BudgetRecord
    <2>3. KeptApart'
      BY <2>1, <2>f, InvFacts DEF KeptApart, InHand, Publishes
    <2>4. WaveByWave'
      BY <2>1, <2>f, InvFacts DEF WaveByWave, Running
    <2>5. OpenIsKept'
      BY <2>1, <2>f, InvFacts DEF OpenIsKept, ThreadFree
    <2>6. GateInv'
      BY <2>1, <2>f, InvFacts DEF GateInv
    <2>7. SlotInv'
      BY <2>1, <2>f, InvFacts DEF SlotInv, Publishes, Over, Under, Failed
    <2>8. VouchedInv'
      BY <2>1, <2>f, InvFacts DEF VouchedInv, Vouched, Publishes
    <2> QED
      BY <2>2, <2>3, <2>4, <2>5, <2>6, <2>7, <2>8 DEF PipelineInv
  <1> QED
    BY <1>1, <1>2, <1>3, <1>4, <1>5 DEF PipelineNext, IoStep, CpuStep

-----------------------------------------------------------------------------
\* The theorems.

\* Along every run of the pipeline, whatever the segment limit, the plans, the
\* waves and the failing fetches: segments enter the gate because they fit or,
\* past it, because the reservation is oversize or force_overcommit is set; a
\* segment on its way to its worker keeps its slot until somebody is over with
\* it; and every occupied slot has somebody who will vacate it.
THEOREM PipelineInductive == PipelineSpec => []PipelineInv
  <1>1. PipelineInit => PipelineInv
    BY PipelineInvInit
  <1>2. PipelineInv /\ [PipelineNext]_pipelineVars => PipelineInv'
    BY PipelineInvNext
  <1> QED
    BY <1>1, <1>2, PTL DEF PipelineSpec

\* The workers never have more incomplete segments open than segment_limit, apart
\* from those that the stall breaker or an oversize reservation let past it and
\* those of a partition whose fetch failed, although guards, stores and waiters
\* of every partition take slots and give them back concurrently: an open
\* segment keeps its slot, and try_admit counts the slots.
THEOREM PipelineSegmentLimit == PipelineSpec => []SegmentLimitHolds
  <1>1. ASSUME PipelineInv
        PROVE  SegmentLimitHolds
    <2> DEFINE A == {s \in Segments \ budget.bypass :
                       stores[s].at = "open" /\ ~Failed(PartitionOf(s))}
               D == budget.all \ budget.bypass
    <2>1. /\ IsFiniteSet(budget.all) /\ Cardinality(D) <= query.limit /\ query.limit \in Nat
      BY <1>1, InvFacts, QueryFacts DEF GateInv
    <2>2. ASSUME NEW s \in A
          PROVE  s \in D
      <3>1. PICK p \in Partitions : s \in Own(p)
        BY SegmentFacts
      <3>2. p = PartitionOf(s)
        BY <1>1, <3>1, InvFacts, OwnFacts
      <3>3. s \in ToSet(cpu[p].order)
        BY <1>1, <3>1, InvFacts DEF OpenIsKept
      <3>4. cpu[p].at # "ended"
        <4>1. cpu[p].order # <<>>
          BY <3>3 DEF ToSet
        <4> QED
          BY <1>1, <4>1, InvFacts DEF OpenIsKept
      <3>5. Under(p, s) /\ ~Over(p, s)
        BY <3>2, <3>4 DEF Under, Over
      <3> QED
        BY <1>1, <3>1, <3>5, InvFacts DEF SlotInv
    <2>3. D \in SUBSET budget.all /\ A \in SUBSET D
      BY <2>2
    <2> HIDE DEF A, D
    <2>4. IsFiniteSet(D)
      BY <2>1, <2>3, FS_Subset
    <2>5. Cardinality(A) <= Cardinality(D) /\ IsFiniteSet(A)
      BY <2>3, <2>4, FS_Subset
    <2>6. Cardinality(A) \in Nat /\ Cardinality(D) \in Nat
      BY <2>4, <2>5, FS_CardinalityType
    <2>7. Cardinality(A) <= query.limit
      BY <2>1, <2>5, <2>6
    <2> QED
      BY <2>7 DEF SegmentLimitHolds, A
  <1> QED
    BY <1>1, PipelineInductive, PTL

\* Whether a partition ran to its end or one of its fetches failed, it holds no
\* slot of the gate once its loop and its worker have ended and their calls
\* have returned, except for what the worker never received: the guard, the
\* message or the store that vouches for a slot is gone only after it published.
THEOREM PipelineSlotsReturned == PipelineSpec => []SlotsReturned
  <1>1. ASSUME PipelineInv
        PROVE  SlotsReturned
    <2> SUFFICES ASSUME NEW s \in budget.all, Ended(PartitionOf(s))
                 PROVE  Undelivered(PartitionOf(s))
      BY DEF SlotsReturned
    <2>1. PICK p \in Partitions : s \in Own(p)
      BY <1>1, InvFacts, SegmentFacts DEF GateInv
    <2>2. p = PartitionOf(s)
      BY <1>1, <2>1, InvFacts, OwnFacts
    <2>3. io[p].at = "ended" /\ ThreadFree(Io(p)) /\ cpu[p].at = "ended"
      BY <2>2 DEF Ended
    <2>4. cpu[p].order = <<>> /\ ThreadFree(Cpu(p))
      BY <1>1, <2>3, InvFacts DEF OpenIsKept
    <2>5. ~Publishes(Io(p), s) /\ ~Publishes(Cpu(p), s)
      BY <2>3, <2>4, EmptySteps DEF ThreadFree, Publishes
    <2>6. stores[s].at # "open"
      <3>1. s \notin ToSet(cpu[p].order)
        BY <2>4 DEF ToSet
      <3> QED
        BY <1>1, <2>1, <3>1, InvFacts DEF OpenIsKept
    <2>7. \A f \in Futures : f[1] = p => fut[f].at # "hold"
      BY <1>1, <2>3, InvFacts DEF WaveByWave, Running
    <2>8. Mentions(io[p].out, s) \/ Mentions(chan[p], s)
      BY <1>1, <2>1, <2>5, <2>6, <2>7, InvFacts DEF VouchedInv, Vouched
    <2>9. io[p].out # <<>> \/ chan[p] # <<>>
      BY <2>8, MentionsNone
    <2> QED
      BY <2>2, <2>9 DEF Undelivered
  <1> QED
    BY <1>1, PipelineInductive, PTL

=============================================================================
