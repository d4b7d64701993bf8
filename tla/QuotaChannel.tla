---------------------------- MODULE QuotaChannel ----------------------------
(***************************************************************************)
(* The byte-bounded multi-producer channel of re_quota_channel::sync       *)
(* (native build).                                                         *)
(*                                                                         *)
(* A crossbeam unbounded channel carries the messages; next to it the      *)
(* wrapper keeps a byte count and a receiver count under the mutex         *)
(* `state', a condition variable `state_changed', and a fair mutex         *)
(* `active_sender' that admits one sender at a time.  A message is         *)
(* abstracted to its size.  Every critical section of `state' is one       *)
(* action; what the code does after releasing it (the push into crossbeam, *)
(* the notify_all) is an action of its own, because other threads run in   *)
(* between.                                                                *)
(***************************************************************************)
EXTENDS Integers, Sequences, FiniteSets

CONSTANTS Senders,    \* threads that hold a Sender
          Receivers,  \* handles that may come to exist through Receiver::clone
          First,      \* the handle that channel() returns
          Capacity,   \* capacity_bytes
          Sizes,      \* sizes a message may have
          MaxSends    \* bound: calls of send and try_send in a behaviour

ASSUME QuotaAssumption ==
    /\ IsFiniteSet(Receivers)
    /\ First \in Receivers
    /\ Capacity \in Nat
    /\ Sizes \subseteq Nat
    /\ MaxSends \in Nat

VARIABLES
    queue,            \* sizes in the crossbeam channel, oldest first
    bytes_in_flight,  \* Locked::bytes_in_flight
    num_receivers,    \* Locked::num_receivers
    active_sender,    \* the fair mutex: its holder, then its waiters in order
    sends,            \* calls started so far
    spc,              \* where each sender is
    op,               \* the call each sender is in
    size,             \* size_bytes of that call
    warned,           \* the local `warned' of that call
    rpc,              \* where each receiver handle is
    got               \* size of the message a receiver has taken, not yet counted

senderVars == <<spc, op, size, warned>>
vars == <<queue, bytes_in_flight, num_receivers, active_sender, sends,
          spc, op, size, warned, rpc, got>>

SenderStates == {"idle", "ready", "waiting", "push"}
ReceiverStates ==
    {"unborn", "idle", "account", "notify", "drop_notify", "drop_inner", "gone"}

TypeOK ==
    /\ queue \in Seq(Sizes)
    /\ bytes_in_flight \in Nat
    /\ num_receivers \in Nat
    /\ active_sender \in Seq(Senders)
    /\ sends \in 0..MaxSends
    /\ spc \in [Senders -> SenderStates]
    /\ op \in [Senders -> {"send", "try_send"}]
    /\ size \in [Senders -> Nat]
    /\ warned \in [Senders -> BOOLEAN]
    /\ rpc \in [Receivers -> ReceiverStates]
    /\ got \in [Receivers -> Nat]

Init ==
    /\ queue = <<>>
    /\ bytes_in_flight = 0
    /\ num_receivers = 1
    /\ active_sender = <<>>
    /\ sends = 0
    /\ spc = [s \in Senders |-> "idle"]
    /\ op = [s \in Senders |-> "send"]
    /\ size = [s \in Senders |-> 0]
    /\ warned = [s \in Senders |-> FALSE]
    /\ rpc = [r \in Receivers |-> IF r = First THEN "idle" ELSE "unborn"]
    /\ got = [r \in Receivers |-> 0]

-----------------------------------------------------------------------------
(* Senders *)

Holds(s) == active_sender # <<>> /\ Head(active_sender) = s

\* Mutant: the message itself is left out of the comparison.
RoomIgnoringSize(z) == IF z <= Capacity THEN bytes_in_flight <= Capacity
                                        ELSE bytes_in_flight = 0

\* The condition both wait loops of send_impl wait for: a message that can
\* fit waits for room, a larger one waits for an empty channel.
Room(z) == IF z <= Capacity THEN bytes_in_flight + z <= Capacity
                            ELSE bytes_in_flight = 0

\* The crossbeam receiver inside the handle is dropped after Drop::drop ran.
InnerReceivers == {r \in Receivers : rpc[r] \notin {"unborn", "gone"}}

\* The call returns and its guard on the fair mutex is dropped.
Return(s) ==
    /\ spc' = [spc EXCEPT ![s] = "idle"]
    /\ active_sender' = Tail(active_sender)

\* send, send_with_size or try_send is called: queue up for `active_sender'.
Call(s, o, z) ==
    /\ spc[s] = "idle"
    /\ sends < MaxSends
    /\ sends' = sends + 1
    /\ spc' = [spc EXCEPT ![s] = "ready"]
    /\ op' = [op EXCEPT ![s] = o]
    /\ size' = [size EXCEPT ![s] = z]
    /\ warned' = [warned EXCEPT ![s] = FALSE]
    /\ active_sender' = Append(active_sender, s)
    /\ UNCHANGED <<queue, bytes_in_flight, num_receivers, rpc, got>>

\* The bytes are counted before the message is pushed.
Reserve(s) ==
    /\ spc[s] = "ready"
    /\ Holds(s)
    /\ \/ op[s] = "send" /\ Room(size[s])
       \/ op[s] = "try_send" /\ (bytes_in_flight + size[s] <= Capacity
                                   \/ bytes_in_flight = 0)
    /\ bytes_in_flight' = bytes_in_flight + size[s]
    /\ spc' = [spc EXCEPT ![s] = "push"]
    /\ UNCHANGED <<queue, num_receivers, active_sender, sends, op, size,
                   warned, rpc, got>>

\* try_send: Err(Full).
TrySendFull(s) ==
    /\ spc[s] = "ready"
    /\ Holds(s)
    /\ op[s] = "try_send"
    /\ Capacity < bytes_in_flight + size[s]
    /\ 0 < bytes_in_flight
    /\ Return(s)
    /\ UNCHANGED <<queue, bytes_in_flight, num_receivers, sends, op, size,
                   warned, rpc, got>>

\* One turn of the wait loop.  The condition variable releases `state' and
\* parks in one step.  `warned' may be set once 5 seconds have gone by.
Wait(s) ==
    /\ spc[s] = "ready"
    /\ Holds(s)
    /\ op[s] = "send"
    /\ ~Room(size[s])
    /\ num_receivers # 0
    /\ \E w \in {warned[s], TRUE} : warned' = [warned EXCEPT ![s] = w]
    /\ spc' = [spc EXCEPT ![s] = "waiting"]
    /\ UNCHANGED <<queue, bytes_in_flight, num_receivers, active_sender, sends,
                   op, size, rpc, got>>

\* Mutant: the wait loop for an oversized message does not look at the count
\* of receivers.
GiveUpUnlessOversized(s) ==
    /\ spc[s] = "ready"
    /\ Holds(s)
    /\ op[s] = "send"
    /\ size[s] <= Capacity
    /\ ~Room(size[s])
    /\ num_receivers = 0
    /\ Return(s)
    /\ UNCHANGED <<queue, bytes_in_flight, num_receivers, sends, op, size,
                   warned, rpc, got>>

\* The wait loop finds that every receiver was dropped: Err(SendError).
GiveUp(s) ==
    /\ spc[s] = "ready"
    /\ Holds(s)
    /\ op[s] = "send"
    /\ ~Room(size[s])
    /\ num_receivers = 0
    /\ Return(s)
    /\ UNCHANGED <<queue, bytes_in_flight, num_receivers, sends, op, size,
                   warned, rpc, got>>

\* wait_for returns without a notification; once `warned' is set the sender
\* waits without a timeout.
Timeout(s) ==
    /\ spc[s] = "waiting"
    /\ ~warned[s]
    /\ spc' = [spc EXCEPT ![s] = "ready"]
    /\ UNCHANGED <<queue, bytes_in_flight, num_receivers, active_sender, sends,
                   op, size, warned, rpc, got>>

\* tx.send: fails, and leaves the bytes counted, when no inner receiver is left.
Push(s) ==
    /\ spc[s] = "push"
    /\ queue' = IF InnerReceivers = {} THEN queue ELSE Append(queue, size[s])
    /\ Return(s)
    /\ UNCHANGED <<bytes_in_flight, num_receivers, sends, op, size, warned,
                   rpc, got>>

-----------------------------------------------------------------------------
(* Receivers *)

\* state_changed.notify_all
NotifyAll ==
    spc' = [s \in Senders |-> IF spc[s] = "waiting" THEN "ready" ELSE spc[s]]

\* recv, recv_timeout, try_recv, or a selected operation: take the message.
Take(r) ==
    /\ rpc[r] = "idle"
    /\ queue # <<>>
    /\ queue' = Tail(queue)
    /\ got' = [got EXCEPT ![r] = Head(queue)]
    /\ rpc' = [rpc EXCEPT ![r] = "account"]
    /\ UNCHANGED <<bytes_in_flight, num_receivers, active_sender, sends,
                   senderVars>>

\* Mutant: the receiver returns without notify_all.
AccountQuietly(r) ==
    /\ rpc[r] = "account"
    /\ bytes_in_flight' = IF got[r] <= bytes_in_flight
                            THEN bytes_in_flight - got[r] ELSE 0
    /\ rpc' = [rpc EXCEPT ![r] = "idle"]
    /\ got' = [got EXCEPT ![r] = 0]
    /\ UNCHANGED <<queue, num_receivers, active_sender, sends, senderVars>>

\* Mutant: a message larger than the channel is not counted off.
AccountUpToCapacity(r) ==
    /\ rpc[r] = "account"
    /\ bytes_in_flight' = IF got[r] <= Capacity
                            THEN bytes_in_flight - got[r] ELSE bytes_in_flight
    /\ rpc' = [rpc EXCEPT ![r] = "notify"]
    /\ got' = [got EXCEPT ![r] = 0]
    /\ UNCHANGED <<queue, num_receivers, active_sender, sends, senderVars>>

\* manual_on_receive, first half: saturating_sub under the lock.
Account(r) ==
    /\ rpc[r] = "account"
    /\ bytes_in_flight' = IF got[r] <= bytes_in_flight
                            THEN bytes_in_flight - got[r] ELSE 0
    /\ rpc' = [rpc EXCEPT ![r] = "notify"]
    /\ got' = [got EXCEPT ![r] = 0]
    /\ UNCHANGED <<queue, num_receivers, active_sender, sends, senderVars>>

\* manual_on_receive, second half.
Notify(r) ==
    /\ rpc[r] = "notify"
    /\ NotifyAll
    /\ rpc' = [rpc EXCEPT ![r] = "idle"]
    /\ UNCHANGED <<queue, bytes_in_flight, num_receivers, active_sender, sends,
                   op, size, warned, got>>

\* Mutant: a derived Clone, which leaves the count alone.
CloneWithoutCount(r, new) ==
    /\ rpc[r] = "idle"
    /\ rpc[new] = "unborn"
    /\ rpc' = [rpc EXCEPT ![new] = "idle"]
    /\ UNCHANGED <<queue, bytes_in_flight, num_receivers, active_sender, sends,
                   senderVars, got>>

\* Receiver::clone
CloneReceiver(r, new) ==
    /\ rpc[r] = "idle"
    /\ rpc[new] = "unborn"
    /\ num_receivers' = num_receivers + 1
    /\ rpc' = [rpc EXCEPT ![new] = "idle"]
    /\ UNCHANGED <<queue, bytes_in_flight, active_sender, sends, senderVars, got>>

\* Drop::drop: the count goes down under the lock ...
DropReceiver(r) ==
    /\ rpc[r] = "idle"
    /\ num_receivers' = num_receivers - 1
    /\ rpc' = [rpc EXCEPT ![r] =
                 IF num_receivers - 1 = 0 THEN "drop_notify" ELSE "drop_inner"]
    /\ UNCHANGED <<queue, bytes_in_flight, active_sender, sends, senderVars, got>>

\* ... the last one wakes the senders after the lock is released ...
DropNotify(r) ==
    /\ rpc[r] = "drop_notify"
    /\ NotifyAll
    /\ rpc' = [rpc EXCEPT ![r] = "drop_inner"]
    /\ UNCHANGED <<queue, bytes_in_flight, num_receivers, active_sender, sends,
                   op, size, warned, got>>

\* ... and then the field `rx' is dropped.  The last crossbeam receiver
\* discards what is still queued; the byte count is not adjusted.
DropInner(r) ==
    /\ rpc[r] = "drop_inner"
    /\ rpc' = [rpc EXCEPT ![r] = "gone"]
    /\ queue' = IF InnerReceivers = {r} THEN <<>> ELSE queue
    /\ UNCHANGED <<bytes_in_flight, num_receivers, active_sender, sends,
                   senderVars, got>>

-----------------------------------------------------------------------------

SendCall(s) == \E z \in Sizes : Call(s, "send", z)
TrySendCall(s) == \E z \in Sizes : Call(s, "try_send", z)

SenderStep(s) ==
    Reserve(s) \/ TrySendFull(s) \/ Wait(s) \/ GiveUp(s) \/ Push(s)

ReceiverStep(r) == Take(r) \/ Account(r) \/ Notify(r)

DropStep(r) == DropNotify(r) \/ DropInner(r)

Next ==
    \/ \E s \in Senders :
          SendCall(s) \/ TrySendCall(s) \/ SenderStep(s) \/ Timeout(s)
    \/ \E r \in Receivers :
          \/ ReceiverStep(r)
          \/ DropReceiver(r)
          \/ DropStep(r)
          \/ \E new \in Receivers : CloneReceiver(r, new)

\* Threads keep running: a sender inside a call goes on, a receiver handle
\* that was not dropped keeps being read, a drop that began completes.
\* Calls, clones, drops and the 5 second timeout need never happen.
Fairness ==
    /\ \A s \in Senders : WF_vars(SenderStep(s))
    /\ \A r \in Receivers : WF_vars(ReceiverStep(r)) /\ WF_vars(DropStep(r))

Spec == Init /\ [][Next]_vars
FairSpec == Spec /\ Fairness

-----------------------------------------------------------------------------
(* Properties *)

Proceeds(s) == num_receivers = 0 \/ Room(size[s])

\* A sender parked on the condition variable while its wait condition already
\* holds is about to be woken: somebody has changed the state and not yet
\* called notify_all.  (manual_on_receive and Drop notify after they release
\* the lock, and a sender that has warned waits without a timeout.)
NoLostWakeup ==
    \A s \in Senders :
        spc[s] = "waiting" /\ Proceeds(s)
          => \E r \in Receivers : rpc[r] \in {"notify", "drop_notify"}

\* Only the holder of `active_sender' is past the lock, and nobody is queued
\* on it twice: two senders can never both see room and both take it.
OneActiveSender ==
    /\ \A s \in Senders : spc[s] \in {"waiting", "push"} => Holds(s)
    /\ \A i, j \in 1..Len(active_sender) :
          active_sender[i] = active_sender[j] => i = j
    /\ \A s \in Senders :
          spc[s] = "idle" <=> \A i \in 1..Len(active_sender) : active_sender[i] # s

\* num_receivers counts the handles whose Drop has not run.
ReceiverCount ==
    num_receivers =
        Cardinality({r \in Receivers : rpc[r] \in {"idle", "account", "notify"}})

\* The messages whose bytes the channel still counts: in the crossbeam channel,
\* reserved by a sender that has not pushed yet, or taken by a receiver that
\* has not counted them off yet.  A message is told apart by where it is.
InFlight ==
    {<<"queued", i, queue[i]>> : i \in 1..Len(queue)}
      \cup {<<"reserved", s, size[s]>> : s \in {t \in Senders : spc[t] = "push"}}
      \cup {<<"taken", r, got[r]>> : r \in {t \in Receivers : rpc[t] = "account"}}

\* The single bytes of a set of messages.
Bytes(M) == UNION {{m} \X (1..m[3]) : m \in M}

\* The budget is exceeded only while one message that is larger than all of it
\* is in flight, and then nothing else that has a size is in flight with it.
\* (Once the last crossbeam receiver is gone nobody counts bytes off any more.)
WithinBudget ==
    InnerReceivers # {} /\ Capacity < bytes_in_flight =>
        \E m \in InFlight : /\ m[3] = bytes_in_flight
                            /\ \A n \in InFlight \ {m} : n[3] = 0

\* Until the channel is disconnected the byte count is exactly the bytes that
\* are reserved, queued, or taken and not yet counted off: no path loses or
\* double-counts a size, and the saturating subtraction never saturates.
ByteAccounting ==
    InnerReceivers # {} => bytes_in_flight = Cardinality(Bytes(InFlight))

\* A blocked send is not forgotten: every call returns as long as the handles
\* that exist are read from (or dropped).
CallsReturn == \A s \in Senders : spc[s] # "idle" ~> spc[s] = "idle"

\* "Try to send a message without blocking": a try_send never queues behind a
\* sender that is parked on the condition variable.
TrySendDoesNotBlock ==
    \A s, t \in Senders :
        op[s] = "try_send" /\ spc[s] = "ready" /\ Holds(t) => spc[t] # "waiting"
=============================================================================
