-------------------------- MODULE BroadcastChannel --------------------------
(***************************************************************************)
(* The byte- and count-bounded broadcast channel of                        *)
(* re_quota_channel::async_broadcast_channel.                              *)
(*                                                                         *)
(* It wraps tokio::sync::broadcast (external, modelled from how it is      *)
(* used): a log of messages, and per receiver the position it reads next.  *)
(* tokio overwrites the oldest slot when its buffer is full; the wrapper   *)
(* keeps that from happening by counting the messages that some receiver   *)
(* has not consumed and making senders wait.  A message is counted until   *)
(* its last reference (an unread slot or a receiver's clone) is dropped.   *)
(***************************************************************************)
EXTENDS Integers, Sequences, FiniteSets, Functions

CONSTANTS Senders,      \* tasks that call send_async
          Receivers,    \* receivers that may come to exist through subscribe
          First,        \* the receiver that channel() returns
          MaxMessages,  \* max_messages, after .max(1)
          MaxBytes,     \* max_bytes
          Sizes,        \* sizes a message may have
          MaxSends      \* bound: calls of send_async in a behaviour

ASSUME BroadcastAssumption ==
    /\ IsFiniteSet(Senders)
    /\ IsFiniteSet(Receivers)
    /\ First \in Receivers
    /\ MaxMessages \in Nat \ {0}
    /\ MaxBytes \in Nat
    /\ Sizes \subseteq Nat
    /\ MaxSends \in Nat

VARIABLES
    log,                 \* sizes of all messages accepted by inner.send
    bytes_in_flight,     \* Locked::bytes_in_flight
    messages_in_flight,  \* Locked::messages_in_flight
    num_receivers,       \* Locked::num_receivers
    sends,               \* calls started so far
    spc, size, warned,   \* per sender: where it is, msg_bytes, the local `warned'
    rpc,                 \* where each receiver is
    next,                \* position in log that each receiver reads next
    until                \* position at which a dropped receiver stops draining

vars == <<log, bytes_in_flight, messages_in_flight, num_receivers, sends,
          spc, size, warned, rpc, next, until>>
senderVars == <<spc, size, warned>>
counters == <<bytes_in_flight, messages_in_flight>>

SenderStates == {"idle", "try", "reserved", "full", "parked", "notify"}
ReceiverStates == {"unborn", "subscribing", "idle", "holding", "notify",
                   "drop_notify", "detach", "draining", "drain_notify", "gone"}

TypeOK ==
    /\ log \in Seq(Sizes)
    /\ bytes_in_flight \in Int
    /\ messages_in_flight \in Nat
    /\ num_receivers \in Nat
    /\ sends \in 0..MaxSends
    /\ spc \in [Senders -> SenderStates]
    /\ size \in [Senders -> Nat]
    /\ warned \in [Senders -> BOOLEAN]
    /\ rpc \in [Receivers -> ReceiverStates]
    /\ next \in [Receivers -> Nat \ {0}]
    /\ until \in [Receivers -> Nat]

Init ==
    /\ log = <<>>
    /\ bytes_in_flight = 0
    /\ messages_in_flight = 0
    /\ num_receivers = 1
    /\ sends = 0
    /\ spc = [s \in Senders |-> "idle"]
    /\ size = [s \in Senders |-> 0]
    /\ warned = [s \in Senders |-> FALSE]
    /\ rpc = [r \in Receivers |-> IF r = First THEN "idle" ELSE "unborn"]
    /\ next = [r \in Receivers |-> 1]
    /\ until = [r \in Receivers |-> 0]

-----------------------------------------------------------------------------
(* tokio::sync::broadcast *)

\* Receivers that inner.send counts.
Attached(r) == rpc[r] \in {"idle", "holding", "notify", "drop_notify", "detach"}

\* r still has to read slot p.
Unread(r, p) ==
    /\ next[r] <= p
    /\ \/ Attached(r)
       \/ rpc[r] \in {"draining", "drain_notify"} /\ p < until[r]

\* r holds a clone of the message it has just read.
Holding(r, p) == rpc[r] = "holding" /\ next[r] = p + 1

Refers(r, p) == Unread(r, p) \/ Holding(r, p)

\* Messages whose TrackedInner is still referenced.
Live == {p \in 1..Len(log) : \E r \in Receivers : Refers(r, p)}

\* Mutant: every clone counts the message off, not only the last.
DropEveryReference(r, p, notifying, done) ==
    /\ rpc' = [rpc EXCEPT ![r] = notifying]
    /\ bytes_in_flight' = bytes_in_flight - log[p]
    /\ messages_in_flight' = messages_in_flight - 1

\* Drop of a reference of r to message p.  The last one runs
\* TrackedInner::drop, whose notify_waiters comes after the lock is released.
DropReference(r, p, notifying, done) ==
    IF \E q \in Receivers \ {r} : Refers(q, p)
      THEN /\ rpc' = [rpc EXCEPT ![r] = done]
           /\ UNCHANGED counters
      ELSE /\ rpc' = [rpc EXCEPT ![r] = notifying]
           /\ bytes_in_flight' = bytes_in_flight - log[p]
           /\ messages_in_flight' = messages_in_flight - 1

\* Notify::notify_waiters wakes the Notified futures that exist, and leaves
\* nothing behind for those that do not exist yet.
Woken(s) == IF spc[s] = "parked" THEN "try" ELSE spc[s]
NotifyWaiters == spc' = [s \in Senders |-> Woken(s)]

-----------------------------------------------------------------------------
(* Sender *)

SendAsync(s, z) ==
    /\ spc[s] = "idle"
    /\ sends < MaxSends
    /\ sends' = sends + 1
    /\ spc' = [spc EXCEPT ![s] = "try"]
    /\ size' = [size EXCEPT ![s] = z]
    /\ warned' = [warned EXCEPT ![s] = FALSE]
    /\ UNCHANGED <<log, counters, num_receivers, rpc, next, until>>

\* Mutant: one message too many.
WithinLimitsOffByOne(z) ==
    \/ messages_in_flight <= MaxMessages /\ bytes_in_flight + z <= MaxBytes
    \/ bytes_in_flight = 0 /\ messages_in_flight = 0

WithinLimits(z) ==
    \/ messages_in_flight + 1 <= MaxMessages /\ bytes_in_flight + z <= MaxBytes
    \/ bytes_in_flight = 0 /\ messages_in_flight = 0

\* try_send finds no receivers.
NoReceivers(s) ==
    /\ spc[s] = "try"
    /\ num_receivers = 0
    /\ spc' = [spc EXCEPT ![s] = "idle"]
    /\ UNCHANGED <<log, counters, num_receivers, sends, size, warned, rpc,
                   next, until>>

\* try_send counts the message ...
Reserve(s) ==
    /\ spc[s] = "try"
    /\ num_receivers # 0
    /\ WithinLimits(size[s])
    /\ bytes_in_flight' = bytes_in_flight + size[s]
    /\ messages_in_flight' = messages_in_flight + 1
    /\ spc' = [spc EXCEPT ![s] = "reserved"]
    /\ UNCHANGED <<log, num_receivers, sends, size, warned, rpc, next, until>>

\* ... or returns Full.
Full(s) ==
    /\ spc[s] = "try"
    /\ num_receivers # 0
    /\ ~WithinLimits(size[s])
    /\ spc' = [spc EXCEPT ![s] = "full"]
    /\ UNCHANGED <<log, counters, num_receivers, sends, size, warned, rpc,
                   next, until>>

\* inner.send with at least one tokio receiver: Ok(n).
InnerSend(s) ==
    /\ spc[s] = "reserved"
    /\ \E r \in Receivers : Attached(r)
    /\ log' = Append(log, size[s])
    /\ spc' = [spc EXCEPT ![s] = "idle"]
    /\ UNCHANGED <<counters, num_receivers, sends, size, warned, rpc, next, until>>

\* Mutant: the error path forgets the bytes.
InnerSendFailsKeepingBytes(s) ==
    /\ spc[s] = "reserved"
    /\ \A r \in Receivers : ~Attached(r)
    /\ messages_in_flight' = messages_in_flight - 1
    /\ spc' = [spc EXCEPT ![s] = "notify"]
    /\ UNCHANGED <<log, bytes_in_flight, num_receivers, sends, size, warned, rpc,
                   next, until>>

\* inner.send without one: the TrackedMessage that comes back is dropped.
InnerSendFails(s) ==
    /\ spc[s] = "reserved"
    /\ \A r \in Receivers : ~Attached(r)
    /\ bytes_in_flight' = bytes_in_flight - size[s]
    /\ messages_in_flight' = messages_in_flight - 1
    /\ spc' = [spc EXCEPT ![s] = "notify"]
    /\ UNCHANGED <<log, num_receivers, sends, size, warned, rpc, next, until>>

InnerSendFailsNotify(s) ==
    /\ spc[s] = "notify"
    /\ spc' = [t \in Senders |-> IF t = s THEN "idle" ELSE Woken(t)]
    /\ UNCHANGED <<log, counters, num_receivers, sends, size, warned, rpc,
                   next, until>>

\* After Full, send_async sets `warned' once 5 seconds have gone by, and only
\* now creates the Notified future.
Park(s) ==
    /\ spc[s] = "full"
    /\ \E w \in {warned[s], TRUE} : warned' = [warned EXCEPT ![s] = w]
    /\ spc' = [spc EXCEPT ![s] = "parked"]
    /\ UNCHANGED <<log, counters, num_receivers, sends, size, rpc, next, until>>

\* Mutant: the sleep is armed after the warning instead of before it.
TimeoutOnlyWarned(s) ==
    /\ spc[s] = "parked"
    /\ warned[s]
    /\ spc' = [spc EXCEPT ![s] = "try"]
    /\ UNCHANGED <<log, counters, num_receivers, sends, size, warned, rpc,
                   next, until>>

\* The sleep of the select! ends; a sender that has warned has no sleep.
Timeout(s) ==
    /\ spc[s] = "parked"
    /\ ~warned[s]
    /\ spc' = [spc EXCEPT ![s] = "try"]
    /\ UNCHANGED <<log, counters, num_receivers, sends, size, warned, rpc,
                   next, until>>

-----------------------------------------------------------------------------
(* Receivers *)

\* subscribe: the count goes up first, the tokio receiver is made next.
Subscribe(r) ==
    /\ rpc[r] = "unborn"
    /\ num_receivers' = num_receivers + 1
    /\ rpc' = [rpc EXCEPT ![r] = "subscribing"]
    /\ UNCHANGED <<log, counters, sends, senderVars, next, until>>

InnerSubscribe(r) ==
    /\ rpc[r] = "subscribing"
    /\ next' = [next EXCEPT ![r] = Len(log) + 1]
    /\ rpc' = [rpc EXCEPT ![r] = "idle"]
    /\ UNCHANGED <<log, counters, num_receivers, sends, senderVars, until>>

\* Mutant: a receiver that is behind skips to the newest message.
RecvNewest(r) ==
    /\ rpc[r] = "idle"
    /\ next[r] <= Len(log)
    /\ next' = [next EXCEPT ![r] = Len(log) + 1]
    /\ rpc' = [rpc EXCEPT ![r] = "holding"]
    /\ UNCHANGED <<log, counters, num_receivers, sends, senderVars, until>>

\* inner.recv clones the message out of its slot ...
Recv(r) ==
    /\ rpc[r] = "idle"
    /\ next[r] <= Len(log)
    /\ next' = [next EXCEPT ![r] = @ + 1]
    /\ rpc' = [rpc EXCEPT ![r] = "holding"]
    /\ UNCHANGED <<log, counters, num_receivers, sends, senderVars, until>>

\* ... and recv returns its value and drops the clone.
RecvReturn(r) ==
    /\ rpc[r] = "holding"
    /\ DropReference(r, next[r] - 1, "notify", "idle")
    /\ UNCHANGED <<log, num_receivers, sends, senderVars, next, until>>

RecvNotify(r) ==
    /\ rpc[r] = "notify"
    /\ NotifyWaiters
    /\ rpc' = [rpc EXCEPT ![r] = "idle"]
    /\ UNCHANGED <<log, counters, num_receivers, sends, size, warned, next, until>>

\* Drop::drop of the wrapper.
DropReceiver(r) ==
    /\ rpc[r] = "idle"
    /\ num_receivers' = num_receivers - 1
    /\ rpc' = [rpc EXCEPT ![r] =
                 IF num_receivers - 1 = 0 THEN "drop_notify" ELSE "detach"]
    /\ UNCHANGED <<log, counters, sends, senderVars, next, until>>

DropNotify(r) ==
    /\ rpc[r] = "drop_notify"
    /\ NotifyWaiters
    /\ rpc' = [rpc EXCEPT ![r] = "detach"]
    /\ UNCHANGED <<log, counters, num_receivers, sends, size, warned, next, until>>

\* Drop of the tokio receiver: it is no longer counted by inner.send, and
\* then reads, one by one, what it had not read.
Detach(r) ==
    /\ rpc[r] = "detach"
    /\ until' = [until EXCEPT ![r] = Len(log) + 1]
    /\ rpc' = [rpc EXCEPT ![r] = "draining"]
    /\ UNCHANGED <<log, counters, num_receivers, sends, senderVars, next>>

Drain(r) ==
    /\ rpc[r] = "draining"
    /\ next[r] < until[r]
    /\ next' = [next EXCEPT ![r] = @ + 1]
    /\ DropReference(r, next[r], "drain_notify", "draining")
    /\ UNCHANGED <<log, num_receivers, sends, senderVars, until>>

DrainNotify(r) ==
    /\ rpc[r] = "drain_notify"
    /\ NotifyWaiters
    /\ rpc' = [rpc EXCEPT ![r] = "draining"]
    /\ UNCHANGED <<log, counters, num_receivers, sends, size, warned, next, until>>

Drained(r) ==
    /\ rpc[r] = "draining"
    /\ next[r] >= until[r]
    /\ rpc' = [rpc EXCEPT ![r] = "gone"]
    /\ UNCHANGED <<log, counters, num_receivers, sends, senderVars, next, until>>

-----------------------------------------------------------------------------

SendCall(s) == \E z \in Sizes : SendAsync(s, z)

SenderStep(s) ==
    \/ NoReceivers(s) \/ Reserve(s) \/ Full(s) \/ InnerSend(s)
    \/ InnerSendFails(s) \/ InnerSendFailsNotify(s) \/ Park(s) \/ Timeout(s)

ReceiverStep(r) == InnerSubscribe(r) \/ Recv(r) \/ RecvReturn(r) \/ RecvNotify(r)

DropStep(r) ==
    DropNotify(r) \/ Detach(r) \/ Drain(r) \/ DrainNotify(r) \/ Drained(r)

Next ==
    \/ \E s \in Senders : SendCall(s) \/ SenderStep(s)
    \/ \E r \in Receivers :
          Subscribe(r) \/ ReceiverStep(r) \/ DropReceiver(r) \/ DropStep(r)

\* Tasks are polled, the runtime's timer fires, receivers that are not
\* dropped keep reading, and a drop that began completes.
Fairness ==
    /\ \A s \in Senders : WF_vars(SenderStep(s))
    /\ \A r \in Receivers : WF_vars(ReceiverStep(r)) /\ WF_vars(DropStep(r))

Spec == Init /\ [][Next]_vars
FairSpec == Spec /\ Fairness

-----------------------------------------------------------------------------
(* Properties *)

\* "This should never happen because our backpressure mechanism prevents the
\* underlying broadcast channel from overflowing": no receiver has more than
\* max_messages unread messages, so tokio (whose buffer holds at least
\* max_messages) never overwrites one and recv never sees Lagged.
NoLag ==
    \A r \in Receivers :
        /\ Attached(r) => Len(log) + 1 - next[r] <= MaxMessages
        /\ rpc[r] \in {"draining", "drain_notify"} => until[r] - next[r] <= MaxMessages

\* messages_in_flight counts each message that is reserved or still referenced
\* exactly once, however its references are dropped.
MessageAccounting ==
    messages_in_flight =
        Cardinality(Live) + Cardinality({s \in Senders : spc[s] = "reserved"})

\* The same for bytes: the unchecked u64 subtraction in TrackedInner::drop
\* never goes below zero, and nothing stays counted for ever.
ByteAccounting ==
    bytes_in_flight =
        SumFunctionOnSet(log, Live)
          + SumFunctionOnSet(size, {s \in Senders : spc[s] = "reserved"})

\* The byte limit is exceeded only by a message that is alone in the channel.
OversizedIsAlone == bytes_in_flight > MaxBytes => messages_in_flight <= 1

\* The messages that an attached receiver has still to read, in order.
Backlog(r) == IF Attached(r) THEN SubSeq(log, next[r], Len(log)) ELSE <<>>

Queue == INSTANCE BroadcastQueue WITH
             Messages <- Sizes,
             Capacity <- MaxMessages,
             subscribed <- {r \in Receivers : Attached(r)},
             queue <- [r \in Receivers |-> Backlog(r)]

\* To its users the channel is a bounded queue for each subscriber that loses nothing,
\* although the messages are counted in one place, kept in another and sent in two steps.
ImplementsQueue == Queue!Spec

\* "This will wait until there's enough space before sending": a call returns
\* as long as the receivers keep reading.
CallsReturn == \A s \in Senders : spc[s] # "idle" ~> spc[s] = "idle"

\* A sender that has not warned yet recovers from a wakeup it missed through
\* its timeout: it returns, or goes on to warn.
CallsReturnOrWarn ==
    \A s \in Senders : spc[s] # "idle" ~> (spc[s] = "idle" \/ warned[s])
=============================================================================
