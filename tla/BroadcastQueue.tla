--------------------------- MODULE BroadcastQueue ---------------------------
(***************************************************************************)
(* What the broadcast channel promises its users, and what MessageProxy    *)
(* takes it for: every subscriber has a queue of its own, which gets each  *)
(* message that is published while it is subscribed and loses none.  A     *)
(* publication waits until no queue is full.                               *)
(***************************************************************************)
EXTENDS Naturals, Sequences

CONSTANTS
    Receivers,  \* who may subscribe
    First,      \* the receiver that is subscribed from the start
    Messages,   \* what may be published
    Capacity    \* messages that fit into a queue

VARIABLES
    subscribed, \* receivers that have a queue
    queue       \* what each of them has not received yet

vars == <<subscribed, queue>>

Init ==
    /\ subscribed = {First}
    /\ queue = [r \in Receivers |-> <<>>]

Publish(m) ==
    /\ subscribed # {}
    /\ \A r \in subscribed : Len(queue[r]) < Capacity
    /\ queue' = [r \in Receivers |->
                   IF r \in subscribed THEN Append(queue[r], m) ELSE <<>>]
    /\ UNCHANGED subscribed

Receive(r) ==
    /\ r \in subscribed
    /\ queue[r] # <<>>
    /\ queue' = [queue EXCEPT ![r] = Tail(@)]
    /\ UNCHANGED subscribed

Subscribe(r) ==
    /\ r \notin subscribed
    /\ subscribed' = subscribed \cup {r}
    /\ UNCHANGED queue

\* What it has not received goes with the receiver.
Unsubscribe(r) ==
    /\ r \in subscribed
    /\ subscribed' = subscribed \ {r}
    /\ queue' = [queue EXCEPT ![r] = <<>>]

Next ==
    \/ \E m \in Messages : Publish(m)
    \/ \E r \in Receivers : Receive(r) \/ Subscribe(r) \/ Unsubscribe(r)

Spec == Init /\ [][Next]_vars
=============================================================================
