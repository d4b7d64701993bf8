--------------------------- MODULE LogReceiverSet ---------------------------
(***************************************************************************)
(* re_log_channel: log channels (LogSender, LogReceiver) and the set of    *)
(* receivers from which a viewer or the proxy server reads.                *)
(*                                                                         *)
(* A channel is a QuotaChannel without its byte limit, and dropping its    *)
(* last sender disconnects it.  The set's mutex is held for the whole of a *)
(* receive call, also while it blocks in `select'.  One thread receives,   *)
(* always with the same call: the viewer's frame loop with try_recv,       *)
(* assert_receive_into_entity_db with recv_timeout, spawn_from_rx_set with *)
(* recv, in a loop that ends when the set is empty.  Others add, remove    *)
(* and list receivers.                                                     *)
(***************************************************************************)
EXTENDS Integers, Sequences, FiniteSets, SequencesExt

CONSTANTS
    Sources,   \* the log channels
    Calls,     \* the receive calls that a reader may use, one of them
    MaxSends   \* bound: messages sent on each channel

ASSUME LogReceiverSetAssumption ==
    /\ Calls \subseteq {"recv", "try_recv", "recv_timeout"}
    /\ MaxSends \in Nat

VARIABLES
    queue,      \* per channel, what its receiver has not received
    senders,    \* per channel, a LogSender exists
    connected,  \* per channel, LogReceiver::connected
    set,        \* LogReceiverSet::receivers
    added,      \* channels whose receiver has been handed to the set
    call,       \* the receive call that the receiving thread uses
    reader,     \* where the receiving thread is; it holds the mutex unless idle
    polled,     \* receivers that its second pass has polled
    sent,       \* messages sent on each channel
    received,   \* messages received from each channel
    flush       \* per channel, a flush_blocking: its state and what preceded it

channels == <<queue, senders, sent, flush>>
vars == <<queue, senders, connected, set, added, call, reader, polled, sent, received,
          flush>>

Payloads == {"Msg", "Flush", "Quit"}

TypeOK ==
    /\ queue \in [Sources -> Seq(Payloads)]
    /\ senders \in [Sources -> BOOLEAN]
    /\ connected \in [Sources -> BOOLEAN]
    /\ set \in Seq(Sources) /\ IsInjective(set)
    /\ added \subseteq Sources
    /\ call \in Calls
    /\ reader \in {"idle", "select", "poll", "check", "done"}
    /\ polled \in 0..Cardinality(Sources)
    /\ sent \in [Sources -> 0..MaxSends]
    /\ received \in [Sources -> 0..MaxSends]
    /\ flush \in [Sources -> [state : {"none", "waiting", "Ok", "Timeout", "Closed"},
                              before : 0..MaxSends]]

Init ==
    /\ queue = [s \in Sources |-> <<>>]
    /\ senders = [s \in Sources |-> TRUE]
    /\ connected = [s \in Sources |-> TRUE]
    /\ set = <<>> /\ added = {}
    /\ call \in Calls /\ reader = "idle" /\ polled = 0
    /\ sent = [s \in Sources |-> 0]
    /\ received = [s \in Sources |-> 0]
    /\ flush = [s \in Sources |-> [state |-> "none", before |-> 0]]

-----------------------------------------------------------------------------
(* LogSender *)

\* The receiver has not been dropped with the set's entry.
Alive(s) == s \notin added \/ s \in Range(set)

\* tx.send
Put(s, payload) ==
    queue' = IF Alive(s) THEN [queue EXCEPT ![s] = Append(@, payload)] ELSE queue

\* What the reader can tell apart: only the loop around recv looks for a Quit.
Sendable == IF call = "recv" THEN {"Msg", "Quit"} ELSE {"Msg"}

\* send and quit (a send to a dropped receiver fails and changes nothing)
Send(s, payload) ==
    /\ senders[s] /\ Alive(s)
    /\ sent[s] < MaxSends
    /\ sent' = [sent EXCEPT ![s] = @ + 1]
    /\ Put(s, payload)
    /\ UNCHANGED <<senders, connected, set, added, call, reader, polled, received, flush>>

\* Mutant: the flush request overtakes the messages that are queued.
FlushAhead(s) ==
    /\ senders[s]
    /\ flush[s].state = "none"
    /\ flush' = [flush EXCEPT ![s] = [state |-> IF Alive(s) THEN "waiting" ELSE "Closed",
                                      before |-> sent[s]]]
    /\ queue' = IF Alive(s) THEN [queue EXCEPT ![s] = <<"Flush">> \o @] ELSE queue
    /\ UNCHANGED <<senders, connected, set, added, call, reader, polled, sent, received>>

\* flush_blocking
Flush(s) ==
    /\ senders[s]
    /\ flush[s].state = "none"
    /\ flush' = [flush EXCEPT ![s] = [state |-> IF Alive(s) THEN "waiting" ELSE "Closed",
                                      before |-> sent[s]]]
    /\ Put(s, "Flush")
    /\ UNCHANGED <<senders, connected, set, added, call, reader, polled, sent, received>>

\* rx.recv_timeout(timeout) in flush_blocking: the Flush message stays queued.
FlushTimeout(s) ==
    /\ flush[s].state = "waiting"
    /\ flush' = [flush EXCEPT ![s].state = "Timeout"]
    /\ UNCHANGED <<queue, senders, connected, set, added, call, reader, polled, sent, received>>

\* The last LogSender is dropped; a flush in progress keeps one.
CloseSender(s) ==
    /\ senders[s]
    /\ flush[s].state # "waiting"
    /\ senders' = [senders EXCEPT ![s] = FALSE]
    /\ UNCHANGED <<queue, connected, set, added, call, reader, polled, sent, received, flush>>

-----------------------------------------------------------------------------
(* LogReceiverSet, other threads *)

Add(s) ==
    /\ reader = "idle"
    /\ s \notin added
    /\ added' = added \cup {s}
    /\ set' = Append(set, s)
    /\ UNCHANGED <<channels, connected, call, reader, polled, received>>

\* Receivers that leave the set are dropped: what they have queued is gone,
\* and a flush among it fails.
DropReceivers(gone) ==
    /\ queue' = [s \in Sources |-> IF s \in gone THEN <<>> ELSE queue[s]]
    /\ flush' = [s \in Sources |->
                   IF s \in gone /\ flush[s].state = "waiting"
                     THEN [flush[s] EXCEPT !.state = "Closed"] ELSE flush[s]]

\* Vec::retain: the receivers of q that are in `kept' stay, in their order.
\* (There is one such sequence, as no receiver is in q twice.)
Retained(q, kept) ==
    {r \in BoundedSeq(Range(q), Len(q)) :
        /\ Range(r) = Range(q) \cap kept
        /\ \A i, j \in 1..Len(r) : i < j =>
              \E k, l \in 1..Len(q) : k < l /\ r[i] = q[k] /\ r[j] = q[l]}

\* remove, retain, clear, remove_by_uri
RemoveReceivers(gone) ==
    /\ reader = "idle"
    /\ set' \in Retained(set, Sources \ gone)
    /\ DropReceivers(gone)
    /\ UNCHANGED <<senders, connected, added, call, reader, polled, sent, received>>

Culled == {s \in Range(set) : ~connected[s]}

\* The first statement of every receive call and of sources, is_connected and
\* is_empty: rx.retain(|r| r.is_connected()).
Retain ==
    /\ set' \in Retained(set, Sources \ Culled)
    /\ DropReceivers(Culled)

ListSources ==
    /\ reader = "idle"
    /\ Culled # {}
    /\ Retain
    /\ UNCHANGED <<senders, connected, added, call, reader, polled, sent, received>>

-----------------------------------------------------------------------------
(* LogReceiverSet, the receiving thread *)

Ready(s) == queue[s] # <<>> \/ ~senders[s]

\* A message is received; the loop of spawn_from_rx_set looks at the set after
\* a Quit.
Take(s) ==
    /\ queue[s] # <<>>
    /\ queue' = [queue EXCEPT ![s] = Tail(@)]
    /\ IF Head(queue[s]) = "Flush"
         THEN /\ flush' = [flush EXCEPT ![s].state = IF @ = "waiting" THEN "Ok" ELSE @]
              /\ UNCHANGED received
         ELSE /\ received' = [received EXCEPT ![s] = @ + 1]
              /\ UNCHANGED flush
    /\ reader' = IF call = "recv" /\ Head(queue[s]) = "Quit" THEN "check" ELSE "idle"
    /\ UNCHANGED <<senders, connected, set, added, call, polled, sent>>

\* recv, try_recv or recv_timeout takes the mutex and culls the set ...
Begin ==
    /\ reader = "idle"
    /\ Retain
    /\ reader' = IF set' # <<>> THEN "select"
                 ELSE IF call = "recv" THEN "check" ELSE "idle"
    /\ UNCHANGED <<senders, connected, added, call, polled, sent, received>>

\* ... and select a message, at random among the channels that are ready ...
SelectMessage(s) ==
    /\ reader = "select"
    /\ s \in Range(set)
    /\ Take(s)

\* ... or a channel that is disconnected: recv returns the error, the others
\* poll every receiver to update its `connected' flag ...
SelectDisconnected(s) ==
    /\ reader = "select"
    /\ s \in Range(set)
    /\ queue[s] = <<>> /\ ~senders[s]
    /\ reader' = IF call = "recv" THEN "check" ELSE "poll"
    /\ polled' = 0
    /\ UNCHANGED <<channels, connected, set, added, call, received>>

\* ... or nothing is ready: at once in try_recv, until the timeout in recv_timeout.
SelectNothing ==
    /\ reader = "select" /\ call # "recv"
    /\ \A s \in Range(set) : ~Ready(s)
    /\ reader' = "idle"
    /\ UNCHANGED <<channels, connected, set, added, call, polled, received>>

\* LogReceiver::try_recv on the next receiver of the second pass.
PollMessage ==
    /\ reader = "poll"
    /\ polled < Len(set)
    /\ Take(set[polled + 1])

\* Mutant: TryRecvError::Empty is taken for a disconnection.
PollNothingDisconnects ==
    /\ reader = "poll"
    /\ polled < Len(set)
    /\ LET s == set[polled + 1]
       IN  /\ queue[s] = <<>>
           /\ connected' = [connected EXCEPT ![s] = FALSE]
    /\ polled' = polled + 1
    /\ UNCHANGED <<channels, set, added, call, reader, received>>

\* Mutant: the second pass stops at the first receiver without a message.
PollOnlyFirst ==
    /\ reader = "poll"
    /\ polled = 0 /\ set # <<>>
    /\ LET s == set[1]
       IN  /\ queue[s] = <<>>
           /\ connected' = [connected EXCEPT ![s] = senders[s]]
    /\ polled' = Len(set)
    /\ UNCHANGED <<channels, set, added, call, reader, received>>

PollNothing ==
    /\ reader = "poll"
    /\ polled < Len(set)
    /\ LET s == set[polled + 1]
       IN  /\ queue[s] = <<>>
           /\ connected' = [connected EXCEPT ![s] = senders[s]]
    /\ polled' = polled + 1
    /\ UNCHANGED <<channels, set, added, call, reader, received>>

PollEnds ==
    /\ reader = "poll"
    /\ polled = Len(set)
    /\ reader' = "idle"
    /\ UNCHANGED <<channels, connected, set, added, call, polled, received>>

\* spawn_from_rx_set: after a Quit or an error, stop if the set is empty.
Check ==
    /\ reader = "check"
    /\ Retain
    /\ reader' = IF set' = <<>> THEN "done" ELSE "idle"
    /\ UNCHANGED <<senders, connected, added, call, polled, sent, received>>

-----------------------------------------------------------------------------

Reading ==
    \/ Begin
    \/ \E s \in Sources : SelectMessage(s) \/ SelectDisconnected(s)
    \/ SelectNothing \/ PollMessage \/ PollNothing \/ PollEnds \/ Check

Next ==
    \/ \E s \in Sources :
          \/ \E payload \in Sendable : Send(s, payload)
          \/ Flush(s) \/ FlushTimeout(s) \/ CloseSender(s) \/ Add(s)
    \/ \E gone \in SUBSET Range(set) : RemoveReceivers(gone)
    \/ ListSources
    \/ Reading

\* The reader runs and repeats its call, and its select does not neglect a channel
\* that is ready again and again (crossbeam picks at random).
Fairness ==
    /\ WF_vars(Reading)
    /\ \A s \in Sources : SF_vars(SelectMessage(s)) /\ SF_vars(SelectDisconnected(s))

Spec == Init /\ [][Next]_vars
FairSpec == Spec /\ Fairness

-----------------------------------------------------------------------------
(* Properties *)

\* A receiver is given up as disconnected only when its source has run dry:
\* the cull that follows never drops a message.
RunDry == \A s \in Sources : ~connected[s] => ~senders[s] /\ queue[s] = <<>>

\* "Blocks until all previously sent messages have been received": a flush that
\* succeeds has been preceded by the receipt of everything sent before it.
FlushMeansReceived ==
    \A s \in Sources : flush[s].state = "Ok" => received[s] >= flush[s].before

\* "Any receiver that gets disconnected is automatically removed from the set",
\* for a reader that polls: its second pass may return early with the message of
\* another receiver, but once that traffic ends it reaches the disconnected one,
\* and the next call culls it.  (recv never polls: ForwarderStops.)
DisconnectedRemoved ==
    \A s \in Sources :
        call # "recv" /\ ~senders[s] /\ s \in Range(set) ~> s \notin Range(set)

\* spawn_from_rx_set: "We won't ever receive more data: break".  Once no channel
\* has a sender, the loop ends.
ForwarderStops ==
    (added = Sources /\ \A s \in Sources : ~senders[s]) ~> reader = "done"
=============================================================================
