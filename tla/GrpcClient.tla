----------------------------- MODULE GrpcClient -----------------------------
(***************************************************************************)
(* The SDK-side gRPC client of re_grpc_client::write: a worker thread that *)
(* connects to the message proxy and streams the commands queued by the    *)
(* threads that share the Client, and the Client's own calls send_blocking,*)
(* flush_blocking and drop.                                                *)
(*                                                                         *)
(* A log message is the call that sent it, <<thread, number>>; its payload *)
(* is left out, and whether it can be encoded is a choice.  Clocks are     *)
(* abstracted: `late' says that connect_timeout_on_flush has passed, and a *)
(* bounded flush may find its own timeout passed at any poll.  What tonic  *)
(* and the server do is external: yielded messages arrive in order until   *)
(* the call is severed, and a call whose stream has ended and drained      *)
(* succeeds.                                                               *)
(***************************************************************************)
EXTENDS Integers, Sequences, FiniteSets, SequencesExt

CONSTANTS Threads,   \* threads that share the Client
          QueueCap,  \* capacity of the command queue (100 in the code)
          WireCap,   \* messages tonic takes from the stream before it pushes back
          MaxCalls   \* bound: calls of each thread in a behaviour

ASSUME GrpcClientAssumption ==
    QueueCap \in Nat \ {0} /\ WireCap \in Nat \ {0} /\ MaxCalls \in Nat

VARIABLES
    worker,     \* where message_proxy_client is
    status,     \* the shared ClientConnectionState
    result,     \* disconnect_result
    cause,      \* history: why the stream ended
    cmds,       \* the command queue
    open,       \* cmd_rx and shutdown_rx have not been dropped
    shutdown,   \* a message is in the shutdown queue
    sent,       \* messages yielded to the stream
    received,   \* how many of them the server has received
    lost,       \* the call was severed: the server receives no more
    late,       \* connect_timeout_on_flush < started.elapsed()
    pc,         \* where each thread is
    calls,      \* calls each thread has made
    flush,      \* its last flush: timeout, outcome, messages given before it
    answered,   \* flush calls whose on_done was sent to
    drop,       \* how far Drop for Client is
    given       \* history: messages whose send_blocking returned, in order

conn == <<worker, status, result, cause>>
queue == <<cmds, open, shutdown>>
net == <<sent, received, lost>>
client == <<pc, calls, flush, drop, given>>
vars == <<conn, queue, net, client, late, answered>>

Messages == Threads \X (1..MaxCalls)
Commands == [kind : {"LogMsg", "Flush"}, call : Messages]
Disconnected == {"Disconnected(Ok)", "Disconnected(Err)"}
Outcomes == {"none", "Ok", "Timeout", "FailedToConnect", "GracefulDisconnect",
             "ErrorDisconnect", "InternalError"}

TypeOK ==
    /\ worker \in {"start", "connecting", "streaming", "ending", "storing",
                   "exit", "done"}
    /\ status \in {"Connecting", "Connected"} \union Disconnected
    /\ result \in Disconnected
    /\ cause \in {"none", "shutdown", "severed", "encode", "flush"}
    /\ cmds \in Seq(Commands) /\ Len(cmds) <= QueueCap
    /\ {open, shutdown, lost, late} \subseteq BOOLEAN
    /\ sent \in Seq(Messages) /\ received \in 0..Len(sent)
    /\ pc \in [Threads -> {"idle", "send", "flush", "await", "poll", "report"}]
    /\ calls \in [Threads -> 0..MaxCalls]
    /\ flush \in [Threads -> [limit : {"bounded", "forever"},
                              outcome : Outcomes, before : Nat]]
    /\ answered \subseteq Messages
    /\ drop \in {"no", "flush", "shutdown", "join", "done"}
    /\ given \in Seq(Messages)

NoFlush == [limit |-> "bounded", outcome |-> "none", before |-> 0]

Init ==
    /\ worker = "start" /\ status = "Connecting"
    /\ result = "Disconnected(Ok)" /\ cause = "none"
    /\ cmds = <<>> /\ open = TRUE /\ shutdown = FALSE
    /\ sent = <<>> /\ received = 0 /\ lost = FALSE
    /\ late = FALSE /\ answered = {}
    /\ pc = [t \in Threads |-> "idle"]
    /\ calls = [t \in Threads |-> 0]
    /\ flush = [t \in Threads |-> NoFlush]
    /\ drop = "no" /\ given = <<>>

-----------------------------------------------------------------------------
(* The worker: message_proxy_client *)

\* Both receivers are dropped, with what is queued.
CloseQueues == cmds' = <<>> /\ open' = FALSE /\ shutdown' = FALSE

\* Endpoint::from_shared accepts the address, or the worker returns.
ParseEndpoint ==
    /\ worker = "start"
    /\ \/ worker' = "connecting" /\ UNCHANGED status
       \/ worker' = "exit" /\ status' = "Disconnected(Err)"
    /\ UNCHANGED <<result, cause, queue, net, client, late, answered>>

\* An attempt to connect succeeds.  A failed one is retried, so it changes
\* nothing, unless ...
Connect ==
    /\ worker = "connecting"
    /\ status' = "Connected"
    /\ worker' = "streaming"
    /\ UNCHANGED <<result, cause, queue, net, client, late, answered>>

\* Mutant: the select hears the shutdown and goes on connecting.
ShutdownIgnored ==
    /\ worker = "connecting"
    /\ shutdown
    /\ shutdown' = FALSE
    /\ UNCHANGED <<conn, cmds, open, net, client, late, answered>>

\* ... the select after it finds the shutdown message.  The commands still
\* queued are lost.
ShutdownWhileConnecting ==
    /\ worker = "connecting"
    /\ shutdown
    /\ shutdown' = FALSE
    /\ status' = "Disconnected(Ok)"
    /\ worker' = "exit"
    /\ UNCHANGED <<result, cause, cmds, open, net, client, late, answered>>

\* The generator is resumed: tonic asks for the next message.
Resumed ==
    /\ worker = "streaming" /\ open
    /\ Len(sent) - received < WireCap

NextIs(kind) == cmds # <<>> /\ Head(cmds).kind = kind

\* The stream's loop breaks: the generator completes and drops both queues.
Break(why) ==
    /\ worker' = "ending"
    /\ cause' = why
    /\ CloseQueues
    /\ UNCHANGED <<result, net, client, late, answered>>

\* Cmd::LogMsg, encoded and yielded.
StreamLogMsg ==
    /\ Resumed
    /\ NextIs("LogMsg")
    /\ cmds' = Tail(cmds)
    /\ sent' = Append(sent, Head(cmds).call)
    /\ UNCHANGED <<conn, open, shutdown, received, lost, client, late, answered>>

\* Cmd::LogMsg, to_transport fails.
StreamEncodeFails ==
    /\ Resumed
    /\ NextIs("LogMsg")
    /\ status' = "Disconnected(Err)"
    /\ Break("encode")

\* The receiving end of on_done lives as long as the flush call.
Listening(call) ==
    /\ pc[call[1]] \in {"flush", "await", "poll"}
    /\ calls[call[1]] = call[2]

\* Mutant: a flush overtakes the messages queued before it.
StreamFlushFirst ==
    /\ Resumed
    /\ \E i \in 1..Len(cmds) :
          /\ cmds[i].kind = "Flush"
          /\ Listening(cmds[i].call)
          /\ answered' = answered \union {cmds[i].call}
          /\ cmds' = RemoveAt(cmds, i)
    /\ UNCHANGED <<conn, open, shutdown, net, client, late>>

\* Cmd::Flush, answered ...
StreamFlush ==
    /\ Resumed
    /\ NextIs("Flush")
    /\ Listening(Head(cmds).call)
    /\ answered' = answered \union {Head(cmds).call}
    /\ cmds' = Tail(cmds)
    /\ UNCHANGED <<conn, open, shutdown, net, client, late>>

\* ... or its call has returned and the answer cannot be sent.
StreamStaleFlush ==
    /\ Resumed
    /\ NextIs("Flush")
    /\ ~Listening(Head(cmds).call)
    /\ Break("flush")
    /\ UNCHANGED status

\* The select's other branch.
StreamShutdown ==
    /\ Resumed
    /\ shutdown
    /\ Break("shutdown")
    /\ UNCHANGED status

\* The server takes the next message of the call.
Deliver ==
    /\ ~lost
    /\ received < Len(sent)
    /\ received' = received + 1
    /\ UNCHANGED <<conn, queue, sent, lost, client, late, answered>>

\* write_messages returns Ok: the server saw the end of the stream ...
CallSucceeds ==
    /\ worker = "ending"
    /\ received = Len(sent)
    /\ result' = "Disconnected(Ok)"
    /\ worker' = "storing"
    /\ UNCHANGED <<status, cause, queue, net, client, late, answered>>

\* ... or Err, at any time of the call.
CallSevered ==
    /\ worker \in {"streaming", "ending"}
    /\ result' = "Disconnected(Err)"
    /\ worker' = "storing"
    /\ cause' = IF cause = "none" THEN "severed" ELSE cause
    /\ lost' = TRUE
    /\ UNCHANGED <<status, queue, sent, received, client, late, answered>>

\* The connection task drops the request stream, and the queues with it; it
\* may or may not run before the worker goes on.
DropStream ==
    /\ worker = "storing" /\ open
    /\ CloseQueues
    /\ UNCHANGED <<conn, net, client, late, answered>>

\* Mutant: the error of the call is not reported.
StoreStatusOk ==
    /\ worker = "storing"
    /\ status' = IF status \in Disconnected THEN status ELSE "Disconnected(Ok)"
    /\ worker' = "exit"
    /\ UNCHANGED <<result, cause, queue, net, client, late, answered>>

\* Mutant: the final store is unconditional.
StoreStatusAlways ==
    /\ worker = "storing"
    /\ status' = result
    /\ worker' = "exit"
    /\ UNCHANGED <<result, cause, queue, net, client, late, answered>>

\* The last statement: keep the status if it already is Disconnected.
StoreStatus ==
    /\ worker = "storing"
    /\ status' = IF status \in Disconnected THEN status ELSE result
    /\ worker' = "exit"
    /\ UNCHANGED <<result, cause, queue, net, client, late, answered>>

\* message_proxy_client returned and the runtime is dropped.
Exit ==
    /\ worker = "exit"
    /\ worker' = "done"
    /\ CloseQueues
    /\ UNCHANGED <<status, result, cause, net, client, late, answered>>

-----------------------------------------------------------------------------
(* The threads *)

Goto(t, where) == pc' = [pc EXCEPT ![t] = where]

\* A call starts; Drop has exclusive access, so nothing is called beside it.
Begin(t, where) ==
    /\ pc[t] = "idle"
    /\ drop = "no"
    /\ calls[t] < MaxCalls
    /\ calls' = [calls EXCEPT ![t] = @ + 1]
    /\ Goto(t, where)
    /\ UNCHANGED <<conn, queue, net, given, late, answered>>

Enqueue(t, kind) ==
    /\ open
    /\ Len(cmds) < QueueCap
    /\ cmds' = Append(cmds, [kind |-> kind, call |-> <<t, calls[t]>>])

SendBlocking(t) ==
    /\ Begin(t, "send")
    /\ UNCHANGED <<flush, drop>>

\* Mutant: try_send for blocking_send, so a full queue loses the message.
SendDoneLossy(t) ==
    /\ pc[t] = "send"
    /\ Enqueue(t, "LogMsg") \/ ((~open \/ Len(cmds) = QueueCap) /\ UNCHANGED cmds)
    /\ given' = Append(given, <<t, calls[t]>>)
    /\ Goto(t, "idle")
    /\ UNCHANGED <<conn, open, shutdown, net, calls, flush, drop, late, answered>>

\* It blocks while the queue is full; an error of the queue is ignored.
SendDone(t) ==
    /\ pc[t] = "send"
    /\ Enqueue(t, "LogMsg") \/ (~open /\ UNCHANGED cmds)
    /\ given' = Append(given, <<t, calls[t]>>)
    /\ Goto(t, "idle")
    /\ UNCHANGED <<conn, open, shutdown, net, calls, flush, drop, late, answered>>

StartFlush(t, limit) ==
    /\ Begin(t, "flush")
    /\ flush' = [flush EXCEPT ![t] = [limit |-> limit, outcome |-> "none",
                                     before |-> Len(given)]]

\* flush_blocking with a timeout that can run out, or one that cannot.
FlushBlocking(t, limit) ==
    /\ StartFlush(t, limit)
    /\ UNCHANGED drop

\* It blocks, without a timeout, while the queue is full.
FlushQueued(t) ==
    /\ pc[t] = "flush"
    /\ Enqueue(t, "Flush")
    /\ Goto(t, "await")
    /\ UNCHANGED <<conn, open, shutdown, net, calls, flush, drop, given, late,
                   answered>>

Step(t, from, to) ==
    /\ pc[t] = from
    /\ Goto(t, to)
    /\ UNCHANGED <<conn, queue, net, calls, flush, drop, given, late, answered>>

FlushRefused(t) == ~open /\ Step(t, "flush", "report")

\* flush_blocking returns; in Drop the next statement follows.
Return(t, from, outcome) ==
    /\ pc[t] = from
    /\ Goto(t, "idle")
    /\ flush' = [flush EXCEPT ![t].outcome = outcome]
    /\ drop' = IF drop = "flush" THEN "shutdown" ELSE drop
    /\ UNCHANGED <<conn, queue, net, calls, given, late, answered>>

FromStatus ==
    CASE status = "Connecting" -> "FailedToConnect"
      [] status = "Connected" -> "InternalError"
      [] status = "Disconnected(Ok)" -> "GracefulDisconnect"
      [] status = "Disconnected(Err)" -> "ErrorDisconnect"

Answered(t) == <<t, calls[t]>> \in answered
Pending(t) == [kind |-> "Flush", call |-> <<t, calls[t]>>] \in ToSet(cmds)

\* recv_timeout returns the answer, ...
FlushOk(t) == Answered(t) /\ Return(t, "await", "Ok")

\* ... finds that the command was dropped with the queue, ...
FlushDisconnected(t) == ~Answered(t) /\ ~Pending(t) /\ Step(t, "await", "report")

\* ... or a second has gone by.
FlushWakes(t) == ~Answered(t) /\ Pending(t) /\ Step(t, "await", "poll")

Report(t) == Return(t, "report", FromStatus)

\* The checks of the Timeout branch.
FlushTimesOut(t) == flush[t].limit = "bounded" /\ Return(t, "poll", "Timeout")

\* Mutant: a flush does not look at how long the client has been connecting.
GivesUpDisconnected == status \in Disconnected

GivesUp == (status = "Connecting" /\ late) \/ status \in Disconnected

FlushFails(t) == GivesUp /\ Return(t, "poll", FromStatus)

FlushGoesOn(t) == ~GivesUp /\ Step(t, "poll", "await")

ConnectTimeoutPasses ==
    /\ ~late
    /\ late' = TRUE
    /\ UNCHANGED <<conn, queue, net, client, answered>>

\* Drop for Client, by the holder of the last reference: flush with
\* Duration::MAX ...
DropClient(t) ==
    /\ \A u \in Threads : pc[u] = "idle"
    /\ StartFlush(t, "forever")
    /\ drop' = "flush"

\* ... ask for the shutdown, and return if nobody is there to hear it ...
DropShutdown ==
    /\ drop = "shutdown"
    /\ shutdown' = open
    /\ drop' = IF open THEN "join" ELSE "done"
    /\ UNCHANGED <<conn, cmds, open, net, pc, calls, flush, given, late, answered>>

\* ... and join the worker.
DropJoin ==
    /\ drop = "join"
    /\ worker = "done"
    /\ drop' = "done"
    /\ UNCHANGED <<conn, queue, net, pc, calls, flush, given, late, answered>>

-----------------------------------------------------------------------------

Stream == \/ StreamLogMsg \/ StreamEncodeFails \/ StreamFlush
          \/ StreamStaleFlush \/ StreamShutdown

Flushing(t) ==
    \/ FlushQueued(t) \/ FlushRefused(t)
    \/ FlushOk(t) \/ FlushDisconnected(t) \/ FlushWakes(t) \/ Report(t)
    \/ FlushTimesOut(t) \/ FlushFails(t) \/ FlushGoesOn(t)

Next ==
    \/ ParseEndpoint \/ Connect \/ ShutdownWhileConnecting \/ Stream
    \/ Deliver \/ CallSucceeds \/ CallSevered \/ DropStream \/ StoreStatus
    \/ Exit \/ ConnectTimeoutPasses \/ DropShutdown \/ DropJoin
    \/ \E t \in Threads :
          \/ SendBlocking(t) \/ SendDone(t) \/ DropClient(t) \/ Flushing(t)
          \/ \E limit \in {"bounded", "forever"} : FlushBlocking(t, limit)

\* The worker runs, a shutdown is heard between two attempts to connect, the
\* server reads, clocks advance, threads inside a call go on.  Nothing makes a
\* server appear, a call fail or a thread start a call.
Fairness ==
    /\ WF_vars(ParseEndpoint \/ Stream \/ StoreStatus \/ Exit)
    /\ WF_vars(ShutdownWhileConnecting)
    /\ WF_vars(Deliver \/ CallSucceeds)
    /\ WF_vars(ConnectTimeoutPasses)
    /\ WF_vars(DropShutdown \/ DropJoin)
    /\ \A t \in Threads : WF_vars(SendDone(t)) /\ WF_vars(Flushing(t))

Spec == Init /\ [][Next]_vars
FairSpec == Spec /\ Fairness

-----------------------------------------------------------------------------
(* Properties *)

\* flush_blocking returns Ok only when every message whose send_blocking
\* returned before the flush was called has been handed to the stream,
\* whatever thread sent it.
FlushedMeansSent ==
    \A t \in Threads :
        flush[t].outcome = "Ok" =>
            \A i \in 1..flush[t].before : given[i] \in ToSet(sent)

\* The stream carries the messages in the order the queue took them, without
\* gaps or repeats, even when the queue is closed while threads still send.
NoGaps == IsPrefix(sent, given)

\* If Drop's flush said Ok, the worker was joined and the status is a graceful
\* disconnect, the server has received every message ever sent.
DropDelivers ==
    /\ drop = "done" /\ worker = "done"
    /\ status = "Disconnected(Ok)"
    /\ \E t \in Threads : flush[t].outcome = "Ok" /\ flush[t].before = Len(given)
    => received = Len(given)

\* A Disconnected status is final: the reason stored first is the one later
\* flushes report, and no later store overwrites it.
DisconnectedIsFinal ==
    [][(status \in Disconnected) => UNCHANGED status]_vars

\* Once its command is queued a flush returns: an answer, the drop of the
\* queue, its timeout or the connect timeout ends it.
QueuedFlushReturns ==
    \A t \in Threads : pc[t] = "await" ~> pc[t] = "idle"

\* A drop that got as far as asking for the shutdown completes.
ShutdownCompletes == drop \in {"shutdown", "join"} ~> drop = "done"

\* "If the gRPC connection has not yet been established, this call will block
\* for at most connect_timeout_on_flush."
FlushReturns == \A t \in Threads : pc[t] = "flush" ~> pc[t] = "idle"

\* A flush that timed out does not cost the connection: the stream ends only
\* on a shutdown, a severed call or a message that cannot be encoded.
OnlyFailuresDisconnect == cause # "flush"

\* "gRPC connection is open, but flush still failed. Probably a bug in the
\* Rerun SDK" is never reported.
NoInternalError == \A t \in Threads : flush[t].outcome # "InternalError"
=============================================================================
