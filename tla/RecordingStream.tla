--------------------------- MODULE RecordingStream ---------------------------
(***************************************************************************)
(* re_sdk::RecordingStream: user threads log rows, which pass through the  *)
(* batcher, and messages, which are commands like the operations on the    *)
(* sink; the forwarding thread takes chunks and commands to the sink, and  *)
(* the sink may be exchanged at any time.  Files are logged by importer    *)
(* threads, which hold weak handles.  The stream ends when its last strong *)
(* handle is dropped.                                                      *)
(*                                                                         *)
(* An item is the index of a row or message in the order in which they     *)
(* were logged.  The batcher is what ChunkBatcher shows it to be, with one *)
(* entity: a queue that is cut into chunks at any time and that a blocking *)
(* flush empties into the channel of chunks.  A sink takes every message   *)
(* it is given (GrpcClient models the one that can fail); sinks are told   *)
(* apart by what exchanging them does.  A public function is the sequence  *)
(* of the steps at which it can wait.                                      *)
(***************************************************************************)
EXTENDS Integers, Sequences, FiniteSets, SequencesExt

CONSTANTS
    Users,      \* threads with a strong handle of their own
    Importers,  \* threads that log_file may start
    Kinds,      \* kinds of sinks that set_sink is called with
    Scenarios,  \* which functions each user calls
    MaxCalls,   \* bound: calls of each user that can wait
    PerFile,    \* messages in a file
    CmdCap,     \* commands that fit into RecordingStream::cmds
    ChunkCap,   \* chunks that fit into the batcher's output channel
    MaxItems,   \* bound: rows and messages of users
    MaxSinks    \* bound: sinks

None == "none"

ASSUME StreamAssumption ==
    /\ IsFiniteSet(Users) /\ IsFiniteSet(Importers) /\ Users \cap Importers = {}
    /\ None \notin Users \cup Importers
    /\ Kinds \subseteq {"buffered", "memory", "file", "stream", "multi", "files"}
    /\ {PerFile, CmdCap, ChunkCap, MaxItems, MaxSinks, MaxCalls} \subseteq Nat \ {0}

Threads == Users \cup Importers

VARIABLES
    uses,       \* the scenario
    inner,      \* RecordingStreamInner: "alive", "dropping", "dropped" or "panicked"
    strong,     \* threads that hold a strong handle
    todo,       \* what is left of the call each thread is in
    made,       \* number of calls a user made
    joining,    \* importers it has taken from importer_handles and waits for
    reply,      \* users with an answer in their oneshot channel
    handles,    \* importer_handles
    imports,    \* what each importer is up to
    recorded,   \* rows and messages logged so far
    swaps,      \* number of SwapSink commands of a user that were handled
    pending,    \* rows in the batcher
    chunks,     \* the batcher's output channel
    cmds,       \* the command channel
    forwarder,  \* where forwarding_thread is
    sink,       \* number and kind of the current sink
    sunk        \* the items in each sink, in the order of arrival

life == <<uses, made, inner, strong>>
calls == <<uses, made, inner, strong, todo, joining, handles, imports>>
logged == <<recorded, swaps>>
pipeline == <<pending, chunks, cmds, forwarder, sink, sunk>>
vars == <<uses, inner, strong, todo, made, joining, reply, handles, imports,
          recorded, swaps, pending, chunks, cmds, forwarder, sink, sunk>>

Items == 1..(MaxItems + PerFile * Cardinality(Importers))
AllKinds == {"buffered", "memory", "file", "stream", "multi", "files", "streams",
             "empty"}
Commands == [op : {"RecordMsg"}, item : Items]
              \cup [op : {"SwapSink"}, kind : Kinds \cup {"buffered"}, by : Users]
              \cup [op : {"Flush"}, by : Users \cup {None}]
              \cup [op : {"FinalizeDeferredSinks"}, by : Users]
              \cup [op : {"InspectSink", "PopPendingChunks", "Shutdown"}]

Send(cmd) == [op |-> "send", cmd |-> cmd]
WaitForImporters == [op |-> "importers"]
FlushBatcher == [op |-> "batcher"]
Release == [op |-> "release"]
JoinForwarder == [op |-> "forwarder"]
Await(timeout) == [op |-> "await", timeout |-> timeout]
Register(i) == [op |-> "register", importer |-> i]

Steps == {Send(c) : c \in Commands} \cup {Register(i) : i \in Importers}
           \cup {Await(b) : b \in BOOLEAN}
           \cup {WaitForImporters, FlushBatcher, Release, JoinForwarder}

TypeOK ==
    /\ uses \in Scenarios
    /\ inner \in {"alive", "dropping", "dropped", "panicked"}
    /\ strong \subseteq Threads
    /\ todo \in [Threads -> Seq(Steps)]
    /\ made \in [Users -> 0..MaxCalls]
    /\ joining \in [Threads -> SUBSET Importers]
    /\ reply \subseteq Users
    /\ handles \subseteq Importers
    /\ imports \in [Importers -> [by : Users \cup {None}, left : 0..PerFile,
                                  status : {"none", "running", "done", "hung"},
                                  ignored : BOOLEAN]]
    /\ recorded \in Seq([by : Threads, route : {"row", "msg"}, after : 0..MaxSinks])
    /\ DOMAIN recorded \subseteq Items
    /\ swaps \in [Users -> 0..MaxSinks]
    /\ pending \in Seq(Items)
    /\ chunks \in Seq(Seq(Items)) /\ Len(chunks) <= ChunkCap
    /\ cmds \in Seq(Commands) /\ Len(cmds) <= CmdCap
    /\ forwarder \in {"drain", "select", "done"}
    /\ sink \in [n : 1..MaxSinks, kind : AllKinds]
    /\ sunk \in Seq(Seq(Items)) /\ Len(sunk) = sink.n

\* RecordingStreamInner::new, with the sink that keeps data until there is another.
Init ==
    /\ uses \in Scenarios
    /\ inner = "alive"
    /\ strong = Users
    /\ todo = [t \in Threads |-> <<>>]
    /\ made = [u \in Users |-> 0]
    /\ joining = [t \in Threads |-> {}]
    /\ reply = {}
    /\ handles = {}
    /\ imports = [i \in Importers |-> [by |-> None, left |-> 0, status |-> "none",
                                       ignored |-> FALSE]]
    /\ recorded = <<>>
    /\ swaps = [u \in Users |-> 0]
    /\ pending = <<>> /\ chunks = <<>> /\ cmds = <<>>
    /\ forwarder = "drain"
    /\ sink = [n |-> 1, kind |-> "buffered"]
    /\ sunk = <<<<>>>>

-----------------------------------------------------------------------------
(* The functions of RecordingStream, by their steps *)

PopPending == Send([op |-> "PopPendingChunks"])

\* Mutant: the chunks that are on their way are not popped before the swap.
SetSinkWithoutPop(u, kind) ==
    <<FlushBatcher, Send([op |-> "SwapSink", kind |-> kind, by |-> u]),
      Send([op |-> "Flush", by |-> u]), Await(FALSE)>>

\* Mutant: set_sink returns without waiting for the swap.
SetSinkAsync(u, kind) ==
    <<FlushBatcher, PopPending, Send([op |-> "SwapSink", kind |-> kind, by |-> u]),
      Send([op |-> "Flush", by |-> None])>>

\* set_sink; the configuration of the batcher is ChunkBatcher's
SetSinkSteps(u, kind) ==
    <<FlushBatcher, PopPending, Send([op |-> "SwapSink", kind |-> kind, by |-> u]),
      Send([op |-> "Flush", by |-> u]), Await(FALSE)>>

\* Mutant: the sink is flushed before the chunks are popped.
FlushBeforePop(u, timeout) ==
    <<WaitForImporters, FlushBatcher>>
      \o (IF timeout = None THEN <<Send([op |-> "Flush", by |-> None])>>
          ELSE <<Send([op |-> "Flush", by |-> u]), Await(timeout = "finite")>>)
      \o <<PopPending>>

\* flush; without a timeout (flush_async) the receiving end of the answer is dropped
FlushSteps(u, timeout) ==
    IF timeout = None
      THEN <<WaitForImporters, FlushBatcher, PopPending, Send([op |-> "Flush", by |-> None])>>
      ELSE <<WaitForImporters, FlushBatcher, PopPending, Send([op |-> "Flush", by |-> u]),
             Await(timeout = "finite")>>

DisconnectSteps(u) == <<WaitForImporters>> \o SetSinkSteps(u, "buffered")

FinalizeSteps(u) ==
    <<WaitForImporters, FlushBatcher, PopPending,
      Send([op |-> "FinalizeDeferredSinks", by |-> u]), Await(FALSE)>>

\* Mutant: the batcher is not flushed before the shutdown.
DropInnerUnflushed ==
    <<WaitForImporters, PopPending, Send([op |-> "Shutdown"]), JoinForwarder>>

\* Mutant: the thread is joined without being told to stop.
DropInnerWithoutShutdown ==
    <<WaitForImporters, FlushBatcher, PopPending, JoinForwarder>>

\* Drop for RecordingStreamInner
DropInnerSteps ==
    <<WaitForImporters, FlushBatcher, PopPending, Send([op |-> "Shutdown"]),
      JoinForwarder>>

\* A MemorySink has a strong handle of its own.
StrongCount == Cardinality(strong) + (IF sink.kind = "memory" THEN 1 ELSE 0)

\* Drop for RecordingStream, and then of its Arc
DropSteps == IF StrongCount = 1 THEN <<WaitForImporters, Release>> ELSE <<Release>>

-----------------------------------------------------------------------------
(* Users *)

CanCall(u, function) == u \in strong /\ todo[u] = <<>> /\ function \in uses[u]

\* An item is logged, with the number of sinks that its thread has set before.
Record(t, route) ==
    LET ahead == {k \in DOMAIN cmds : cmds[k].op = "SwapSink" /\ cmds[k].by = t}
    IN  recorded' = Append(recorded,
            [by |-> t, route |-> route,
             after |-> IF t \in Users THEN swaps[t] + Cardinality(ahead) ELSE 0])

\* record_row, log_chunk, send_chunk
RecordRow(u) ==
    /\ CanCall(u, "record_row")
    /\ Len(recorded) < MaxItems
    /\ Record(u, "row")
    /\ pending' = Append(pending, Len(recorded) + 1)
    /\ UNCHANGED <<calls, reply, swaps, chunks, cmds, forwarder, sink, sunk>>

RecordMsg(u) ==
    /\ CanCall(u, "record_msg")
    /\ Len(cmds) < CmdCap
    /\ Len(recorded) < MaxItems
    /\ Record(u, "msg")
    /\ cmds' = Append(cmds, [op |-> "RecordMsg", item |-> Len(recorded) + 1])
    /\ UNCHANGED <<calls, reply, swaps, pending, chunks, forwarder, sink, sunk>>

Call(u, function, steps) ==
    /\ CanCall(u, function)
    /\ made[u] < MaxCalls
    /\ made' = [made EXCEPT ![u] = @ + 1]
    /\ todo' = [todo EXCEPT ![u] = steps]
    /\ UNCHANGED <<uses, inner, strong, joining, reply, handles, imports, logged,
                   pipeline>>

Exchanges(c) == c.op \in {"SwapSink", "FinalizeDeferredSinks"}
Exchanging ==
    {u \in Users : \E s \in Range(todo[u]) : s.op = "send" /\ Exchanges(s.cmd)}
MoreSinks ==
    sink.n + Cardinality(Exchanging) + Cardinality({k \in DOMAIN cmds : Exchanges(cmds[k])})
      < MaxSinks

InspectSink(u) == Call(u, "inspect_sink", <<Send([op |-> "InspectSink"])>>)
SetSink(u, kind) == MoreSinks /\ Call(u, "set_sink", SetSinkSteps(u, kind))
Flush(u, timeout) == Call(u, "flush", FlushSteps(u, timeout))
Disconnect(u) == MoreSinks /\ Call(u, "disconnect", DisconnectSteps(u))
FinalizeDeferredSinks(u) ==
    MoreSinks /\ Call(u, "finalize_deferred_sinks", FinalizeSteps(u))

DropStream(u) ==
    /\ CanCall(u, "drop")
    /\ todo' = [todo EXCEPT ![u] = DropSteps]
    /\ UNCHANGED <<life, joining, reply, handles, imports, logged, pipeline>>

\* log_file starts the importer and then keeps its handle.
LogFile(u, i) ==
    /\ CanCall(u, "log_file")
    /\ imports[i].status = "none"
    /\ imports' = [imports EXCEPT ![i] = [by |-> u, left |-> PerFile,
                                          status |-> "running", ignored |-> FALSE]]
    /\ todo' = [todo EXCEPT ![u] = <<Register(i)>>]
    /\ UNCHANGED <<life, joining, reply, handles, logged, pipeline>>

-----------------------------------------------------------------------------
(* The importer threads: the loop in log_file *)

\* A message is at hand, and record_msg begins: the weak handle is upgraded or,
\* without a strong handle, the message is ignored.
Upgrade(i) ==
    /\ imports[i].status = "running" /\ imports[i].left > 0 /\ todo[i] = <<>>
    /\ IF inner = "alive"
         THEN /\ Record(i, "msg")
              /\ strong' = strong \cup {i}
              /\ todo' = [todo EXCEPT ![i] =
                    <<Send([op |-> "RecordMsg", item |-> Len(recorded) + 1]), Release>>]
              /\ imports' = [imports EXCEPT ![i].left = @ - 1]
         ELSE /\ imports' = [imports EXCEPT ![i].left = @ - 1, ![i].ignored = TRUE]
              /\ UNCHANGED <<strong, todo, recorded>>
    /\ UNCHANGED <<uses, inner, made, joining, reply, handles, swaps, pipeline>>

\* The channel from the importers of re_importer is closed.
EndOfFile(i) ==
    /\ imports[i].status = "running" /\ imports[i].left = 0 /\ todo[i] = <<>>
    /\ imports' = [imports EXCEPT ![i].status = "done"]
    /\ UNCHANGED <<life, todo, joining, reply, handles, logged, pipeline>>

-----------------------------------------------------------------------------
(* The steps of a call *)

At(t, op) == todo[t] # <<>> /\ Head(todo[t]).op = op
Continue(t) == todo' = [todo EXCEPT ![t] = Tail(@)]

SendCmd(t) ==
    /\ At(t, "send")
    /\ Len(cmds) < CmdCap
    /\ cmds' = Append(cmds, Head(todo[t]).cmd)
    /\ Continue(t)
    /\ UNCHANGED <<life, joining, reply, handles, imports, logged, pending, chunks,
                   forwarder, sink, sunk>>

RegisterImporter(u) ==
    /\ At(u, "register")
    /\ handles' = handles \cup {Head(todo[u]).importer}
    /\ Continue(u)
    /\ UNCHANGED <<life, joining, reply, imports, logged, pipeline>>

\* wait_for_importers takes the handles ...
Take(t) ==
    /\ At(t, "importers")
    /\ joining[t] = {} /\ handles # {}
    /\ joining' = [joining EXCEPT ![t] = handles]
    /\ handles' = {}
    /\ UNCHANGED <<life, todo, reply, imports, logged, pipeline>>

\* ... and joins the threads, if there are any.
JoinImporters(t) ==
    /\ At(t, "importers")
    /\ joining[t] # {} \/ handles = {}
    /\ \A i \in joining[t] : imports[i].status = "done"
    /\ joining' = [joining EXCEPT ![t] = {}]
    /\ Continue(t)
    /\ UNCHANGED <<life, reply, handles, imports, logged, pipeline>>

\* An importer that dropped the last strong handle joins itself: JoinHandle::join panics
\* on some platforms, which drops the fields of the stream, and blocks on others.
JoinItself(i) ==
    /\ At(i, "importers")
    /\ i \in joining[i] /\ imports[i].status = "running"
    /\ \/ /\ imports' = [imports EXCEPT ![i].status = "done",
                                          ![i].ignored = @ \/ imports[i].left > 0]
          /\ inner' = "panicked"
          /\ todo' = [todo EXCEPT ![i] = <<>>]
       \/ /\ imports' = [imports EXCEPT ![i].status = "hung"]
          /\ UNCHANGED <<inner, todo>>
    /\ UNCHANGED <<uses, strong, made, joining, reply, handles, logged, pipeline>>

\* ChunkBatcher::flush_blocking: what was pushed before is in the output channel.
FlushTheBatcher(t) ==
    /\ At(t, "batcher")
    /\ \/ pending = <<>> /\ UNCHANGED <<pending, chunks>>
       \/ /\ pending # <<>> /\ Len(chunks) < ChunkCap
          /\ chunks' = Append(chunks, pending)
          /\ pending' = <<>>
    /\ Continue(t)
    /\ UNCHANGED <<life, joining, reply, handles, imports, logged, cmds, forwarder,
                   sink, sunk>>

AwaitReply(u) ==
    /\ At(u, "await")
    /\ u \in reply
    /\ reply' = reply \ {u}
    /\ Continue(u)
    /\ UNCHANGED <<life, joining, handles, imports, logged, pipeline>>

\* recv_timeout gives up and drops the receiving end.
Timeout(u) ==
    /\ At(u, "await") /\ Head(todo[u]).timeout
    /\ reply' = reply \ {u}
    /\ cmds' = [k \in DOMAIN cmds |->
                   IF cmds[k].op = "Flush" /\ cmds[k].by = u
                     THEN [op |-> "Flush", by |-> None] ELSE cmds[k]]
    /\ Continue(u)
    /\ UNCHANGED <<life, joining, handles, imports, logged, pending, chunks,
                   forwarder, sink, sunk>>

\* The Arc is dropped; with the last one, RecordingStreamInner is.
ReleaseHandle(t) ==
    /\ At(t, "release")
    /\ strong' = strong \ {t}
    /\ IF StrongCount = 1
         THEN inner' = "dropping" /\ todo' = [todo EXCEPT ![t] = DropInnerSteps]
         ELSE Continue(t) /\ UNCHANGED inner
    /\ UNCHANGED <<uses, made, joining, reply, handles, imports, logged, pipeline>>

JoinForwardingThread(t) ==
    /\ At(t, "forwarder")
    /\ forwarder = "done"
    /\ inner' = "dropped"
    /\ Continue(t)
    /\ UNCHANGED <<uses, strong, made, joining, reply, handles, imports, logged,
                   pipeline>>

-----------------------------------------------------------------------------
(* The batcher, and the forwarding thread *)

\* The batcher sends what it has when there is enough of it or it is old enough.
Batch ==
    /\ pending # <<>> /\ Len(chunks) < ChunkCap
    /\ chunks' = Append(chunks, pending)
    /\ pending' = <<>>
    /\ UNCHANGED <<calls, reply, logged, cmds, forwarder, sink, sunk>>

\* LogSink::send
SendTo(items) ==
    IF sink.kind = "empty" THEN sunk ELSE [sunk EXCEPT ![sink.n] = @ \o items]

\* A chunk goes to the sink; select! receives it, or try_recv before select!.
ForwardChunk ==
    /\ forwarder \in {"drain", "select"}
    /\ chunks # <<>>
    /\ sunk' = SendTo(Head(chunks))
    /\ chunks' = Tail(chunks)
    /\ forwarder' = "drain"
    /\ UNCHANGED <<calls, reply, logged, pending, cmds, sink>>

\* try_recv finds no chunk.
Drained ==
    /\ forwarder = "drain" /\ chunks = <<>>
    /\ forwarder' = "select"
    /\ UNCHANGED <<calls, reply, logged, pending, chunks, cmds, sink, sunk>>

Buffering(s) == s.kind \in {"buffered", "memory"}

\* Mutant: the backlog stays behind.
ReplaceWithoutBacklog(kind) ==
    LET kept == IF Buffering(sink) THEN <<>> ELSE sunk[sink.n]
    IN  /\ sink' = [n |-> sink.n + 1, kind |-> kind]
        /\ sunk' = Append([sunk EXCEPT ![sink.n] = kept], <<>>)

\* drain_backlog, flush_blocking, and send_all to the new sink
Replace(kind) ==
    LET backlog == IF Buffering(sink) THEN sunk[sink.n] ELSE <<>>
        kept == IF Buffering(sink) THEN <<>> ELSE sunk[sink.n]
    IN  /\ sink' = [n |-> sink.n + 1, kind |-> kind]
        /\ sunk' = Append([sunk EXCEPT ![sink.n] = kept], backlog)

Reply(by) == reply' = reply \cup ({by} \cap Users)

\* MultiSink drops its files; another sink that is finished only when it is dropped is
\* exchanged for a BufferedSink.
FinalizeSink ==
    \/ /\ sink.kind \in {"multi", "files"}
       /\ sink' = [sink EXCEPT !.kind = IF @ = "multi" THEN "streams" ELSE "empty"]
       /\ UNCHANGED sunk
    \/ sink.kind = "file" /\ Replace("buffered")
    \/ sink.kind \notin {"file", "multi", "files"} /\ UNCHANGED <<sink, sunk>>

\* handle_cmd
HandleCmd ==
    /\ forwarder = "select" /\ cmds # <<>>
    /\ cmds' = Tail(cmds)
    /\ LET c == Head(cmds)
       IN  \/ /\ c.op = "RecordMsg"
              /\ sunk' = SendTo(<<c.item>>)
              /\ forwarder' = "drain"
              /\ UNCHANGED <<reply, swaps, sink>>
           \/ /\ c.op = "SwapSink"
              /\ Replace(c.kind)
              /\ swaps' = [swaps EXCEPT ![c.by] = @ + 1]
              /\ forwarder' = "drain"
              /\ UNCHANGED reply
           \/ /\ c.op = "Flush"
              /\ Reply(c.by)
              /\ forwarder' = "drain"
              /\ UNCHANGED <<swaps, sink, sunk>>
           \/ /\ c.op = "FinalizeDeferredSinks"
              /\ FinalizeSink
              /\ Reply(c.by)
              /\ forwarder' = "drain"
              /\ UNCHANGED swaps
           \/ /\ c.op \in {"InspectSink", "PopPendingChunks"}
              /\ forwarder' = "drain"
              /\ UNCHANGED <<reply, swaps, sink, sunk>>
           \/ /\ c.op = "Shutdown"
              /\ forwarder' = "done"
              /\ UNCHANGED <<reply, swaps, sink, sunk>>
    /\ UNCHANGED <<calls, recorded, pending, chunks>>

\* All senders of commands are gone without a Shutdown.
CmdsDisconnected ==
    /\ forwarder = "select" /\ cmds = <<>> /\ inner = "panicked"
    /\ forwarder' = "done"
    /\ UNCHANGED <<calls, reply, logged, pending, chunks, cmds, sink, sunk>>

ForwardingThread == ForwardChunk \/ Drained \/ HandleCmd \/ CmdsDisconnected

StepOf(t) ==
    \/ SendCmd(t) \/ Take(t) \/ JoinImporters(t) \/ FlushTheBatcher(t)
    \/ ReleaseHandle(t) \/ JoinForwardingThread(t)

UserStep(u) == StepOf(u) \/ RegisterImporter(u) \/ AwaitReply(u)
ImporterStep(i) == StepOf(i) \/ JoinItself(i) \/ Upgrade(i) \/ EndOfFile(i)

Next ==
    \/ \E u \in Users :
          \/ RecordRow(u) \/ RecordMsg(u) \/ InspectSink(u)
          \/ \E kind \in Kinds : SetSink(u, kind)
          \/ \E timeout \in {None, "finite", "max"} : Flush(u, timeout)
          \/ Disconnect(u) \/ FinalizeDeferredSinks(u) \/ DropStream(u)
          \/ \E i \in Importers : LogFile(u, i)
          \/ UserStep(u) \/ Timeout(u)
    \/ \E i \in Importers : ImporterStep(i)
    \/ Batch
    \/ ForwardingThread

\* Threads run; a sink takes what it is given, so the forwarding thread goes on.
Fairness ==
    /\ \A u \in Users : WF_vars(UserStep(u))
    /\ \A i \in Importers : WF_vars(ImporterStep(i))
    /\ WF_vars(ForwardingThread)

Spec == Init /\ [][Next]_vars
FairSpec == Spec /\ Fairness

-----------------------------------------------------------------------------
(* Properties *)

Own(t) == {k \in DOMAIN recorded : recorded[k].by = t}
Sunk == UNION {Range(sunk[n]) : n \in DOMAIN sunk}

Carries(c, k) == c.op = "RecordMsg" /\ c.item = k
Sends(t, k) == \E j \in DOMAIN todo[t] : todo[t][j].op = "send" /\ Carries(todo[t][j].cmd, k)
InList(place, q, k) == {place} \X {j \in DOMAIN q : q[j] = k}
InLists(name, qq, k) == UNION {InList(<<name, n>>, qq[n], k) : n \in DOMAIN qq}

\* Every place on the way to a sink, or in one, where an item is.
Places(k) ==
    InList(<<"batcher", 0>>, pending, k) \cup InLists("chunk", chunks, k)
      \cup {<<"commands", 0>>} \X {j \in DOMAIN cmds : Carries(cmds[j], k)}
      \cup InLists("sink", sunk, k)
      \cup {<<"call", 0>>} \X {t \in Threads : Sends(t, k)}

\* What was logged is in the pipeline or in one sink, and once: exchanging sinks, also
\* while chunks and messages of other threads are on their way, neither drops the
\* backlog nor repeats it, as long as the stream was not torn down by a panic.
ExactlyOnce ==
    inner # "panicked" =>
      /\ \A k \in DOMAIN recorded : Cardinality(Places(k)) = 1
      /\ \A k \in Items \ DOMAIN recorded : Places(k) = {}

\* When Drop for RecordingStreamInner is over, everything that any thread logged is in
\* a sink: no chunk or message was left behind Shutdown.
DropFlushes == inner = "dropped" => Sunk = DOMAIN recorded

\* A thread whose set_sink, flush or finalize_deferred_sinks is answered has all its
\* own rows and messages in a sink, whatever other threads log or exchange.
AnsweredMeansRecorded == \A u \in reply : Own(u) \subseteq Sunk

\* What a thread logs after its set_sink returned goes to that sink or a later one,
\* although chunks bypass the commands.
LandsInNewSink ==
    \A u \in Users : \A k \in Own(u) \cap Sunk : swaps[u] >= recorded[k].after

\* A sink is exchanged or finalized only when it has everything that the thread which
\* asked for it had logged before.
SinkLeavesLast ==
    [][sink' # sink =>
         \A k \in Own(Head(cmds).by) :
           recorded[k].after <= swaps[Head(cmds).by] => k \in Sunk]_vars

\* The m-th item of one sink came before the j-th of another one.
Before(n, m, i, j) == n < i \/ (n = i /\ m < j)

\* The rows of a thread reach the sinks in the order in which they were logged, and so
\* do its messages, also across an exchange with a backlog.
RouteOrder ==
    \A n, i \in DOMAIN sunk : \A m \in DOMAIN sunk[n], j \in DOMAIN sunk[i] :
      LET a == recorded[sunk[n][m]]
          b == recorded[sunk[i][j]]
      IN  Before(n, m, i, j) /\ a.by = b.by /\ a.route = b.route
            => sunk[n][m] < sunk[i][j]

\* Every call of a user returns, Drop included, with both channels bounded.
CallsReturn == \A u \in Users : todo[u] # <<>> ~> todo[u] = <<>>

\* The documentation of RecordingStream: all operations sent by a thread take effect in
\* the order in which it sent them.
ThreadOrder ==
    \A n, i \in DOMAIN sunk : \A m \in DOMAIN sunk[n], j \in DOMAIN sunk[i] :
      Before(n, m, i, j) /\ recorded[sunk[n][m]].by = recorded[sunk[i][j]].by
        => sunk[n][m] < sunk[i][j]

\* The comment in Drop for RecordingStream: the importers started from the SDK run to
\* completion before the stream goes away.
ImportersComplete == \A i \in Importers : ~imports[i].ignored

\* The comment in flush: data of log_file is fully loaded before the batcher and the
\* sink are flushed.  Only flush waits with a finite timeout.
FlushLoadsFiles ==
    \A u \in reply : At(u, "await") /\ Head(todo[u]).timeout =>
      \A i \in Importers : imports[i].by = u =>
        imports[i].status = "done" /\ Own(i) \subseteq Sunk
=============================================================================
