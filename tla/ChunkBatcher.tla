---------------------------- MODULE ChunkBatcher ----------------------------
(***************************************************************************)
(* The batching pipeline of re_chunk::batcher: threads push rows, chunks,  *)
(* flushes and configurations into a bounded command channel; the batching *)
(* thread accumulates rows per entity and sends chunks down a bounded      *)
(* output channel; whoever called chunks() reads them.                     *)
(*                                                                         *)
(* A row is the thread that logged it, its entity, its shape (the timeline *)
(* and datatype set that decides which rows share a chunk) and its row id; *)
(* a chunk that is pushed as a whole is one such row.  Row ids are kept as *)
(* small as their order allows: a new one is larger than every id in       *)
(* flight, so behaviours need not end.  Row sizes are left out: any row    *)
(* may be the one that reaches flush_num_bytes.  The two channels are      *)
(* QuotaChannel's; here they are queues bounded by a count.  Splitting of  *)
(* unsorted chunks is in ChunkSplitting.                                   *)
(***************************************************************************)
EXTENDS Integers, Sequences, FiniteSets, SequencesExt

CONSTANTS
    Threads,    \* threads that use the batcher
    Entities,
    Shapes,     \* Empty is the shape of a row without components
    Empty,
    Configs,    \* flush_num_rows of the configurations in use, first one first
    Consumers,  \* handles returned by chunks()
    InCap,      \* commands that fit into the input channel
    OutCap,     \* chunks that fit into the output channel
    MaxRows     \* bound: rows in flight

None == "none"

ASSUME BatcherAssumption ==
    /\ None \notin Threads
    /\ Configs \in Seq(Nat) /\ Configs # <<>>
    /\ InCap \in Nat \ {0} /\ OutCap \in Nat \ {0} /\ MaxRows \in Nat

VARIABLES
    pc,         \* where each thread is
    cmd,        \* the command it is sending
    owed,       \* its rows that its flush has to see sent
    outcome,    \* what its last flush_blocking returned
    drop,       \* how far Drop for ChunkBatcherInner is
    cmds,       \* the input channel
    thread,     \* where batching_thread is
    config,     \* flush_num_rows
    accs,       \* pending_rows of each entity
    todo,       \* entities that the running flush has still to visit
    backlog,    \* chunks of the visited entity that have still to be sent
    reply,      \* the thread to answer when the running flush is over
    skip,       \* skip_next_tick
    tick,       \* a tick is waiting in rx_tick
    out,        \* the output channel
    reader,     \* where each consumer is
    own         \* the batcher still holds its rx_chunks

callers == <<pc, cmd, owed, outcome, drop>>
loop == <<thread, config, accs, todo, backlog, reply, skip>>
vars == <<pc, cmd, owed, outcome, drop, cmds, thread, config, accs, todo, backlog,
          reply, skip, tick, out, reader, own>>

Rows == [id : 1..MaxRows, by : Threads, entity : Entities, shape : Shapes,
         whole : BOOLEAN]
Commands == [op : {"AppendRow", "AppendChunk"}, row : Rows]
              \cup [op : {"Flush"}, by : Threads \cup {None}]
              \cup [op : {"UpdateConfig"}, rows : Range(Configs)]
              \cup [op : {"Shutdown"}]
Idle == [op |-> "idle"]

TypeOK ==
    /\ pc \in [Threads -> {"idle", "send", "await"}]
    /\ cmd \in [Threads -> Commands \cup {Idle}]
    /\ owed \in [Threads -> SUBSET (1..MaxRows)]
    /\ outcome \in [Threads -> {None, "Ok", "Timeout"}]
    /\ drop \in {"no", "send", "join", "done"}
    /\ cmds \in Seq(Commands) /\ Len(cmds) <= InCap
    /\ thread \in {"select", "flush", "exit", "done"}
    /\ config \in Range(Configs)
    /\ accs \in [Entities -> Seq(Rows)]
    /\ todo \subseteq Entities
    /\ backlog \subseteq Seq(Rows)
    /\ reply \in Threads \cup {None}
    /\ {skip, tick, own} \subseteq BOOLEAN
    /\ out \in Seq(Seq(Rows)) /\ Len(out) <= OutCap
    /\ reader \in [Consumers -> {"none", "reading", "closed"}]

Init ==
    /\ pc = [t \in Threads |-> "idle"]
    /\ cmd = [t \in Threads |-> Idle]
    /\ owed = [t \in Threads |-> {}]
    /\ outcome = [t \in Threads |-> None]
    /\ drop = "no"
    /\ cmds = <<>>
    /\ thread = "select"
    /\ config = Head(Configs)
    /\ accs = [e \in Entities |-> <<>>]
    /\ todo = {} /\ backlog = {} /\ reply = None
    /\ skip = FALSE /\ tick = FALSE
    /\ out = <<>>
    /\ reader = [c \in Consumers |-> "none"]
    /\ own = TRUE

-----------------------------------------------------------------------------
(* Where rows are *)

RowOf(c) == IF c.op \in {"AppendRow", "AppendChunk"} THEN {c.row} ELSE {}

Sending == UNION {RowOf(cmd[t]) : t \in Threads}
Queued == UNION {RowOf(c) : c \in Range(cmds)}
Pending == UNION {Range(accs[e]) : e \in Entities}
Batched == UNION {Range(chunk) : chunk \in backlog}
Upstream == Sending \cup Queued \cup Pending \cup Batched
Out == UNION {Range(chunk) : chunk \in Range(out)}
Ids(rows) == {r.id : r \in rows}

-----------------------------------------------------------------------------
(* Threads *)

Call(t, c) ==
    /\ pc[t] = "idle"
    /\ drop = "no"
    /\ pc' = [pc EXCEPT ![t] = "send"]
    /\ cmd' = [cmd EXCEPT ![t] = c]
    /\ UNCHANGED <<drop, cmds, loop, tick, out, reader, own>>

NewId == 1 + Max(Ids(Upstream \cup Out) \cup {0})

\* push_row and push_chunk.
Push(t, op, e, s) ==
    /\ NewId <= MaxRows
    /\ Call(t, [op |-> op, row |-> [id |-> NewId, by |-> t, entity |-> e, shape |-> s,
                                   whole |-> op = "AppendChunk"]])
    /\ UNCHANGED <<owed, outcome>>

\* flush_async does not keep the receiving end.
FlushAsync(t) ==
    /\ Call(t, [op |-> "Flush", by |-> None])
    /\ UNCHANGED <<owed, outcome>>

FlushBlocking(t) ==
    /\ Call(t, [op |-> "Flush", by |-> t])
    /\ owed' = [owed EXCEPT ![t] = Ids({r \in Upstream : r.by = t /\ r.shape # Empty})]
    /\ outcome' = [outcome EXCEPT ![t] = None]

UpdateConfig(t, n) ==
    /\ Call(t, [op |-> "UpdateConfig", rows |-> n])
    /\ UNCHANGED <<owed, outcome>>

\* send_cmd blocks while the input channel is full.
Send(t) ==
    /\ pc[t] = "send"
    /\ Len(cmds) < InCap
    /\ cmds' = Append(cmds, cmd[t])
    /\ pc' = [pc EXCEPT ![t] = IF cmd[t].op = "Flush" /\ cmd[t].by = t
                                 THEN "await" ELSE "idle"]
    /\ cmd' = [cmd EXCEPT ![t] = Idle]
    /\ UNCHANGED <<owed, outcome, drop, loop, tick, out, reader, own>>

\* The timeout of flush_blocking.  An answer that comes later is ignored.
FlushTimeout(t) ==
    /\ pc[t] = "await"
    /\ pc' = [pc EXCEPT ![t] = "idle"]
    /\ outcome' = [outcome EXCEPT ![t] = "Timeout"]
    /\ owed' = [owed EXCEPT ![t] = {}]
    /\ cmds' = [i \in 1..Len(cmds) |->
                  IF cmds[i].op = "Flush" /\ cmds[i].by = t
                    THEN [op |-> "Flush", by |-> None] ELSE cmds[i]]
    /\ reply' = IF reply = t THEN None ELSE reply
    /\ UNCHANGED <<cmd, drop, thread, config, accs, todo, backlog, skip, tick, out,
                   reader, own>>

\* Mutant: the batcher's own receiver is dropped last.
DropBatcherKeepingReceiver ==
    /\ drop = "no"
    /\ \A t \in Threads : pc[t] = "idle"
    /\ drop' = "send"
    /\ UNCHANGED <<pc, cmd, owed, outcome, cmds, loop, tick, out, reader, own>>

\* The last instance is dropped: first the batcher's own receiver goes ...
DropBatcher ==
    /\ drop = "no"
    /\ \A t \in Threads : pc[t] = "idle"
    /\ drop' = "send"
    /\ own' = FALSE
    /\ out' = IF \E c \in Consumers : reader[c] = "reading" THEN out ELSE <<>>
    /\ UNCHANGED <<pc, cmd, owed, outcome, cmds, loop, tick, reader>>

\* ... then the shutdown is sent ...
DropSend ==
    /\ drop = "send"
    /\ Len(cmds) < InCap
    /\ cmds' = Append(cmds, [op |-> "Shutdown"])
    /\ drop' = "join"
    /\ UNCHANGED <<pc, cmd, owed, outcome, loop, tick, out, reader, own>>

\* ... and the thread is joined.
DropJoin ==
    /\ drop = "join"
    /\ thread = "done"
    /\ drop' = "done"
    /\ UNCHANGED <<pc, cmd, owed, outcome, cmds, loop, tick, out, reader, own>>

-----------------------------------------------------------------------------
(* batching_thread *)

Receivers == own \/ \E c \in Consumers : reader[c] = "reading"

\* Mutant: rows are sorted the wrong way round.
ManyIntoChunksReversed(rows) ==
    LET Reversed(S) == CHOOSE q \in BoundedSeq(S, MaxRows) :
           /\ Range(q) = S
           /\ \A i, j \in 1..Len(q) : i < j => q[i].id > q[j].id
    IN  {Reversed({r \in Range(rows) : r.shape = s}) :
            s \in {r.shape : r \in Range(rows)} \ {Empty}}

\* The rows of S in the order of their ids.
Sorted(S) ==
    CHOOSE q \in BoundedSeq(S, MaxRows) :
        /\ Range(q) = S
        /\ \A i, j \in 1..Len(q) : i < j => q[i].id < q[j].id

\* many_into_chunks: rows sorted by id, one chunk per shape, and chunks
\* without components dropped.  (Rows whose arrays do not make a valid chunk,
\* which do_flush_all drops with an error, are left out of the workload.)
ManyIntoChunks(rows) ==
    {Sorted({r \in Range(rows) : r.shape = s}) :
        s \in {r.shape : r \in Range(rows)} \ {Empty}}

\* The select takes a command ...
Select(op) ==
    /\ thread = "select"
    /\ cmds # <<>>
    /\ Head(cmds).op = op
    /\ cmds' = Tail(cmds)
    /\ UNCHANGED <<callers, out, reader, own>>

\* do_flush_all for each of the entities `es', and then answer `r'.
StartFlush(es, r) ==
    /\ thread' = "flush"
    /\ todo' = es
    /\ reply' = r
    /\ UNCHANGED backlog

\* ... AppendChunk: the chunk is sent on, ahead of the rows that are pending, ...
AppendChunk ==
    /\ Select("AppendChunk")
    /\ thread' = "flush"
    /\ backlog' = ManyIntoChunks(<<Head(cmds).row>>)
    /\ UNCHANGED <<config, accs, todo, reply, skip, tick>>

\* ... AppendRow: the entity is flushed when flush_num_rows or flush_num_bytes
\* is reached, ...
AppendRow ==
    /\ Select("AppendRow")
    /\ LET row == Head(cmds).row
           acc == Append(accs[row.entity], row)
       IN  /\ accs' = [accs EXCEPT ![row.entity] = acc]
           /\ \/ StartFlush({row.entity}, None) /\ skip' = TRUE
              \/ /\ Len(acc) < config
                 /\ UNCHANGED <<thread, todo, backlog, reply, skip>>
    /\ UNCHANGED <<config, tick>>

\* ... Flush, ...
Flush ==
    /\ Select("Flush")
    /\ skip' = TRUE
    /\ StartFlush(Entities, Head(cmds).by)
    /\ UNCHANGED <<config, accs, tick>>

\* ... UpdateConfig, which starts a new ticker, ...
ApplyConfig ==
    /\ Select("UpdateConfig")
    /\ config' = Head(cmds).rows
    /\ tick' = FALSE
    /\ UNCHANGED <<thread, accs, todo, backlog, reply, skip>>

\* Mutant: the shutdown does not flush.
ShutdownAtOnce ==
    /\ Select("Shutdown")
    /\ thread' = "exit"
    /\ accs' = [e \in Entities |-> <<>>]
    /\ UNCHANGED <<config, todo, backlog, reply, skip, tick>>

\* ... Shutdown: leave the loop and flush what is left; ...
Shutdown ==
    /\ Select("Shutdown")
    /\ thread' = "exit"
    /\ todo' = Entities
    /\ UNCHANGED <<config, accs, backlog, reply, skip, tick>>

\* ... or it takes a tick.
Tick ==
    /\ thread = "select"
    /\ tick
    /\ tick' = FALSE
    /\ skip' = FALSE
    /\ IF skip THEN UNCHANGED <<thread, todo, backlog, reply>>
               ELSE StartFlush(Entities, None)
    /\ UNCHANGED <<callers, cmds, config, accs, out, reader, own>>

\* Mutant: the pending rows are cloned, not taken.
VisitEntityCloning(e) ==
    /\ thread \in {"flush", "exit"}
    /\ backlog = {}
    /\ e \in todo
    /\ todo' = todo \ {e}
    /\ backlog' = ManyIntoChunks(accs[e])
    /\ UNCHANGED <<callers, cmds, thread, config, accs, reply, skip, tick, out,
                   reader, own>>

\* do_flush_all takes the rows of the next entity, in the order of the map.
VisitEntity(e) ==
    /\ thread \in {"flush", "exit"}
    /\ backlog = {}
    /\ e \in todo
    /\ todo' = todo \ {e}
    /\ backlog' = ManyIntoChunks(accs[e])
    /\ accs' = [accs EXCEPT ![e] = <<>>]
    /\ UNCHANGED <<callers, cmds, thread, config, reply, skip, tick, out, reader, own>>

\* tx_chunk.send: waits for room, and fails when all receivers are gone.
SendChunk(chunk) ==
    /\ chunk \in backlog
    /\ ~Receivers \/ Len(out) < OutCap
    /\ backlog' = backlog \ {chunk}
    /\ out' = IF Receivers THEN Append(out, chunk) ELSE out
    /\ owed' = [t \in Threads |-> owed[t] \ Ids(Range(chunk))]
    /\ UNCHANGED <<pc, cmd, outcome, drop, cmds, thread, config, accs, todo, reply,
                   skip, tick, reader, own>>

\* Mutant: the answer is sent before the chunks of the last entity are.
FlushDoneEarly ==
    /\ thread = "flush"
    /\ todo = {}
    /\ reply' = None
    /\ pc' = [t \in Threads |-> IF t = reply THEN "idle" ELSE pc[t]]
    /\ outcome' = [t \in Threads |-> IF t = reply THEN "Ok" ELSE outcome[t]]
    /\ thread' = IF backlog = {} THEN "select" ELSE thread
    /\ UNCHANGED <<cmd, owed, drop, cmds, config, accs, todo, backlog, skip, tick,
                   out, reader, own>>

\* The flush is over; on_done.send answers the caller if it still waits.
FlushDone ==
    /\ thread = "flush"
    /\ todo = {} /\ backlog = {}
    /\ thread' = "select"
    /\ reply' = None
    /\ pc' = [t \in Threads |-> IF t = reply THEN "idle" ELSE pc[t]]
    /\ outcome' = [t \in Threads |-> IF t = reply THEN "Ok" ELSE outcome[t]]
    /\ UNCHANGED <<cmd, owed, drop, cmds, config, accs, todo, backlog, skip, tick,
                   out, reader, own>>

\* The thread ends and drops tx_chunk.
Exit ==
    /\ thread = "exit"
    /\ todo = {} /\ backlog = {}
    /\ thread' = "done"
    /\ UNCHANGED <<callers, cmds, config, accs, todo, backlog, reply, skip, tick,
                   out, reader, own>>

\* crossbeam's ticker: one tick waits at most.
TickFires ==
    /\ ~tick
    /\ thread # "done"
    /\ tick' = TRUE
    /\ UNCHANGED <<callers, cmds, loop, out, reader, own>>

-----------------------------------------------------------------------------
(* Consumers *)

\* chunks(), or a clone of what it returned.
Subscribe(c) ==
    /\ reader[c] = "none"
    /\ own
    /\ reader' = [reader EXCEPT ![c] = "reading"]
    /\ UNCHANGED <<callers, cmds, loop, tick, out, own>>

Consume(c) ==
    /\ reader[c] = "reading"
    /\ out # <<>>
    /\ out' = Tail(out)
    /\ UNCHANGED <<callers, cmds, loop, tick, reader, own>>

\* The last receiver discards what is queued.
Close(c) ==
    /\ reader[c] = "reading"
    /\ reader' = [reader EXCEPT ![c] = "closed"]
    /\ out' = IF own \/ \E d \in Consumers \ {c} : reader[d] = "reading"
                THEN out ELSE <<>>
    /\ UNCHANGED <<callers, cmds, loop, tick, own>>

-----------------------------------------------------------------------------

Command == AppendChunk \/ AppendRow \/ Flush \/ ApplyConfig \/ Shutdown

Flushing ==
    \/ \E e \in Entities : VisitEntity(e)
    \/ \E chunk \in backlog : SendChunk(chunk)
    \/ FlushDone \/ Exit

Calls(t) ==
    \/ \E e \in Entities, s \in Shapes :
          Push(t, "AppendRow", e, s) \/ Push(t, "AppendChunk", e, s)
    \/ FlushAsync(t) \/ FlushBlocking(t)
    \/ \E n \in Range(Configs) : UpdateConfig(t, n)

Next ==
    \/ \E t \in Threads : Calls(t) \/ Send(t) \/ FlushTimeout(t)
    \/ DropBatcher \/ DropSend \/ DropJoin
    \/ Command \/ Tick \/ Flushing \/ TickFires
    \/ \E c \in Consumers : Subscribe(c) \/ Consume(c) \/ Close(c)

\* The batching thread runs, its select neglects neither the commands nor the
\* ticks (crossbeam picks at random), the ticker ticks, and threads inside a
\* call go on (the channel's mutex is fair).  Nobody has to make a call.
ThreadFairness ==
    /\ SF_vars(Command) /\ SF_vars(Tick) /\ WF_vars(Flushing) /\ WF_vars(TickFires)
    /\ WF_vars(DropSend) /\ WF_vars(DropJoin)
    /\ \A t \in Threads : SF_vars(Send(t))

\* In addition, handles returned by chunks() are read from.
ConsumerFairness == \A c \in Consumers : WF_vars(Consume(c))

Spec == Init /\ [][Next]_vars
ThreadSpec == Spec /\ ThreadFairness
FairSpec == ThreadSpec /\ ConsumerFairness

-----------------------------------------------------------------------------
(* Properties *)

\* No row is in two places of the pipeline, whatever flushes, ticks and
\* thresholds coincide: nothing is sent twice.
ExactlyOnce ==
    /\ Cardinality(Ids(Upstream \cup Out)) = Cardinality(Upstream \cup Out)
    /\ Out \cap Upstream = {}
    /\ Batched \cap (Pending \cup Queued) = {} /\ Pending \cap Queued = {}

\* Rows of a thread that share an entity and a shape go through the pipeline,
\* and so reach the consumers, in the order in which they were logged.
PerThreadOrder ==
    \A r1, r2 \in Upstream \cup Out :
        /\ r1.by = r2.by /\ r1.entity = r2.entity /\ r1.shape = r2.shape
        /\ ~r1.whole /\ ~r2.whole
        /\ r1.id < r2.id
        => /\ r1 \in Sending => r2 \in Sending
           /\ r1 \in Queued => r2 \in Queued \cup Sending
           /\ r1 \in Pending => r2 \notin Batched \cup Out
           /\ r1 \in Batched => r2 \notin Out
           /\ \A i, j \in 1..Len(out) : \A k \in 1..Len(out[i]), l \in 1..Len(out[j]) :
                 out[i][k] = r1 /\ out[j][l] = r2 => i < j \/ (i = j /\ k < l)

\* "flushing the pipeline guarantees that all previous data sent by the calling
\* thread has been batched and sent down the channel".
FlushGuarantee == \A t \in Threads : outcome[t] = "Ok" => owed[t] = {}

\* A row with components leaves the pipeline only through the output channel,
\* shutdown included, as long as somebody holds a receiver.
NoRowVanishes ==
    [][Receivers => \A r \in Upstream :
          r \in Upstream' \/ r \in Out' \/ r.shape = Empty]_vars

Read == \E c \in Consumers : reader[c] = "reading"

\* In spite of the two bounded channels the pipeline does not deadlock: every
\* call returns for as long as somebody reads the chunks, and the shutdown
\* returns with or without readers.
CallsReturn ==
    /\ \A t \in Threads : pc[t] # "idle" ~> (pc[t] = "idle" \/ ~Read)
    /\ drop = "send" ~> drop = "done"

\* "Shutting down cannot ever block", not even on a receiver that is not read.
ShutdownNeverBlocks == drop = "send" ~> drop = "done"

\* "The batching process is triggered solely by time and space thresholds --
\* whichever is hit first": ticks see to it that a row does not stay pending,
\* whatever the other entities do.
TickFlushes ==
    \A e \in Entities : accs[e] # <<>> /\ Read ~> (accs[e] = <<>> \/ ~Read)
=============================================================================
