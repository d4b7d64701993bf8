--------------------------- MODULE PipelineBudget ---------------------------
(***************************************************************************)
(* The fetch pipeline of a dataset query: re_datafusion's PipelineBudget,  *)
(* the IO loops that reserve from it and the CPU workers that give back.   *)
(*                                                                         *)
(* Every partition of the query has an IO loop and a CPU worker, on        *)
(* different threads, joined by a channel; all of them share one budget.   *)
(* The budget bounds the decoded bytes in flight and the number of         *)
(* segments open at once.  A fetch that does not fit enqueues a waiter,    *)
(* tries once more and parks; whoever frees bytes or a segment slot wakes  *)
(* the earliest waiter that would be admitted, and an admission that       *)
(* leaves room wakes the next one.                                         *)
(*                                                                         *)
(* The budget is shared memory, so a thread's calls are cut where another  *)
(* thread can run: every atomic update and every critical section is a     *)
(* step, and a call that makes several of them leaves the rest in todo.    *)
(* The futures of one IO loop are polled by that loop alone, so they       *)
(* interleave only where they await.                                       *)
(*                                                                         *)
(* Left out: the learned multiplier (a reservation is any of the sizes the *)
(* scenario allows for the fetch), the metrics, and the timelines behind   *)
(* the safe horizon (whether it moved, and what the collection freed, is a *)
(* choice).                                                                *)
(***************************************************************************)
EXTENDS Integers, Sequences, FiniteSets, FiniteSetsExt, SequencesExt

CONSTANTS
  Partitions,        \* the partitions of the query
  Scenarios,         \* the queries to consider, see MCPipelineBudget
  PipelineBuffer,    \* IO_PIPELINE_BUFFER, fetches polled at once by a loop
  ChannelSize,       \* CPU_THREAD_IO_CHANNEL_SIZE, messages in one channel
  StallThreshold     \* STALL_EMPTY_EMIT_THRESHOLD

\* A segment belongs to one partition and has one place in its order, and the
\* fetches of a partition bring chunks of its own segments.
WellFormed(q) ==
  /\ q.limit \in Nat \ {0}
  /\ \A p \in Partitions :
       /\ q.order[p] \in Seq(ToSet(q.order[p]))
       /\ q.fetches[p] \in Seq(ToSet(q.fetches[p]))
       /\ \A i \in DOMAIN q.fetches[p] :
            /\ q.fetches[p][i].sizes \subseteq Nat
            /\ DOMAIN q.fetches[p][i].chunks \subseteq ToSet(q.order[p])
            /\ \A s \in DOMAIN q.fetches[p][i].chunks : q.fetches[p][i].chunks[s] \in Nat
  /\ \A p, r \in Partitions :
       p # r => ToSet(q.order[p]) \cap ToSet(q.order[r]) = {}

ASSUME QueryAssumption == \A q \in Scenarios : WellFormed(q)

VARIABLES
  query,     \* the query that is running
  budget,    \* the shared PipelineBudget
  fut,       \* the reserving futures: where they are, what they reserve
  io,        \* the IO loops
  chan,      \* the channels from the IO loops to the CPU workers
  cpu,       \* the CPU workers: where they are, their emit_order
  stores,    \* CurrentStores of every segment
  todo       \* what a thread still has to do of the call it is in

pipelineVars == <<query, budget, fut, io, chan, cpu, stores, todo>>

Io(p)  == <<"io", p>>
Cpu(p) == <<"cpu", p>>
Threads == {Io(p) : p \in Partitions} \cup {Cpu(p) : p \in Partitions}

-----------------------------------------------------------------------------
(* The plan of the query *)

Segments == UNION {ToSet(query.order[p]) : p \in Partitions}
PartitionOf(s) == CHOOSE p \in Partitions : s \in ToSet(query.order[p])

\* A wave is the next `limit` segments of the partition, in emission order.
Waves(p) == (Len(query.order[p]) + query.limit - 1) \div query.limit
WaveSegments(p, w) ==
  SubSeq(query.order[p], (w - 1) * query.limit + 1,
         Min({w * query.limit, Len(query.order[p])}))

\* The futures that reserve: the admission of a wave, and the fetches.
Admission(p, w) == <<p, "wave", w>>
Fetch(p, i)     == <<p, "fetch", i>>
IsAdmission(f)  == f[2] = "wave"
Futures ==
  UNION {{Admission(p, w) : w \in 1..Waves(p)}
           \cup {Fetch(p, i) : i \in DOMAIN query.fetches[p]} : p \in Partitions}

\* What a fetch brings: for each of its segments one chunk, of some bytes.
Chunks(f) == query.fetches[f[1]][f[3]].chunks
SegmentsOf(f) ==
  IF IsAdmission(f) THEN ToSet(WaveSegments(f[1], f[3])) ELSE DOMAIN Chunks(f)
InWave(f, w) == SegmentsOf(f) \subseteq ToSet(WaveSegments(f[1], w))
FetchesOf(p, w) ==
  {f \in Futures : f[1] = p /\ ~IsAdmission(f) /\ InWave(f, w)}
Reservations(f) == IF IsAdmission(f) THEN {0} ELSE query.fetches[f[1]][f[3]].sizes
TaskTimeMin(f) ==
  IF IsAdmission(f)
    THEN Min({query.fetches[g[1]][g[3]].time : g \in FetchesOf(f[1], f[3])})
    ELSE query.fetches[f[1]][f[3]].time
Actual(f) == MapThenSumSet(LAMBDA s : Chunks(f)[s], DOMAIN Chunks(f))
ChunkCount(s) ==
  Cardinality({f \in Futures : ~IsAdmission(f) /\ s \in SegmentsOf(f)})

-----------------------------------------------------------------------------
(* The budget: admission and wake-up *)

\* Segments let through past the limit do not count against it.
EffectiveLen(b) == Cardinality(b.all) - Cardinality(b.bypass)

\* The segments of f that are not open yet.
Entering(b, f) == SegmentsOf(f) \ b.all

BytesFit(b, f) == b.current + fut[f].reserved <= query.budget

\* Mutant: any number of new segments enters as long as one slot is free.
SegmentsFitOne(b, f) ==
  EffectiveLen(b) < query.limit \/ SegmentsOf(f) \subseteq b.all

SegmentsFit(b, f) ==
  EffectiveLen(b) + Cardinality(Entering(b, f)) <= query.limit
WaiterAdmittable(b, f) == b.force \/ (SegmentsFit(b, f) /\ BytesFit(b, f))

\* One critical section: the bytes are claimed and the segments enter the
\* gate; those admitted past it are remembered.
Claim(b, f, reserved, past) ==
  [b EXCEPT !.current = @ + reserved,
            !.bypass = @ \cup past,
            !.all = @ \cup SegmentsOf(f)]

Oversize(f, reserved) ==
  reserved > query.budget \/ Cardinality(SegmentsOf(f)) > query.limit

\* The waiters that did not give up, in order of arrival, and the first of
\* some of them: the earliest task, and among equals the first that came.
Live(b) == SelectSeq(b.queue, LAMBDA f : f \notin b.cancelled)
Earliest(live, able) ==
  LET Before(i, j) == \/ TaskTimeMin(live[i]) < TaskTimeMin(live[j])
                      \/ TaskTimeMin(live[i]) = TaskTimeMin(live[j]) /\ i < j
  IN CHOOSE i \in able : \A j \in able \ {i} : Before(i, j)

\* wake_next drops the cancelled entries it meets, wakes the first waiter
\* that could be admitted now, and keeps the others.
WakeNext(b) ==
  LET live == Live(b)
      able == {i \in DOMAIN live : WaiterAdmittable(b, live[i])}
      first == Earliest(live, able)
  IN IF able = {}
       THEN [b EXCEPT !.queue = live]
       ELSE [b EXCEPT !.queue = RemoveAt(live, first),
                      !.permits = @ \cup {live[first]}]

-----------------------------------------------------------------------------
(* The budget: the steps its calls are made of *)

Saturated(b) == b.current * 100 >= 95 * Max({query.budget, 1})

\* The budget after one step of a call.  (The count of empty emits is only
\* compared with the threshold, and not counted further.)
After(b, step) ==
  CASE step.op = "free"    -> [b EXCEPT !.current = Max({0, @ - step.bytes})]
    [] step.op = "grow"    -> [b EXCEPT !.current = @ + step.bytes]
    [] step.op = "clear"   -> [b EXCEPT !.empties = 0]
    [] step.op = "calm"    -> [b EXCEPT !.force = FALSE]
    [] step.op = "cancel"  -> [b EXCEPT !.cancelled = @ \cup {step.waiter}]
    [] step.op = "publish" -> [b EXCEPT !.all = @ \ {step.segment},
                                        !.bypass = @ \ {step.segment}]
    [] step.op = "empty"   -> b
    [] step.op = "count"   -> [b EXCEPT !.empties = Min({@ + 1, StallThreshold})]
    [] step.op = "arm"     -> [b EXCEPT !.force = TRUE]
    [] step.op = "wake"    -> WakeNext(b)

Wake          == <<[op |-> "wake"]>>
Reset         == <<[op |-> "clear"], [op |-> "calm"]>>
EmptyEmit     == <<[op |-> "empty"]>>

\* What a step makes the call do next.  Vacating a slot wakes a waiter.  An
\* empty emit counts if the budget was saturated when it was looked at, and
\* is the start of a new count if not; enough of them arm the stall breaker,
\* and whoever arms it wakes a waiter.
Follow(b, step) ==
  CASE step.op = "publish" /\ step.segment \in b.all \cup b.bypass -> Wake
    [] step.op = "empty" /\ Saturated(b)  -> <<[op |-> "count"]>>
    [] step.op = "empty" /\ ~Saturated(b) -> <<[op |-> "clear"]>>
    [] step.op = "count" /\ b.empties + 1 >= StallThreshold -> <<[op |-> "arm"]>>
    [] step.op = "arm" /\ ~b.force -> Wake
    [] OTHER -> <<>>

Free(n)       == <<[op |-> "free", bytes |-> n]>>
Publish(s)    == <<[op |-> "publish", segment |-> s]>>
PublishAll(S) == [i \in 1..Cardinality(S) |->
                    [op |-> "publish", segment |-> SetToSeq(S)[i]]]

Release(n) == Free(n) \o Reset \o Wake

AdjustReservation(reserved, actual) ==
  CASE actual > reserved -> <<[op |-> "grow", bytes |-> actual - reserved]>>
    [] reserved > actual -> Free(reserved - actual) \o Reset \o Wake
    [] OTHER             -> <<>>

\* Mutant: a guard that is dropped returns its slots and not its bytes.
DropGuardKeepingBytes(f) == PublishAll(SegmentsOf(f))

\* ReservationGuard::drop without a commit.
DropGuard(f) ==
  (IF fut[f].reserved = 0 THEN <<>> ELSE Free(fut[f].reserved) \o Wake)
    \o PublishAll(SegmentsOf(f))

-----------------------------------------------------------------------------
(* Reserving: reserve_with_priority, one step between two awaits or locks *)

ThreadFree(t) == todo[t] = <<>>

\* A loop polls one of its futures at a time.
Polling(p) ==
  \E f \in Futures : f[1] = p /\ fut[f].at \in {"try", "enqueue", "recheck"}

\* The loop can run a future: it is not inside another one, and it is at the
\* await where this one is polled.
CanPoll(f) ==
  /\ ThreadFree(Io(f[1])) /\ ~Polling(f[1])
  /\ IF IsAdmission(f)
       THEN io[f[1]].at = "admit" /\ io[f[1]].wave = f[3]
       ELSE io[f[1]].at = "stream" /\ InWave(f, io[f[1]].wave)

\* buffer_unordered starts the fetches in order, a bounded number at once.
HasSlot(f) ==
  \/ IsAdmission(f)
  \/ LET wave == FetchesOf(f[1], io[f[1]].wave)
     IN /\ \A g \in wave : g[3] < f[3] => fut[g].at # "idle"
        /\ Cardinality({g \in wave : fut[g].at \notin {"idle", "done"}})
             < PipelineBuffer

\* What could never be admitted is let through at once, past both gates.
ReserveWithPriority(f) ==
  /\ fut[f].at = "idle" /\ CanPoll(f) /\ HasSlot(f)
  /\ \E reserved \in Reservations(f) :
       IF Oversize(f, reserved)
         THEN /\ fut' = [fut EXCEPT ![f] = [at |-> "hold", reserved |-> reserved]]
              /\ budget' = Claim(budget, f, reserved, Entering(budget, f))
         ELSE /\ fut' = [fut EXCEPT ![f] = [at |-> "try", reserved |-> reserved]]
              /\ UNCHANGED budget
  /\ UNCHANGED <<query, io, chan, cpu, stores, todo>>

\* try_admit succeeds; a waiter that was enqueued in between is cancelled,
\* and if room is left the next one is woken.
Admit(f) ==
  /\ fut[f].at \in {"try", "recheck"} /\ ThreadFree(Io(f[1]))
  /\ WaiterAdmittable(budget, f)
  /\ budget' = Claim(budget, f, fut[f].reserved,
                     IF budget.force THEN Entering(budget, f) ELSE {})
  /\ fut' = [fut EXCEPT ![f].at = "hold"]
  /\ todo' = [todo EXCEPT ![Io(f[1])] =
       (IF fut[f].at = "recheck"
          THEN <<[op |-> "cancel", waiter |-> f]>> ELSE <<>>)
       \o (IF budget'.current < query.budget THEN Wake ELSE <<>>)]
  /\ UNCHANGED <<query, io, chan, cpu, stores>>

FastPathFails(f) ==
  /\ fut[f].at = "try" /\ ThreadFree(Io(f[1]))
  /\ ~WaiterAdmittable(budget, f)
  /\ fut' = [fut EXCEPT ![f].at = "enqueue"]
  /\ UNCHANGED <<query, budget, io, chan, cpu, stores, todo>>

\* Mutant: the waiter parks without a second look.
EnqueueAndPark(f) ==
  /\ fut[f].at = "enqueue"
  /\ budget' = [budget EXCEPT !.queue = Append(@, f)]
  /\ fut' = [fut EXCEPT ![f].at = "parked"]
  /\ UNCHANGED <<query, io, chan, cpu, stores, todo>>

Enqueue(f) ==
  /\ fut[f].at = "enqueue"
  /\ budget' = [budget EXCEPT !.queue = Append(@, f)]
  /\ fut' = [fut EXCEPT ![f].at = "recheck"]
  /\ UNCHANGED <<query, io, chan, cpu, stores, todo>>

Park(f) ==
  /\ fut[f].at = "recheck" /\ ~WaiterAdmittable(budget, f)
  /\ fut' = [fut EXCEPT ![f].at = "parked"]
  /\ UNCHANGED <<query, budget, io, chan, cpu, stores, todo>>

\* notified().await returns, and the loop starts over.
Woken(f) ==
  /\ fut[f].at = "parked" /\ f \in budget.permits /\ CanPoll(f)
  /\ budget' = [budget EXCEPT !.permits = @ \ {f}]
  /\ fut' = [fut EXCEPT ![f].at = "try"]
  /\ UNCHANGED <<query, io, chan, cpu, stores, todo>>

-----------------------------------------------------------------------------
(* The IO loop *)

\* Every segment is announced by its number of chunks, and by its manifest if
\* rows are to be emitted before it is complete.
Announcement(segments) ==
  IF query.horizon
    THEN [k \in 1..2 * Len(segments) |->
            [kind |-> IF k % 2 = 1 THEN "count" ELSE "manifest",
             segment |-> segments[(k + 1) \div 2], bytes |-> 0]]
    ELSE [k \in 1..Len(segments) |->
            [kind |-> "count", segment |-> segments[k], bytes |-> 0]]

\* The wave is admitted: its segments are announced to the CPU worker.
Announce(p) ==
  /\ io[p].at = "admit" /\ ThreadFree(Io(p))
  /\ fut[Admission(p, io[p].wave)].at = "hold"
  /\ io' = [io EXCEPT ![p].at = "announce", ![p].out =
                              Announcement(WaveSegments(p, io[p].wave))]
  /\ UNCHANGED <<query, budget, fut, chan, cpu, stores, todo>>

\* The receiver is the last thing the CPU worker drops.
ReceiverClosed(p) == cpu[p].at = "ended"

Send(p) ==
  /\ io[p].out # <<>> /\ io[p].at \in {"announce", "deliver"}
  /\ ThreadFree(Io(p)) /\ ~ReceiverClosed(p) /\ Len(chan[p]) < ChannelSize
  /\ chan' = [chan EXCEPT ![p] = Append(@, Head(io[p].out))]
  /\ io' = [io EXCEPT ![p].out = Tail(@)]
  /\ UNCHANGED <<query, budget, fut, cpu, stores, todo>>

\* The announcement is complete: the admission is committed, with its zero
\* bytes.  Or the chunks of a fetch are: back to the stream of fetches.
Sent(p) ==
  /\ io[p].out = <<>> /\ io[p].at \in {"announce", "deliver"}
  /\ ThreadFree(Io(p))
  /\ io' = [io EXCEPT ![p].at = "stream"]
  /\ fut' = IF io[p].at = "announce"
              THEN [fut EXCEPT ![Admission(p, io[p].wave)].at = "done"]
              ELSE fut
  /\ UNCHANGED <<query, budget, chan, cpu, stores, todo>>

\* The CPU worker hung up.  During the announcement the admission's guard is
\* dropped; otherwise the loop leaves with the fetches it has in flight.
SendFails(p) ==
  /\ io[p].out # <<>> /\ io[p].at \in {"announce", "deliver"}
  /\ ThreadFree(Io(p)) /\ ReceiverClosed(p)
  /\ IF io[p].at = "announce"
       THEN LET f == Admission(p, io[p].wave)
            IN /\ todo' = [todo EXCEPT ![Io(p)] = DropGuard(f)]
               /\ fut' = [fut EXCEPT ![f].at = "done"]
               /\ io' = [io EXCEPT ![p].at = "ended"]
       ELSE /\ io' = [io EXCEPT ![p].at = "leave"]
            /\ UNCHANGED <<todo, fut>>
  /\ UNCHANGED <<query, budget, chan, cpu, stores>>

\* The segments of a fetch in the order of emission: the one sequence of them
\* that agrees with it.
InEmissionOrder(f) ==
  LET order == query.order[f[1]]
      Before(r, s) == \E i, j \in DOMAIN order : i < j /\ order[i] = r /\ order[j] = s
  IN {sorted \in [1..Cardinality(SegmentsOf(f)) -> SegmentsOf(f)] :
        /\ ToSet(sorted) = SegmentsOf(f)
        /\ \A i, j \in DOMAIN sorted : i < j => Before(sorted[i], sorted[j])}

\* The chunks of a fetch, by segment.
Delivery(f, sorted) ==
  [i \in DOMAIN sorted |->
     [kind |-> "chunks", segment |-> sorted[i], bytes |-> Chunks(f)[sorted[i]]]]

\* The answer arrives: the reservation is committed at the decoded size and
\* the stream yields the chunks to the loop.
FetchLands(f) ==
  /\ ~IsAdmission(f) /\ fut[f].at = "hold" /\ CanPoll(f)
  /\ fut' = [fut EXCEPT ![f].at = "done"]
  /\ todo' = [todo EXCEPT ![Io(f[1])] =
                AdjustReservation(fut[f].reserved, Actual(f))]
  /\ \E sorted \in InEmissionOrder(f) :
       io' = [io EXCEPT ![f[1]].at = "deliver", ![f[1]].out = Delivery(f, sorted)]
  /\ UNCHANGED <<query, budget, chan, cpu, stores>>

\* The fetch fails: its guard is dropped and the error ends the loop.
FetchFails(f) ==
  /\ ~IsAdmission(f) /\ fut[f].at = "hold" /\ CanPoll(f)
  /\ f[3] \in query.failing[f[1]]
  /\ fut' = [fut EXCEPT ![f].at = "done"]
  /\ todo' = [todo EXCEPT ![Io(f[1])] = DropGuard(f)]
  /\ io' = [io EXCEPT ![f[1]].at = "leave"]
  /\ UNCHANGED <<query, budget, chan, cpu, stores>>

\* The stream of fetches is dropped: the guards that are held return, one by
\* one, what they reserved; the futures that are parked just disappear.
Leave(p) ==
  /\ io[p].at = "leave" /\ ThreadFree(Io(p))
  /\ LET mine == {f \in Futures : f[1] = p}
         held == {f \in mine : ~IsAdmission(f) /\ fut[f].at = "hold"}
     IN \/ /\ \E f \in held : /\ todo' = [todo EXCEPT ![Io(p)] = DropGuard(f)]
                              /\ fut' = [fut EXCEPT ![f].at = "done"]
           /\ UNCHANGED io
        \/ /\ held = {}
           /\ fut' = [f \in Futures |->
                        IF f \in mine THEN [fut[f] EXCEPT !.at = "done"] ELSE fut[f]]
           /\ io' = [io EXCEPT ![p].at = "ended"]
           /\ UNCHANGED todo
  /\ UNCHANGED <<query, budget, chan, cpu, stores>>

NextWave(p) ==
  /\ io[p].at = "stream" /\ ThreadFree(Io(p))
  /\ \A f \in FetchesOf(p, io[p].wave) : fut[f].at = "done"
  /\ io' = IF io[p].wave < Waves(p)
             THEN [io EXCEPT ![p].at = "admit", ![p].wave = @ + 1]
             ELSE [io EXCEPT ![p].at = "ended"]
  /\ UNCHANGED <<query, budget, fut, chan, cpu, stores, todo>>

-----------------------------------------------------------------------------
(* The CPU worker *)

Complete(s, st) == st.announced /\ st.received >= ChunkCount(s)

\* What the statistics of a segment's store say after a message.  The store
\* neither splits nor compacts; it holds the chunks it was sent, less those
\* it had no row of to add (empty ones, chunks it has already) and the static
\* ones that others overwrote.
BytesAfter(s, bytes) ==
  IF s \in query.overwritten THEN 0..stores[s].bytes + bytes ELSE {stores[s].bytes + bytes}

\* One message.  A segment that has all its chunks leaves the gate although
\* it may have to wait for its turn to be emitted.
Receive(p) ==
  /\ cpu[p].at = "recv" /\ ThreadFree(Cpu(p)) /\ chan[p] # <<>>
  /\ LET m  == Head(chan[p])
         s  == m.segment
         st == [stores[s] EXCEPT !.at = "open",
                                 !.announced = @ \/ m.kind = "count",
                                 !.received = @ + (IF m.kind = "chunks" THEN 1 ELSE 0)]
         complete == Complete(s, st)
     IN /\ stores[s].at \in {"none", "open"}
        /\ \E bytes \in BytesAfter(s, m.bytes) :
             stores' = [stores EXCEPT ![s] =
                 IF complete
                   THEN [st EXCEPT !.bytes = bytes, !.at = "ready", !.slotReleased = TRUE]
                   ELSE [st EXCEPT !.bytes = bytes]]
        /\ cpu' = [cpu EXCEPT
             ![p].order = IF stores[s].at = "none" THEN Append(@, s) ELSE @,
             ![p].at = IF m.kind = "count" /\ ~complete THEN "recv" ELSE "emit"]
        /\ todo' = [todo EXCEPT ![Cpu(p)] =
                      IF complete /\ ~st.slotReleased THEN Publish(s) ELSE <<>>]
  /\ chan' = [chan EXCEPT ![p] = Tail(@)]
  /\ UNCHANGED <<query, budget, fut, io>>

NothingToEmit(p) ==
  /\ cpu[p].at = "emit" /\ ThreadFree(Cpu(p)) /\ cpu[p].order = <<>>
  /\ cpu' = [cpu EXCEPT ![p].at = "recv"]
  /\ UNCHANGED <<query, budget, fut, io, chan, stores, todo>>

\* The worker stops when the row limit is reached or the consumer is gone.
MayHangUp(p) == IF p \in query.limited THEN BOOLEAN ELSE {FALSE}

\* The head of the order is complete: it is drained and dropped, which gives
\* its bytes back.
FlushHead(p) ==
  /\ cpu[p].at = "emit" /\ ThreadFree(Cpu(p)) /\ cpu[p].order # <<>>
  /\ LET s == Head(cpu[p].order)
     IN /\ stores[s].at = "ready"
        /\ stores' = [stores EXCEPT ![s].at = "done", ![s].bytes = 0]
        /\ todo' = [todo EXCEPT ![Cpu(p)] = Release(stores[s].bytes)]
  /\ \E hangUp \in MayHangUp(p) :
       cpu' = [cpu EXCEPT ![p].order = Tail(@),
                          ![p].at = IF hangUp THEN "drop" ELSE "emit"]
  /\ UNCHANGED <<query, budget, fut, io, chan>>

\* A segment whose rows are given by explicit index values is emitted when it
\* is complete; until then the worker goes on without a word to the budget.
SkipIncremental(p) ==
  /\ cpu[p].at = "emit" /\ ThreadFree(Cpu(p)) /\ cpu[p].order # <<>>
  /\ stores[Head(cpu[p].order)].at = "open"
  /\ Head(cpu[p].order) \in query.indexed
  /\ cpu' = [cpu EXCEPT ![p].at = "recv"]
  /\ UNCHANGED <<query, budget, fut, io, chan, stores, todo>>

\* Rows can be emitted and chunks collected only below a safe horizon.
MayEmit(s) == IF query.horizon /\ stores[s].received > 0 THEN BOOLEAN ELSE {FALSE}
MayFree(s) == IF query.horizon THEN 0..stores[s].bytes ELSE {0}

\* The head is still in flight: rows below the safe horizon are emitted, if
\* it moved and there are any, and what they no longer need is collected.
FlushIncremental(p) ==
  /\ cpu[p].at = "emit" /\ ThreadFree(Cpu(p)) /\ cpu[p].order # <<>>
  /\ LET s == Head(cpu[p].order)
         Collected(n) == IF n > 0 THEN Release(n) ELSE <<>>
     IN /\ stores[s].at = "open" /\ s \notin query.indexed
        /\ \E emitted \in MayEmit(s), freed \in MayFree(s), hangUp \in MayHangUp(p) :
             /\ hangUp => emitted
             /\ stores' = [stores EXCEPT ![s].bytes = @ - freed]
             /\ todo' = [todo EXCEPT ![Cpu(p)] =
                  (IF emitted THEN Reset ELSE EmptyEmit) \o Collected(freed)]
             /\ cpu' = [cpu EXCEPT ![p].at = IF hangUp THEN "drop" ELSE "recv"]
  /\ UNCHANGED <<query, budget, fut, io, chan>>

\* Mutant: dropping a segment that is not complete keeps its slot.
DropStoreKeepingSlot(s) == Release(stores[s].bytes)

\* Drop for CurrentStores.
DropStore(s) ==
  Release(stores[s].bytes)
    \o (IF stores[s].slotReleased THEN <<>> ELSE Publish(s))

\* The worker returns, at the end of the stream or because it hung up.
Stopping(p) ==
  /\ ThreadFree(Cpu(p))
  /\ \/ cpu[p].at = "drop"
     \/ cpu[p].at = "recv" /\ chan[p] = <<>>
          /\ io[p].at = "ended" /\ ThreadFree(Io(p))

\* Every store it still has is dropped ...
DropNext(p) ==
  /\ Stopping(p) /\ cpu[p].order # <<>>
  /\ LET s == Head(cpu[p].order)
     IN /\ todo' = [todo EXCEPT ![Cpu(p)] = DropStore(s)]
        /\ stores' = [stores EXCEPT ![s].at = "done", ![s].bytes = 0]
  /\ cpu' = [cpu EXCEPT ![p].at = "drop", ![p].order = Tail(@)]
  /\ UNCHANGED <<query, budget, fut, io, chan>>

\* ... and then the receiver is.
WorkerReturns(p) ==
  /\ Stopping(p) /\ cpu[p].order = <<>>
  /\ cpu' = [cpu EXCEPT ![p].at = "ended"]
  /\ UNCHANGED <<query, budget, fut, io, chan, stores, todo>>

-----------------------------------------------------------------------------
(* The specification *)

\* The next step of a call that a thread is in.
Continue(t) ==
  /\ todo[t] # <<>>
  /\ budget' = After(budget, Head(todo[t]))
  /\ todo' = [todo EXCEPT ![t] = Follow(budget, Head(@)) \o Tail(@)]
  /\ UNCHANGED <<query, fut, io, chan, cpu, stores>>

\* A partition without segments is an empty stream: nothing is spawned.
PipelineInit ==
  /\ query \in Scenarios
  /\ budget = [current |-> 0, force |-> FALSE, empties |-> 0, all |-> {},
               bypass |-> {}, queue |-> <<>>, cancelled |-> {}, permits |-> {}]
  /\ fut = [f \in Futures |-> [at |-> "idle", reserved |-> 0]]
  /\ io = [p \in Partitions |->
       [at |-> IF query.order[p] = <<>> THEN "ended" ELSE "admit",
        wave |-> 1, out |-> <<>>]]
  /\ chan = [p \in Partitions |-> <<>>]
  /\ cpu = [p \in Partitions |->
       [at |-> IF query.order[p] = <<>> THEN "ended" ELSE "recv",
        order |-> <<>>]]
  /\ stores = [s \in Segments |->
       [at |-> "none", announced |-> FALSE, received |-> 0, bytes |-> 0,
        slotReleased |-> FALSE]]
  /\ todo = [t \in Threads |-> <<>>]

FutureStep(f) ==
  \/ ReserveWithPriority(f) \/ Admit(f) \/ FastPathFails(f) \/ Enqueue(f) \/ Park(f)
  \/ Woken(f) \/ FetchLands(f) \/ FetchFails(f)

IoStep(p) ==
  \/ \E f \in Futures : f[1] = p /\ FutureStep(f)
  \/ Announce(p) \/ Send(p) \/ Sent(p) \/ SendFails(p) \/ Leave(p) \/ NextWave(p)

CpuStep(p) ==
  Receive(p) \/ NothingToEmit(p) \/ FlushHead(p) \/ SkipIncremental(p)
  \/ FlushIncremental(p) \/ DropNext(p) \/ WorkerReturns(p)

PipelineNext ==
  \/ \E p \in Partitions : IoStep(p) \/ CpuStep(p)
  \/ \E t \in Threads : Continue(t)

PipelineSpec == PipelineInit /\ [][PipelineNext]_pipelineVars

\* As long as some thread can run, one does, and a fetch is answered: the
\* requests have connect and read timeouts.  (A query has finitely many steps,
\* so that fairness to every single thread would exclude nothing more.)
FairPipelineSpec == PipelineSpec /\ WF_pipelineVars(PipelineNext)

-----------------------------------------------------------------------------
(* Properties *)

Sum(messages) ==
  FoldSeq(LAMBDA m, sum : m.bytes + sum, 0, messages)
Owed(t) ==
  FoldSeq(LAMBDA step, sum : sum + (CASE step.op = "free" -> step.bytes
                                      [] step.op = "grow" -> 0 - step.bytes
                                      [] OTHER -> 0), 0, todo[t])

\* The decoded bytes that are in memory, or about to be: what running fetches
\* have reserved, the chunks a loop is sending, those in a channel that is
\* still read, and the stores; and what threads are about to count.
InMemory ==
  MapThenSumSet(LAMBDA f : fut[f].reserved, {f \in Futures : fut[f].at = "hold"})
    + MapThenSumSet(LAMBDA p : Sum(io[p].out), {p \in Partitions : io[p].at = "deliver"})
    + MapThenSumSet(LAMBDA p : Sum(chan[p]), {p \in Partitions : ~ReceiverClosed(p)})
    + MapThenSumSet(LAMBDA s : stores[s].bytes, Segments)
    + MapThenSumSet(LAMBDA t : Owed(t), Threads)

\* The two ways bytes leave memory without being released: messages that are
\* dropped because the worker hung up, and chunks that a store did not keep.
Lost ==
  \/ query.overwritten # {}
  \/ \E p \in Partitions : /\ io[p].out # <<>> \/ chan[p] # <<>>
                           /\ ReceiverClosed(p) \/ io[p].at \in {"leave", "ended"}

\* The budget never counts less than is in memory, and it counts exactly that
\* as long as no bytes were lost.  Bytes are handed from the fetch through the
\* channel to the store and returned in parts, by different threads, and a
\* fetch may fail at any time.
BudgetAccounting ==
  /\ budget.current >= InMemory
  /\ ~Lost => budget.current = InMemory

Failed(p) == io[p].at \in {"leave", "ended"} /\ query.failing[p] # {}

\* The segment limit bounds the state of the CPU workers: no more incomplete
\* segments are open than the limit, apart from those let through past it.
\* A failed fetch gives its slot back before its partition's worker has
\* dropped the segment, so its partition does not count.
SegmentLimitHolds ==
  Cardinality({s \in Segments \ budget.bypass :
                 stores[s].at = "open" /\ ~Failed(PartitionOf(s))}) <= query.limit

Ended(p) == /\ io[p].at = "ended" /\ ThreadFree(Io(p))
            /\ cpu[p].at = "ended"

\* What the CPU worker never received, because it had stopped.
Undelivered(p) == io[p].out # <<>> \/ chan[p] # <<>>

\* A partition that is over, whether it succeeded or one of its fetches
\* failed, holds no slot of the gate that the others are waiting for: each
\* segment is vacated by the guard that failed or by the worker that dropped
\* it, on different threads.  (Not if the worker stopped before it received
\* everything, see SlotsVacated.)
SlotsReturned ==
  \A s \in budget.all : Ended(PartitionOf(s)) => Undelivered(PartitionOf(s))

\* The same for a worker that stops early, at its row limit.  The comment on
\* the admission of a wave says that the slots of segments the CPU worker
\* will never observe are vacated.
SlotsVacated == \A s \in budget.all : ~Ended(PartitionOf(s))

Done == \A p \in Partitions : Ended(p)

\* The query ends: no IO loop stays parked although what it waits for is free
\* or will be, no segment is kept from its turn.  (PriorityWaiter::cancelled: an
\* orphan does "not steal wake events from genuine parked waiters"; wake_next: "a
\* lost race here costs one extra park, never correctness".)
Terminates == <>Done

\* A wake-up that went to a future which no longer waits for it.
Orphaned == \E g \in budget.permits : fut[g].at # "parked"

\* A slot that nobody will vacate.
SlotLeaked == \E s \in budget.all : Ended(PartitionOf(s))

\* A waiter sleeps for good: its bytes do not fit beside those that are held
\* and the stall breaker has not been armed, or slots it needs were leaked, or
\* an orphan took the wake-up.
Starves(f) ==
  /\ fut[f].at = "parked" /\ f \notin budget.permits
  /\ \/ ~BytesFit(budget, f) /\ ~budget.force
     \/ ~SegmentsFit(budget, f) /\ SlotLeaked
     \/ Orphaned

\* Every query ends, or stays at a waiter that starves: but for an orphan, no
\* wake-up is lost between a waiter's look at the budget and its await, whoever
\* frees bytes or slots at that moment.
EndsOrStarves == <>[](Done \/ \E f \in Futures : Starves(f))
=============================================================================
