# TLA+ verification of Rerun's data pipelines

Rerun is a logging SDK and a viewer. A program logs rows; the SDK batches them
into chunks, sends them over gRPC to a proxy, and the proxy keeps a history and
streams to the viewers that connect, now or later. The viewer keeps the chunks in
a store, fetches those of recordings that live on a server when it needs them, and
queries of datasets fetch chunks through a pipeline of their own. This directory
models these pipelines: the queues with backpressure, the threads and tasks around
them, the store, and the promises they make about loss, order, memory and
termination.

    RecordingStream -> ChunkBatcher -> sink -> GrpcClient ==gRPC==> MessageProxy -> viewers
    (forwarding thread) (thread)              (thread, stream)      (event loop)      |
       QuotaChannel in and out                 mpsc queue           BroadcastChannel  |
                                                     LogReceiverSet (in-process)      |
                                                                                      v
    server ==downloads==> EntityDb (manifest, load states, requests) over ChunkStore
    server ==fetches====> PipelineBudget (IO loops -> CPU workers), per dataset query
    browser ------------> OpenLifecycleRegistry (operations, sources, recordings)

## Inventory

| Part (crate) | State | Operations | Talks to | Hard behaviour | What makes it correct |
| --- | --- | --- | --- | --- | --- |
| byte-bounded channel (`re_quota_channel::sync`) | byte count, receiver count, inner queue, sender mutex, condition variable | `send`, `try_send`, `recv*`, clone and drop of receivers | crossbeam; used by the batcher and the log channels | check-then-sleep, receivers leaving, oversized messages | no lost wake-up, budget kept, bytes accounted for, calls return |
| broadcast channel (`async_broadcast_channel`) | byte, message and receiver counters; tokio ring; `Notify` | `send_async`, `subscribe`, `recv`, drops | tokio; used by the proxy | reservation and inner send are two steps, notifications without permits | nobody lags, counters exact, sends return |
| mpsc channel (`async_mpsc_channel`) | tokio queue | `send` | the proxy's event queue | only a slow-send warning | bounded queue |
| batcher (`re_chunk::batcher`) | one accumulator per entity, configuration, `skip_next_tick` | push, flush, configure, tick, drop | two byte-bounded channels | several threads, ticks, shutdown, blocked output | exactly once, per-thread order, flush covers what came before, drop returns |
| chunk splitting (`many_into_chunks`) | none: an algorithm over the rows | group, cut, finish | the batcher | thresholds, unsorted times, hash grouping | rows partitioned, homogeneous chunks, right flags |
| write client (`re_grpc_client::write`) | command queue, status, client thread, request stream | send, flush, drop; connect, stream | tonic, the proxy | server absent, connection severed, flush timeouts, status read late | a successful flush means sent, no gaps, drop delivers, flush and shutdown end |
| message proxy (`re_grpc_server`) | event queue, history in three queues, subscriptions | write, connect, read, disconnect, garbage collection | broadcast channel, clients | clients that join during a broadcast, slow clients, memory limit | history and live stream join without gap or duplicate; the right messages are dropped |
| viewer control (`viewer_control.rs`) | pending requests | screenshot, time cursor, URL, inspect | proxy, viewer | answers that never come | commands are answered while a viewer runs |
| log channels (`re_log_channel`) | `connected` flags, the set's vector | send, flush, quit; add, remove, receive | byte-bounded channels, forwarder, viewer | flags refreshed only by polling, a mutex held while blocked | receivers are dropped only when dry, pollers get rid of disconnected ones |
| recording stream and sinks (`re_sdk`) | strong and weak handles, importer threads, batcher, command channel, current sink | log, flush, exchange or finalize the sink, import files, drop | batcher, forwarding thread, sinks | rows and commands take different routes, exchanges race with logging, drops race with importers | nothing lost or doubled at an exchange, an answer covers what came before, calls return |
| chunk store (`re_chunk_store`) | physical chunks, virtual index, lineage with reference counts, compactions, splits, static map | insert, split, compact, collect, drop an entity or a time range, manifest, latest-at | entity database, subscribers | chunks that come again after they were split, merged or collected; estimates in the index | rows neither lost nor doubled, lineage alive, latest-at finds the latest |
| entity database (`re_entity_db`, `re_viewer`) | load state of every chunk of a manifest, batches under way | receive messages and manifests, prefetch, receive downloads, cancel, purge | chunk store and its events, downloads | states derived from events, cancellation, failed downloads | marked as loaded only if it is, loaded in the end |
| query caches (`re_query`) | caches of latest-at and range results | query, invalidate | store events | stale caches | not part of this development yet |
| fetch pipeline of a query (`re_datafusion`) | byte budget, segment gate, queue of waiters, stall breaker; IO loops, channels, stores of segments | reserve, adjust, release, publish; waves, fetches, emission in order | server, query engine | atomics and locks of many threads, guards dropped on errors, waiters parked in a priority queue | bytes and slots accounted for, the segment limit holds, no wake-up is lost |
| open lifecycle registry (`re_web`) | four maps that point at each other | register, publish, attach, remove, dispose | browser API | reuse of stores while tombstones remain | lookups exact, nothing leaks |
| importers, catalog client and server, viewer and UI, SDK bindings, code generation, utilities | | | | data conversion, UI, generated code | not part of this development |

`PROJECT.json` lists every part with its status, and under `hazards` the lines at
which this code is hard to test.

## Modules

Every component module declares its parameters as CONSTANTS with a named
assumption, one action per step of the code between two points at which another
thread can run, and its properties at the end. A step is the code executed under
one acquisition of a lock, one atomic operation, or one poll of a future. `MC*`
modules give the instances; where a configuration alone gives one there is none. Definitions introduced by `\* Mutant:` are wrong
variants used to test the properties; no specification uses them.

* **QuotaChannel** - `sync/mod.rs`, native build. `spc` and `rpc` are the
  program counters of senders and receiver handles; `active_sender` is the queue
  of the fair mutex; `waiting` is being parked on the condition variable. A
  receiver's `Take`, `Account` and `Notify` are three steps because
  `manual_on_receive` runs after the inner receive and notifies after unlocking.
  `warned` decides whether a wait has a timeout. `WithinBudget` allows more than the
  capacity only to one message in flight, all others being empty.
* **BroadcastChannel** - `async_broadcast_channel.rs`. `log` is the sequence of
  messages sent to tokio's ring, `next` each receiver's position; a message is
  live while some receiver has it unread or holds a clone. Checking the limits
  and parking are two steps (`Full`, `Park`), as the code creates its
  `Notified` future after `try_send` has released the lock. tokio's ring and
  `Notify` are external. **BroadcastQueue** is the abstract specification: a queue for
  each subscriber, with room for `max_messages`, that loses nothing. `ImplementsQueue`
  maps the queue of an attached receiver to what it has not read of `log`; a receiver
  that drains what it had not read has left already.
* **MessageProxy** - the event loop of `re_grpc_server`, with `viewer_control.rs`. A
  message is broadcast and then stored (`Store`, with the garbage collection before it);
  a `NewClient` event copies the history and subscribes in one step. The wait for room
  is that of `send_async`: `FindFull`, `Park` with or without the warning, and `Retry`
  after the timeout or a notification (`Notify`), which reaches only a loop that is
  parked. `options`, chosen initially from `Scenarios`, fixes the
  playback behaviour (chaining or merging history and live stream), the memory limit,
  the readers and the messages. Requests to the viewer are messages whose copies,
  in the event queue, the broadcast channel, the history or a client's queue, all
  hold the sender of the answer; `RequestDropped` is the error of a request all of
  whose copies are gone. The task of `spawn_with_recv` forwards them to the viewer's log
  channel (`Forward`), and the viewer handles them as in `logic.rs`: a command is answered
  in the frame that receives it, an inspection by its plugin, a screenshot when the
  renderer delivers it to `process_screenshot_result`, if it was asked for at all. All
  screenshots go to one path, the case in which one notifier replaces another. The broadcast channel is represented by its promise
  (BroadcastQueue, which BroadcastChannel is proved to implement): a bounded, lossless
  queue per subscriber.
* **GrpcClient** - `write.rs`. The client thread connects, runs the
  `write_messages` call, stores the final status and exits; the request stream
  is polled by the connection and takes commands from the queue. Callers send
  and flush; a flush enqueues its request, waits and inspects the status. The
  network may take, deliver or lose what the stream yields (`WireCap` in flight).
* **ChunkBatcher** - `batcher.rs`, `ChunkBatcher` and `batching_thread`. Callers
  block on the input channel, the thread handles one command or tick at a time,
  visits the entities in any order, and blocks on the output channel. No row makes a
  corrupt chunk, which the code drops with an error.
* **ChunkSplitting** - `many_into_chunks` row by row, started from every batch
  within the bounds. Groups are visited in any order, as the maps are hashed;
  hashes are taken to be free of collisions.
* **LogReceiverSet** - `re_log_channel` and the loop of `spawn_from_rx_set`.
  The set's mutex is held while `reader` is not idle. A reader makes one of the three
  receive calls over and over, chosen initially as `call`: `spawn_from_rx_set` always
  `recv`, the viewer always `try_recv`. `try_recv` is `recv_timeout` without waiting.
* **RecordingStream** - `recording_stream.rs` and `log_sink.rs`. A public function is
  the sequence of the steps at which it can wait (`SetSinkSteps`, `FlushSteps`,
  `DropInnerSteps`, ...), kept in `todo`; the forwarding thread prefers chunks to
  commands. `sunk` has the items of every sink so far, in the order of arrival.
  The batcher is what ChunkBatcher shows it to be; sinks differ in what an exchange
  does to them: buffered and memory sinks have a backlog, file sinks are
  finalized, a multi sink keeps those of its parts that are not.
* **RowStore**, **ChunkStore**, **EntityDb** - `RowStore` is the abstract
  specification: a bag of rows, with insertions that add the rows of a chunk that are not
  there and removals that only remove. `ChunkStore` has the operations of
  `re_chunk_store` as operators from stores to stores, since they call each other
  (insertion removes, removal drops lineage, deletion of a time range inserts).
  `EntityDb` makes actions of them, one per call of the viewer's thread, with load
  states and downloads. The refinement mapping `Copies` counts, for every row,
  the physical chunks that hold it; `RefinesRowStore` is the instance's `Spec`.
* **OpenLifecycleRegistry** - the four maps of `open_lifecycle_registry.rs`, both
  directions of every relation kept separately as in the code. Calls that return an
  error change nothing and are left out.
* **PipelineBudget** - `pipeline_budget.rs`, `io_loop.rs`, `cpu_worker.rs`. Every
  atomic update and critical section of the budget is a step; what a thread still has
  to do of the call it is in is in `todo`. Guards and messages that a failed loop or a
  finished worker leaves behind are dropped one at a time (`Leave`, `DropNext`), since
  each drop is a release of its own that other threads see. The futures of one IO loop interleave only
  where they await, and wait when the channel to the worker is full. `query`, chosen
  from `Scenarios`, gives the partitions their segments, fetches and sizes, the segments
  whose chunks overwrite each other (their store holds any part of what it was sent,
  `BytesAfter`) and those read at explicit index values (`SkipIncremental`: they are not
  emitted incrementally and never count for the stall breaker).
* **BudgetProofs** (QuotaChannel and PipelineBudget), **BroadcastChannelProofs**,
  **MessageProxyProofs**, **GrpcClientProofs**, **ChunkBatcherProofs**,
  **ChunkSplittingProofs**, **LogReceiverSetProofs**, **RecordingProofs**
  (RecordingStream and OpenLifecycleRegistry) - theorems.

## Runs

| Run | Checks | Bounds and why they are enough |
| --- | --- | --- |
| `quota` | `NoLostWakeup`, `WithinBudget`, `CallsReturn` | two senders and two receiver handles, three sends, capacity 2, sizes 0 to 3: empty, fitting, exactly full and oversized messages meet a clone, a drop and both kinds of wait |
| `broadcast` | `NoLag`, `MessageAccounting`, `CallsReturnOrWarn`, `ImplementsQueue` | two senders, two receivers, ring of 2, three sends of 1 or 4 bytes against a limit of 3: the count limit and the byte limit are both hit, receivers join and leave between the two steps of a send |
| `proxy` | `OldestDroppedFirst`, `NoDuplicates`, `PersistentReachesAll`, `Delivered`, `RequestsAnswered` | five scenarios: sequences of every kind of message in two sizes around a small limit, which is undershot, met and overshot; a viewer and a client that joins at any time under either playback behaviour, with room for one message in the broadcast channel so that the loop waits, warns and may miss its wake-up; and requests of the three kinds, among data, to a viewer that may leave, with a second client and without |
| `client` | `FlushedMeansSent`, `DropDelivers`, `QueuedFlushReturns`, `ShutdownCompletes` | two threads, two calls, queue of 2, two messages on the wire, any failure at any time |
| `batcher` | `ExactlyOnce`, `PerThreadOrder`, `FlushGuarantee`, `CallsReturn` | one thread, two entities that fill independently, two configurations (flush at three rows or at one), channels of one element so that every send can block |
| `splitting` | `RowsPartitioned`, `UnsortedByLastRow` | every batch of up to four rows on one or both of two timelines, times 1 and 2, threshold 2 (so a chunk is cut and the next one can be cut or left open), and every batch of up to two static or temporal rows over two components and two datatypes |
| `receivers` | `RunDry`, `FlushMeansReceived`, `DisconnectedRemoved` | two channels, two messages and a flush each, so that the polling pass can return early with messages left; a reader that calls `recv` and one that calls `try_recv`, whose steps are those of `recv_timeout` |
| `entity_db` | `LineageAlive`, `LatestAtComplete`, `LoadedMeansPresent`, `RefinesRowStore`, `Loads` | four recordings (on a server, with failing downloads, streamed with repetitions, a blueprint); a chunk of three unsorted rows that is split and chunks that overlap it and are merged with its pieces; at most two rows per chunk; three purges, so that a chunk can be collected, fetched, split and collected again |
| `recording_stream` | `ExactlyOnce`, `AnsweredMeansRecorded`, `SinkLeavesLast`, `CallsReturn` | two threads that each log and make one call that waits, an importer, three sinks of three kinds, room for two commands and one chunk so that both channels fill up |
| `open_lifecycle` | `LookupExact`, `NoLeak` | two sources, operations and stores, three recordings: a store is published again while a tombstone of its first recording is kept by either operation |
| `pipeline_budget` | `BudgetAccounting`, `SegmentLimitHolds`, `SlotsReturned`, `EndsOrStarves` | two partitions, a channel of one message, nine queries: segment slots scarce and a failing fetch; bytes scarce with reservations that shrink, grow or exceed the budget; a segment of 22 chunks that only the stall breaker gets through, the same read at index values, and one with too few chunks; chunks that overwrite each other; incremental emission with a row limit; the query of `pipeline_budget_orphan`; a row limit reached while a wave is announced |
| `pipeline_budget_orphan` | `Terminates` is violated | two partitions, a budget of two, four fetches of one byte |

`StallThreshold` is 20, as in the code. `EndsOrStarves` is what the code provides: the
query ends, or some waiter stays parked because its bytes do not fit and the breaker
has not been armed, because a slot was leaked, or because an orphan took its wake-up;
any other lost wake-up violates it. That these three happen is shown by
`PipelineBudgetStall.cfg`, `PipelineBudgetRowLimit.cfg` and the run
`pipeline_budget_orphan`.

Deadlock checking is off except in `open_lifecycle`: the components may legitimately
come to rest, when their callers have made their calls or they have been dropped.

### What the violation shows

`pipeline_budget_orphan` (`pipeline_budget.rs:1337`). A reserver that does not fit
enqueues an entry, tries again, and if it is admitted now marks the entry as
cancelled, so that it does "not steal wake events from genuine parked waiters".
Admission and mark are two steps. A release on another thread that comes between
them finds the entry first in the queue, not cancelled and admittable, and wakes it;
nobody waits there. The admission had filled the budget, so it wakes nobody either.
Another fetch of the same segment stays parked with room for it, and with it the
query. `wake_next` says that "a lost race here costs one extra park, never
correctness".

### Further properties

The modules state more than the runs check. TLC finds that these hold with the
constants of the configuration named and its specification:

| Constants of | Properties |
| --- | --- |
| `QuotaChannel.cfg` | `ReceiverCount`, `ByteAccounting` (both proved) |
| `BroadcastChannel.cfg` | `OversizedIsAlone` (proved), `ByteAccounting` |
| `MessageProxy.cfg` | `TypeOK`, `HistoryBound`, `LiveStreamExact`, `StaticDroppedLast` |
| `GrpcClient.cfg` | `TypeOK`, `NoGaps`, `DisconnectedIsFinal` (all proved) |
| `ChunkBatcherThreads.cfg` (complete: two threads, symmetric, rows and chunks without components) | `TypeOK`, `ExactlyOnce`, `PerThreadOrder`, `FlushGuarantee`, `NoRowVanishes` (all proved) |
| `ChunkSplitting.cfg` | `OneTimelineSet`, `SortedFlagsRight` (both proved) |
| `LogReceiverSet.cfg` | `TypeOK` |
| `EntityDb.cfg` | `TypeOK`, `MissingIsMissing`, `StaticIsNewest` |
| `RecordingStream.cfg` | `TypeOK`, `DropFlushes` and `LandsInNewSink` (both proved), `RouteOrder` |
| `OpenLifecycleRegistry.cfg` | `RegistryTypeOK`, `IndexesAgree` (both proved) |

### Further counterexamples

Each of these ends in a counterexample to a sentence of the documentation. Where a
configuration is marked with a plus, its constants are used with this property.

| Configuration (module) | Property | The code | The documentation |
| --- | --- | --- | --- |
| `BroadcastChannel.cfg` + | `CallsReturn` | once it has warned, a sender creates its `Notified` future after the check and without a timeout; `notify_waiters` in between is lost (`async_broadcast_channel.rs:238`) | "This will wait until there's enough space before sending." |
| `QuotaTrySend.cfg` (MCQuotaChannel) | `TrySendDoesNotBlock` | `try_send` locks the mutex that a waiting `send` holds | "Try to send a message without blocking." |
| `MessageProxyPlaybackOrder.cfg` (MCMessageProxy) | `PersistentSentFirst` | with newest-first playback the live stream has priority over the history | "we ALWAYS send the persistent and static data before the disposable" |
| `MessageProxyOverDrop.cfg` (MCMessageProxy) | `StaticKeptWhileInBudget` | the loops of `gc` stop below the limit, its first test tolerates the limit | static messages are dropped if "we're still over our memory budget" |
| `MessageProxyRequestHangs.cfg` (MCMessageProxy) | `RequestsFailWithoutViewer` | the copy in the history keeps the sender of the answer alive, so that without a viewer the request never returns | "viewer dropped the ... request before responding (is a viewer running?)" |
| `MessageProxyRequestHangs.cfg` + | `ScreenshotsAnswered` | a view that is not shown or too small is never captured, although its notifier is kept (`command_handling.rs:731`); a second screenshot to the same path replaces the notifier of the first (`logic.rs:561`), and the history keeps the channel open | "Screenshot completion signal was dropped before the screenshot was taken" |
| `MessageProxyRequestHangs.cfg` + | `LoopCatchesUp` | the event loop is the sender of `CallsReturn` above: parked after its warning, it can sleep on although the client has read or left | "This will block if the broadcast channel is full" |
| `GrpcClientStaleFlush.cfg` (MCGrpcClient) | `OnlyFailuresDisconnect` | the answer to a flush whose caller timed out cannot be sent, the stream breaks, and what is logged later is lost (`write.rs:423`) | "Flush channel may already be closed for non-blocking flush, so this isn't an error." |
| `GrpcClientFlushBlocks.cfg` (MCGrpcClient) | `FlushReturns` | the request is enqueued by a blocking send | "this call will block for _at most_ `connect_timeout_on_flush`" |
| `GrpcClientStaleFlush.cfg` + | `NoInternalError` | the answer channel is dropped before the status is stored | "Probably a bug in the Rerun SDK" |
| `ChunkBatcherTick.cfg` +, under `ThreadSpec` | `ShutdownNeverBlocks` | another clone of the output receiver keeps a full channel alive | "Shutting down cannot ever block." |
| `ChunkBatcherTick.cfg` (MCChunkBatcher) | `TickFlushes` | one flag for all entities skips the tick | "triggered solely by time and space thresholds -- whichever is hit first" |
| `ChunkSplittingThreshold.cfg` (MCChunkSplitting) | `UnsortedWithinThreshold` | sortedness is tested before the row is pushed | no chunk "contains more rows than a pre-configured threshold if one or more timelines are unsorted" |
| `ChunkSplittingDatatypes.cfg` (MCChunkSplitting) | `OneDatatypePerComponent` | datatypes are hashed without component names | no chunk "uses more than one datatype for a given component" |
| `LogReceiverSetForwarder.cfg` (MCLogReceiverSet) | `ForwarderStops` | `recv` does not clear the `connected` flag, so that the loop of `spawn_from_rx_set` spins once all senders are gone (`receiver_set.rs:132`) | "Any receiver that gets disconnected is automatically removed from the set." |
| `EntityDb.cfg` + | `InTransitIsRequested` | a failed batch is forgotten, its chunks stay `InTransit` and are not requested again (`chunk_requests.rs:170`) | `InTransit`: "We have requested it" |
| `EntityDb.cfg` + | `UnloadedIsNotRequested` | collecting one piece of a chunk marks the chunk as unloaded while it is being downloaded | `Unloaded`: "not fully loaded, nor being loaded" |
| `EntityDb.cfg` + | `LatestSurvivesGc` | the protected chunks are chosen by chunk, and a chunk may hold the latest row without being the latest chunk (`gc.rs:257`) | "a latest-at query with a value of max-int will be unchanged" |
| `EntityDbManifestStatic.cfg` (MCEntityDb) | `StaticIsNewest` | a later part of a manifest overwrites the static chunk of an earlier one, whatever their rows (`writes.rs:137`) | "the chunk with the most recent data within -- according to RowId -- wins" |
| `RecordingStream.cfg` + | `ThreadOrder` | messages bypass the batcher and overtake the rows of their own thread | operations of a thread are in the order in which it sent them |
| `RecordingStream.cfg` + | `ImportersComplete` | two last handles dropped at once each see the other one; nobody waits (`recording_stream.rs:836`) | importer threads "actually run to completion" |
| `RecordingStream.cfg` + | `FlushLoadsFiles` | a thread that waits for the importers has taken their handles; a second flush finds none (`recording_stream.rs:1045`) | the comment in `flush`: importers finish before the flush |
| `PipelineBudgetRowLimit.cfg` (MCPipelineBudget) | `SlotsVacated` | a wave that was announced but never read keeps its slots (`io_loop.rs:805`) | "dropping the guard vacates the segment slots that the CPU worker will never observe" |
| `PipelineBudgetStall.cfg` (MCPipelineBudget) | `Terminates` | the breaker counts empty emits, which need messages; a worker stalled after fewer than 20 receives none. With the scenario `Indexed`, 20 messages do not help either: `flush_incremental` returns before it counts (`cpu_worker.rs:461`) | "a real deadlock is broken within a few hundred ms" |

Seen while modelling, without a configuration: `MemorySink::drain_backlog` takes
the messages although its documentation says that they stay; a `MultiSink` of file
sinks only is empty after `finalize_deferred_sinks`; a memory sink keeps a strong
handle of its stream in the stream; the purge of blueprints in `store_hub.rs` does
not pass the store's events on; a fetch future that is dropped while it is parked
leaves an entry in the queue that is not cancelled. Bytes leave memory without being
released in two ways: messages still on their way to a worker that hung up are
dropped, and a store that keeps less than it was sent (static chunks that are overwritten,
empty chunks) releases only what its statistics show. The budget then counts more than
the "current decoded bytes in the pipeline" (`pipeline_budget.rs:474`); the comment at
`cpu_worker.rs:756-768` expects the two sides to diverge by compaction only, which
the stores of a query have switched off. `BudgetAccounting` says that
it never counts less, and counts exactly in all other cases.

## Fairness

Liveness is checked under weak fairness of the steps of a thread or task that is
running (the operating system and the async runtime schedule what is ready), with
these additions:

* the mutex `active_sender` is a `FairMutex`, so it is granted in order of arrival;
* in QuotaChannel and ChunkBatcher receivers keep receiving, and in
  BroadcastChannel and MessageProxy clients keep reading or leave: backpressure
  makes senders wait for them by design;
* timeouts that the code sets eventually pass; a peer's network call eventually
  succeeds or fails;
* in LogReceiverSet the reader repeats its one call, as `spawn_from_rx_set` does with
  `recv` and the viewer with `try_recv`; `select` of crossbeam picks at random among what
  is ready, which is strong fairness for each channel;
* in MessageProxy the viewer draws another frame when the log channel's waker or a
  repaint request asks for it; the loop's wait after its warning is woken by a
  notification only;
* in EntityDb the viewer's thread runs frame after frame, downloads end, and
  purges and cancellations stop (`MaxPurges`): with memory pressure forever a chunk may
  be collected each time it has been loaded. `Loads` says nothing of recordings whose
  downloads fail, see `InTransitIsRequested` above. `AddFetchedChunk` is the only step
  that shortens `incoming`, so its fairness is stated of that;
* in RecordingStream the forwarding thread, a call that has begun and an importer keep
  running (`FairSpec`); a sink takes what it is given;
* in PipelineBudget (`FairPipelineSpec`) some thread runs as long as one can, which is
  enough since a query has finitely many steps; fetches are answered and the consumer takes what is emitted, or hangs up.

No fairness is assumed of callers: nobody is obliged to log, flush, connect or drop.

## Proofs

For every value of the constants:

* **QuotaChannel.** `QuotaTypeCorrect`: types, `ReceiverCount` and
  `OneActiveSender`. The three are inductive together: the length of the queue of
  the mutex bounds who may be past it. `QuotaNoLostWakeup` uses them: only the
  holder of the mutex can be parked, so no other sender can consume the room that
  a notification announces, and every action that makes room leaves its receiver
  in a state that must notify. `QuotaByteAccounting`: while the inner channel has
  receivers, `bytes_in_flight` is the sum of the sizes of what is reserved, queued or taken
  and not yet counted off (`AccountInv`; the sum is a cardinality, of the set with one
  element for every byte of every message, so that it needs no induction).
  `QuotaWithinBudget` follows with `Room`: a reservation that takes the count over the
  capacity found a count of zero, so all other messages in flight are empty, and this
  remains so until it is counted off.
* **BroadcastChannel.** `BroadcastAccounting`: the message counter is the number
  of live messages plus the reservations whose message is not yet sent or whose
  failure is not yet counted off. `BroadcastNoLag` follows: what a receiver has
  not read is live, hence within the limit, hence within the ring.
  `BroadcastOversizedIsAlone` uses that the first message is recognised by a
  counter that is exact. `BroadcastImplementsQueue` is the refinement of
  BroadcastQueue: `InnerSend` publishes (there is room for it in every queue because
  after the step nobody lags), `Recv` receives, `InnerSubscribe` and `Detach` subscribe
  and unsubscribe, and everything else, draining included, changes no queue.
* **MessageProxy.** `ProxyOldestDroppedFirst`, `ProxyNoDuplicates` and
  `ProxyPersistentReachesAll`, for any clients, options and workloads. The
  inductive invariant `IndInv` orders the messages by the time they were written:
  those in the event queue are newer than what was broadcast (`EventsInv`), the loop
  broadcasts them once each (`LoopInv`), the queues of the history hold broadcast
  messages only, and not the one that has been broadcast and is still to be stored
  (`BufferInv`), and what a client was sent, will read of the history and has in its
  subscription are three disjoint sets (`ClientInv`). The bytes in the queues play
  no part, so the theorems hold wherever the garbage collection stops; nor does the wait
  in `send_async`, which changes when a message is broadcast and not in which order.
* **GrpcClient.** `ClientFlushedMeansSent`, `ClientNoGaps`, `ClientDropDelivers` and
  the action property `ClientDisconnectedIsFinal`. In `IInv`, what was sent is the
  beginning of what was given (`SentFirst`), the queue holds exactly the rest in order
  while it is open (`QueueHoldsRest`), the current flush of a thread is queued behind
  what it waits for (`FlushesComeAfter`), and answers to calls that timed out
  are told from those to the current one by their number (`AnswersAreTrue`,
  `GivenOnce`).
* **ChunkBatcher.** `BatcherExactlyOnce`, `BatcherPerThreadOrder`,
  `BatcherFlushGuarantee` and the action property `BatcherNoRowVanishes`. A row is
  in one of five places: its call, the command channel, an accumulator, the backlog of
  the running flush, the output channel. `InOrder` says of any five sets of rows
  that ids are unique and that of two rows of a thread the older one is at least as
  far, except that a chunk pushed as a whole passes the accumulators and that only kin
  (same thread, entity and shape) stay in order behind them. Every action is one of
  seven moves between such sets, proved once each, and the rest of `BatchInv` provides
  what a move needs: the queue is ordered by thread, accumulators hold rows of their own
  entity, the backlog has one sorted chunk per shape. The last rests on `ChunksFacts`
  and `SortedFacts`: rows with distinct ids can be sorted, by induction over the
  largest id, so the `CHOOSE` in `Sorted` is a sorting. `FlushInv` follows a flush: what its
  caller waits for is ahead of it while it is being sent, while it is queued and while
  it runs, and a thread has one flush at a time, so a late answer reaches nobody.
* **ChunkSplitting.** `SplittingPartitions`, `SplittingOneTimelineSet`,
  `SplittingSortedFlags` and `SplittingUnsortedByLastRow`, for batches of any length.
  One inductive invariant carries the first three: no row is in two places and none is
  missing, chunks are not empty (so that the open chunk differs from the finished
  ones), the rows of the open chunk precede those still to be pushed, `last` holds the
  times of the newest of them, and the flags kept row by row are right for the open
  chunk. The last two are what makes comparing with one time enough to keep `is_sorted`
  exact. The fourth adds that an open chunk above the threshold is sorted but for its
  last row, since the test before the push saw the flags of the rows before.
* **LogReceiverSet.** `ReceiversRunDry`: a receiver marked as disconnected has no
  sender and an empty queue. It is inductive with the types of the channels: only a
  poll that finds nothing clears the flag, only a sender fills a queue, and senders
  do not come back. `ReceiversFlushMeansReceived` needs more (`FlushInv`): a channel
  that is still read holds what it has not delivered, and a flush that is waited for is
  queued behind enough messages to make up for what was sent before it.
* **RecordingStream.** `StreamExactlyOnce`, `StreamAnsweredMeansRecorded`,
  `StreamDropFlushes`, `StreamLandsInNewSink` and the action property
  `StreamSinkLeavesLast`, for any number of threads and importers and any capacity of
  the channels, if no sink is made of files only: such a `MultiSink` discards what it is
  sent once it is finalized, and the properties are false for it. The inductive
  invariant `StreamInv` (`StreamInductive`) has five parts. `TypeInv` says what the rest of a call can look
  like: its steps come in the order importers, batcher, `PopPendingChunks`, `SwapSink`,
  the command that is answered, the wait. `LifeInv`: a thread in a call has a strong
  handle unless it is the one that drops the stream, and that one is alone. `AskInv`: a
  command that a thread waits for is queued only while the thread has no answer yet and
  is past its `PopPendingChunks`. `PlaceInv`: the items that were logged are divided among calls, the
  command channel, the batcher, the channel of chunks and the sinks, and in each of them
  an item is once. `AheadInv` is the point: nothing that concerns a thread past the
  batcher step is in the batcher; if something of it is still in a chunk, the forwarding
  thread is draining chunks or a `PopPendingChunks` is queued before the command the thread
  waits for; and its messages are ahead of that command. So when the forwarding thread
  takes the command, everything of the thread is in a sink. To the thread that drops the
  stream everything is of concern, since nobody else has a handle, which is why nothing is
  behind `Shutdown`.
* **PipelineBudget.** `PipelineSegmentLimit` and `PipelineSlotsReturned`, for every set
  of partitions and every query that is well-formed (`QueryAssumption`: partitions have
  segments and fetches of their own). `PipelineInv`, proved inductive in
  `PipelineInductive`, rests on `Over`: the segment is complete, or its partition has
  failed or is over. It never becomes false again; a slot leaves `budget.all` only by
  a publish, and a publish is on its way only for a segment that is `Over` (`SlotInv`); so a
  segment on its way to its worker, or open there, has its slot or is `Over`. With at most
  `segment_limit` slots that were not let past the gate (`GateInv`), the limit holds
  for what is open. In the other direction every occupied slot is vouched for
  (`VouchedInv`) by a guard that is held, a thread about to publish, a message on
  its way or an open store, and of a partition that is over, with all it sent received,
  nothing of that is left: its worker has emptied its `emit_order` (`OpenIsKept`), its
  futures are done (`WaveByWave`).
* **OpenLifecycleRegistry.** `IndexesAlwaysAgree`, `LookupAlwaysExact` and
  `NothingLeaks`, for any sets and limits. One inductive invariant, `Consistent`,
  carries the three: types, `IndexesAgree`, `LookupExact` and `NoLeak` together.
  None is inductive alone: removal decides by the subscribers whether a tombstone
  stays, so it needs that subscriptions and subscribers mirror each other; disposal
  visits only the subscriptions of the operation, so it needs that every subscriber is
  one of them; and a source is removed by looking at its own sets, so it needs that these
  mirror the entries of operations and recordings.

Assumptions are those named in the component modules: sizes and limits are
natural numbers, limits that the code clamps to at least one are positive, and the
name for the absence of a thread is no thread. The inductive invariants were checked by
TLC before they were proved.

Only model-checked: all liveness (fairness and ENABLED are outside the prover);
`ByteAccounting` of BroadcastChannel, `HistoryBound` and `StaticDroppedLast` of
MessageProxy and `BudgetAccounting` of PipelineBudget, which are about sums over sequences
or sets (what a sum is needs induction over data); the refinement of RowStore and the rest
of ChunkStore and EntityDb (their operators are recursive, since insertion, removal and
splitting call each other); `LiveStreamExact` of MessageProxy; `RouteOrder` and the bounds
in `TypeOK` of RecordingStream.

## Not modelled

The wasm32 variants (they never block), logging and warnings except for the
`warned` flags that change how a wait is made, memory statistics, wakers, hooks
of the batcher, encoding of messages beyond its failure, the start-up of servers,
forked processes, the writer thread of a file, several entities or timelines in one
chunk store, range queries, the byte budget and the priorities of the prefetcher, the
learned size multiplier and the metrics of the fetch pipeline, and the parts listed
as not modelled in the inventory. Most of the repository is outside this
development on purpose: the viewer's user interface and renderer, generated types,
file formats and their validation (MCAP, Parquet, HDF5, MP4), language bindings.

## Plan

1. Done: the channels, the batcher and its splitting, the client, the proxy with viewer
   control, the log channels, the recording stream, the chunk store and the entity
   database with its refinement, the fetch pipeline, the registry, and the proofs above.
2. The query caches' invalidation by store events; the file sink's writer thread; the
   retry machine of ranged downloads (`range_retry.rs`).
