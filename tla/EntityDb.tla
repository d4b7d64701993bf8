------------------------------ MODULE EntityDb ------------------------------
(***************************************************************************)
(* re_entity_db: a chunk store with, for a recording on a server, the      *)
(* chunks its RRD manifest lists, what is known of each (LoadState), and   *)
(* the requests for them that are under way.                               *)
(*                                                                         *)
(* Everything but the downloads happens on the viewer's thread, once a     *)
(* frame: memory is purged, messages are received, finished downloads are  *)
(* received and outdated ones cancelled, and chunks are prefetched.  What  *)
(* the store does is reported by events, from which the index of the       *)
(* manifest learns what is loaded.                                         *)
(***************************************************************************)
EXTENDS ChunkStore

CONSTANTS
    MaxRequests,  \* bound: batches under way
    MaxPurges     \* bound: collections and cancellations, when chunks can be fetched again

VARIABLES
    state,     \* RootChunkInfo::state of each root chunk, or "unlisted"
    requests,  \* ChunkRequests::requests: batches of root chunks and how they ended
    incoming,  \* downloaded chunks that receive_fetched_chunks has yet to add
    purges     \* number of purges so far

loadVars == <<state, requests, incoming>>
vars == <<scenario, store, arrived, last, state, requests, incoming, purges>>

Batch == [roots : SUBSET Id, result : {"pending", "ok", "err"}]

TypeOK ==
    /\ StoreTypeOK
    /\ state \in [Roots -> {"unlisted", "Unloaded", "InTransit", "FullyLoaded"}]
    /\ requests \in Seq(Batch) /\ Len(requests) <= MaxRequests
    /\ incoming \in Seq(Roots)
    /\ purges \in 0..MaxPurges

Init ==
    /\ StoreInit
    /\ state = [id \in Roots |-> "unlisted"]
    /\ requests = <<>>
    /\ incoming = <<>>
    /\ purges = 0

\* Mutant: only the chunk itself is marked, not the roots it comes from.
MarkOnlyItself(s, states, id, new) ==
    [r \in Roots |-> IF r = id /\ states[r] # "unlisted" THEN new ELSE states[r]]

\* mark_roots_as
MarkRootsAs(s, states, id, new) ==
    [r \in Roots |-> IF r \in FindRootChunks(s, id) /\ states[r] # "unlisted"
                       THEN new ELSE states[r]]

\* RrdManifestIndex::on_events, called when the store has done its operation.
OnStoreEvents(s) ==
    LET Mark(states, e) ==
          IF e.type = "Addition" THEN MarkRootsAs(s, states, e.before, "FullyLoaded")
          ELSE MarkRootsAs(s, states, e.id, "Unloaded")
    IN  state' = FoldLeft(Mark, state, s.events)

\* The viewer's thread is not in the middle of receive_fetched_chunks.
Idle == incoming = <<>>

Unchanged == UNCHANGED <<requests, incoming, purges>>

\* add_rrd_manifest_message.  A manifest comes before the chunks it lists, which are
\* fetched because of it, and lists a chunk once.
AddRrdManifest(ids) ==
    /\ Idle
    /\ ids # {} /\ \A id \in ids : state[id] = "unlisted"
    /\ Become(AfterManifest(ids), "announce", {})
    /\ UNCHANGED arrived
    /\ state' = [r \in Roots |-> IF r \in ids THEN "Unloaded" ELSE state[r]]
    /\ Unchanged

\* add_chunk
AddChunk(id) ==
    /\ id \notin arrived
    /\ arrived' = IF scenario.resend THEN arrived ELSE arrived \cup {id}
    /\ \E s \in Insert(store, id) :
          /\ Become(s, "insert", IF IsStatic(id) THEN {} ELSE store.rows[id])
          /\ OnStoreEvents(s)

\* A chunk that no manifest lists, from receive_messages.
ReceiveMessage(id) ==
    /\ Idle
    /\ id \in Roots \ ManifestRoots
    /\ AddChunk(id)
    /\ Unchanged

MayPurge == Idle /\ (CanFetch => purges < MaxPurges)
Purged == purges' = IF CanFetch THEN purges + 1 ELSE purges

\* gc_with_target
GcWithTarget ==
    /\ MayPurge
    /\ \E candidates \in GcCandidates, budget \in 1..MaxId :
          LET s == AfterGc(candidates, budget)
          IN  /\ candidates # <<>>
              /\ budget <= Len(candidates)
              /\ Become(s, "remove", {})
              /\ OnStoreEvents(s)
    /\ Purged
    /\ UNCHANGED <<arrived, requests, incoming>>

\* drop_entity_path, used on blueprints.
DropEntityPath ==
    /\ Idle /\ scenario.blueprint
    /\ Become(AfterDropEntity, "remove", {})
    /\ OnStoreEvents(AfterDropEntity)
    /\ UNCHANGED arrived
    /\ Unchanged

\* drop_time_range, used to undo changes of a blueprint.
DropTimeRange ==
    /\ Idle /\ scenario.blueprint
    /\ \E from, to \in Times :
          /\ from <= to
          /\ \E s \in AfterDropTimeRange(from, to) :
                /\ Become(s, "remove", {})
                /\ OnStoreEvents(s)
    /\ UNCHANGED arrived
    /\ Unchanged

-----------------------------------------------------------------------------
(* Fetching *)

UnchangedStore == UNCHANGED <<scenario, store, arrived, last>>

\* prefetch_chunks and handle_fetch_result, for one batch: only unloaded chunks are
\* requested, and which of them depends on what is on screen and on the budget.
PrefetchChunks(ids) ==
    /\ Idle
    /\ ids # {} /\ Len(requests) < MaxRequests
    /\ \A id \in ids : state[id] = "Unloaded"
    /\ requests' = Append(requests, [roots |-> ids, result |-> "pending"])
    /\ state' = [r \in Roots |-> IF r \in ids THEN "InTransit" ELSE state[r]]
    /\ UNCHANGED <<incoming, purges>>
    /\ UnchangedStore

Prefetch == \E ids \in SUBSET ManifestRoots : PrefetchChunks(ids)

\* load_chunks, in the background: the promise of a batch is kept, or not.
Download(result) ==
    /\ result = "err" => scenario.failures
    /\ \E i \in DOMAIN requests :
          /\ requests[i].result = "pending"
          /\ requests' = [requests EXCEPT ![i].result = result]
    /\ UNCHANGED <<state, incoming, purges>>
    /\ UnchangedStore

\* receive_finished: the chunks of the batches that succeeded; those that failed go too.
ReceiveFinished ==
    LET Finished(b) == b.result # "pending"
        Pending(b) == b.result = "pending"
        Succeeded(b) == b.result = "ok"
        batches == SelectSeq(requests, Succeeded)
    IN  /\ Idle
        /\ SelectSeq(requests, Finished) # <<>>
        /\ requests' = SelectSeq(requests, Pending)
        /\ incoming' = FoldLeft(LAMBDA q, b : q \o Ascending(b.roots), <<>>, batches)
        /\ UNCHANGED <<state, purges>>
        /\ UnchangedStore

\* The loop of receive_fetched_chunks.
AddFetchedChunk ==
    /\ ~Idle
    /\ incoming' = Tail(incoming)
    /\ AddChunk(Head(incoming))
    /\ UNCHANGED <<requests, purges>>

\* Mutant: the chunks of a cancelled batch stay marked as in transit.
CancelWithoutMarking(desired) ==
    LET Outdated(b) == b.roots \cap desired = {}
        Wanted(b) == ~Outdated(b)
        cancelled == UNION {b.roots : b \in ToSet(SelectSeq(requests, Outdated))}
    IN  /\ MayPurge
        /\ cancelled # {}
        /\ requests' = SelectSeq(requests, Wanted)
        /\ Purged
        /\ UNCHANGED <<state, incoming>>
        /\ UnchangedStore

\* cancel_outdated_requests: batches with nothing that the last frame desired.
CancelOutdatedRequests(desired) ==
    LET Outdated(b) == b.roots \cap desired = {}
        Wanted(b) == ~Outdated(b)
        cancelled == UNION {b.roots : b \in ToSet(SelectSeq(requests, Outdated))}
    IN  /\ MayPurge
        /\ cancelled # {}
        /\ requests' = SelectSeq(requests, Wanted)
        /\ state' = [r \in Roots |-> IF r \in cancelled THEN "Unloaded" ELSE state[r]]
        /\ Purged
        /\ UNCHANGED incoming
        /\ UnchangedStore

-----------------------------------------------------------------------------
Next ==
    \/ \E ids \in SUBSET ManifestRoots : AddRrdManifest(ids)
    \/ \E id \in Roots : ReceiveMessage(id)
    \/ GcWithTarget
    \/ DropEntityPath
    \/ DropTimeRange
    \/ Prefetch
    \/ \E result \in {"ok", "err"} : Download(result)
    \/ ReceiveFinished
    \/ AddFetchedChunk
    \/ \E desired \in SUBSET ManifestRoots : CancelOutdatedRequests(desired)

\* Each frame receives what was downloaded and, with the budget to load everything,
\* requests some of what is not loaded; downloads end.  The second conjunct is the
\* fairness of AddFetchedChunk, without AddChunk for the sake of TLC, which evaluates
\* whether it is enabled: no other step shortens `incoming', and where chunks are
\* fetched (scenario.resend) AddChunk is never what blocks it.
Fairness ==
    /\ WF_vars(ReceiveFinished)
    /\ WF_incoming(~Idle /\ incoming' = Tail(incoming))
    /\ WF_vars(\E result \in {"ok", "err"} : Download(result))
    /\ WF_vars(Prefetch)

Spec == Init /\ [][Next]_vars /\ Fairness

-----------------------------------------------------------------------------
(* Properties *)

\* A chunk marked as fully loaded is: each of its rows is in some physical chunk,
\* after any splits, compactions and collections.  Otherwise it would never be fetched.
LoadedMeansPresent ==
    \A r \in Roots :
        (state[r] = "FullyLoaded" /\ ~IsStatic(r)) => store.rows[r] \subseteq PhysicalRows

\* Every chunk that a manifest lists is loaded in the end, if no download fails and
\* purges and cancellations stop.
Loads ==
    ~scenario.failures => <>[](\A r \in Roots : state[r] \in {"unlisted", "FullyLoaded"})

\* LoadState::InTransit: "We have requested it".
InTransitIsRequested ==
    \A r \in Roots : state[r] = "InTransit" =>
        \/ \E b \in ToSet(requests) : r \in b.roots
        \/ r \in ToSet(incoming)

\* LoadState::Unloaded: "The chunk is not fully loaded, nor being loaded".
UnloadedIsNotRequested ==
    \A r \in Roots : state[r] = "Unloaded" => \A b \in ToSet(requests) : r \notin b.roots

\* GarbageCollectionOptions::protect_latest: "a latest-at query with a value of max-int
\* will be unchanged".
LatestSurvivesGc ==
    [][GcWithTarget /\ ~CanFetch => LatestRows(Max(Times))' = LatestRows(Max(Times))]_vars
=============================================================================
