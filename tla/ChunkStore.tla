----------------------------- MODULE ChunkStore -----------------------------
(***************************************************************************)
(* re_chunk_store: the in-memory database of chunks, for one entity and    *)
(* one timeline.  A chunk is a set of rows; a row is its RowId, and TimeOf *)
(* gives its time.                                                         *)
(*                                                                         *)
(* A chunk that is inserted may be stored as it is, split into smaller     *)
(* ones, or merged with a neighbour (compaction).  The store keeps, apart  *)
(* from the physical chunks, a virtual index of every chunk that queries   *)
(* should know of (chunks announced by an RRD manifest or dropped by the   *)
(* garbage collector are in it without being physical), and the lineage of *)
(* every chunk with a reference count.                                     *)
(*                                                                         *)
(* The store is one record and an operation of the code is an operator     *)
(* from stores to stores, since operations call each other.  Where the     *)
(* code iterates over a hash map the result is a set of stores.            *)
(***************************************************************************)
EXTENDS Integers, Sequences, FiniteSets, SequencesExt, FiniteSetsExt

CONSTANTS
    Scenarios,               \* what arrives, and the kind of store: see Init
    TimeOf,                  \* the time of each row, by RowId
    Transforms,              \* components of a transform archetype
    Components,
    ChunkMaxRows,            \* chunk_max_rows
    ChunkMaxRowsIfUnsorted,  \* chunk_max_rows_if_unsorted
    MaxId                    \* bound: chunk ids in use at a time

Row == DOMAIN TimeOf
Id == 1..MaxId
NoId == 0

VARIABLES
    scenario,  \* the scenario of this behaviour
    store,     \* the store
    arrived,   \* chunks that will not arrive again
    last       \* (auxiliary) the last operation and the temporal rows it inserted

storeVars == <<scenario, store, arrived, last>>

\* Ids 1..n are those of the chunks that arrive; others are given out by the store.
Roots == DOMAIN scenario.roots
IsStatic(id) == id \in Roots /\ scenario.roots[id].components # {}

ASSUME StoreAssumption ==
    /\ TimeOf \in Seq(Int)
    /\ Transforms \subseteq Components
    /\ ChunkMaxRows \in Nat /\ ChunkMaxRowsIfUnsorted \in 1..ChunkMaxRows
    /\ \A s \in Scenarios :
          /\ Len(s.roots) <= MaxId
          /\ \A i \in DOMAIN s.roots :
                s.roots[i].rows # {} /\ s.roots[i].rows \subseteq Row

Lineage ==
    [kind : {"none", "manifest", "volatile", "split", "compacted"},
     from : SUBSET Id, siblings : SUBSET Id, refs : Nat, manifest : BOOLEAN]

NoLineage ==
    [kind |-> "none", from |-> {}, siblings |-> {}, refs |-> 0, manifest |-> FALSE]

Event == [type : {"Addition"}, before : Id, after : Id] \cup [type : {"Deletion"}, id : Id]

StoreTypeOK ==
    /\ scenario \in Scenarios
    /\ last \in [op : {"none", "announce", "insert", "remove"}, rows : SUBSET Row]
    /\ arrived \subseteq Roots
    /\ store.physical \subseteq Id
    /\ store.rows \in [Id -> SUBSET Row]
    /\ store.index \subseteq Id
    /\ store.maxInterval \in Nat
    /\ store.lineage \in [Id -> Lineage]
    /\ store.leaky \in [Id -> Id \cup {NoId}]
    /\ store.splits \in [Id -> SUBSET Id]
    /\ store.splitOnIngest \subseteq Id
    /\ store.static_ \in [Components -> Id \cup {NoId}]
    /\ store.events = <<>>

\* scenario.roots: the chunks that can arrive: their rows, their components if
\*   they are static ({} if they are temporal), and whether a manifest lists them;
\* scenario.blueprint: the store is a blueprint (deep deletions, undo) and not a recording;
\* scenario.resend: a chunk may arrive more than once.
StoreInit ==
    /\ scenario \in Scenarios
    /\ arrived = {}
    /\ last = [op |-> "none", rows |-> {}]
    /\ store =
         [physical |-> {},       \* physical_chunks_per_chunk_id
          rows |-> [id \in Id |-> IF id \in Roots THEN scenario.roots[id].rows ELSE {}],
          index |-> {},          \* temporal_chunk_ids_per_entity(_per_component)
          maxInterval |-> 0,     \* its max_interval_length
          lineage |-> [id \in Id |-> NoLineage],       \* chunks_lineage
          leaky |-> [id \in Id |-> NoId],              \* leaky_compactions
          splits |-> [id \in Id |-> {}],               \* dangling_splits
          splitOnIngest |-> {},                        \* split_on_ingest
          static_ |-> [c \in Components |-> NoId],     \* static_chunk_ids_per_entity
          events |-> <<>>]       \* the events of the operation under way

-----------------------------------------------------------------------------
(* Chunks *)

SortedBy(S, Key(_)) ==
    [k \in 1..Cardinality(S) |->
        CHOOSE x \in S : Cardinality({y \in S : Key(y) <= Key(x)}) = k]
Ascending(S) == SortedBy(S, LAMBDA x : x)

StartTime(s, id) == Min({TimeOf[r] : r \in s.rows[id]})
EndTime(s, id) == Max({TimeOf[r] : r \in s.rows[id]})
AbsLength(s, id) == EndTime(s, id) - StartTime(s, id)

\* all_timelines_sorted, of rows in the order of their RowIds.
TimesSorted(rows) == \A a, b \in rows : a < b => TimeOf[a] <= TimeOf[b]

MaxRows(rows) == IF TimesSorted(rows) THEN ChunkMaxRows ELSE ChunkMaxRowsIfUnsorted

\* The ids that something in the store, or an event under way, still mentions.
Mentioned(s) ==
    Roots \cup s.physical \cup s.index \cup s.splitOnIngest
    \cup {id \in Id : s.lineage[id].kind # "none" \/ s.leaky[id] # NoId \/ s.splits[id] # {}}
    \cup UNION {s.lineage[id].from \cup s.lineage[id].siblings \cup s.splits[id] \cup {s.leaky[id]}
                  : id \in Id}
    \cup {e.after : e \in {x \in ToSet(s.events) : x.type = "Addition"}}
    \cup {e.id : e \in {x \in ToSet(s.events) : x.type = "Deletion"}}

\* ChunkId::new.  Ids that nothing mentions stand for ids never given out.
Unused(s) == Ascending(Id \ Mentioned(s))

\* What no chunk carries any more is forgotten, so that ids can stand for new ones.
Tidy(s) ==
    [s EXCEPT !.rows = [id \in Id |-> IF id \in Mentioned(s) THEN s.rows[id] ELSE {}]]

\* split_chunk_if_needed: runs of rows, in RowId order.  The pieces are not split
\* again: MaxRows of a part is that of the whole or more.
Split(rows) ==
    LET sorted == Ascending(rows)
        n == MaxRows(rows)
        Pieces == (Len(sorted) + n - 1) \div n
    IN  [k \in 1..Pieces |->
            {sorted[i] : i \in ((k - 1) * n + 1)..Min({k * n, Len(sorted)})}]

-----------------------------------------------------------------------------
(* Lineage *)

IsRootChunk(s, id) == s.lineage[id].kind \in {"none", "manifest", "volatile"}

DescendsFromSplit(s, id) == s.lineage[id].kind = "split"

\* Is the data of id in a physical chunk, by way of compactions?
RECURSIVE CompactedInto(_, _)
CompactedInto(s, id) ==
    LET into == s.leaky[id]
    IN  /\ into # NoId
        /\ into \in s.physical \/ CompactedInto(s, into)

\* find_root_chunks
RECURSIVE FindRootChunks(_, _)
FindRootChunks(s, id) ==
    CASE s.lineage[id].kind \in {"split", "compacted"} ->
            UNION {FindRootChunks(s, from) : from \in s.lineage[id].from}
      [] s.lineage[id].kind \in {"manifest", "volatile"} -> {id}
      [] OTHER -> {}

InsertLineageIfMissing(s, id, kind, from, siblings) ==
    IF s.lineage[id].kind # "none" THEN s
    ELSE [s EXCEPT !.lineage =
            [i \in Id |->
                IF i = id
                  THEN [kind |-> kind, from |-> from, siblings |-> siblings, refs |-> 0,
                        manifest |-> \E f \in from : s.lineage[f].manifest]
                ELSE IF i \in from /\ s.lineage[i].kind # "none"
                  THEN [s.lineage[i] EXCEPT !.refs = @ + 1]
                ELSE s.lineage[i]]]

\* Mutant: the siblings of a split are not asked for their references.
RECURSIVE LineageOpsNoSiblings(_, _)
LineageOpsNoSiblings(s, ops) ==
    IF ops = <<>> THEN s
    ELSE
      LET op == Last(ops)
          rest == Front(ops)
          l == s.lineage[op.id]
          refs == IF l.refs = 0 THEN 0 ELSE l.refs - 1
          Ops(type, ids) == [k \in 1..Cardinality(ids) |->
                               [type |-> type, id |-> Ascending(ids)[k]]]
      IN  CASE l.kind = "none" -> LineageOpsNoSiblings(s, rest)
            [] op.type = "DropRef" ->
                 LineageOpsNoSiblings([s EXCEPT !.lineage[op.id].refs = refs],
                    IF l.manifest \/ refs > 0
                      THEN rest
                      ELSE rest \o Ops("Remove", l.siblings) \o Ops("Remove", {op.id}))
            [] OTHER ->
                 LineageOpsNoSiblings([s EXCEPT !.lineage[op.id] = NoLineage,
                                      !.leaky[op.id] = NoId,
                                      !.splitOnIngest = @ \ {op.id},
                                      !.splits[op.id] = {}],
                            rest \o Ops("DropRef", l.from))

\* The worklist of drop_lineage_reference.
RECURSIVE LineageOps(_, _)
LineageOps(s, ops) ==
    IF ops = <<>> THEN s
    ELSE
      LET op == Last(ops)
          rest == Front(ops)
          l == s.lineage[op.id]
          refs == IF l.refs = 0 THEN 0 ELSE l.refs - 1
          Referenced(id) == s.lineage[id].refs > 0
          Ops(type, ids) == [k \in 1..Cardinality(ids) |->
                               [type |-> type, id |-> Ascending(ids)[k]]]
      IN  CASE l.kind = "none" -> LineageOps(s, rest)
            [] op.type = "DropRef" ->
                 LineageOps([s EXCEPT !.lineage[op.id].refs = refs],
                    IF l.manifest \/ refs > 0 \/ \E id \in l.siblings : Referenced(id)
                      THEN rest
                      ELSE rest \o Ops("Remove", l.siblings) \o Ops("Remove", {op.id}))
            [] OTHER ->
                 LineageOps([s EXCEPT !.lineage[op.id] = NoLineage,
                                      !.leaky[op.id] = NoId,
                                      !.splitOnIngest = @ \ {op.id},
                                      !.splits[op.id] = {}],
                            rest \o Ops("DropRef", l.from))

DropLineageReference(s, id) == LineageOps(s, <<[type |-> "DropRef", id |-> id]>>)

-----------------------------------------------------------------------------
(* Removal *)

DeletionEvent(id) == [type |-> "Deletion", id |-> id]

\* remove_chunk_from_virtual_indices: what it does, and what it returns, which is
\* about the entries of the chunk's start and end time and not about the chunk.
RemoveFromIndex(s, id) == [s EXCEPT !.index = @ \ {id}]
IndexReportsRemoved(s, id) ==
    /\ ~IsStatic(id)
    /\ \E other \in s.index :
          \/ StartTime(s, other) = StartTime(s, id)
          \/ EndTime(s, other) = EndTime(s, id)

RemoveOneShallow(s, id) ==
    IF id \notin s.physical THEN s
    ELSE LET dropped == DropLineageReference([s EXCEPT !.physical = @ \ {id}], id)
             deindexed == IF dropped.lineage[id].kind = "none"
                            THEN RemoveFromIndex(dropped, id) ELSE dropped
         IN  [deindexed EXCEPT !.events = Append(@, DeletionEvent(id))]

\* remove_chunks_shallow, of a sequence of ids.
RemoveChunksShallow(s, ids) == FoldLeft(RemoveOneShallow, s, ids)

\* remove_chunks_deep.  The events: what the indices report, then what only the
\* shallow removal reported.
RemoveChunksDeep(s, ids) ==
    LET shallow == RemoveChunksShallow([s EXCEPT !.events = <<>>], ids)
        Deindex(acc, id) ==
            [RemoveFromIndex(acc, id) EXCEPT !.events =
                IF IndexReportsRemoved(acc, id) THEN Append(@, DeletionEvent(id)) ELSE @]
        deep == FoldLeft(Deindex, [shallow EXCEPT !.events = <<>>], ids)
        OnlyShallow(e) == e \notin ToSet(deep.events)
    IN  [deep EXCEPT !.events = s.events \o @ \o SelectSeq(shallow.events, OnlyShallow)]

-----------------------------------------------------------------------------
(* Insertion *)

\* find_and_elect_compaction_candidate: the candidates with the most points.
Elect(s, id) ==
    LET rows == s.rows[id]
        Start(i) == StartTime(s, i)
        Before == {i \in s.index : Start(i) < Start(id)}
        After == {i \in s.index : Start(i) > EndTime(s, id)}
        Nearest == {i \in Before : \A j \in Before : Start(j) <= Start(i)}
                   \cup {i \in After : \A j \in After : Start(i) <= Start(j)}
        Same == {i \in s.index : Start(i) = Start(id)}
        BelowThreshold(i) ==
            /\ i \in s.physical
            /\ ~DescendsFromSplit(s, i)
            /\ Cardinality(rows) + Cardinality(s.rows[i]) <= MaxRows(s.rows[i])
        Points(i) == Cardinality(s.rows[i]) * (IF i \in Same THEN 2 ELSE 1)
        Candidates == {i \in (Nearest \cup Same) \ {id} : BelowThreshold(i)}
    IN  IF DescendsFromSplit(s, id) \/ Cardinality(rows) > MaxRows(rows) THEN {}
        ELSE {i \in Candidates : \A j \in Candidates : Points(j) <= Points(i)}

\* The physical reference, and the event.
AddPhysical(s, before, after) ==
    [s EXCEPT !.physical = @ \cup {after},
              !.lineage[after].refs = @ + 1,
              !.events = Append(@, [type |-> "Addition", before |-> before, after |-> after])]

\* Mutant: the interval of the last chunk in place of the longest.
AddToIndexLastInterval(s, id) ==
    [s EXCEPT !.index = @ \cup {id}, !.maxInterval = AbsLength(s, id)]

AddToIndex(s, id) ==
    [s EXCEPT !.index = @ \cup {id},
              !.maxInterval = Max({@, AbsLength(s, id)})]

StoreAsIs(s, before, id) == AddPhysical(AddToIndex(s, id), before, id)

\* The new chunk takes the rows of both.  Its lineage is there before the elected
\* chunk is removed, which keeps that one's lineage alive.  No deletion event.
Compact(s, id, elected, new) ==
    LET named == [s EXCEPT !.rows[new] = s.rows[id] \cup s.rows[elected]]
        indexed == AddToIndex(named, new)
        traced == InsertLineageIfMissing(
                    [indexed EXCEPT !.leaky[id] = new, !.leaky[elected] = new],
                    new, "compacted", {id, elected}, {})
        removed == RemoveChunksDeep(traced, <<elected>>)
    IN  AddPhysical([removed EXCEPT !.events = s.events], id, new)

InsertTemporal(s, id) ==
    LET elected == Elect(s, id)
    IN  IF elected = {} THEN {StoreAsIs(s, id, id)}
        ELSE {Compact(s, id, e, Unused(s)[1]) : e \in {x \in elected : Unused(s) # <<>>}}

\* The pieces of a split are stored as they are: they are never elected nor elect.
InsertSplits(s, id, pieces) ==
    LET n == Len(pieces)
        new == SubSeq(Unused(s), 1, n)
        named == [s EXCEPT !.rows = [i \in Id |-> IF i \in ToSet(new)
                                                   THEN pieces[CHOOSE k \in 1..n : new[k] = i]
                                                   ELSE @[i]],
                           !.splits[id] = ToSet(new),
                           !.splitOnIngest = @ \cup {id}]
        InsertPiece(acc, piece) ==
            StoreAsIs(InsertLineageIfMissing(acc, piece, "split", {id}, ToSet(new) \ {piece}),
                      id, piece)
    IN  IF Len(Unused(s)) < n THEN {} ELSE {FoldLeft(InsertPiece, named, new)}

\* Mutant: the chunk that comes last wins.
InsertStaticLastWins(s, id) ==
    LET components == scenario.roots[id].components
        won == components
        static_ == [c \in Components |-> IF c \in won THEN id ELSE s.static_[c]]
        overwritten == {s.static_[c] : c \in won \ Transforms} \cap s.physical
        dangling == {i \in overwritten : \A c \in Components : static_[c] # i}
        Overwrite(acc, i) ==
            [DropLineageReference([acc EXCEPT !.physical = @ \ {i}], i)
                EXCEPT !.events = Append(@, DeletionEvent(i))]
        added == [s EXCEPT !.static_ = static_,
                           !.events = Append(@, [type |-> "Addition", before |-> id, after |-> id])]
        cleaned == FoldLeft(Overwrite, added, Ascending(dangling))
    IN  {[cleaned EXCEPT !.physical = @ \cup {id}, !.lineage[id].refs = @ + 1]}

\* A static chunk: per component the chunk with the most recent row wins; chunks that
\* no component refers to any more are dropped.
InsertStatic(s, id) ==
    LET components == scenario.roots[id].components
        RowIdMax(i) == IF i \in s.physical THEN Max(s.rows[i]) ELSE 0
        Wins(c) == s.static_[c] = NoId \/ Max(s.rows[id]) > RowIdMax(s.static_[c])
        won == {c \in components : Wins(c)}
        static_ == [c \in Components |-> IF c \in won THEN id ELSE s.static_[c]]
        overwritten == {s.static_[c] : c \in won \ Transforms} \cap s.physical
        dangling == {i \in overwritten : \A c \in Components : static_[c] # i}
        Overwrite(acc, i) ==
            [DropLineageReference([acc EXCEPT !.physical = @ \ {i}], i)
                EXCEPT !.events = Append(@, DeletionEvent(i))]
        added == [s EXCEPT !.static_ = static_,
                           !.events = Append(@, [type |-> "Addition", before |-> id, after |-> id])]
        cleaned == FoldLeft(Overwrite, added, Ascending(dangling))
    IN  {[cleaned EXCEPT !.physical = @ \cup {id}, !.lineage[id].refs = @ + 1]}

\* Mutant: the virtual entry of a chunk stays when its data comes.
InsertKeepingVirtual(s, id) ==
    LET devirtualised == s
        dangling == Ascending(devirtualised.splits[id] \cap devirtualised.physical)
        unsplit == RemoveChunksDeep([devirtualised EXCEPT !.splits[id] = {}], dangling)
        traced == InsertLineageIfMissing(unsplit, id, "volatile", {}, {})
        pieces == Split(s.rows[id])
    IN  IF ~IsRootChunk(s, id) \/ id \in s.physical \/ CompactedInto(s, id) THEN {s}
        ELSE IF IsStatic(id) THEN InsertStatic(traced, id)
        ELSE IF Len(pieces) > 1 THEN InsertSplits(traced, id, pieces)
        ELSE InsertTemporal(traced, id)

\* Mutant: the pieces left of an earlier split stay.
InsertKeepingSplits(s, id) ==
    LET devirtualised == IF s.lineage[id].kind = "manifest" THEN RemoveChunksDeep(s, <<id>>) ELSE s
        unsplit == [devirtualised EXCEPT !.splits[id] = {}]
        traced == InsertLineageIfMissing(unsplit, id, "volatile", {}, {})
        pieces == Split(s.rows[id])
    IN  IF ~IsRootChunk(s, id) \/ id \in s.physical \/ CompactedInto(s, id) THEN {s}
        ELSE IF IsStatic(id) THEN InsertStatic(traced, id)
        ELSE IF Len(pieces) > 1 THEN InsertSplits(traced, id, pieces)
        ELSE InsertTemporal(traced, id)

\* insert_chunk: what the store may become.
Insert(s, id) ==
    LET devirtualised == IF s.lineage[id].kind = "manifest" THEN RemoveChunksDeep(s, <<id>>) ELSE s
        dangling == Ascending(devirtualised.splits[id] \cap devirtualised.physical)
        unsplit == RemoveChunksDeep([devirtualised EXCEPT !.splits[id] = {}], dangling)
        traced == InsertLineageIfMissing(unsplit, id, "volatile", {}, {})
        pieces == Split(s.rows[id])
    IN  IF ~IsRootChunk(s, id) \/ id \in s.physical \/ CompactedInto(s, id) THEN {s}
        ELSE IF IsStatic(id) THEN InsertStatic(traced, id)
        ELSE IF Len(pieces) > 1 THEN InsertSplits(traced, id, pieces)
        ELSE InsertTemporal(traced, id)

-----------------------------------------------------------------------------
(* The operations.  Each says what the store may become, with its events; Become *)
(* makes it the store.                                                          *)

Become(s, op, rows) ==
    /\ store' = Tidy([s EXCEPT !.events = <<>>])
    /\ last' = [op |-> op, rows |-> rows]
    /\ UNCHANGED scenario

Temporal == {id \in store.physical : ~IsStatic(id)}
Times == {TimeOf[r] : r \in Row}

ManifestRoots == {id \in Roots : scenario.roots[id].manifest}

\* insert_rrd_manifest, of a manifest, or a part of one, that lists these chunks.  Its
\* static map has the last chunk listed for a component, and replaces what was there.
AfterManifest(ids) ==
    LET temporal == {id \in ids : ~IsStatic(id)}
        Covering(c) == {id \in ids : c \in scenario.roots[id].components}
        staticMap == [c \in {x \in Components : Covering(x) # {}} |-> Max(Covering(c))]
        listed == temporal \cup {staticMap[c] : c \in DOMAIN staticMap}
        announced ==
            [store EXCEPT
                !.lineage = [id \in Id |->
                    IF id \in listed THEN [NoLineage EXCEPT !.kind = "manifest", !.manifest = TRUE]
                    ELSE @[id]],
                !.static_ = [c \in Components |->
                    IF c \in DOMAIN staticMap THEN staticMap[c] ELSE @[c]]]
    IN  FoldLeft(AddToIndex, announced, Ascending(temporal))

\* can_fetch_chunks_from_redap
CanFetch == ManifestRoots # {}

\* find_all_protected_physical_chunk_ids(1): the first physical id in descending
\* order of start time.
ProtectedLatest ==
    LET candidates == store.index \cap store.physical
        latest == {i \in candidates :
                     \A j \in candidates : StartTime(store, j) <= StartTime(store, i)}
    IN  IF latest = {} THEN {{}} ELSE {{i} : i \in latest}

\* gc_find_candidates: what may be chosen for removal, in order.  When chunks can be
\* fetched again, any may be protected by its use in the last frame and the distance
\* from the time cursor orders them.  Otherwise they go in the order of their least
\* RowId, except the latest and, in a blueprint, those an undo may need.
GcCandidates ==
    IF CanFetch THEN {Ascending(ids) : ids \in SUBSET Temporal}
    ELSE {LET MinRowId(i) == Min(store.rows[i])
              kept == {i \in Temporal : scenario.blueprint /\ EndTime(store, i) >= undo}
              order == SortedBy(Temporal \ (latest \cup kept), MinRowId)
          IN  SubSeq(order, 1, Min({n, Len(order)})) :
            latest \in ProtectedLatest, undo \in Times \cup {Max(Times) + 1},
            n \in 1..Cardinality(Temporal)}

\* gc, with these candidates: deep in a blueprint, otherwise shallow for the root
\* chunks, of which the time budget may leave some, and deep for the others.
AfterGc(candidates, budget) ==
    LET Root(id) == IsRootChunk(store, id)
        NotRoot(id) == ~Root(id)
        roots == SelectSeq(candidates, Root)
        swept == SubSeq(roots, 1, Min({budget, Len(roots)}))
    IN  IF scenario.blueprint THEN RemoveChunksDeep(store, candidates)
        ELSE RemoveChunksDeep(RemoveChunksShallow(store, swept), SelectSeq(candidates, NotRoot))

\* drop_entity_path: the indices, and the physical chunks they lead to.  Lineage stays.
AfterDropEntity ==
    LET dropped == (store.index \cup {store.static_[c] : c \in Components}) \cap store.physical
    IN  [store EXCEPT !.physical = @ \ dropped,
                      !.index = {},
                      !.maxInterval = 0,
                      !.static_ = [c \in Components |-> NoId],
                      !.events = [k \in 1..Cardinality(dropped) |-> DeletionEvent(Ascending(dropped)[k])]]

\* drop_time_range_deep: the chunks in the range go; what they had outside of it comes
\* back as new chunks.
RECURSIVE InsertAll(_, _)
InsertAll(s, slices) ==
    LET new == Unused(s)
        InsertOne(rows) ==
            IF new = <<>> THEN {} ELSE Insert([s EXCEPT !.rows[new[1]] = rows], new[1])
    IN  IF slices = {} THEN {s}
        ELSE UNION {UNION {InsertAll(t, slices \ {rows}) : t \in InsertOne(rows)}
                      : rows \in slices}

AfterDropTimeRange(from, to) ==
    LET hit == {i \in Temporal : \E r \in store.rows[i] : TimeOf[r] \in from..to}
        removed == FoldLeft(LAMBDA s, i : RemoveChunksDeep(s, <<i>>), store, Ascending(hit))
        Outside(i) == {{r \in store.rows[i] : TimeOf[r] < from},
                       {r \in store.rows[i] : TimeOf[r] > to}} \ {{}}
    IN  InsertAll(removed, UNION {Outside(i) : i \in hit})

-----------------------------------------------------------------------------
(* Queries *)

\* latest_at: the ids relevant to a query at time t, by way of the longest interval.
LatestAt(t) ==
    LET started == {i \in store.index : StartTime(store, i) <= t}
        upper == Max({StartTime(store, i) : i \in started})
    IN  {i \in started : StartTime(store, i) >= upper - store.maxInterval}

\* QueryResults::missing_virtual
Missing(ids) == ids \ store.physical

-----------------------------------------------------------------------------
(* Properties *)

PhysicalRows == UNION {store.rows[id] : id \in Temporal}

Copies == [r \in Row |-> Cardinality({id \in Temporal : r \in store.rows[id]})]

Promise == INSTANCE RowStore WITH copies <- Copies

\* Splitting, compacting, collecting and inserting again never lose a row that was
\* inserted, nor hold one twice, and what removes only removes: the store that
\* insert_chunk, gc and the others work on implements RowStore.
RefinesRowStore == Promise!Spec

\* assert_store_invariants of the lineage tests: every physical chunk has a lineage
\* entry with a reference, and every temporal one is in the virtual index, so that
\* queries find it and its lineage lives as long as it does.
LineageAlive ==
    \A id \in store.physical :
        /\ store.lineage[id].kind # "none" /\ store.lineage[id].refs > 0
        /\ IsStatic(id) \/ id \in store.index

\* What a query reports missing can be fetched again, and is really missing: it
\* comes from a manifest, it is a chunk the manifest lists (the store ignores others),
\* and none of its rows is there under another name.
MissingIsMissing ==
    \A id \in Missing(store.index) :
        /\ store.lineage[id].kind = "manifest"
        /\ store.rows[id] \cap PhysicalRows = {}

\* max_interval_length is only an estimate, kept through compactions and removals:
\* the chunk with the latest row at a time, physical or missing, is always among those
\* that latest_at looks at.
Later(a, b) == TimeOf[a] > TimeOf[b] \/ (TimeOf[a] = TimeOf[b] /\ a > b)
LatestRows(t) ==
    LET seen == {r \in UNION {store.rows[id] : id \in store.index} : TimeOf[r] <= t}
    IN  {r \in seen : \A x \in seen : ~Later(x, r)}

LatestAtComplete ==
    \A t \in Times : \A r \in LatestRows(t) :
        \E id \in LatestAt(t) : r \in store.rows[id]

\* The current static chunk of a component is the one with the most recent row of
\* those in the store, in whatever order they came.
StaticIsNewest ==
    \A c \in Components :
        store.static_[c] \in store.physical =>
            \A id \in store.physical :
                (IsStatic(id) /\ c \in scenario.roots[id].components)
                => Max(store.rows[id]) <= Max(store.rows[store.static_[c]])
=============================================================================
