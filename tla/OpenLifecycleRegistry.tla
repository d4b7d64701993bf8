------------------------ MODULE OpenLifecycleRegistry ------------------------
(***************************************************************************)
(* re_web::open_lifecycle_registry: which operation opened which source    *)
(* and follows which recordings, kept in four maps that point at each      *)
(* other.  A recording outlives the operation that published it, and a     *)
(* removed recording stays as a tombstone for as long as an operation      *)
(* follows it.                                                             *)
(*                                                                         *)
(* The sets inside the entries of a map are relations here, one for each   *)
(* direction, because the code keeps them separately.  A call that returns *)
(* an error changes nothing and is left out.                               *)
(***************************************************************************)
EXTENDS Integers, FiniteSets

CONSTANTS
    Sources, Operations, Recordings, Stores,
    MaxSources, MaxOperations, MaxRecordings, MaxSubscriptions, MaxTombstones

ASSUME LimitsAssumption ==
    {MaxSources, MaxOperations, MaxRecordings, MaxSubscriptions, MaxTombstones}
      \subseteq Nat

ASSUME SomeAssumption == Sources # {} /\ Stores # {}

VARIABLES
    sources,        \* keys of sources
    sourceOps,      \* SourceLifecycleEntry::operations
    sourceRecs,     \* SourceLifecycleEntry::recordings
    operations,     \* keys of operations
    opSource,       \* OperationLifecycleEntry::source_token
    subscriptions,  \* OperationLifecycleEntry::recording_subscriptions
    recordings,     \* keys of recordings
    recSource,      \* RecordingLifecycleEntry::source_token
    recStore,       \* RecordingLifecycleEntry::store_target
    removed,        \* recordings in the state Removed
    subscribers,    \* RecordingLifecycleEntry::subscribers
    storeReverse    \* store_reverse

registryVars ==
    <<sources, sourceOps, sourceRecs, operations, opSource, subscriptions,
      recordings, recSource, recStore, removed, subscribers, storeReverse>>

RegistryTypeOK ==
    /\ sources \subseteq Sources
    /\ sourceOps \subseteq Sources \X Operations
    /\ sourceRecs \subseteq Sources \X Recordings
    /\ operations \subseteq Operations
    /\ opSource \in [Operations -> Sources]
    /\ subscriptions \subseteq Operations \X Recordings
    /\ recordings \subseteq Recordings
    /\ recSource \in [Recordings -> Sources]
    /\ recStore \in [Recordings -> Stores]
    /\ removed \subseteq Recordings
    /\ subscribers \subseteq Recordings \X Operations
    /\ storeReverse \subseteq Stores \X Recordings

\* The entries of operations and recordings that are not there have some value.
RegistryInit ==
    /\ sources = {} /\ sourceOps = {} /\ sourceRecs = {}
    /\ operations = {} /\ subscriptions = {}
    /\ recordings = {} /\ removed = {} /\ subscribers = {}
    /\ storeReverse = {}
    /\ opSource = [o \in Operations |-> CHOOSE s \in Sources : TRUE]
    /\ recSource = [r \in Recordings |-> CHOOSE s \in Sources : TRUE]
    /\ recStore = [r \in Recordings |-> CHOOSE t \in Stores : TRUE]

Subscriptions(o) == {r \in Recordings : <<o, r>> \in subscriptions}
Subscribers(r) == {o \in Operations : <<r, o>> \in subscribers}

-----------------------------------------------------------------------------

RegisterOperation(s, o) ==
    /\ o \notin operations
    /\ Cardinality(operations) < MaxOperations
    /\ s \in sources \/ Cardinality(sources) < MaxSources
    /\ sources' = sources \cup {s}
    /\ sourceOps' = sourceOps \cup {<<s, o>>}
    /\ operations' = operations \cup {o}
    /\ opSource' = [opSource EXCEPT ![o] = s]
    /\ UNCHANGED <<sourceRecs, subscriptions, recordings, recSource, recStore, removed,
                   subscribers, storeReverse>>

\* Mutant: the store of a publication may be in use.
PublishUnchecked(o, r, t) ==
    /\ r \notin recordings
    /\ Cardinality(recordings) < MaxRecordings
    /\ o \in operations
    /\ Cardinality(Subscriptions(o)) < MaxSubscriptions
    /\ subscriptions' = subscriptions \cup {<<o, r>>}
    /\ sourceRecs' = sourceRecs \cup {<<opSource[o], r>>}
    /\ storeReverse' = (storeReverse \ ({t} \X Recordings)) \cup {<<t, r>>}
    /\ recordings' = recordings \cup {r}
    /\ recSource' = [recSource EXCEPT ![r] = opSource[o]]
    /\ recStore' = [recStore EXCEPT ![r] = t]
    /\ subscribers' = subscribers \cup {<<r, o>>}
    /\ UNCHANGED <<sources, sourceOps, operations, opSource, removed>>

PublishRecording(o, r, t) ==
    /\ r \notin recordings
    /\ \A q \in Recordings : <<t, q>> \notin storeReverse
    /\ Cardinality(recordings) < MaxRecordings
    /\ o \in operations
    /\ Cardinality(Subscriptions(o)) < MaxSubscriptions
    /\ subscriptions' = subscriptions \cup {<<o, r>>}
    /\ sourceRecs' = sourceRecs \cup {<<opSource[o], r>>}
    /\ storeReverse' = storeReverse \cup {<<t, r>>}
    /\ recordings' = recordings \cup {r}
    /\ recSource' = [recSource EXCEPT ![r] = opSource[o]]
    /\ recStore' = [recStore EXCEPT ![r] = t]
    /\ subscribers' = subscribers \cup {<<r, o>>}
    /\ UNCHANGED <<sources, sourceOps, operations, opSource, removed>>

AttachRecording(o, r) ==
    /\ o \in operations
    /\ r \in recordings \ removed
    /\ opSource[o] = recSource[r]
    /\ r \in Subscriptions(o) \/ Cardinality(Subscriptions(o)) < MaxSubscriptions
    /\ subscriptions' = subscriptions \cup {<<o, r>>}
    /\ subscribers' = subscribers \cup {<<r, o>>}
    /\ UNCHANGED <<sources, sourceOps, sourceRecs, operations, opSource, recordings,
                   recSource, recStore, removed, storeReverse>>

\* remove_empty_source, for the relations as they are then
WithoutEmpty(s, ops, recs) ==
    IF (\E o \in Operations : <<s, o>> \in ops) \/ (\E r \in Recordings : <<s, r>> \in recs)
      THEN sources ELSE sources \ {s}

\* Removing a recording that is removed already changes nothing.
RemoveRecording(r) ==
    /\ r \in recordings \ removed
    /\ storeReverse' = storeReverse \ {<<recStore[r], r>>}
    /\ \/ /\ Subscribers(r) = {}
          /\ recordings' = recordings \ {r}
          /\ sourceRecs' = sourceRecs \ {<<recSource[r], r>>}
          /\ sources' = WithoutEmpty(recSource[r], sourceOps, sourceRecs')
          /\ UNCHANGED removed
       \/ /\ Subscribers(r) # {}
          /\ Cardinality(removed) < MaxTombstones
          /\ removed' = removed \cup {r}
          /\ UNCHANGED <<recordings, sourceRecs, sources>>
    /\ UNCHANGED <<sourceOps, operations, opSource, subscriptions, recSource, recStore,
                   subscribers>>

\* Mutant: the tombstones of the operation stay.
DisposeKeepingTombstones(o) ==
    /\ o \in operations
    /\ operations' = operations \ {o}
    /\ sourceOps' = sourceOps \ {<<opSource[o], o>>}
    /\ subscriptions' = subscriptions \ ({o} \X Recordings)
    /\ subscribers' = subscribers \ (Recordings \X {o})
    /\ sources' = WithoutEmpty(opSource[o], sourceOps', sourceRecs)
    /\ UNCHANGED <<sourceRecs, opSource, recordings, recSource, recStore, removed,
                   storeReverse>>

\* Mutant: the recordings are not told that a subscriber is gone.
DisposeKeepingSubscribers(o) ==
    /\ o \in operations
    /\ operations' = operations \ {o}
    /\ sourceOps' = sourceOps \ {<<opSource[o], o>>}
    /\ subscriptions' = subscriptions \ ({o} \X Recordings)
    /\ sources' = WithoutEmpty(opSource[o], sourceOps', sourceRecs)
    /\ UNCHANGED <<sourceRecs, opSource, recordings, recSource, recStore, removed,
                   subscribers, storeReverse>>

\* dispose_operation, with remove_recording_from_source for the tombstones that only
\* this operation kept
DisposeOperation(o) ==
    /\ o \in operations
    /\ LET gone == {r \in Subscriptions(o) \cap recordings \cap removed :
                      Subscribers(r) \ {o} = {}}
       IN  /\ operations' = operations \ {o}
           /\ sourceOps' = sourceOps \ {<<opSource[o], o>>}
           /\ subscriptions' = subscriptions \ ({o} \X Recordings)
           /\ subscribers' = subscribers \ ((Subscriptions(o) \X {o})
                                              \cup (gone \X Operations))
           /\ recordings' = recordings \ gone
           /\ removed' = removed \ gone
           /\ sourceRecs' = sourceRecs \ {<<recSource[r], r>> : r \in gone}
           /\ sources' = WithoutEmpty(opSource[o], sourceOps', sourceRecs')
    /\ UNCHANGED <<opSource, recSource, recStore, storeReverse>>

RegistryNext ==
    \/ \E o \in Operations :
          \/ \E s \in Sources : RegisterOperation(s, o)
          \/ \E r \in Recordings :
                AttachRecording(o, r) \/ \E t \in Stores : PublishRecording(o, r, t)
          \/ DisposeOperation(o)
    \/ \E r \in Recordings : RemoveRecording(r)

RegistrySpec == RegistryInit /\ [][RegistryNext]_registryVars

-----------------------------------------------------------------------------
(* Properties *)

\* The two directions of every relation agree, an entry points only at entries that
\* exist, and an operation follows only recordings of its own source: the expect of
\* publish_recording cannot fail, and no subscription refers to a recording that went.
IndexesAgree ==
    /\ \A o \in Operations, r \in Recordings :
         <<r, o>> \in subscribers <=> <<o, r>> \in subscriptions
    /\ \A o \in Operations, r \in Recordings : <<o, r>> \in subscriptions =>
         o \in operations /\ r \in recordings /\ opSource[o] = recSource[r]
    /\ \A s \in Sources, o \in Operations :
         <<s, o>> \in sourceOps <=> o \in operations /\ opSource[o] = s
    /\ \A s \in Sources, r \in Recordings :
         <<s, r>> \in sourceRecs <=> r \in recordings /\ recSource[r] = s

\* A store finds its recording exactly while the recording is active, and no two active
\* recordings have the same store, whatever was removed, tombstoned and published again.
LookupExact ==
    /\ \A t \in Stores, r \in Recordings :
         <<t, r>> \in storeReverse <=> r \in recordings \ removed /\ recStore[r] = t
    /\ \A q, r \in recordings \ removed : recStore[q] = recStore[r] => q = r

\* Nothing is kept without a reason: a tombstone has a subscriber, and a source has an
\* operation or a recording; and a source that has one is there.
NoLeak ==
    /\ \A r \in removed : r \in recordings /\ \E o \in Operations : <<r, o>> \in subscribers
    /\ \A s \in Sources :
         s \in sources <=> \/ \E o \in operations : opSource[o] = s
                          \/ \E r \in recordings : recSource[r] = s
=============================================================================
