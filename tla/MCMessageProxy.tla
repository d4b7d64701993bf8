--------------------------- MODULE MCMessageProxy ---------------------------
(* Model-checking instances of MessageProxy. *)
EXTENDS MessageProxy

CONSTANTS c1, c2

MCClients == {c1, c2}
MCLocal == {c1}

\* Nobody reads: every sequence of five messages of all kinds and two sizes
\* passes the garbage collection.
GarbageCollection ==
    [playback_behavior |-> "OldestFirst", memory_limit |-> 3, readers |-> {},
     kinds |-> AllKinds \ Requests, sizes |-> {1, 2}, messages |-> 5]

\* The in-process viewer and a client that connects at any time, with a
\* history that holds one message beside the persistent ones.
Delivery(playback) ==
    [playback_behavior |-> playback, memory_limit |-> 1, readers |-> MCClients,
     kinds |-> {"persistent", "disposable"}, sizes |-> {1}, messages |-> 4]

\* Requests to the viewer among recording data, with a client beside the viewer or
\* without.
ViewerControl(readers, messages) ==
    [playback_behavior |-> "OldestFirst", memory_limit |-> 1, readers |-> readers,
     kinds |-> Requests \cup {"disposable"}, sizes |-> {1}, messages |-> messages]

OnlyViewerControl == {ViewerControl(MCClients, 2), ViewerControl(MCLocal, 3)}
MCScenarios ==
    {GarbageCollection, Delivery("OldestFirst"), Delivery("NewestFirst")}
      \cup OnlyViewerControl
OnlyGarbageCollection == {GarbageCollection}
OnlyNewestFirst == {Delivery("NewestFirst")}
=============================================================================
