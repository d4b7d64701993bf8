--------------------------- MODULE MCPipelineBudget ---------------------------
EXTENDS PipelineBudget

None == [p \in Partitions |-> {}]

\* The shipped sizing: bytes never bind, the segment limit does.  Either
\* partition needs both slots at once; one fetch of the first may fail, and
\* the fetch of the second brings both its segments.
Wide ==
  [budget |-> 20, limit |-> 2, horizon |-> FALSE, limited |-> {},
   failing |-> [p \in Partitions |-> IF p = "p" THEN {1} ELSE {}],
   overwritten |-> {}, indexed |-> {},
   order |-> ("p" :> <<"a", "b">> @@ "q" :> <<"d", "e">>),
   fetches |-> ("p" :> <<[time |-> 1, sizes |-> {1}, chunks |-> ("a" :> 1)],
                         [time |-> 1, sizes |-> {1}, chunks |-> ("b" :> 1)]>> @@
                "q" :> <<[time |-> 2, sizes |-> {2}, chunks |-> ("d" :> 1 @@ "e" :> 1)]>>)]

\* The bytes bind.  Reservations are too large (and shrink when the answer is
\* decoded), too small (and grow) or larger than the whole budget.
Tight ==
  [budget |-> 2, limit |-> 1, horizon |-> FALSE, limited |-> {}, failing |-> None,
   overwritten |-> {}, indexed |-> {},
   order |-> ("p" :> <<"a">> @@ "q" :> <<"d", "e">>),
   fetches |-> ("p" :> <<[time |-> 1, sizes |-> {2}, chunks |-> ("a" :> 1)]>> @@
                "q" :> <<[time |-> 2, sizes |-> {3}, chunks |-> ("d" :> 2)],
                         [time |-> 1, sizes |-> {1}, chunks |-> ("e" :> 2)]>>)]

\* The chunks of a segment do not fit together, and its messages are too few
\* for the stall breaker.
Few ==
  [budget |-> 1, limit |-> 1, horizon |-> FALSE, limited |-> {}, failing |-> None,
   overwritten |-> {}, indexed |-> {},
   order |-> ("p" :> <<"a", "b">> @@ "q" :> <<>>),
   fetches |-> ("p" :> <<[time |-> 1, sizes |-> {1}, chunks |-> ("a" :> 1)],
                         [time |-> 2, sizes |-> {1}, chunks |-> ("a" :> 1)],
                         [time |-> 3, sizes |-> {1}, chunks |-> ("b" :> 1)]>> @@
                "q" :> <<>>)]

\* The last chunk of a segment does not fit beside the others: after 20 empty
\* emits with the budget at 95% or more the stall breaker lets it through ...
Stalled ==
  [budget |-> 400, limit |-> 1, horizon |-> FALSE, limited |-> {}, failing |-> None,
   overwritten |-> {}, indexed |-> {},
   order |-> ("p" :> <<"a">> @@ "q" :> <<>>),
   fetches |-> ("p" :> [i \in 1..22 |->
                   LET n == CASE i = 1 -> 380 [] i = 22 -> 10 [] OTHER -> 1
                   IN [time |-> i, sizes |-> {n}, chunks |-> ("a" :> n)]] @@
                "q" :> <<>>)]

\* ... but not if the segment is read at explicit index values.
Indexed == [Stalled EXCEPT !.indexed = {"a"}]

\* Chunks of the first segment overwrite each other: what the store does not
\* keep is never released, and the last fetch may find no room.
Overwritten ==
  [budget |-> 2, limit |-> 1, horizon |-> FALSE, limited |-> {}, failing |-> None,
   overwritten |-> {"a"}, indexed |-> {},
   order |-> ("p" :> <<"a", "b">> @@ "q" :> <<>>),
   fetches |-> ("p" :> <<[time |-> 1, sizes |-> {1}, chunks |-> ("a" :> 1)],
                         [time |-> 2, sizes |-> {1}, chunks |-> ("a" :> 1)],
                         [time |-> 3, sizes |-> {2}, chunks |-> ("b" :> 2)]>> @@
                "q" :> <<>>)]

\* Rows are emitted and bytes collected while the segment is in flight, and
\* the first partition may reach its row limit before its last chunk.  What
\* it then keeps of the budget leaves enough for the second one.
Horizon ==
  [budget |-> 4, limit |-> 2, horizon |-> TRUE, limited |-> {"p"}, failing |-> None,
   overwritten |-> {}, indexed |-> {},
   order |-> ("p" :> <<"a">> @@ "q" :> <<"d">>),
   fetches |-> ("p" :> <<[time |-> 1, sizes |-> {1}, chunks |-> ("a" :> 1)],
                         [time |-> 2, sizes |-> {1}, chunks |-> ("a" :> 1)]>> @@
                "q" :> <<[time |-> 1, sizes |-> {2}, chunks |-> ("d" :> 1)]>>)]

\* Everything fits: the segment of the first partition needs the whole
\* budget, the second one releases its bytes segment by segment.
Orphan ==
  [budget |-> 2, limit |-> 3, horizon |-> FALSE, limited |-> {}, failing |-> None,
   overwritten |-> {}, indexed |-> {},
   order |-> ("p" :> <<"x">> @@ "q" :> <<"a", "b">>),
   fetches |-> ("p" :> <<[time |-> 2, sizes |-> {1}, chunks |-> ("x" :> 1)],
                         [time |-> 1, sizes |-> {1}, chunks |-> ("x" :> 1)]>> @@
                "q" :> <<[time |-> 1, sizes |-> {1}, chunks |-> ("a" :> 1)],
                         [time |-> 2, sizes |-> {1}, chunks |-> ("b" :> 1)]>>)]

\* The first partition stops at its row limit while its next wave is announced.
RowLimit ==
  [budget |-> 20, limit |-> 1, horizon |-> FALSE, limited |-> {"p"}, failing |-> None,
   overwritten |-> {}, indexed |-> {},
   order |-> ("p" :> <<"a", "b">> @@ "q" :> <<"d">>),
   fetches |-> ("p" :> <<[time |-> 1, sizes |-> {1}, chunks |-> ("a" :> 1)],
                         [time |-> 2, sizes |-> {1}, chunks |-> ("b" :> 1)]>> @@
                "q" :> <<[time |-> 3, sizes |-> {1}, chunks |-> ("d" :> 1)]>>)]

MCScenarios ==
  {Wide, Tight, Few, Stalled, Indexed, Overwritten, Horizon, Orphan, RowLimit}
OnlyFew == {Few}
OnlyOrphan == {Orphan}
OnlyRowLimit == {RowLimit}
===============================================================================
