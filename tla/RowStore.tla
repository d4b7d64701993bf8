------------------------------ MODULE RowStore ------------------------------
(***************************************************************************)
(* What a chunk store promises about its temporal rows, whatever it does   *)
(* to the chunks that carry them.  Inserting a chunk makes every one of    *)
(* its rows available, exactly once, and leaves the other rows alone.  The *)
(* operations that remove only remove.                                     *)
(***************************************************************************)
EXTENDS Naturals

CONSTANT Row  \* rows, each with a RowId of its own

VARIABLES
    copies,   \* how many physical chunks carry each row
    last      \* the last operation and, if it was an insertion, the chunk's rows

vars == <<copies, last>>

Init ==
    /\ copies = [r \in Row |-> 0]
    /\ last = [op |-> "none", rows |-> {}]

Insert(rows) ==
    /\ copies' = [r \in Row |-> IF r \in rows THEN 1 ELSE copies[r]]
    /\ last' = [op |-> "insert", rows |-> rows]

Remove(rows) ==
    /\ copies' = [r \in Row |-> IF r \in rows THEN 0 ELSE copies[r]]
    /\ last' = [op |-> "remove", rows |-> {}]

\* Rows become known without being loaded.
Announce ==
    /\ last' = [op |-> "announce", rows |-> {}]
    /\ UNCHANGED copies

Next ==
    \/ \E rows \in SUBSET Row : Insert(rows) \/ Remove(rows)
    \/ Announce

Spec == Init /\ [][Next]_vars
=============================================================================
