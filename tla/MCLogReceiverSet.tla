------------------------- MODULE MCLogReceiverSet -------------------------
(* Model-checking instances of LogReceiverSet. *)
EXTENDS LogReceiverSet

CONSTANTS file, sdk

MCSources == {file, sdk}
ForwarderCalls == {"recv"}

\* recv_timeout takes the same steps as try_recv, only later.
RecvAndPoll == {"recv", "try_recv"}
=============================================================================
