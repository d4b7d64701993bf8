------------------------- MODULE MCBroadcastChannel -------------------------
(* Model-checking instance of BroadcastChannel. *)
EXTENDS BroadcastChannel, TLC

CONSTANTS s1, s2, r1, r2

MCSenders == {s1, s2}
MCReceivers == {r1, r2}

\* With limits of 2 messages and 3 bytes: two small messages reach the count
\* before the bytes, two larger ones the bytes before the count, and one
\* message is larger than the byte limit.
MCSizes == {1, 2, 4}
FewSizes == {1, 4}

SenderSymmetry == Permutations(MCSenders)
=============================================================================
