--------------------------- MODULE MCQuotaChannel ---------------------------
(* Model-checking instance of QuotaChannel. *)
EXTENDS QuotaChannel, TLC

CONSTANTS s1, s2, r1, r2

MCSenders == {s1, s2}
MCReceivers == {r1, r2}

\* A budget of 2: an empty message, ones that fit alone or together, and one
\* larger than the whole channel.
MCSizes == {0, 1, 2, 3}

SenderSymmetry == Permutations(MCSenders)
=============================================================================
