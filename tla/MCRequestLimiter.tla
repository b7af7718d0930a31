--------------------------- MODULE MCRequestLimiter ---------------------------
(* Two requests at a time for two keys, over two trims. *)
EXTENDS RequestLimiter, TLC

CONSTANTS r1, r2, k1, k2

MCRequests == {r1, r2}
MCKeys == {k1, k2}

Symmetry == Permutations(MCRequests) \cup Permutations(MCKeys)
=============================================================================
