--------------------------- MODULE MCRateLimiter ---------------------------
(* Small instance of RateLimiter for TLC. *)
EXTENDS RateLimiter, TLC

CONSTANTS c1, c2

Symmetry == Permutations(Callers)
=============================================================================
