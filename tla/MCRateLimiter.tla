--------------------------- MODULE MCRateLimiter ---------------------------
(***************************************************************************)
(* RateLimiter on a small instance.  The callers are interchangeable.      *)
(***************************************************************************)
EXTENDS RateLimiter, TLC

CallerSymmetry == Permutations(Callers)
=============================================================================
