--------------------------- MODULE MCTokenBucket ---------------------------
(***************************************************************************)
(* TokenBucket on a small instance.  The callers are interchangeable.      *)
(***************************************************************************)
EXTENDS TokenBucket, TLC

CallerSymmetry == Permutations(Callers)
=============================================================================
