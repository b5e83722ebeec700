---------------------------- MODULE MCSharedWork ----------------------------
(***************************************************************************)
(* SharedWork on a small instance.  The goroutines are interchangeable.    *)
(***************************************************************************)
EXTENDS SharedWork, TLC

RequestSymmetry == Permutations(Requests)
=============================================================================
