-------------------------- MODULE MCStoreLimiters ---------------------------
(***************************************************************************)
(* Two quotas, a narrow one that expires soon and a wide one after it; a   *)
(* burst counter with windows of two ticks; and one key for other calls.   *)
(***************************************************************************)
EXTENDS StoreLimiters, TLC

CONSTANTS narrow, wide, other

MCKeys == {narrow, wide, other} \cup BurstKeys \cup {PriorityKey}
MCOtherKeys == {other}
MCQuotas == <<[key |-> narrow, limit |-> 2, window |-> 2],
              [key |-> wide, limit |-> 1, window |-> 3]>>

RequestSymmetry == Permutations(Requests)
=============================================================================
