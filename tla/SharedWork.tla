----------------------------- MODULE SharedWork -----------------------------
(***************************************************************************)
(* A handler behind the middlewares that share work between requests:      *)
(* WithRequestCoalescing around WithResponseCache around WithRequestDedup. *)
(***************************************************************************)
EXTENDS Coalescing, Dedup, ResponseCache

vars == <<chainVars, coVars, deVars, rcVars>>

TypeOK == ChainTypeOK /\ COTypeOK /\ DETypeOK /\ RCTypeOK

Init == ChainInit /\ COInit /\ DEInit /\ RCInit

Arrive(r) ==
    /\ stage[r] = "idle"
    /\ stage' = [stage EXCEPT ![r] = "arrived"]
    /\ \E k \in Keys : key' = [key EXCEPT ![r] = k]
    /\ \E get \in BOOLEAN : cacheable' = [cacheable EXCEPT ![r] = get]
    /\ UNCHANGED <<coVars, deVars, rcVars>>

Coalesced(r) == COStep(r) /\ UNCHANGED <<deVars, rcVars>>
Cached(r) == RCStep(r) /\ UNCHANGED <<coVars, deVars>>
Deduplicated(r) == (Accept(r) \/ Duplicate(r)) /\ UNCHANGED <<coVars, rcVars>>

Step(r) == Coalesced(r) \/ Cached(r) \/ Deduplicated(r)

Tick ==
    /\ DEMayTick /\ DETick
    /\ RCMayTick /\ RCTick
    /\ UNCHANGED <<chainVars, coVars>>

Next ==
    \/ Tick
    \/ Evict /\ UNCHANGED <<chainVars, coVars, rcVars>>
    \/ \E k \in Keys : Delete(k) /\ UNCHANGED <<coVars, deVars>>
    \/ \E r \in Requests : Arrive(r) \/ Step(r)

Spec == Init /\ [][Next]_vars
=============================================================================
