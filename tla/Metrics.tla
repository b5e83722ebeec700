------------------------------ MODULE Metrics -------------------------------
(***************************************************************************)
(* Metrics (metrics.go) and what WithMetrics (metrics_middleware.go)       *)
(* records after its handler has returned.  Three counters, each of them   *)
(* atomic, all of them together not: recording takes two steps and Reset   *)
(* three, and they interleave.                                             *)
(***************************************************************************)
EXTENDS Integers, FiniteSets

CONSTANTS
    Recorders,  \* goroutines that record
    MaxTotal    \* bound on the counters, for model checking

ASSUME MetricsAssumption ==
    /\ IsFiniteSet(Recorders)
    /\ MaxTotal \in Nat

VARIABLES
    total, allowed, blocked,    \* m.total, m.allowed, m.blocked
    adding,     \* adding[r]: the counter that r adds to next, or "none"
    reset,      \* the counter that Reset stores next, or "none"
    torn        \* history: a recording overlapped a Reset, and there was no
                \* Reset without one since

meVars == <<total, allowed, blocked, adding, reset, torn>>

METypeOK ==
    /\ total \in 0 .. MaxTotal
    /\ allowed \in 0 .. MaxTotal
    /\ blocked \in 0 .. MaxTotal
    /\ adding \in [Recorders -> {"none", "allowed", "blocked"}]
    /\ reset \in {"none", "blocked", "total"}
    /\ torn \in BOOLEAN

MEInit ==
    /\ total = 0 /\ allowed = 0 /\ blocked = 0
    /\ adding = [r \in Recorders |-> "none"]
    /\ reset = "none"
    /\ torn = FALSE

Recording == {r \in Recorders : adding[r] # "none"}

\* recordAllowed and recordBlocked: the total first.
AddTotal(r, verdict) ==
    /\ adding[r] = "none"
    /\ total < MaxTotal
    /\ total' = total + 1
    /\ adding' = [adding EXCEPT ![r] = verdict]
    /\ torn' = (torn \/ reset # "none")
    /\ UNCHANGED <<allowed, blocked, reset>>

AddVerdict(r) ==
    /\ \/ /\ adding[r] = "allowed" /\ allowed < MaxTotal
          /\ allowed' = allowed + 1 /\ UNCHANGED blocked
       \/ /\ adding[r] = "blocked" /\ blocked < MaxTotal
          /\ blocked' = blocked + 1 /\ UNCHANGED allowed
    /\ adding' = [adding EXCEPT ![r] = "none"]
    /\ torn' = (torn \/ reset # "none")
    /\ UNCHANGED <<total, reset>>

ResetAllowed ==
    /\ reset = "none"
    /\ allowed' = 0
    /\ reset' = "blocked"
    /\ torn' = (Recording # {})
    /\ UNCHANGED <<total, blocked, adding>>

ResetBlocked ==
    /\ reset = "blocked"
    /\ blocked' = 0
    /\ reset' = "total"
    /\ UNCHANGED <<total, allowed, adding, torn>>

\* Mutant: the total is not reset.
ResetTotalForgotten ==
    /\ reset = "total"
    /\ reset' = "none"
    /\ UNCHANGED <<total, allowed, blocked, adding, torn>>

ResetTotal ==
    /\ reset = "total"
    /\ total' = 0
    /\ reset' = "none"
    /\ UNCHANGED <<allowed, blocked, adding, torn>>

MENext ==
    \/ \E r \in Recorders :
          AddTotal(r, "allowed") \/ AddTotal(r, "blocked") \/ AddVerdict(r)
    \/ ResetAllowed \/ ResetBlocked \/ ResetTotal

-----------------------------------------------------------------------------
(***************************************************************************)
(* The counters agree: at every moment at which no Reset is under way, the *)
(* total is what was allowed and what was blocked and the requests that    *)
(* are being recorded, none lost and none counted twice, however the       *)
(* recordings interleave.  A Reset that a recording overlaps ends that,    *)
(* and the next one without brings it back: what an old recording still    *)
(* does never spoils the counters for good.                                *)
(***************************************************************************)
MetricsAgree ==
    reset = "none" /\ ~torn =>
        total = allowed + blocked + Cardinality(Recording)
=============================================================================
