---------------------------- MODULE RateLimiter ----------------------------
(***************************************************************************)
(* The middleware of New (ratelimiter.go) around a strategy chosen by name *)
(* as NewStrategy (strategy.go) chooses it: the fixed window, the sliding  *)
(* window (also for the empty name) or the leaky bucket.  The token bucket *)
(* has a specification of its own, TokenBucket, with the same middleware.  *)
(***************************************************************************)
EXTENDS FixedWindow, SlidingWindow, LeakyBucket

CONSTANT Strategies     \* the strategy names this instance is checked for

VARIABLE strategy       \* cfg.Strategy

vars == <<callVars, fwVars, swVars, lbVars, strategy>>

TypeOK ==
    /\ CallTypeOK
    /\ FWTypeOK
    /\ SWTypeOK
    /\ LBTypeOK
    /\ strategy \in Strategies

Init ==
    /\ CallInit
    /\ FWInit
    /\ SWInit
    /\ LBInit
    /\ strategy \in Strategies
    \* only the leaky bucket's bound looks at `from`
    /\ strategy # "leaky_bucket" => \A start \in Starts : from <= start

Environment ==
    /\ Tick \/ \E r \in Callers : Begin(r)
    /\ UNCHANGED <<fwVars, swVars, lbVars, strategy>>

\* A call in the stage "sent" whose command is lost: Allow returns an error,
\* except in the leaky bucket, which drops the error of its first pipeline.
CommandLost(r) ==
    /\ stage[r] = "sent"
    /\ strategy # "leaky_bucket"
    /\ Lost(r)
    /\ UNCHANGED <<fwVars, swVars, lbVars, strategy>>

Allow(r) ==
    /\ \/ /\ strategy = "fixed_window"
          /\ FWStep(r)
          /\ UNCHANGED <<swVars, lbVars>>
       \/ /\ strategy \in {"sliding_window", ""}
          /\ SWStep(r)
          /\ UNCHANGED <<fwVars, lbVars>>
       \/ /\ strategy = "leaky_bucket"
          /\ LBStep(r)
          /\ UNCHANGED <<fwVars, swVars>>
    /\ UNCHANGED strategy

Next ==
    \/ Environment
    \/ \E r \in Callers : Allow(r) \/ CommandLost(r)

Spec == Init /\ [][Next]_vars

-----------------------------------------------------------------------------
(***************************************************************************)
(* "On backend error, fail open to avoid blocking legitimate traffic": a   *)
(* call whose command did not reach Redis in time is never refused, in any *)
(* strategy and at any of its round trips.                                 *)
(***************************************************************************)
FailsOpen ==
    [][\A r \in Callers :
          stage[r] # "idle" /\ stage'[r] = "idle" /\ ~OnTime(r)
            => answer' = "served"]_vars
=============================================================================
