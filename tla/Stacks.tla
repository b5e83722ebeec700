------------------------------- MODULE Stacks -------------------------------
(***************************************************************************)
(* Stacks of middlewares, each in behaviours of its own: one request under *)
(* a timeout and hedged, the way of one response out and of one body in,   *)
(* the identifiers of one request, shadow mode; and those that requests    *)
(* share, the circuit breaker, the gates of pause and throttle, metrics    *)
(* and the adaptive limit.                                                 *)
(***************************************************************************)
EXTENDS TimedHedge, ResponsePath, RequestBody, RequestIDs, Shadow, Metrics, Adaptive,
        CircuitBreaker, GatedServer

ASSUME StacksAssumption ==
    0 \in Timeouts /\ \E c \in Configs : ~c.LoadFunc

VARIABLE stack      \* the stack that runs

vars == <<heVars, toVars, rpVars, boVars, idVars, shVars, meVars, adVars, cbVars,
          gsVars, stack>>

StackNames == {"timed_hedge", "response", "body", "ids", "shadow", "metrics",
               "adaptive", "breaker", "gated"}

TypeOK ==
    /\ stack \in StackNames
    /\ TOTypeOK /\ RPTypeOK /\ BOTypeOK /\ IDTypeOK /\ SHTypeOK
    /\ METypeOK /\ ADTypeOK /\ CBTypeOK /\ GSTypeOK

\* A stack that does not run has one configuration, with which it would have
\* nothing to do if there is such a one.
Init ==
    /\ stack \in StackNames
    /\ IF stack = "timed_hedge" THEN TRUE ELSE timeout = 0 /\ hedging = FALSE
    /\ IF stack = "response" THEN TRUE
       ELSE rewriting = FALSE /\ names = DefaultHeaderRewriteConfig
    /\ IF stack = "body" THEN TRUE ELSE setup = CHOOSE s \in Setups : TRUE
    /\ IF stack = "ids" THEN TRUE
       ELSE /\ conf = CHOOSE c \in IDConfigs : TRUE
            /\ incoming = CHOOSE h \in Incoming : TRUE
    /\ IF stack = "adaptive" THEN TRUE
       ELSE /\ config = CHOOSE c \in Configs : ~c.LoadFunc
            /\ load = CHOOSE l \in Loads : TRUE
    /\ IF stack = "breaker" THEN TRUE ELSE limiting = FALSE
    /\ TOInit /\ RPInit /\ BOInit /\ IDInit /\ SHInit /\ MEInit /\ ADInit
    /\ CBInit /\ GSInit

TimedHedgeRuns ==
    /\ stack = "timed_hedge"
    /\ UNCHANGED <<rpVars, boVars, idVars, shVars, meVars, adVars, cbVars,
                   gsVars, stack>>
ResponseRuns ==
    /\ stack = "response"
    /\ UNCHANGED <<heVars, toVars, boVars, idVars, shVars, meVars, adVars,
                   cbVars, gsVars, stack>>
BodyRuns ==
    /\ stack = "body"
    /\ UNCHANGED <<heVars, toVars, rpVars, idVars, shVars, meVars, adVars,
                   cbVars, gsVars, stack>>
IDsRun ==
    /\ stack = "ids"
    /\ UNCHANGED <<heVars, toVars, rpVars, boVars, shVars, meVars, adVars,
                   cbVars, gsVars, stack>>
ShadowRuns ==
    /\ stack = "shadow"
    /\ UNCHANGED <<heVars, toVars, rpVars, boVars, idVars, meVars, adVars,
                   cbVars, gsVars, stack>>
MetricsRun ==
    /\ stack = "metrics"
    /\ UNCHANGED <<heVars, toVars, rpVars, boVars, idVars, shVars, adVars,
                   cbVars, gsVars, stack>>
AdaptiveRuns ==
    /\ stack = "adaptive"
    /\ UNCHANGED <<heVars, toVars, rpVars, boVars, idVars, shVars, meVars,
                   cbVars, gsVars, stack>>
BreakerRuns ==
    /\ stack = "breaker"
    /\ UNCHANGED <<heVars, toVars, rpVars, boVars, idVars, shVars, meVars,
                   adVars, gsVars, stack>>
GatesRun ==
    /\ stack = "gated"
    /\ UNCHANGED <<heVars, toVars, rpVars, boVars, idVars, shVars, meVars,
                   adVars, cbVars, stack>>

Next ==
    \/ TimedHedgeRuns /\ TONext
    \/ ResponseRuns /\ RPNext
    \/ BodyRuns /\ BONext
    \/ IDsRun /\ IDNext
    \/ ShadowRuns /\ SHNext
    \/ MetricsRun /\ MENext
    \/ AdaptiveRuns /\ ADNext
    \/ BreakerRuns /\ CBNext
    \/ GatesRun /\ GSNext

(***************************************************************************)
(* Fairness: see TimedHedge, CircuitBreaker and GatedServer for their      *)
(* stacks.  Shadow mode's goroutine and ServeHTTP run on once the handler  *)
(* and the limiter have returned, which nobody promises.  Requests keep    *)
(* coming to the adaptive limit, which only requests make adapt.           *)
(***************************************************************************)
Fairness ==
    /\ WF_vars(TimedHedgeRuns /\ TimePasses)
    /\ WF_vars(TimedHedgeRuns /\ HedgerRuns)
    /\ WF_vars(TimedHedgeRuns /\ Outer)
    /\ WF_vars(ShadowRuns /\ (ReportBlock \/ ShadowReturns))
    /\ \A r \in Askers : WF_vars(AdaptiveRuns /\ ADStep(r))
    /\ WF_vars(BreakerRuns /\ CBTick)
    /\ \A r \in Callers : WF_vars(BreakerRuns /\ CBStep(r))
    /\ WF_vars(GatesRun /\ TimersRun)
    /\ \A r \in Requests : WF_vars(GatesRun /\ GSStep(r))

Spec == Init /\ [][Next]_vars /\ Fairness
=============================================================================
