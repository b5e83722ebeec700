----------------------------- MODULE TimedHedge -----------------------------
(***************************************************************************)
(* WithRequestTimeout (request_timeout.go) around WithRequestHedging, for  *)
(* one request.  The inner handler runs in a goroutine of its own; the     *)
(* middleware waits for its end or for the context's, and after the        *)
(* context's end calls exceededHandler with the same ResponseWriter and    *)
(* returns, whatever the inner handler and its attempts still do.          *)
(***************************************************************************)
EXTENDS Hedging

CONSTANT Timeouts   \* the values of d this instance is checked for

VARIABLES
    timeout,    \* cfg.timeout
    canceled,   \* the client went away
    outer       \* what the middleware does

toVars == <<timeout, canceled, outer>>

Stages == {"direct",        \* no timeout: calls the inner handler itself
           "selecting", "timed_out",
           "answered",      \* returned after the inner handler
           "exceeded"}      \* returned after exceededHandler

TOTypeOK ==
    /\ HETypeOK
    /\ timeout \in Timeouts
    /\ canceled \in BOOLEAN
    /\ outer \in Stages

TOInit ==
    /\ HEInit
    /\ timeout \in Timeouts
    /\ canceled = FALSE
    /\ outer = IF timeout <= 0 THEN "direct" ELSE "selecting"

\* done is closed when the inner handler, the hedger, has returned.
InnerOver == loop = Over

\* Mutant: the context is made without the deadline.
ContextDoneOnCancel == canceled

ContextDone == canceled \/ elapsed >= timeout

ClientLeaves ==
    /\ ~canceled
    /\ canceled' = TRUE
    /\ UNCHANGED <<heVars, timeout, outer>>

Direct ==
    /\ outer = "direct"
    /\ InnerOver
    /\ outer' = "answered"
    /\ UNCHANGED <<heVars, timeout, canceled>>

\* select: when both channels are ready, either may be taken.
Answered ==
    /\ outer = "selecting"
    /\ InnerOver
    /\ outer' = "answered"
    /\ UNCHANGED <<heVars, timeout, canceled>>

TimedOut ==
    /\ outer = "selecting"
    /\ ContextDone
    /\ outer' = "timed_out"
    /\ UNCHANGED <<heVars, timeout, canceled>>

Exceeded ==
    /\ outer = "timed_out"
    /\ outer' = "exceeded"
    /\ UNCHANGED <<heVars, timeout, canceled>>

Outer == Direct \/ Answered \/ TimedOut \/ Exceeded

TONext ==
    \/ HENext /\ UNCHANGED toVars
    \/ ClientLeaves
    \/ Outer

(***************************************************************************)
(* What is fair: time passes, and the middlewares' goroutines run.  A      *)
(* handler need not write, and need not return: the timeout is there for   *)
(* that.                                                                   *)
(***************************************************************************)
TimePasses == HETick /\ UNCHANGED toVars
HedgerRuns == (Hedge \/ Done \/ \E a \in Attempts : Send(a)) /\ UNCHANGED toVars

-----------------------------------------------------------------------------
Returned == outer \in {"answered", "exceeded"}

(***************************************************************************)
(* A request with a timeout is answered, though every attempt of its       *)
(* handler hang; one without is answered when one attempt returns.         *)
(***************************************************************************)
EveryRequestReturns ==
    (timeout > 0 \/ \E a \in Attempts : attempt[a] = "returned") ~> Returned
=============================================================================
