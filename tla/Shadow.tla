------------------------------- MODULE Shadow -------------------------------
(***************************************************************************)
(* WithShadowMode (request_shadow.go), for one request: the handler serves *)
(* it while a goroutine asks the limiter, into a recorder that nobody      *)
(* sends; ServeHTTP returns after both.                                    *)
(***************************************************************************)
EXTENDS Integers

VARIABLES
    server,     \* what ServeHTTP does
    shadow,     \* what the goroutine does
    recCode,    \* rec.Code
    onBlock     \* how often cfg.OnBlock was called

shVars == <<server, shadow, recCode, onBlock>>

SHTypeOK ==
    /\ server \in {"serving", "waiting", "returned", "panicked"}
    /\ shadow \in {"limiting", "reporting", "done"}
    /\ recCode \in {200, 429}
    /\ onBlock \in 0 .. 1

SHInit ==
    /\ server = "serving"
    /\ shadow = "limiting"
    /\ recCode = 200
    /\ onBlock = 0

LimiterDecides ==
    /\ shadow = "limiting"
    /\ recCode' \in {200, 429}
    /\ shadow' = IF recCode' = 429 THEN "reporting" ELSE "done"
    /\ UNCHANGED <<server, onBlock>>

ReportBlock ==
    /\ shadow = "reporting"
    /\ onBlock' = onBlock + 1
    /\ shadow' = "done"
    /\ UNCHANGED <<server, recCode>>

RealHandlerReturns ==
    /\ server = "serving"
    /\ server' = "waiting"
    /\ UNCHANGED <<shadow, recCode, onBlock>>

\* wg.Wait() is not deferred: the goroutine goes on without ServeHTTP.
RealHandlerPanics ==
    /\ server = "serving"
    /\ server' = "panicked"
    /\ UNCHANGED <<shadow, recCode, onBlock>>

\* Mutant: ServeHTTP does not wait for the goroutine.
WaitDoneAtOnce == server = "waiting"

\* wg.Wait() returns.
WaitDone == server = "waiting" /\ shadow = "done"

ShadowReturns ==
    /\ WaitDone
    /\ server' = "returned"
    /\ UNCHANGED <<shadow, recCode, onBlock>>

SHNext ==
    LimiterDecides \/ ReportBlock \/ RealHandlerReturns \/ RealHandlerPanics
    \/ ShadowReturns

-----------------------------------------------------------------------------
(***************************************************************************)
(* "If the limiter would have blocked the request, cfg.OnBlock is          *)
(* invoked", before the request is over, and only then; nobody works on    *)
(* the request after net/http has it back, unless the handler panicked.    *)
(* And the request returns once the handler and the limiter have: the      *)
(* limiter's time is added to it.                                          *)
(***************************************************************************)
ShadowReports ==
    /\ [](server = "returned" =>
            /\ shadow = "done"
            /\ onBlock = IF recCode = 429 THEN 1 ELSE 0)
    /\ (server = "waiting" /\ shadow # "limiting") ~> server = "returned"
=============================================================================
