----------------------------- MODULE AllowCall -----------------------------
(***************************************************************************)
(* What every Redis-backed strategy of the package shares: goroutines that *)
(* run the middleware of New (ratelimiter.go), each of which reads its own *)
(* clock at the top of Allow and only later has its command executed by    *)
(* Redis.  Between the two, time passes and other callers' commands run,   *)
(* so commands may reach Redis in another order than the one in which      *)
(* their clocks were read.                                                 *)
(*                                                                         *)
(* All callers share one rate-limit key: keys of different clients never   *)
(* touch each other's Redis entries.                                       *)
(***************************************************************************)
EXTENDS Integers

CONSTANTS
    Callers,    \* goroutines (of any number of app servers) using one key
    Limit,      \* requests per window: max, rate or limit of a strategy
    Window,     \* the strategy's window, in clock ticks
    Second,     \* clock ticks per second
    MaxDelay,   \* a command runs at most this long after its clock reading
    MaxTime,    \* bound on the clock, for model checking
    Starts      \* where the intervals of the rate bounds may start

ASSUME AllowCallAssumption ==
    /\ Limit \in Nat \ {0}
    /\ Window \in Nat \ {0}
    /\ Second \in Nat \ {0}
    /\ MaxDelay \in Nat
    /\ MaxTime \in Nat
    /\ Starts \subseteq 0 .. MaxTime

VARIABLES
    now,        \* the clock: Redis' and the app servers'
    stage,      \* stage[r]: how far r's current request has got
    stamp,      \* stamp[r]: the `now` read at the top of Allow
    answer,     \* what the middleware did with the last request it finished
    latest,     \* history: the greatest stamp Redis has executed so far
    ordered,    \* history: no command was executed after one stamped later
    from        \* history: start of the interval the rate bounds look at

callVars == <<now, stage, stamp, answer, latest, ordered, from>>

Stages == {"idle", "sent", "half"}
Answers == {"none", "served", "limited"}

CallTypeOK ==
    /\ now \in 0 .. MaxTime
    /\ stage \in [Callers -> Stages]
    /\ stamp \in [Callers -> 0 .. MaxTime]
    /\ answer \in Answers
    /\ latest \in 0 .. MaxTime
    /\ ordered \in BOOLEAN
    /\ from \in Starts

CallInit ==
    /\ now = 0
    /\ stage = [r \in Callers |-> "idle"]
    /\ stamp = [r \in Callers |-> 0]
    /\ answer = "none"
    /\ latest = 0
    /\ ordered = TRUE
    /\ from \in Starts

Greater(a, b) == IF a < b THEN b ELSE a
Lesser(a, b) == IF a < b THEN a ELSE b

Tick ==
    /\ now < MaxTime
    /\ now' = now + 1
    /\ UNCHANGED <<stage, stamp, answer, latest, ordered, from>>

(***************************************************************************)
(* A request arrives: the middleware derives the key and Allow reads the   *)
(* clock.                                                                  *)
(***************************************************************************)
Begin(r) ==
    /\ stage[r] = "idle"
    /\ stage' = [stage EXCEPT ![r] = "sent"]
    /\ stamp' = [stamp EXCEPT ![r] = now]
    /\ UNCHANGED <<now, answer, latest, ordered, from>>

\* Mutant: an error of the backend refuses the request.
AnswerFailClosed(outcome) == IF outcome = "allowed" THEN "served" ELSE "limited"

(***************************************************************************)
(* What New does with the outcome of Allow: an error fails open, a blocked *)
(* request goes to LimitExceededHandler, an allowed one to next.           *)
(***************************************************************************)
Answer(outcome) == IF outcome = "blocked" THEN "limited" ELSE "served"

Finish(r, outcome) ==
    /\ stage' = [stage EXCEPT ![r] = "idle"]
    /\ stamp' = [stamp EXCEPT ![r] = 0]
    /\ answer' = Answer(outcome)

OnTime(r) == now - stamp[r] <= MaxDelay

\* The histories, at the moment Redis executes a command of r.
Observe(r) ==
    /\ latest' = Greater(latest, stamp[r])
    /\ ordered' = (ordered /\ stamp[r] >= latest)

(***************************************************************************)
(* The reply to r's command arrives; or the connection breaks after Redis  *)
(* executed it, and go-redis gives up, so that Allow returns an error, or  *)
(* sends the same commands again, from the stage `again`.                  *)
(***************************************************************************)
Resend(r, again) ==
    /\ stage' = [stage EXCEPT ![r] = again]
    /\ UNCHANGED <<stamp, answer>>

Reply(r, outcome, again) ==
    \/ Finish(r, outcome)
    \/ Finish(r, "error")
    \/ Resend(r, again)

(***************************************************************************)
(* r's command never reaches Redis before the client gives up.             *)
(***************************************************************************)
Lost(r) ==
    /\ stage[r] # "idle"
    /\ Finish(r, "error")
    /\ UNCHANGED <<now, latest, ordered, from>>
=============================================================================
