------------------------------ MODULE Throttle ------------------------------
(***************************************************************************)
(* WithRequestThrottle (request_throttle.go): at most MaxConcurrent        *)
(* requests run the handler; the others wait in a channel of capacity      *)
(* QueueSize until a timer fires or the client goes away, or are refused.  *)
(*                                                                         *)
(* The count of running requests is read and written under cfg.mu; the     *)
(* channel is used after the mutex is released, so that a slot may be      *)
(* freed between a request's look at the count and its place in the queue. *)
(***************************************************************************)
EXTENDS Integers, FiniteSets

CONSTANTS
    Requests,       \* goroutines that serve requests, one after another
    MaxConcurrent,
    QueueSize,
    QueueTimeout    \* in clock ticks

ASSUME ThrottleAssumption ==
    /\ MaxConcurrent \in Nat
    /\ QueueSize \in Nat
    /\ QueueTimeout \in Nat

VARIABLES
    active,     \* cfg.active
    queueLen,   \* tokens in the channel cfg.queue
    stage,      \* stage[r]: where r's request is
    waited,     \* waited[r]: how long r's timer has been running
    sawSlot     \* history: while r was queued, a slot was free as time passed

thVars == <<active, queueLen, stage, waited, sawSlot>>

(***************************************************************************)
(* "noslot": saw no free slot and gave the mutex back; "expired" and       *)
(* "cancelled": left the inner select, its token still in the channel.     *)
(***************************************************************************)
ThrottleStages == {"out", "arrived", "running", "noslot",
                   "queued", "expired", "cancelled"}

THTypeOK ==
    /\ active \in 0 .. MaxConcurrent
    /\ queueLen \in 0 .. QueueSize
    /\ stage \in [Requests -> ThrottleStages]
    /\ waited \in [Requests -> 0 .. QueueTimeout]
    /\ sawSlot \in [Requests -> BOOLEAN]

THInit ==
    /\ active = 0
    /\ queueLen = 0
    /\ stage = [r \in Requests |-> "out"]
    /\ waited = [r \in Requests |-> 0]
    /\ sawSlot = [r \in Requests |-> FALSE]

Goto(r, s) == stage' = [stage EXCEPT ![r] = s]

Arrive(r) ==
    /\ stage[r] = "out"
    /\ Goto(r, "arrived")
    /\ UNCHANGED <<active, queueLen, waited, sawSlot>>

\* Mutant: off by one, a request more than MaxConcurrent gets a slot.
AcquireOneMore(r) ==
    /\ stage[r] = "arrived"
    /\ active <= MaxConcurrent
    /\ active' = active + 1
    /\ Goto(r, "running")
    /\ UNCHANGED <<queueLen, waited, sawSlot>>

Acquire(r) ==
    /\ stage[r] = "arrived"
    /\ active < MaxConcurrent
    /\ active' = active + 1
    /\ Goto(r, "running")
    /\ UNCHANGED <<queueLen, waited, sawSlot>>

NoSlot(r) ==
    /\ stage[r] = "arrived"
    /\ active >= MaxConcurrent
    /\ Goto(r, "noslot")
    /\ UNCHANGED <<active, queueLen, waited, sawSlot>>

\* The handler returns or panics: the deferred function gives the slot back.
GiveBack(r) ==
    /\ stage[r] = "running"
    /\ active' = active - 1
    /\ Goto(r, "out")
    /\ UNCHANGED <<queueLen, waited, sawSlot>>

\* The timer is started, and the channel takes the token.
Enqueue(r) ==
    /\ stage[r] = "noslot"
    /\ queueLen < QueueSize
    /\ queueLen' = queueLen + 1
    /\ Goto(r, "queued")
    /\ UNCHANGED <<active, waited, sawSlot>>

\* The channel is full: exceededHandler.
QueueFull(r) ==
    /\ stage[r] = "noslot"
    /\ queueLen >= QueueSize
    /\ Goto(r, "out")
    /\ UNCHANGED <<active, queueLen, waited, sawSlot>>

\* Mutant: the timer is created with the wrong duration and never fires.
ExpireNever(r) == FALSE

Expire(r) ==
    /\ stage[r] = "queued"
    /\ waited[r] = QueueTimeout
    /\ Goto(r, "expired")
    /\ UNCHANGED <<active, queueLen, waited, sawSlot>>

\* The request's context ends: the client went away.
Cancel(r) ==
    /\ stage[r] = "queued"
    /\ Goto(r, "cancelled")
    /\ UNCHANGED <<active, queueLen, waited, sawSlot>>

\* Mutant: a cancelled request leaves without taking its token back.
DequeueExpiredOnly(r) ==
    /\ stage[r] \in {"expired", "cancelled"}
    /\ queueLen > 0
    /\ queueLen' = IF stage[r] = "expired" THEN queueLen - 1 ELSE queueLen
    /\ Goto(r, "out")
    /\ waited' = [waited EXCEPT ![r] = 0]
    /\ sawSlot' = [sawSlot EXCEPT ![r] = FALSE]
    /\ UNCHANGED active

\* <-cfg.queue, which waits while the channel is empty; then exceededHandler
\* after a timeout, nothing at all after a cancellation.
Dequeue(r) ==
    /\ stage[r] \in {"expired", "cancelled"}
    /\ queueLen > 0
    /\ queueLen' = queueLen - 1
    /\ Goto(r, "out")
    /\ waited' = [waited EXCEPT ![r] = 0]
    /\ sawSlot' = [sawSlot EXCEPT ![r] = FALSE]
    /\ UNCHANGED active

Ticking == {r \in Requests : stage[r] = "queued" /\ waited[r] < QueueTimeout}

Tick ==
    /\ Ticking # {}
    /\ waited' = [r \in Requests |->
                    IF r \in Ticking THEN waited[r] + 1 ELSE waited[r]]
    /\ sawSlot' = [r \in Requests |->
                    sawSlot[r] \/ (r \in Ticking /\ active < MaxConcurrent)]
    /\ UNCHANGED <<active, queueLen, stage>>

\* What the middleware does next for r.
Serve(r) ==
    \/ Acquire(r) \/ NoSlot(r) \/ Enqueue(r) \/ QueueFull(r)
    \/ Expire(r) \/ Dequeue(r)

THNext ==
    \/ Tick
    \/ \E r \in Requests : Arrive(r) \/ Serve(r) \/ GiveBack(r) \/ Cancel(r)

THSpec == THInit /\ [][THNext]_thVars

-----------------------------------------------------------------------------
\* The requests that hold a slot, and those with a token in the channel.
Running == {r \in Requests : stage[r] = "running"}
Waiting == {r \in Requests : stage[r] \in {"queued", "expired", "cancelled"}}

(***************************************************************************)
(* The count is the number of running handlers, never above MaxConcurrent, *)
(* and the channel holds one token for each waiting request, so that       *)
(* `<-cfg.queue` always finds one: whatever mix of timeouts, cancellations *)
(* and panics empties the slots and the queue.                             *)
(***************************************************************************)
SlotsAccounted ==
    /\ active = Cardinality(Running)
    /\ active <= MaxConcurrent
    /\ queueLen = Cardinality(Waiting)
    /\ queueLen <= QueueSize

(***************************************************************************)
(* "Requests beyond maxConcurrent are queued", to "wait until we can run": *)
(* a request that waited in the queue is refused only if no slot was free  *)
(* all that time.                                                          *)
(***************************************************************************)
RefusedOnlyWhenBusy ==
    \A r \in Requests : stage[r] = "expired" => ~sawSlot[r]
=============================================================================
