---------------------------- MODULE FixedWindow ----------------------------
(***************************************************************************)
(* FixedWindowCounter (fixed_window.go).  Allow reads the clock, truncates *)
(* it to the window and sends INCR and EXPIREAT in one pipeline.  It is    *)
(* not a transaction: Redis may run other clients' commands between the    *)
(* two, and the connection may break between them.                         *)
(*                                                                         *)
(* The key carries the window's start in whole seconds (windowStart.Unix), *)
(* and EXPIREAT the window's end in whole seconds: go-redis' ExpireAt      *)
(* sends tm.Unix().                                                        *)
(***************************************************************************)
EXTENDS AllowCall

CONSTANT MaxCount   \* bound on a counter's value, for model checking

ASSUME MaxCountAssumption == MaxCount \in Nat

VARIABLES
    counter,    \* counter[k]: the Redis key of the second k
    count,      \* count[r]: incr.Val() of r's pipeline
    fwGranted,  \* history: fwGranted[w], calls granted by a pipeline that
                \* Redis executed during the window starting at w
    fwCut       \* history: some pipeline broke between its two commands

fwVars == <<counter, count, fwGranted, fwCut>>

Seconds == 0 .. MaxTime \div Second
NoTTL == -1
Absent == [count |-> 0, expires |-> NoTTL]

WindowStart(s) == (s \div Window) * Window
ResetAt(s) == WindowStart(s) + Window
KeyOf(s) == WindowStart(s) \div Second

\* Mutant: the key expires at the window's start instead of its end.
ExpireTimeAtStart(s) == (WindowStart(s) \div Second) * Second

ExpireTime(s) == (ResetAt(s) \div Second) * Second

FWTypeOK ==
    /\ counter \in [Seconds -> [count : Nat, expires : {NoTTL} \cup Nat]]
    /\ count \in [Callers -> Nat]
    /\ fwGranted \in [0 .. MaxTime -> Nat]
    /\ fwCut \in BOOLEAN

FWInit ==
    /\ counter = [k \in Seconds |-> Absent]
    /\ count = [r \in Callers |-> 0]
    /\ fwGranted = [w \in 0 .. MaxTime |-> 0]
    /\ fwCut = FALSE

\* What Redis holds under key k: a key past its expiry is gone.
Stored(k) ==
    LET c == counter[k]
    IN  IF c.expires # NoTTL /\ now > c.expires THEN Absent ELSE c

Incr(r) ==
    LET k == KeyOf(stamp[r])
        n == Stored(k).count + 1
    IN  /\ stage[r] = "sent"
        /\ OnTime(r)
        /\ n <= MaxCount
        /\ counter' = [counter EXCEPT ![k] = [Stored(k) EXCEPT !.count = n]]
        /\ count' = [count EXCEPT ![r] = n]
        /\ stage' = [stage EXCEPT ![r] = "half"]
        /\ UNCHANGED <<now, stamp, answer, latest, ordered, from,
                       fwGranted, fwCut>>

\* Mutant: only the call that created the key sets its expiry.
AfterExpireAtFirstOnly(k, at) ==
    IF Stored(k).count = 1 THEN [Stored(k) EXCEPT !.expires = at] ELSE Stored(k)

\* EXPIREAT on a missing key does nothing, with a past time it deletes.
AfterExpireAt(k, at) ==
    CASE Stored(k) = Absent -> Absent
      [] at <= now          -> Absent
      [] OTHER              -> [Stored(k) EXCEPT !.expires = at]

\* r has its reply: one more call granted in its window, if it is not over.
Granted(r) ==
    IF count[r] <= Limit /\ now < ResetAt(stamp[r])
    THEN [fwGranted EXCEPT ![WindowStart(stamp[r])] = @ + 1]
    ELSE fwGranted

ExpireAt(r) ==
    LET k == KeyOf(stamp[r])
    IN  /\ stage[r] = "half"
        /\ OnTime(r)
        /\ counter' =
             [counter EXCEPT ![k] = AfterExpireAt(k, ExpireTime(stamp[r]))]
        /\ \/ /\ Finish(r, IF count[r] > Limit THEN "blocked" ELSE "allowed")
              /\ fwGranted' = Granted(r)
           \/ /\ Finish(r, "error") \/ Resend(r, "sent")
              /\ UNCHANGED fwGranted
        /\ count' = [count EXCEPT ![r] = 0]
        /\ UNCHANGED <<now, latest, ordered, from, fwCut>>

(***************************************************************************)
(* The connection breaks after INCR: EXPIREAT is never executed, and the   *)
(* client returns an error or sends the whole pipeline again.              *)
(***************************************************************************)
CutPipeline(r) ==
    /\ stage[r] = "half"
    /\ Finish(r, "error") \/ Resend(r, "sent")
    /\ count' = [count EXCEPT ![r] = 0]
    /\ fwCut' = TRUE
    /\ UNCHANGED <<now, latest, ordered, from, counter, fwGranted>>

FWStep(r) == Incr(r) \/ ExpireAt(r) \/ CutPipeline(r)

-----------------------------------------------------------------------------
(***************************************************************************)
(* "Within each window period, requests are counted and limited to the     *)
(* max": of the calls Redis counts during their window, at most Limit are  *)
(* granted, whatever the delays and the order of their commands, the       *)
(* commands interleaved in a pipeline, broken connections and retries.     *)
(***************************************************************************)
FWWindowBounded ==
    \A w \in 0 .. MaxTime : fwGranted[w] <= Limit

(***************************************************************************)
(* No counter outlives its window: a key without expiry is one whose       *)
(* pipeline is under way, unless a connection broke inside a pipeline.     *)
(* Otherwise Redis would keep one key per client and window forever.       *)
(***************************************************************************)
FWNoOrphanKey ==
    \A k \in Seconds :
        /\ counter[k].count > 0
        /\ counter[k].expires = NoTTL
        /\ ~fwCut
        => \E r \in Callers : stage[r] = "half" /\ KeyOf(stamp[r]) = k
=============================================================================
