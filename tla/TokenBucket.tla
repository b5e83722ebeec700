---------------------------- MODULE TokenBucket ----------------------------
(***************************************************************************)
(* TokenBucketCounter (token_bucket.go).  Allow reads the clock, then one  *)
(* Lua script reads both keys, refills, and takes a token or blocks; the   *)
(* script is atomic.  Its `now` is the caller's reading, its TTL runs on   *)
(* Redis' clock.                                                           *)
(*                                                                         *)
(* Tokens are counted in units of 1/Window token, so that the refill of    *)
(* one clock tick, rate = Limit/Window tokens, is Limit units and the      *)
(* floating-point arithmetic of the script becomes exact integers.         *)
(***************************************************************************)
EXTENDS AllowCall

CONSTANT Burst      \* burst: the capacity of the bucket, in tokens

\* A bucket that is left alone until its keys expire has had the time to fill
\* up: the expiry, which reads as a full bucket, credits nothing that time did
\* not.  With one request per tick this is burst <= 2 * rate, less the tokens of
\* MaxDelay; the constructor accepts any rate and burst.
ASSUME BurstAssumption ==
    /\ Burst \in Nat \ {0}
    /\ Burst * Window <= Limit * (2 * Window - MaxDelay)

VARIABLES
    bucket,     \* the tokens and ts keys, which are set and expire together
    taken,      \* history: tokens taken by calls stamped at or after `from`
    busyFrom,   \* history: stamp of the call that last found a full bucket
    busyTaken   \* history: tokens taken since then, that one included

tbVars == <<bucket, taken, busyFrom, busyTaken>>
vars == <<callVars, tbVars>>

One == Window               \* one token
Full == Burst * Window      \* a full bucket

TBTypeOK ==
    /\ CallTypeOK
    /\ bucket \in [tokens : 0 .. Full, ts : 0 .. MaxTime,
                   expires : {-1} \cup Nat]
    /\ taken \in Nat
    /\ busyFrom \in 0 .. MaxTime
    /\ busyTaken \in Nat

TBInit ==
    \* Keys never written read as keys that have expired.
    /\ bucket = [tokens |-> 0, ts |-> 0, expires |-> -1]
    /\ taken = 0
    /\ busyFrom = 0
    /\ busyTaken = 0

\* Redis drops a key once its clock is past the key's expiry.
Live == now <= bucket.expires

\* Mutant: the refill counts whole windows only.
ElapsedWholeWindows(s) ==
    IF Live THEN (Greater(0, s - bucket.ts) \div Window) * Window ELSE 0

Elapsed(s) == IF Live THEN Greater(0, s - bucket.ts) ELSE 0
LastTokens == IF Live THEN bucket.tokens ELSE Full

\* Mutant: math.min forgotten, the bucket fills beyond its capacity.
NewTokensUncapped(s) == LastTokens + Elapsed(s) * Limit

NewTokens(s) == Lesser(Full, LastTokens + Elapsed(s) * Limit)

\* Remaining(): the stored tokens, without the refill since the last write.
Remaining == LastTokens \div One

\* Mutant: the keys expire after one window, before the bucket is full again.
TTLOneWindow == Window

TTL == 2 * Window

(***************************************************************************)
(* The script, for the caller r.                                           *)
(***************************************************************************)
Take(r) ==
    /\ stage[r] = "sent"
    /\ OnTime(r)
    /\ NewTokens(stamp[r]) >= One
    /\ bucket' = [tokens |-> NewTokens(stamp[r]) - One,
                  ts |-> stamp[r],
                  expires |-> now + TTL]
    /\ taken' = IF stamp[r] >= from THEN taken + 1 ELSE taken
    /\ IF NewTokens(stamp[r]) = Full
       THEN busyFrom' = stamp[r] /\ busyTaken' = 1
       ELSE busyFrom' = busyFrom /\ busyTaken' = busyTaken + 1
    /\ Reply(r, "allowed", "sent")
    /\ Observe(r)
    /\ UNCHANGED <<now, from>>

Block(r) ==
    /\ stage[r] = "sent"
    /\ OnTime(r)
    /\ NewTokens(stamp[r]) < One
    /\ Reply(r, "blocked", "sent")
    /\ Observe(r)
    /\ UNCHANGED <<now, from, tbVars>>

TBStep(r) == Take(r) \/ Block(r)

Init == CallInit /\ TBInit

Next ==
    \/ /\ Tick \/ \E r \in Callers : Begin(r) \/ Lost(r)
       /\ UNCHANGED tbVars
    \/ \E r \in Callers : TBStep(r)

Spec == Init /\ [][Next]_vars

-----------------------------------------------------------------------------
(***************************************************************************)
(* The token bucket's contract: whatever the traffic, the calls stamped in *)
(* [from, now] take at most a full bucket plus what was refilled since     *)
(* `from`, for every `from`: as long as Redis executed the commands in the *)
(* order of their stamps.                                                  *)
(***************************************************************************)
RateBounded ==
    ordered => taken * One <= Full + Limit * Greater(0, now - from)

(***************************************************************************)
(* The converse: the script blocks a call only when the tokens taken since *)
(* the bucket was last full, less what was refilled since then, leave less *)
(* than one.  It holds however the stamps are ordered: a script that lost  *)
(* credit (a stale ts, an expiry applied too late, a retry that charges a  *)
(* blocked call) would break it.                                           *)
(***************************************************************************)
BlockedOnlyWhenSpent ==
    [][\A r \in Callers :
          Block(r) => busyTaken * One + One
                        > Full + Limit * (stamp[r] - busyFrom)]_vars
=============================================================================
