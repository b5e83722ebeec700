------------------------- MODULE TokenBucketProofs -------------------------
(***************************************************************************)
(* The token bucket never exceeds its rate, for any number of callers, any *)
(* limit, window and burst with BurstAssumption, and any interval.         *)
(***************************************************************************)
EXTENDS TokenBucket, TLAPS

\* No reading of the clock is ahead of it, and a bucket that was written keeps
\* its keys for a TTL after the stamp it holds.
ClockInv ==
    /\ \A r \in Callers : stamp[r] <= now
    /\ latest <= now
    /\ bucket.ts <= latest
    /\ bucket.expires # -1 => bucket.expires >= bucket.ts + TTL

\* The accounting: tokens taken since `from`, and tokens still in the bucket,
\* were either there at `from` or refilled since.
Accounting ==
    IF bucket.expires # -1 /\ bucket.ts >= from
    THEN taken * One + bucket.tokens <= Full + Limit * (bucket.ts - from)
    ELSE taken = 0

IInv ==
    /\ TBTypeOK
    /\ ClockInv
    /\ ordered => Accounting

USE DEF Stages, Answers

-----------------------------------------------------------------------------
\* Multiplication by a natural number is monotonic.
LEMMA TimesMonotonic ==
    ASSUME NEW a \in Nat, NEW x \in Int, NEW y \in Int, x <= y
    PROVE  a * x <= a * y
BY SMT

\* The constants, and what is derived from them.
LEMMA ConstantTypes ==
    /\ Limit \in Nat /\ Window \in Nat /\ MaxDelay \in Nat /\ MaxTime \in Nat
    /\ Limit >= 1 /\ Window >= 1
    /\ Starts \subseteq 0 .. MaxTime
    /\ One \in Nat /\ One >= 1 /\ Full \in Nat /\ One <= Full /\ TTL \in Nat
    /\ Full <= Limit * (TTL - MaxDelay)
<1>1. /\ Limit \in Nat \ {0} /\ Window \in Nat \ {0} /\ MaxDelay \in Nat
      /\ MaxTime \in Nat /\ Starts \subseteq 0 .. MaxTime
  BY AllowCallAssumption
<1>2. Burst \in Nat \ {0} /\ Burst * Window <= Limit * (2 * Window - MaxDelay)
  BY BurstAssumption
<1>3. Window * 1 <= Window * Burst
  BY <1>1, <1>2, TimesMonotonic
<1>. QED BY <1>1, <1>2, <1>3 DEF One, Full, TTL

\* The refilled bucket holds at most its capacity, and at most what it held and
\* what the time since its last write refills.
LEMMA RefillBounds ==
    ASSUME TBTypeOK, NEW s \in 0 .. MaxTime
    PROVE  /\ NewTokens(s) \in 0 .. Full
           /\ Live /\ s >= bucket.ts =>
                NewTokens(s) <= bucket.tokens + Limit * (s - bucket.ts)
<1>1. bucket.tokens \in 0 .. Full /\ bucket.ts \in 0 .. MaxTime
  BY DEF TBTypeOK
<1>2. Full \in Nat /\ Limit \in Nat
  BY ConstantTypes
<1>3. Elapsed(s) \in Nat /\ LastTokens \in 0 .. Full
  BY <1>1, <1>2, ConstantTypes DEF Elapsed, LastTokens, Greater
<1>4. Elapsed(s) * Limit \in Nat
  BY <1>2, <1>3
<1>5. NewTokens(s) \in 0 .. Full
  BY <1>2, <1>3, <1>4 DEF NewTokens, Lesser
<1>6. ASSUME Live, s >= bucket.ts
      PROVE  NewTokens(s) <= bucket.tokens + Limit * (s - bucket.ts)
  <2>1. Elapsed(s) = s - bucket.ts /\ LastTokens = bucket.tokens
    BY <1>1, <1>6, ConstantTypes DEF Elapsed, LastTokens, Greater
  <2>2. NewTokens(s) <= bucket.tokens + (s - bucket.ts) * Limit
    BY <1>1, <1>2, <1>4, <2>1 DEF NewTokens, Lesser
  <2>. QED BY <1>1, <1>2, <2>2
<1>. QED BY <1>5, <1>6

-----------------------------------------------------------------------------
\* What a request's end, or a resend, leaves of its stage and stamp.
LEMMA ReplyTypes ==
    ASSUME CallTypeOK, ClockInv, NEW r \in Callers,
           NEW o \in {"allowed", "blocked", "error"},
           Reply(r, o, "sent") \/ Finish(r, o)
    PROVE  /\ stage' \in [Callers -> Stages]
           /\ stamp' \in [Callers -> 0 .. MaxTime]
           /\ answer' \in Answers
           /\ \A x \in Callers : stamp'[x] <= stamp[x]
BY ConstantTypes
   DEF CallTypeOK, Reply, Finish, Resend, Answer

LEMMA InitIInv == Init => IInv
BY ConstantTypes, AllowCallAssumption
   DEF Init, CallInit, TBInit, IInv, TBTypeOK, CallTypeOK, ClockInv, Accounting

LEMMA NextIInv == IInv /\ [Next]_vars => IInv'
<1>. SUFFICES ASSUME IInv, [Next]_vars PROVE IInv'
  OBVIOUS
<1>. USE ConstantTypes
<1>1. CASE Tick /\ UNCHANGED tbVars
  BY <1>1 DEF IInv, TBTypeOK, CallTypeOK, ClockInv, Accounting, Tick, tbVars
<1>2. ASSUME NEW r \in Callers, Begin(r), UNCHANGED tbVars
      PROVE  IInv'
  BY <1>2 DEF IInv, TBTypeOK, CallTypeOK, ClockInv, Accounting, Begin, tbVars
<1>3. ASSUME NEW r \in Callers, Lost(r), UNCHANGED tbVars
      PROVE  IInv'
  <2>1. /\ stage' \in [Callers -> Stages]
        /\ stamp' \in [Callers -> 0 .. MaxTime]
        /\ answer' \in Answers
        /\ \A x \in Callers : stamp'[x] <= stamp[x]
    BY <1>3, ReplyTypes DEF IInv, TBTypeOK, Lost
  <2>. QED
    BY <1>3, <2>1
       DEF IInv, TBTypeOK, CallTypeOK, ClockInv, Accounting, Lost, tbVars
<1>4. ASSUME NEW r \in Callers, Take(r)
      PROVE  IInv'
  <2>. DEFINE s == stamp[r]
  <2>1. /\ s \in 0 .. MaxTime /\ s <= now /\ now - s <= MaxDelay
        /\ now \in 0 .. MaxTime /\ latest \in 0 .. MaxTime /\ latest <= now
        /\ bucket.ts \in 0 .. MaxTime /\ bucket.ts <= latest
        /\ bucket.tokens \in 0 .. Full
        /\ bucket.expires \in {-1} \cup Nat
        /\ from \in 0 .. MaxTime /\ taken \in Nat /\ busyTaken \in Nat
        /\ busyFrom \in 0 .. MaxTime
    BY <1>4 DEF IInv, TBTypeOK, CallTypeOK, ClockInv, Take, OnTime
  <2>2. /\ bucket' = [tokens |-> NewTokens(s) - One, ts |-> s,
                      expires |-> now + TTL]
        /\ NewTokens(s) \in One .. Full
        /\ Live /\ s >= bucket.ts =>
             NewTokens(s) <= bucket.tokens + Limit * (s - bucket.ts)
    BY <1>4, <2>1, RefillBounds DEF IInv, Take
  <2>3. /\ stage' \in [Callers -> Stages]
        /\ stamp' \in [Callers -> 0 .. MaxTime]
        /\ answer' \in Answers
        /\ \A x \in Callers : stamp'[x] <= stamp[x]
    BY <1>4, ReplyTypes DEF IInv, TBTypeOK, Take
  <2>4. /\ now' = now /\ from' = from
        /\ latest' = Greater(latest, s)
        /\ ordered' = (ordered /\ s >= latest)
        /\ taken' = IF s >= from THEN taken + 1 ELSE taken
        /\ busyFrom' \in 0 .. MaxTime /\ busyTaken' \in Nat
    BY <1>4, <2>1 DEF Take, Observe
  <2>5. TBTypeOK'
    <3>1. CallTypeOK'
      BY <2>1, <2>3, <2>4 DEF IInv, TBTypeOK, CallTypeOK, Greater
    <3>2. bucket' \in [tokens : 0 .. Full, ts : 0 .. MaxTime,
                       expires : {-1} \cup Nat]
      BY <2>1, <2>2
    <3>. QED BY <2>1, <2>4, <3>1, <3>2 DEF TBTypeOK
  <2>6. ClockInv'
    <3>1. \A x \in Callers : stamp'[x] <= now'
      BY <2>1, <2>3, <2>4 DEF IInv, TBTypeOK, CallTypeOK, ClockInv
    <3>. QED BY <2>1, <2>2, <2>4, <3>1 DEF ClockInv, Greater
  <2>7. ASSUME ordered' PROVE Accounting'
    <3>1. ordered /\ s >= latest /\ Accounting
      BY <2>4, <2>7 DEF IInv
    <3>2. bucket'.expires # -1 /\ bucket'.ts = s
          /\ bucket'.tokens = NewTokens(s) - One
      BY <2>1, <2>2
    <3>3. CASE s < from
      <4>1. taken = 0 /\ taken' = 0
        BY <2>1, <2>4, <3>1, <3>3 DEF Accounting
      <4>. QED BY <2>1, <2>4, <3>2, <3>3, <4>1 DEF Accounting
    <3>4. CASE s >= from /\ (bucket.expires = -1 \/ bucket.ts < from)
      <4>1. taken' = 1
        BY <2>1, <2>4, <3>1, <3>4 DEF Accounting
      <4>2. 0 <= Limit * (s - from)
        BY <2>1, <3>4, TimesMonotonic
      <4>. QED BY <2>1, <2>2, <2>4, <3>2, <3>4, <4>1, <4>2 DEF Accounting
    <3>5. CASE s >= from /\ bucket.expires # -1 /\ bucket.ts >= from
      <4>1. taken' = taken + 1
        BY <2>4, <3>5
      <4>2. taken * One + bucket.tokens <= Full + Limit * (bucket.ts - from)
        BY <3>1, <3>5 DEF Accounting
      <4>3. NewTokens(s) <= bucket.tokens + Limit * (s - bucket.ts)
        <5>1. CASE Live
          BY <2>1, <2>2, <3>1, <5>1
        <5>2. CASE ~Live
          \* The keys expired, so a full bucket's worth of time has gone by.
          <6>1. TTL - MaxDelay <= s - bucket.ts
            BY <2>1, <3>5, <5>2 DEF IInv, ClockInv, Live
          <6>2. Limit * (TTL - MaxDelay) <= Limit * (s - bucket.ts)
            BY <2>1, <6>1, TimesMonotonic
          <6>. QED BY <2>1, <2>2, <6>2
        <5>. QED BY <5>1, <5>2
      <4>4. (taken + 1) * One = taken * One + One
        BY <2>1
      <4>5. Limit * (bucket.ts - from) + Limit * (s - bucket.ts)
              = Limit * (s - from)
        BY <2>1
      <4>6. taken' * One + bucket'.tokens <= Full + Limit * (s - from)
        BY <2>1, <2>2, <3>2, <4>1, <4>2, <4>3, <4>4, <4>5
      <4>. QED BY <2>4, <3>2, <3>5, <4>6 DEF Accounting
    <3>. QED BY <2>1, <3>3, <3>4, <3>5
  <2>. QED BY <2>5, <2>6, <2>7 DEF IInv
<1>5. ASSUME NEW r \in Callers, Block(r)
      PROVE  IInv'
  <2>1. /\ stage' \in [Callers -> Stages]
        /\ stamp' \in [Callers -> 0 .. MaxTime]
        /\ answer' \in Answers
        /\ \A x \in Callers : stamp'[x] <= stamp[x]
    BY <1>5, ReplyTypes DEF IInv, TBTypeOK, Block
  <2>. QED
    BY <1>5, <2>1
       DEF IInv, TBTypeOK, CallTypeOK, ClockInv, Accounting, Block, Observe,
           Greater, tbVars
<1>6. CASE UNCHANGED vars
  BY <1>6
     DEF IInv, TBTypeOK, CallTypeOK, ClockInv, Accounting, vars, callVars,
         tbVars
<1>. QED
  BY <1>1, <1>2, <1>3, <1>4, <1>5, <1>6 DEF Next, TBStep

-----------------------------------------------------------------------------
(***************************************************************************)
(* Every variable of the token bucket keeps its type; in particular the    *)
(* stored tokens stay between none and a full bucket in every step of the  *)
(* script.                                                                 *)
(***************************************************************************)
THEOREM TypeCorrect == Spec => []TBTypeOK
<1>1. IInv => TBTypeOK
  BY DEF IInv
<1>. QED BY InitIInv, NextIInv, <1>1, PTL DEF Spec

(***************************************************************************)
(* The calls stamped since `from` never take more than one full bucket and *)
(* the refill since `from`, whatever expires, is lost, is retried or waits *)
(* on its way to Redis, as long as commands execute in stamp order.        *)
(***************************************************************************)
THEOREM TokenRate == Spec => []RateBounded
<1>1. IInv => RateBounded
  <2>. SUFFICES ASSUME IInv, ordered
                PROVE  taken * One <= Full + Limit * Greater(0, now - from)
    BY DEF RateBounded
  <2>. USE ConstantTypes
  <2>1. /\ now \in 0 .. MaxTime /\ from \in 0 .. MaxTime
        /\ bucket.ts \in 0 .. MaxTime /\ bucket.ts <= now
        /\ bucket.tokens \in 0 .. Full /\ taken \in Nat
    BY DEF IInv, TBTypeOK, CallTypeOK, ClockInv
  <2>2. Greater(0, now - from) \in Nat /\ now - from <= Greater(0, now - from)
    BY <2>1 DEF Greater
  <2>3. CASE bucket.expires # -1 /\ bucket.ts >= from
    <3>1. taken * One + bucket.tokens <= Full + Limit * (bucket.ts - from)
      BY <2>3 DEF IInv, Accounting
    <3>2. Limit * (bucket.ts - from) <= Limit * Greater(0, now - from)
      BY <2>1, <2>2, TimesMonotonic
    <3>3. taken * One \in Int /\ Limit * (bucket.ts - from) \in Int
          /\ Limit * Greater(0, now - from) \in Int
      BY <2>1, <2>2
    <3>. QED BY <2>1, <3>1, <3>2, <3>3
  <2>4. CASE ~(bucket.expires # -1 /\ bucket.ts >= from)
    <3>1. taken = 0
      BY <2>4 DEF IInv, Accounting
    <3>2. Limit * Greater(0, now - from) \in Nat
      BY <2>2
    <3>3. taken * One = 0
      BY <3>1
    <3>. QED BY <3>2, <3>3
  <2>. QED BY <2>3, <2>4
<1>. QED BY InitIInv, NextIInv, <1>1, PTL DEF Spec

-----------------------------------------------------------------------------
\* Since the bucket was last full, tokens left it only into the calls counted
\* by busyTaken, and every tick between two stamps refilled it.
BusyInv ==
    bucket.expires # -1 =>
        busyTaken * One + bucket.tokens
          >= Full + Limit * (bucket.ts - busyFrom)

\* What a bucket that the refill does not fill holds: its keys are live, and
\* they are credited at least the time between the two stamps.
LEMMA NotFull ==
    ASSUME TBTypeOK, NEW s \in 0 .. MaxTime, NewTokens(s) # Full
    PROVE  /\ bucket.expires # -1
           /\ NewTokens(s) >= bucket.tokens + Limit * (s - bucket.ts)
<1>. USE ConstantTypes
<1>1. /\ bucket.tokens \in 0 .. Full /\ bucket.ts \in 0 .. MaxTime
      /\ bucket.expires \in {-1} \cup Nat /\ now \in Nat
  BY DEF TBTypeOK, CallTypeOK
<1>2. CASE ~Live
  <2>1. Elapsed(s) * Limit = 0 /\ LastTokens = Full
    BY <1>2 DEF Elapsed, LastTokens
  <2>. QED BY <2>1 DEF NewTokens, Lesser
<1>3. CASE Live
  <2>1. Elapsed(s) \in Nat /\ Elapsed(s) >= s - bucket.ts
    BY <1>1, <1>3 DEF Elapsed, Greater
  <2>2. Limit * (s - bucket.ts) <= Limit * Elapsed(s)
    BY <1>1, <2>1, TimesMonotonic
  <2>3. Elapsed(s) * Limit = Limit * Elapsed(s) /\ Elapsed(s) * Limit \in Nat
    BY <2>1
  <2>4. NewTokens(s) = bucket.tokens + Elapsed(s) * Limit
    BY <1>1, <1>3, <2>3 DEF NewTokens, LastTokens, Lesser
  <2>. QED BY <1>1, <1>3, <2>2, <2>3, <2>4 DEF Live
<1>. QED BY <1>2, <1>3

LEMMA InitBusyInv == Init => BusyInv
BY DEF Init, TBInit, BusyInv

LEMMA NextBusyInv == TBTypeOK /\ BusyInv /\ [Next]_vars => BusyInv'
<1>. SUFFICES ASSUME TBTypeOK, BusyInv, [Next]_vars PROVE BusyInv'
  OBVIOUS
<1>. USE ConstantTypes
<1>1. CASE UNCHANGED tbVars
  BY <1>1 DEF BusyInv, tbVars
<1>2. ASSUME NEW r \in Callers, Take(r)
      PROVE  BusyInv'
  <2>. DEFINE s == stamp[r]
  <2>1. /\ s \in 0 .. MaxTime /\ busyFrom \in 0 .. MaxTime
        /\ bucket.ts \in 0 .. MaxTime /\ bucket.tokens \in 0 .. Full
        /\ busyTaken \in Nat /\ now \in Nat
    BY DEF TBTypeOK, CallTypeOK
  <2>2. /\ bucket'.tokens = NewTokens(s) - One /\ bucket'.ts = s
        /\ NewTokens(s) \in 0 .. Full
    BY <1>2, <2>1, RefillBounds DEF Take
  <2>3. CASE NewTokens(s) = Full
    <3>1. busyFrom' = s /\ busyTaken' = 1
      BY <1>2, <2>3 DEF Take
    <3>2. Limit * (s - s) = 0
      BY <2>1
    <3>. QED BY <2>1, <2>2, <2>3, <3>1, <3>2 DEF BusyInv
  <2>4. CASE NewTokens(s) # Full
    <3>1. busyFrom' = busyFrom /\ busyTaken' = busyTaken + 1
      BY <1>2, <2>4 DEF Take
    <3>2. /\ busyTaken * One + bucket.tokens
               >= Full + Limit * (bucket.ts - busyFrom)
          /\ NewTokens(s) >= bucket.tokens + Limit * (s - bucket.ts)
      BY <2>1, <2>4, NotFull DEF BusyInv
    <3>3. /\ (busyTaken + 1) * One = busyTaken * One + One
          /\ Limit * (s - busyFrom)
               = Limit * (s - bucket.ts) + Limit * (bucket.ts - busyFrom)
      BY <2>1
    <3>. QED BY <2>1, <2>2, <3>1, <3>2, <3>3 DEF BusyInv
  <2>. QED BY <2>3, <2>4
<1>. QED BY <1>1, <1>2 DEF Next, TBStep, Block, vars

(***************************************************************************)
(* The script never blocks a call that a token had accrued for: when it    *)
(* blocks, the tokens taken since the bucket was last full exceed what a   *)
(* full bucket and the refill since then leave above one token, whatever   *)
(* the order of the stamps, the expiries and the retries.                  *)
(***************************************************************************)
THEOREM BlocksOnlyWhenSpent == Spec => BlockedOnlyWhenSpent
<1>1. ASSUME TBTypeOK, BusyInv, NEW r \in Callers, Block(r)
      PROVE  busyTaken * One + One > Full + Limit * (stamp[r] - busyFrom)
  <2>. USE ConstantTypes
  <2>. DEFINE s == stamp[r]
  <2>1. /\ s \in 0 .. MaxTime /\ busyFrom \in 0 .. MaxTime
        /\ bucket.ts \in 0 .. MaxTime /\ bucket.tokens \in 0 .. Full
        /\ busyTaken \in Nat
    BY <1>1 DEF TBTypeOK, CallTypeOK
  <2>2. NewTokens(s) < One /\ NewTokens(s) \in 0 .. Full
    BY <1>1, <2>1, RefillBounds DEF Block
  <2>3. /\ bucket.expires # -1
        /\ NewTokens(s) >= bucket.tokens + Limit * (s - bucket.ts)
    BY <1>1, <2>1, <2>2, NotFull
  <2>4. busyTaken * One + bucket.tokens
          >= Full + Limit * (bucket.ts - busyFrom)
    BY <1>1, <2>3 DEF BusyInv
  <2>5. Limit * (s - busyFrom)
          = Limit * (s - bucket.ts) + Limit * (bucket.ts - busyFrom)
    BY <2>1
  <2>. QED BY <2>1, <2>2, <2>3, <2>4, <2>5
<1>. DEFINE Inv == TBTypeOK /\ BusyInv
<1>2. Spec => []Inv
  BY TypeCorrect, InitBusyInv, NextBusyInv, PTL DEF Spec
<1>3. Inv /\ [Next]_vars =>
        [\A r \in Callers :
            Block(r) => busyTaken * One + One
                          > Full + Limit * (stamp[r] - busyFrom)]_vars
  BY <1>1
<1>. QED BY <1>2, <1>3, PTL DEF Spec, BlockedOnlyWhenSpent
=============================================================================
