------------------------- MODULE RateLimiterProofs -------------------------
(***************************************************************************)
(* The fixed window, the sliding window and the leaky bucket keep their    *)
(* rates, for any number of callers, any limit and window, and any delays  *)
(* that the expiry of their keys allows for.                               *)
(***************************************************************************)
EXTENDS RateLimiter, FiniteSetTheorems, TLAPS

-----------------------------------------------------------------------------
(***************************************************************************)
(* Arithmetic.                                                             *)
(***************************************************************************)
\* Multiplication by a natural number is monotonic.
LEMMA TimesMonotonic ==
    ASSUME NEW a \in Nat, NEW x \in Int, NEW y \in Int, x <= y
    PROVE  x * a <= y * a
BY SMT

LEMMA DivBounds ==
    ASSUME NEW a \in Int, NEW b \in Nat \ {0}
    PROVE  /\ a \div b \in Int
           /\ (a \div b) * b <= a /\ a < (a \div b) * b + b
BY SMT

\* The quotient is the number with the bounds of the quotient.
LEMMA DivIs ==
    ASSUME NEW a \in Int, NEW b \in Nat \ {0}, NEW q \in Int,
           q * b <= a, a < q * b + b
    PROVE  a \div b = q
<1>. DEFINE p == a \div b
<1>1. p \in Int /\ p * b <= a /\ a < p * b + b
  BY DivBounds
<1>. HIDE DEF p
<1>2. p * b \in Int /\ q * b \in Int /\ (p + 1) * b = p * b + b /\ (q + 1) * b = q * b + b
  BY <1>1
<1>3. ~(p < q)
  <2>. SUFFICES ASSUME p + 1 <= q PROVE FALSE
    BY <1>1
  <2>1. (p + 1) * b <= q * b
    BY <1>1, TimesMonotonic
  <2>. QED BY <1>1, <1>2, <2>1
<1>4. ~(q < p)
  <2>. SUFFICES ASSUME q + 1 <= p PROVE FALSE
    BY <1>1
  <2>1. (q + 1) * b <= p * b
    BY <1>1, TimesMonotonic
  <2>. QED BY <1>1, <1>2, <2>1
<1>. QED BY <1>1, <1>3, <1>4 DEF p

LEMMA DivMonotonic ==
    ASSUME NEW a \in Int, NEW c \in Int, NEW b \in Nat \ {0}, a <= c
    PROVE  a \div b <= c \div b
<1>. DEFINE p == a \div b
            q == c \div b
<1>1. p \in Int /\ p * b <= a /\ q \in Int /\ c < q * b + b
  BY DivBounds
<1>. HIDE DEF p, q
<1>2. p * b \in Int /\ q * b \in Int /\ (q + 1) * b = q * b + b
  BY <1>1
<1>3. ~(q < p)
  <2>. SUFFICES ASSUME q + 1 <= p PROVE FALSE
    BY <1>1
  <2>1. (q + 1) * b <= p * b
    BY <1>1, TimesMonotonic
  <2>. QED BY <1>1, <1>2, <2>1
<1>. QED BY <1>1, <1>3 DEF p, q

LEMMA DivOfMultiple ==
    ASSUME NEW q \in Int, NEW b \in Nat \ {0}
    PROVE  (q * b) \div b = q
<1>1. q * b \in Int /\ q * b <= q * b /\ q * b < q * b + b
  BY SMT
<1>. QED BY <1>1, DivIs

LEMMA ConstantTypes ==
    /\ Limit \in Nat /\ Limit >= 1 /\ Window \in Nat /\ Window >= 1
    /\ Window \in Nat \ {0} /\ Second \in Nat \ {0} /\ Second \in Nat /\ Second >= 1
    /\ MaxDelay \in Nat /\ MaxTime \in Nat /\ Starts \subseteq 0 .. MaxTime
    /\ Milli \in Nat \ {0} /\ Limit <= Window /\ MaxCount \in Nat
BY AllowCallAssumption, MilliAssumption, LeakRateAssumption, MaxCountAssumption

-----------------------------------------------------------------------------
(***************************************************************************)
(* What all strategies share: the calls.                                   *)
(***************************************************************************)
CallInv ==
    /\ CallTypeOK
    /\ \A r \in Callers : stamp[r] <= now
    /\ latest <= now

\* A step of r changes r's stage and stamp alone.
Moves(r, to) ==
    /\ stage' \in [Callers -> Stages] /\ stage'[r] = to
    /\ stamp' \in [Callers -> 0 .. MaxTime] /\ stamp'[r] \in {0, stamp[r]}
    /\ to # "idle" => stamp'[r] = stamp[r]
    /\ answer' \in Answers
    /\ \A x \in Callers \ {r} : stage'[x] = stage[x] /\ stamp'[x] = stamp[x]

LEMMA FinishMoves ==
    ASSUME CallInv, NEW r \in Callers, NEW o \in {"allowed", "blocked", "error"}, Finish(r, o)
    PROVE  Moves(r, "idle")
BY ConstantTypes DEF CallInv, CallTypeOK, Finish, Moves, Stages, Answers, Answer

LEMMA ResendMoves ==
    ASSUME CallInv, NEW r \in Callers, NEW to \in {"sent", "half"}, Resend(r, to)
    PROVE  Moves(r, to)
BY DEF CallInv, CallTypeOK, Resend, Moves, Stages

LEMMA MovesInv ==
    ASSUME CallInv, NEW r \in Callers, NEW to \in Stages, Moves(r, to), now' = now, from' = from,
           \/ latest' = latest /\ ordered' = ordered
           \/ Observe(r)
    PROVE  CallInv'
<1>1. /\ now \in 0 .. MaxTime /\ latest \in 0 .. MaxTime /\ latest <= now
      /\ stamp[r] \in 0 .. MaxTime /\ stamp[r] <= now /\ from \in Starts
  BY DEF CallInv, CallTypeOK
<1>2. latest' \in 0 .. MaxTime /\ latest' <= now'
  BY <1>1 DEF Observe, Greater
<1>3. ordered' \in BOOLEAN
  BY DEF CallInv, CallTypeOK, Observe
<1>4. \A x \in Callers : stamp'[x] <= now'
  <2>1. ASSUME NEW x \in Callers PROVE stamp'[x] <= now'
    <3>1. CASE x = r
      BY <1>1, <3>1 DEF Moves
    <3>2. CASE x # r
      BY <3>2 DEF Moves, CallInv
    <3>. QED BY <3>1, <3>2
  <2>. QED BY <2>1
<1>. QED BY <1>1, <1>2, <1>3, <1>4 DEF CallInv, CallTypeOK, Moves

LEMMA InitCallInv == CallInit => CallInv
BY ConstantTypes DEF CallInit, CallInv, CallTypeOK, Stages, Answers

LEMMA TickInv == CallInv /\ Tick => CallInv'
BY ConstantTypes DEF CallInv, CallTypeOK, Tick

LEMMA BeginMoves ==
    ASSUME CallInv, NEW r \in Callers, Begin(r)
    PROVE  CallInv' /\ \A x \in Callers \ {r} : stage'[x] = stage[x] /\ stamp'[x] = stamp[x]
BY DEF CallInv, CallTypeOK, Begin, Stages

LEMMA CallStutters == CallInv /\ UNCHANGED callVars => CallInv'
BY DEF CallInv, CallTypeOK, callVars

-----------------------------------------------------------------------------
(***************************************************************************)
(* The fixed window.                                                       *)
(***************************************************************************)
\* Windows of whole seconds: shorter ones share a key, whose expiry is then
\* not the end of a window.
WholeSeconds == Window % Second = 0

\* Calls that were counted in the window w and wait for their reply.
Pending(w) ==
    {r \in Callers : stage[r] = "half" /\ WindowStart(stamp[r]) = w /\ count[r] <= Limit}

\* As long as a window lasts, its key is there for as long as it lasts, and has
\* counted what was granted and what may still be.
Accounted(w) ==
    /\ fwGranted[w] <= Limit
    /\ IsFiniteSet(Pending(w))
    /\ w = WindowStart(w) /\ now < w + Window =>
         /\ counter[KeyOf(w)].expires \in {NoTTL, w + Window}
         /\ fwGranted[w] + Cardinality(Pending(w)) <= counter[KeyOf(w)].count
         /\ fwGranted[w] + Cardinality(Pending(w)) <= Limit

FixedInv ==
    /\ FWTypeOK /\ FWNoOrphanKey
    /\ strategy # "fixed_window" =>
         /\ \A k \in Seconds : counter[k].count = 0
         /\ \A w \in 0 .. MaxTime : fwGranted[w] = 0
    /\ WholeSeconds /\ strategy = "fixed_window" =>
         \A w \in 0 .. MaxTime : Accounted(w)

\* Every stamp has a key and a window.
LEMMA WindowFacts ==
    ASSUME NEW s \in 0 .. MaxTime
    PROVE  /\ WindowStart(s) \in 0 .. MaxTime
           /\ WindowStart(s) <= s /\ s < WindowStart(s) + Window
           /\ WindowStart(WindowStart(s)) = WindowStart(s)
           /\ KeyOf(s) \in Seconds /\ KeyOf(WindowStart(s)) = KeyOf(s)
           /\ ExpireTime(s) \in Nat
<1>. DEFINE m == s \div Window
            w == m * Window
<1>1. s \in Nat /\ Window \in Nat \ {0} /\ Second \in Nat \ {0} /\ MaxTime \in Nat
  BY ConstantTypes
<1>2. m \in Int /\ w <= s /\ s < w + Window
  BY <1>1, DivBounds
<1>3. m >= 0
  BY <1>1, DivMonotonic, DivOfMultiple
<1>. HIDE DEF m
<1>4. w \in Nat /\ w \in 0 .. MaxTime
  BY <1>1, <1>2, <1>3
<1>5. WindowStart(s) = w
  BY DEF WindowStart, m
<1>6. WindowStart(w) = w
  BY <1>1, <1>2, DivOfMultiple DEF WindowStart
<1>. HIDE DEF w
<1>7. w \div Second \in 0 .. MaxTime \div Second
  <2>1. 0 \div Second <= w \div Second /\ w \div Second <= MaxTime \div Second
    BY <1>1, <1>4, DivMonotonic
  <2>2. 0 \div Second = 0 /\ w \div Second \in Int /\ MaxTime \div Second \in Int
    BY <1>1, <1>4
  <2>. QED BY <2>1, <2>2
<1>8. (w + Window) \div Second \in Int /\ (w + Window) \div Second >= 0
  <2>1. 0 \div Second <= (w + Window) \div Second
    BY <1>1, <1>4, DivMonotonic
  <2>2. 0 \div Second = 0 /\ (w + Window) \div Second \in Int
    BY <1>1, <1>4
  <2>. QED BY <2>1, <2>2
<1>9. ExpireTime(s) = ((w + Window) \div Second) * Second
  BY <1>5 DEF ExpireTime, ResetAt
<1>10. ExpireTime(s) \in Nat
  BY <1>1, <1>8, <1>9
<1>. QED BY <1>2, <1>4, <1>5, <1>6, <1>7, <1>10 DEF KeyOf, Seconds, w

\* Windows of whole seconds have keys of their own, which expire at their end.
LEMMA WholeWindows ==
    ASSUME WholeSeconds, NEW s \in 0 .. MaxTime
    PROVE  /\ KeyOf(s) * Second = WindowStart(s)
           /\ ExpireTime(s) = WindowStart(s) + Window
<1>. DEFINE m == s \div Window
            q == Window \div Second
<1>1. s \in Nat /\ Window \in Nat \ {0} /\ Second \in Nat \ {0}
  BY ConstantTypes
<1>2. m \in Int /\ q \in Int /\ Window = q * Second
  BY <1>1 DEF WholeSeconds
<1>3. WindowStart(s) = m * Window
  BY DEF WindowStart
<1>. HIDE DEF m, q
<1>4. m * Window = (m * q) * Second /\ m * q \in Int
  BY <1>1, <1>2
<1>5. m * Window + Window = (m * q + q) * Second /\ m * q + q \in Int
  BY <1>1, <1>2, <1>4
<1>6. (m * Window) \div Second = m * q
  BY <1>1, <1>4, DivOfMultiple
<1>7. (m * Window + Window) \div Second = m * q + q
  BY <1>1, <1>5, DivOfMultiple
<1>. QED BY <1>3, <1>4, <1>5, <1>6, <1>7 DEF KeyOf, ExpireTime, ResetAt

Counters == [count : Nat, expires : {NoTTL} \cup Nat]

LEMMA StoredFacts ==
    ASSUME FWTypeOK, NEW k \in Seconds
    PROVE  /\ Stored(k) \in Counters
           /\ Stored(k) # counter[k] =>
                /\ Stored(k) = Absent
                /\ counter[k].expires # NoTTL /\ now > counter[k].expires
<1>1. counter[k] \in Counters /\ Absent \in Counters
  BY DEF FWTypeOK, Counters, Absent, NoTTL
<1>. QED BY <1>1 DEF Stored

LEMMA InitFixedInv == CallInit /\ FWInit => FixedInv
<1>. SUFFICES ASSUME CallInit, FWInit PROVE FixedInv
  OBVIOUS
<1>. USE ConstantTypes
<1>1. FWTypeOK
  BY DEF FWInit, FWTypeOK, Absent, NoTTL
<1>2. \A k \in Seconds : counter[k] = Absent
  BY DEF FWInit
<1>3. \A w \in 0 .. MaxTime : fwGranted[w] = 0
  BY DEF FWInit
<1>4. FWNoOrphanKey
  BY <1>2 DEF FWNoOrphanKey, Absent
<1>5. ASSUME NEW w \in 0 .. MaxTime PROVE Accounted(w)
  <2>1. Pending(w) = {}
    BY DEF Pending, CallInit
  <2>2. IsFiniteSet(Pending(w)) /\ Cardinality(Pending(w)) = 0
    BY <2>1, FS_EmptySet
  <2>3. KeyOf(w) \in Seconds
    BY WindowFacts
  <2>. QED BY <1>2, <1>3, <2>2, <2>3 DEF Accounted, Absent
<1>. QED BY <1>1, <1>2, <1>3, <1>4, <1>5 DEF FixedInv, Absent

\* Steps that leave the fixed window alone, and the stages of its calls.
LEMMA FixedUntouched ==
    ASSUME FixedInv, CallInv, UNCHANGED <<fwVars, strategy>>,
           now' \in Int, now' >= now,
           \A x \in Callers : (stage'[x] = "half") <=> (stage[x] = "half"),
           \A x \in Callers : stage[x] = "half" => stamp'[x] = stamp[x]
    PROVE  FixedInv'
<1>1. FWTypeOK'
  BY DEF FixedInv, FWTypeOK, fwVars
<1>2. FWNoOrphanKey'
  BY DEF FixedInv, FWNoOrphanKey, fwVars
<1>3. ASSUME NEW w \in 0 .. MaxTime, Accounted(w) PROVE Accounted(w)'
  <2>1. Pending(w)' = Pending(w)
    BY DEF Pending, fwVars
  <2>2. now \in Int /\ w \in Int /\ Window \in Int
    BY ConstantTypes DEF CallInv, CallTypeOK
  <2>3. now' < w + Window => now < w + Window
    BY <2>2
  <2>. QED BY <1>3, <2>1, <2>3 DEF Accounted, fwVars
<1>. QED BY <1>1, <1>2, <1>3 DEF FixedInv, fwVars

\* A call that leaves the stage "half" is no longer among those pending.
LEMMA PendingWithout ==
    ASSUME CallInv, NEW r \in Callers, stage[r] = "half", NEW w,
           stage'[r] # "half", count'[r] = 0,
           \A x \in Callers \ {r} :
              stage'[x] = stage[x] /\ stamp'[x] = stamp[x] /\ count'[x] = count[x],
           IsFiniteSet(Pending(w))
    PROVE  /\ IsFiniteSet(Pending(w)')
           /\ Cardinality(Pending(w)') =
                IF r \in Pending(w) THEN Cardinality(Pending(w)) - 1
                                    ELSE Cardinality(Pending(w))
<1>1. Pending(w)' = Pending(w) \ {r}
  BY DEF Pending
<1>. QED BY <1>1, FS_RemoveElement

LEMMA IncrInv ==
    ASSUME FixedInv, CallInv, strategy = "fixed_window", strategy' = strategy,
           NEW r \in Callers, Incr(r)
    PROVE  FixedInv' /\ CallInv'
<1>. DEFINE s == stamp[r]
            k == KeyOf(s)
            n == Stored(k).count + 1
<1>1. /\ stage[r] = "sent" /\ counter' = [counter EXCEPT ![k] = [Stored(k) EXCEPT !.count = n]]
      /\ count' = [count EXCEPT ![r] = n]
      /\ stage' = [stage EXCEPT ![r] = "half"]
      /\ UNCHANGED <<now, stamp, answer, latest, ordered, from, fwGranted, fwCut>>
  BY DEF Incr
<1>2. s \in 0 .. MaxTime /\ now \in Nat /\ k \in Seconds
  BY ConstantTypes, WindowFacts DEF CallInv, CallTypeOK
<1>3. Stored(k) \in Counters /\ FWTypeOK
  BY <1>2, StoredFacts DEF FixedInv
<1>4. n \in Nat /\ n >= 1 /\ [Stored(k) EXCEPT !.count = n] \in Counters
      /\ [Stored(k) EXCEPT !.count = n].count = n
      /\ [Stored(k) EXCEPT !.count = n].expires = Stored(k).expires
  BY <1>3 DEF Counters
<1>5. CallInv'
  BY <1>1 DEF CallInv, CallTypeOK, Stages
<1>. DEFINE new == [Stored(k) EXCEPT !.count = n]
<1>6. counter' = [counter EXCEPT ![k] = new]
  BY <1>1
<1>7. /\ counter'[k] = new
      /\ \A j \in Seconds \ {k} : counter'[j] = counter[j]
      /\ count'[r] = n /\ stage'[r] = "half"
      /\ \A x \in Callers \ {r} : count'[x] = count[x] /\ stage'[x] = stage[x]
  BY <1>1, <1>2, <1>3, <1>6 DEF FWTypeOK, CallInv, CallTypeOK
<1>. HIDE DEF n, new
<1>8. FWTypeOK'
  BY <1>1, <1>3, <1>4, <1>6 DEF FWTypeOK, Counters, new
<1>9. FWNoOrphanKey'
  <2>. SUFFICES ASSUME NEW j \in Seconds,
                       counter'[j].count > 0, counter'[j].expires = NoTTL, ~fwCut'
       PROVE  \E x \in Callers : stage'[x] = "half" /\ KeyOf(stamp'[x]) = j
    BY DEF FWNoOrphanKey
  <2>1. CASE j = k
    BY <1>1, <1>7, <2>1
  <2>2. CASE j # k
    <3>1. PICK x \in Callers : stage[x] = "half" /\ KeyOf(stamp[x]) = j
      BY <1>1, <1>7, <2>2 DEF FixedInv, FWNoOrphanKey
    <3>. QED BY <1>1, <1>7, <3>1
  <2>. QED BY <2>1, <2>2
<1>10. ASSUME WholeSeconds, NEW w \in 0 .. MaxTime PROVE Accounted(w)'
  <2>1. Accounted(w)
    BY <1>10 DEF FixedInv
  <2>2. CASE w # WindowStart(s)
    <3>1. Pending(w)' = Pending(w)
      BY <1>1, <1>7, <2>2 DEF Pending
    <3>2. w = WindowStart(w) => KeyOf(w) # k /\ KeyOf(w) \in Seconds
      BY <1>2, <1>10, <2>2, WholeWindows, WindowFacts
    <3>. QED BY <1>1, <1>7, <2>1, <3>1, <3>2 DEF Accounted
  <2>3. CASE w = WindowStart(s) /\ n > Limit
    <3>1. Pending(w)' = Pending(w)
      BY <1>1, <1>4, <1>7, <2>3, ConstantTypes DEF Pending
    <3>2. KeyOf(w) = k
      BY <1>2, <2>3, WindowFacts
    <3>3. ASSUME now < w + Window
          PROVE  Stored(k) = counter[k]
      BY <1>2, <2>1, <2>3, <3>2, <3>3, ConstantTypes, StoredFacts, WindowFacts
         DEF Accounted, FixedInv
    <3>4. ASSUME now < w + Window
          PROVE  /\ counter'[k].expires = counter[k].expires
                 /\ counter'[k].count = n /\ n > counter[k].count
      BY <1>3, <1>4, <1>7, <3>3, <3>4 DEF Counters, n, new
    <3>5. fwGranted[w] \in Nat /\ Cardinality(Pending(w)) \in Nat
          /\ counter[k].count \in Nat
      BY <1>2, <1>3, <2>1, FS_CardinalityType DEF FWTypeOK, Accounted
    <3>. QED BY <1>1, <1>2, <1>4, <2>1, <2>3, <3>1, <3>2, <3>4, <3>5, WindowFacts DEF Accounted
  <2>4. CASE w = WindowStart(s) /\ n <= Limit
    <3>1. Pending(w)' = Pending(w) \cup {r} /\ r \notin Pending(w)
      BY <1>1, <1>7, <2>4 DEF Pending
    <3>2. KeyOf(w) = k
      BY <1>2, <2>4, WindowFacts
    <3>3. ASSUME now < w + Window
          PROVE  Stored(k) = counter[k]
      BY <1>2, <2>1, <2>4, <3>2, <3>3, ConstantTypes, StoredFacts, WindowFacts
         DEF Accounted, FixedInv
    <3>4. ASSUME now < w + Window
          PROVE  /\ counter'[k].expires = counter[k].expires
                 /\ counter'[k].count = n /\ n = counter[k].count + 1
      BY <1>3, <1>4, <1>7, <3>3, <3>4 DEF Counters, n, new
    <3>5. fwGranted[w] \in Nat /\ Cardinality(Pending(w)) \in Nat
          /\ counter[k].count \in Nat
      BY <1>2, <1>3, <2>1, FS_CardinalityType DEF FWTypeOK, Accounted
    <3>6. IsFiniteSet(Pending(w)') /\ Cardinality(Pending(w)') = Cardinality(Pending(w)) + 1
      BY <2>1, <3>1, FS_AddElement DEF Accounted
    <3>. QED BY <1>1, <1>2, <1>4, <2>1, <2>4, <3>2, <3>4, <3>5, <3>6, ConstantTypes, WindowFacts
             DEF Accounted
  <2>. QED BY <1>4, <2>2, <2>3, <2>4, ConstantTypes
<1>. QED BY <1>5, <1>8, <1>9, <1>10 DEF FixedInv

LEMMA CutInv ==
    ASSUME FixedInv, CallInv, strategy = "fixed_window", strategy' = strategy,
           NEW r \in Callers, CutPipeline(r)
    PROVE  FixedInv' /\ CallInv'
<1>1. /\ stage[r] = "half" /\ count' = [count EXCEPT ![r] = 0] /\ fwCut' = TRUE
      /\ UNCHANGED <<now, latest, ordered, from, counter, fwGranted>>
  BY DEF CutPipeline
<1>2. PICK to \in {"idle", "sent"} : Moves(r, to)
  BY FinishMoves, ResendMoves DEF CutPipeline
<1>3. CallInv'
  BY <1>1, <1>2, MovesInv DEF Stages
<1>4. FWTypeOK
  BY DEF FixedInv
<1>5. count'[r] = 0 /\ \A x \in Callers \ {r} : count'[x] = count[x]
  BY <1>1, <1>4 DEF FWTypeOK
<1>6. FWTypeOK'
  BY <1>1, <1>4 DEF FWTypeOK
<1>7. FWNoOrphanKey'
  BY <1>1 DEF FWNoOrphanKey
<1>8. ASSUME WholeSeconds, NEW w \in 0 .. MaxTime PROVE Accounted(w)'
  <2>1. Accounted(w)
    BY <1>8 DEF FixedInv
  <2>2. IsFiniteSet(Pending(w)')
        /\ Cardinality(Pending(w)') = IF r \in Pending(w) THEN Cardinality(Pending(w)) - 1
                                      ELSE Cardinality(Pending(w))
    BY <1>1, <1>2, <1>5, <2>1, PendingWithout DEF Accounted, Moves
  <2>3. fwGranted[w] \in Nat /\ Cardinality(Pending(w)) \in Nat
    BY <1>4, <2>1, FS_CardinalityType DEF FWTypeOK, Accounted
  <2>4. w = WindowStart(w) => KeyOf(w) \in Seconds /\ counter[KeyOf(w)].count \in Nat
    BY <1>4, WindowFacts DEF FWTypeOK
  <2>. QED BY <1>1, <2>1, <2>2, <2>3, <2>4, ConstantTypes DEF Accounted
<1>. QED BY <1>3, <1>6, <1>7, <1>8 DEF FixedInv

LEMMA ExpireAtInv ==
    ASSUME FixedInv, CallInv, strategy = "fixed_window", strategy' = strategy,
           NEW r \in Callers, ExpireAt(r)
    PROVE  FixedInv' /\ CallInv'
<1>. DEFINE s == stamp[r]
            k == KeyOf(s)
            at == ExpireTime(s)
            new == AfterExpireAt(k, at)
<1>1. /\ stage[r] = "half" /\ count' = [count EXCEPT ![r] = 0]
      /\ counter' = [counter EXCEPT ![k] = new]
      /\ UNCHANGED <<now, latest, ordered, from, fwCut>>
  BY DEF ExpireAt
<1>2. s \in 0 .. MaxTime /\ now \in Nat /\ k \in Seconds /\ at \in Nat
  BY ConstantTypes, WindowFacts DEF CallInv, CallTypeOK
<1>3. PICK to \in {"idle", "sent"} :
         /\ Moves(r, to)
         /\ fwGranted' = fwGranted \/ fwGranted' = Granted(r)
  <2>1. CASE /\ Finish(r, IF count[r] > Limit THEN "blocked" ELSE "allowed")
             /\ fwGranted' = Granted(r)
    BY <2>1, FinishMoves
  <2>2. CASE Finish(r, "error") /\ fwGranted' = fwGranted
    BY <2>2, FinishMoves
  <2>3. CASE Resend(r, "sent") /\ fwGranted' = fwGranted
    BY <2>3, ResendMoves
  <2>. QED BY <2>1, <2>2, <2>3 DEF ExpireAt
<1>4. CallInv'
  BY <1>1, <1>3, MovesInv DEF Stages
<1>5. FWTypeOK /\ Stored(k) \in Counters
  BY <1>2, StoredFacts DEF FixedInv
<1>6. \/ new = Absent /\ (Stored(k) = Absent \/ at <= now)
      \/ new = [Stored(k) EXCEPT !.expires = at]
  BY DEF AfterExpireAt
<1>7. /\ new \in Counters
      /\ new = Absent \/ (new.expires = at /\ new.count = Stored(k).count)
      /\ new = Absent => Stored(k) = Absent \/ at <= now
  <2>1. [Stored(k) EXCEPT !.expires = at] \in Counters
        /\ [Stored(k) EXCEPT !.expires = at].expires = at
        /\ [Stored(k) EXCEPT !.expires = at].count = Stored(k).count
    BY <1>2, <1>5 DEF Counters
  <2>2. Absent \in Counters /\ Absent.expires = NoTTL /\ at # NoTTL
    BY <1>2 DEF Absent, Counters, NoTTL
  <2>. HIDE DEF new, at
  <2>. QED BY <1>6, <2>1, <2>2
<1>. HIDE DEF new, at
<1>8. /\ counter'[k] = new
      /\ \A j \in Seconds \ {k} : counter'[j] = counter[j]
      /\ count'[r] = 0 /\ \A x \in Callers \ {r} : count'[x] = count[x]
  BY <1>1, <1>2, <1>5 DEF FWTypeOK
<1>9. /\ fwGranted' \in [0 .. MaxTime -> Nat]
      /\ \A w \in 0 .. MaxTime :
            \/ fwGranted'[w] = fwGranted[w]
            \/ /\ fwGranted'[w] = fwGranted[w] + 1 /\ w = WindowStart(s)
               /\ count[r] <= Limit /\ now < w + Window
  <2>1. fwGranted \in [0 .. MaxTime -> Nat] /\ WindowStart(s) \in 0 .. MaxTime
    BY <1>2, <1>5, WindowFacts DEF FWTypeOK
  <2>2. CASE fwGranted' = fwGranted
    BY <2>1, <2>2
  <2>3. CASE /\ fwGranted' = [fwGranted EXCEPT ![WindowStart(s)] = @ + 1]
             /\ count[r] <= Limit /\ now < WindowStart(s) + Window
    BY <2>1, <2>3
  <2>. QED BY <1>3, <2>2, <2>3 DEF Granted, ResetAt
<1>10. FWTypeOK'
  BY <1>1, <1>5, <1>7, <1>9 DEF FWTypeOK, Counters
<1>11. FWNoOrphanKey'
  <2>. SUFFICES ASSUME NEW j \in Seconds,
                       counter'[j].count > 0, counter'[j].expires = NoTTL, ~fwCut'
       PROVE  \E x \in Callers : stage'[x] = "half" /\ KeyOf(stamp'[x]) = j
    BY DEF FWNoOrphanKey
  <2>1. j # k
    BY <1>2, <1>7, <1>8 DEF Absent, NoTTL
  <2>2. PICK x \in Callers : stage[x] = "half" /\ KeyOf(stamp[x]) = j
    BY <1>1, <1>8, <2>1 DEF FixedInv, FWNoOrphanKey
  <2>3. x # r
    BY <2>1, <2>2
  <2>. QED BY <1>3, <2>2, <2>3 DEF Moves
<1>12. ASSUME WholeSeconds, NEW w \in 0 .. MaxTime PROVE Accounted(w)'
  <2>1. Accounted(w)
    BY <1>12 DEF FixedInv
  <2>2. IsFiniteSet(Pending(w)')
        /\ Cardinality(Pending(w)') = IF r \in Pending(w) THEN Cardinality(Pending(w)) - 1
                                      ELSE Cardinality(Pending(w))
    BY <1>1, <1>3, <1>8, <2>1, PendingWithout DEF Accounted, Moves
  <2>3. fwGranted[w] \in Nat /\ Cardinality(Pending(w)) \in Nat
        /\ fwGranted'[w] \in Nat
    BY <1>5, <1>9, <2>1, FS_CardinalityType DEF FWTypeOK, Accounted
  <2>4. KeyOf(w) \in Seconds /\ counter[KeyOf(w)].count \in Nat
    BY <1>5, WindowFacts DEF FWTypeOK
  <2>5. CASE w # WindowStart(s)
    <3>1. r \notin Pending(w) /\ fwGranted'[w] = fwGranted[w]
      BY <1>9, <2>5 DEF Pending
    <3>2. w = WindowStart(w) => KeyOf(w) # k
      BY <1>2, <1>12, <2>5, WholeWindows, WindowFacts
    <3>. QED BY <1>1, <1>8, <2>1, <2>2, <2>4, <3>1, <3>2 DEF Accounted
  <2>6. CASE w = WindowStart(s)
    <3>1. fwGranted'[w] = fwGranted[w] + 1 => r \in Pending(w) /\ now < w + Window
      BY <1>1, <1>9, <2>3, <2>6 DEF Pending
    <3>2. KeyOf(w) = k /\ w = WindowStart(w) /\ at = w + Window
      BY <1>2, <1>12, <2>6, WindowFacts, WholeWindows DEF at
    <3>3. ASSUME now < w + Window
          PROVE  Stored(k) = counter[k]
      BY <1>2, <2>1, <3>2, <3>3, ConstantTypes, StoredFacts DEF Accounted, FixedInv
    <3>4. ASSUME now < w + Window
          PROVE  /\ counter'[k].expires \in {NoTTL, w + Window}
                 /\ counter'[k].count = counter[k].count
      <4>1. ~(at <= now)
        BY <1>2, <3>2, <3>4
      <4>. QED BY <1>7, <1>8, <3>2, <3>3, <3>4, <4>1 DEF Absent
    <3>5. Cardinality(Pending(w)') \in Nat
      BY <2>2, FS_CardinalityType
    <3>6. fwGranted'[w] <= Limit
      <4>1. CASE now < w + Window
        BY <1>9, <2>1, <2>2, <2>3, <3>1, <3>2, <3>5, <4>1, ConstantTypes DEF Accounted
      <4>2. CASE ~(now < w + Window)
        BY <1>9, <2>1, <4>2 DEF Accounted
      <4>. QED BY <4>1, <4>2
    <3>7. fwGranted'[w] + Cardinality(Pending(w)') <= fwGranted[w] + Cardinality(Pending(w))
      BY <1>9, <2>2, <2>3, <3>1, <3>5
    <3>8. ASSUME now < w + Window
          PROVE  /\ fwGranted'[w] + Cardinality(Pending(w)') <= counter'[k].count
                 /\ fwGranted'[w] + Cardinality(Pending(w)') <= Limit
      BY <2>1, <2>3, <2>4, <3>2, <3>4, <3>5, <3>7, <3>8, ConstantTypes DEF Accounted
    <3>. QED BY <1>1, <2>2, <3>2, <3>4, <3>6, <3>8 DEF Accounted
  <2>. QED BY <2>5, <2>6
<1>. QED BY <1>4, <1>10, <1>11, <1>12 DEF FixedInv

\* In the other strategies its keys stay missing.
LEMMA FixedIdle ==
    ASSUME FixedInv, strategy # "fixed_window", UNCHANGED <<fwVars, strategy>>
    PROVE  FixedInv'
<1>1. FWTypeOK'
  BY DEF FixedInv, FWTypeOK, fwVars
<1>2. \A k \in Seconds : ~(counter'[k].count > 0)
  BY DEF FixedInv, fwVars
<1>3. FWNoOrphanKey'
  BY <1>2, Zenon DEF FWNoOrphanKey
<1>. QED BY <1>1, <1>3 DEF FixedInv, fwVars

-----------------------------------------------------------------------------
(***************************************************************************)
(* The sliding window.                                                     *)
(***************************************************************************)
\* Windows of whole milliseconds, and delays for which the key lives on: an
\* entry that a late call must count is still there.
EntriesOutliveDelays == Window % Milli = 0 /\ MaxDelay <= Expire - Window + 1

\* As long as stamps come in their order, all that was granted within a window
\* of the latest of them is in the set.
SlidingInv ==
    /\ SWTypeOK
    /\ \A g \in swGranted : g <= latest
    /\ EntriesOutliveDelays /\ ordered =>
         /\ \A g \in swGranted : Score(g) > Score(latest - Window) => g \in zset
         /\ swGranted # {} => zsetTill >= latest + Expire
         /\ SWWindowBounded

LEMMA ScoreFacts ==
    ASSUME NEW a \in Int
    PROVE  /\ Score(a) \in Int
           /\ \A b \in Int : a <= b => Score(a) <= Score(b)
           /\ Window % Milli = 0 =>
                Score(a - Window) = Score(a) - (Window \div Milli)
           /\ Window \div Milli \in Int
<1>. DEFINE p == a \div Milli
            q == Window \div Milli
<1>1. Milli \in Nat \ {0} /\ Window \in Nat
  BY ConstantTypes
<1>2. p \in Int /\ p * Milli <= a /\ a < p * Milli + Milli /\ q \in Int
  BY <1>1, DivBounds
<1>3. \A b \in Int : a <= b => Score(a) <= Score(b)
  BY <1>1, DivMonotonic DEF Score
<1>4. Window % Milli = 0 => Window = q * Milli
  BY <1>1
<1>. HIDE DEF p, q
<1>5. ASSUME Window % Milli = 0 PROVE (a - Window) \div Milli = p - q
  <2>1. (p - q) * Milli = p * Milli - q * Milli /\ p - q \in Int
        /\ p * Milli \in Int /\ q * Milli \in Int
    BY <1>1, <1>2
  <2>2. (p - q) * Milli <= a - Window /\ a - Window < (p - q) * Milli + Milli
    BY <1>1, <1>2, <1>4, <1>5, <2>1
  <2>. QED BY <1>1, <2>1, <2>2, DivIs
<1>. QED BY <1>2, <1>3, <1>5 DEF Score, p, q

LEMMA ExpireFacts == Expire \in Nat
<1>1. (Window + Second) \div Second >= 0 /\ (Window + Second) \div Second \in Int
  <2>1. 0 \div Second <= (Window + Second) \div Second
    BY ConstantTypes, DivMonotonic
  <2>2. 0 \div Second = 0
    BY ConstantTypes
  <2>. QED BY <2>1, <2>2, ConstantTypes
<1>. QED BY <1>1, ConstantTypes DEF Expire

LEMMA InitSlidingInv == CallInit /\ SWInit => SlidingInv
<1>. SUFFICES ASSUME CallInit, SWInit PROVE SlidingInv
  OBVIOUS
<1>1. SWTypeOK /\ swGranted = {}
  BY DEF SWInit, SWTypeOK
<1>2. ASSUME NEW t \in 0 .. MaxTime
      PROVE  Cardinality({g \in swGranted : /\ Score(g) <= Score(t)
                                             /\ Score(g) > Score(t - Window)}) <= Limit
  <2>1. {g \in swGranted : /\ Score(g) <= Score(t) /\ Score(g) > Score(t - Window)} = {}
    BY <1>1
  <2>. QED BY <2>1, FS_EmptySet, ConstantTypes
<1>. QED BY <1>1, <1>2 DEF SlidingInv, SWWindowBounded

LEMMA SlidingUntouched ==
    ASSUME SlidingInv, UNCHANGED <<swVars, latest, ordered>>
    PROVE  SlidingInv'
<1>1. SWTypeOK'
  BY DEF SlidingInv, SWTypeOK, swVars
<1>2. SWWindowBounded => SWWindowBounded'
  BY DEF SWWindowBounded, swVars
<1>. QED BY <1>1, <1>2 DEF SlidingInv, swVars

LEMMA SlidingStep ==
    ASSUME SlidingInv, CallInv, NEW r \in Callers, SWStep(r)
    PROVE  SlidingInv' /\ CallInv'
<1>. DEFINE s == stamp[r]
            ok == Cardinality(Added(s)) <= Limit
<1>1. /\ stage[r] = "sent" /\ now - s <= MaxDelay
      /\ zset' = Added(s) /\ zsetTill' = now + Expire
      /\ swGranted' = IF ok THEN swGranted \cup {s} ELSE swGranted
      /\ Observe(r) /\ now' = now /\ from' = from
  BY DEF SWStep, OnTime
<1>2. PICK to \in {"idle", "sent"} : Moves(r, to)
  <2>1. Reply(r, IF ok THEN "allowed" ELSE "blocked", "sent")
    BY DEF SWStep
  <2>. QED BY <2>1, FinishMoves, ResendMoves DEF Reply
<1>3. CallInv'
  BY <1>1, <1>2, MovesInv DEF Stages
<1>4. /\ s \in 0 .. MaxTime /\ s <= now /\ now \in 0 .. MaxTime /\ latest \in 0 .. MaxTime
      /\ latest <= now /\ s \in Int /\ now \in Int /\ latest \in Int /\ MaxDelay \in Nat
      /\ Window \in Nat /\ MaxTime \in Nat /\ Limit \in Nat
  BY ConstantTypes DEF CallInv, CallTypeOK
<1>5. SWTypeOK
  BY DEF SlidingInv
<1>10. /\ latest' = Greater(latest, s)
       /\ ordered' => ordered /\ s >= latest
       /\ swGranted' \subseteq swGranted \cup {s}
  BY <1>1 DEF Observe
<1>6. Added(s) \subseteq 0 .. MaxTime
  BY <1>4, <1>5 DEF Added, Kept, Entries, SWTypeOK
<1>7. SWTypeOK'
  <2>1. zset' \subseteq 0 .. MaxTime /\ zsetTill' \in Nat
    BY <1>1, <1>4, <1>6, ExpireFacts
  <2>. HIDE DEF s
  <2>2. swGranted' \subseteq 0 .. MaxTime
    BY <1>4, <1>5, <1>10 DEF SWTypeOK
  <2>. QED BY <2>1, <2>2 DEF SWTypeOK
<1>8. \A g \in swGranted' : g <= latest'
  <2>. HIDE DEF s
  <2>1. latest' \in Int /\ latest <= latest' /\ s <= latest'
    BY <1>4, <1>10 DEF Greater
  <2>2. \A g \in swGranted : g \in Int /\ g <= latest
    BY <1>4, <1>5 DEF SlidingInv, SWTypeOK
  <2>. QED BY <1>4, <1>10, <2>1, <2>2
<1>9. ASSUME EntriesOutliveDelays, ordered'
      PROVE  /\ \A g \in swGranted' : Score(g) > Score(latest' - Window) => g \in zset'
             /\ swGranted' # {} => zsetTill' >= latest' + Expire
             /\ SWWindowBounded'
  <2>1. ordered /\ s >= latest /\ latest' = s
    <3>. HIDE DEF s
    <3>. QED BY <1>4, <1>9, <1>10 DEF Greater
  <2>2. ASSUME NEW g \in swGranted, Score(g) > Score(s - Window) PROVE g \in Kept(s)
    <3>1. g \in 0 .. MaxTime /\ g \in Int /\ g <= latest
      BY <1>4, <1>5 DEF SlidingInv, SWTypeOK
    <3>2. Score(latest - Window) <= Score(s - Window)
      BY <1>4, <2>1, ScoreFacts
    <3>3. g \in zset /\ zsetTill >= latest + Expire
      BY <1>4, <1>9, <2>1, <2>2, <3>1, <3>2, ScoreFacts DEF SlidingInv
    <3>4. ~(g <= s - Window)
      BY <1>4, <2>2, <3>1, ScoreFacts
    <3>5. MaxDelay <= Expire - Window + 1 /\ zsetTill \in Nat
      BY <1>5, <1>9 DEF EntriesOutliveDelays, SWTypeOK
    <3>6. ~(now > zsetTill)
      BY ONLY <1>1, <1>4, <3>1, <3>3, <3>4, <3>5, ExpireFacts
    <3>. QED BY <2>2, <3>3, <3>6 DEF Kept, Entries
  <2>3. \A g \in swGranted' : Score(g) > Score(latest' - Window) => g \in zset'
    BY <1>1, <2>1, <2>2 DEF Added
  <2>4. zsetTill' >= latest' + Expire
    BY <1>1, <1>4, <2>1, ExpireFacts
  <2>5. ASSUME NEW t \in 0 .. MaxTime
        PROVE  Cardinality({g \in swGranted' : /\ Score(g) <= Score(t)
                                                /\ Score(g) > Score(t - Window)}) <= Limit
    <3>. DEFINE In(granted) == {g \in granted : /\ Score(g) <= Score(t)
                                                /\ Score(g) > Score(t - Window)}
    <3>1. Cardinality(In(swGranted)) <= Limit
      BY <1>9, <2>1 DEF SlidingInv, SWWindowBounded
    <3>2. CASE ~ok \/ s \notin In(swGranted \cup {s})
      <4>1. In(swGranted') = In(swGranted)
        BY <1>1, <3>2
      <4>. QED BY <3>1, <4>1
    <3>3. CASE ok /\ s \in In(swGranted \cup {s})
      <4>1. Score(s - Window) <= Score(t - Window)
        <5>1. Score(s) <= Score(t)
          BY <3>3
        <5>2. t \in Int
          BY <1>4
        <5>3. Score(s - Window) = Score(s) - (Window \div Milli)
              /\ Score(t - Window) = Score(t) - (Window \div Milli)
              /\ Score(s) \in Int /\ Score(t) \in Int /\ Window \div Milli \in Int
          BY <1>4, <1>9, <5>2, ScoreFacts DEF EntriesOutliveDelays
        <5>. QED BY <5>1, <5>3
      <4>2. ASSUME NEW g \in In(swGranted') PROVE g \in Added(s)
        <5>1. CASE g = s
          BY <5>1 DEF Added
        <5>2. CASE g # s
          <6>1. g \in swGranted /\ Score(g) > Score(t - Window)
            BY <1>1, <4>2, <5>2
          <6>2. g \in Int /\ s - Window \in Int /\ t - Window \in Int
            BY <1>4, <1>5, <6>1 DEF SWTypeOK
          <6>3. Score(g) \in Int /\ Score(s - Window) \in Int /\ Score(t - Window) \in Int
            BY <6>2, ScoreFacts
          <6>4. Score(g) > Score(s - Window)
            BY <4>1, <6>1, <6>3
          <6>. QED BY <2>2, <6>1, <6>4 DEF Added
        <5>. QED BY <5>1, <5>2
      <4>3. IsFiniteSet(Added(s))
        <5>1. IsFiniteSet(0 .. MaxTime)
          BY <1>4, FS_Interval
        <5>. QED BY <1>6, <5>1, FS_Subset
      <4>4. In(swGranted') \subseteq Added(s)
        BY <4>2
      <4>. HIDE DEF In
      <4>5. /\ IsFiniteSet(In(swGranted'))
            /\ Cardinality(In(swGranted')) <= Cardinality(Added(s))
        BY <4>3, <4>4, FS_Subset
      <4>6. Cardinality(In(swGranted')) \in Nat /\ Cardinality(Added(s)) \in Nat
        BY <4>3, <4>5, FS_CardinalityType
      <4>7. Cardinality(In(swGranted')) <= Limit
        BY <1>4, <3>3, <4>5, <4>6
      <4>. QED BY <4>7 DEF In
    <3>. QED BY <3>2, <3>3
  <2>6. SWWindowBounded'
    BY <2>5 DEF SWWindowBounded
  <2>. QED BY <2>3, <2>4, <2>6
<1>. QED BY <1>3, <1>7, <1>8, <1>9 DEF SlidingInv

-----------------------------------------------------------------------------
(***************************************************************************)
(* The leaky bucket.                                                       *)
(***************************************************************************)
\* What was allowed since `from` is in the bucket or has leaked since.
Leaked ==
    clean /\ lbAllowed > 0 =>
        /\ leaky.last >= from
        /\ lbAllowed * LeakRate <= leaky.count * LeakRate + (leaky.last - from)

\* What r is about to write has room for one more.
RoomFor(r) ==
    /\ fresh[r] /\ stage[r] = "half" /\ clean
    /\ stamp[r] >= leaky.last /\ stamp[r] >= from
    => (lbAllowed + 1) * LeakRate <= newCount[r] * LeakRate + (stamp[r] - from)

LeakyInv ==
    /\ LBTypeOK
    /\ leaky.count <= Limit /\ \A r \in Callers : newCount[r] <= Limit
    /\ leaky.last <= now
    /\ leaky.count > 0 => leaky.expires >= leaky.last + Window
    /\ Leaked
    /\ \A r \in Callers : RoomFor(r)
    /\ strategy # "leaky_bucket" => \A r \in Callers : ~fresh[r]

LEMMA RateFacts ==
    /\ LeakRate \in Nat \ {0} /\ Limit * LeakRate <= Window
<1>1. /\ Window \in Int /\ Limit \in Nat \ {0} /\ Limit <= Window /\ Window \in Nat
  BY ConstantTypes
<1>2. Window \div Limit \in Int /\ (Window \div Limit) * Limit <= Window
      /\ Window < (Window \div Limit) * Limit + Limit
  BY <1>1, DivBounds
<1>3. 1 <= Window \div Limit
  <2>1. (1 * Limit) \div Limit = 1
    BY <1>1, DivOfMultiple
  <2>2. 1 * Limit \in Int /\ 1 * Limit <= Window
    BY <1>1
  <2>3. (1 * Limit) \div Limit <= Window \div Limit
    BY <1>1, <2>2, DivMonotonic
  <2>. QED BY <2>1, <2>3
<1>. QED BY <1>1, <1>2, <1>3 DEF LeakRate

\* The leak: what the time since the last one allows, and not more.
LEMMA DrainFacts ==
    ASSUME NEW s \in Int, NEW last \in Int, NEW read \in 0 .. Limit
    PROVE  /\ Drained(s, read, last) \in Nat
           /\ s >= last => read * LeakRate <= Drained(s, read, last) * LeakRate + (s - last)
           /\ Drained(s, read, last) >= Limit => s - last < LeakRate
           /\ Drained(s, 0, s) = 0
<1>. DEFINE q == Quotient(s - last, LeakRate)
            d == Drained(s, read, last)
<1>1. LeakRate \in Nat \ {0} /\ Limit \in Nat /\ Limit >= 1 /\ read \in Nat /\ read <= Limit
  BY RateFacts, ConstantTypes
<1>2. ASSUME s >= last
      PROVE  q \in Nat /\ q * LeakRate <= s - last /\ s - last < q * LeakRate + LeakRate
  <2>1. q = (s - last) \div LeakRate
    BY <1>2 DEF Quotient
  <2>2. s - last \in Int /\ s - last >= 0
    BY <1>2
  <2>3. (s - last) \div LeakRate >= 0
    <3>1. (0 * LeakRate) \div LeakRate = 0 /\ 0 * LeakRate = 0
      BY <1>1, DivOfMultiple
    <3>. QED BY <1>1, <2>2, <3>1, DivMonotonic
  <2>. QED BY <1>1, <2>1, <2>2, <2>3, DivBounds
<1>3. ASSUME ~(s >= last) PROVE q \in Int
  <2>1. q = -((last - s) \div LeakRate)
    BY <1>3 DEF Quotient
  <2>2. (last - s) \div LeakRate \in Int
    BY <1>1, DivBounds
  <2>. QED BY <2>1, <2>2
<1>4. d = Greater(0, read - Lesser(q, read))
  BY DEF Drained
<1>. HIDE DEF q, d
<1>5. d \in Nat /\ (q \in Nat => d >= read - q)
  BY <1>1, <1>2, <1>3, <1>4 DEF Greater, Lesser
<1>6. ASSUME s >= last PROVE read * LeakRate <= d * LeakRate + (s - last)
  <2>1. q \in Nat /\ q * LeakRate <= s - last
    BY <1>2, <1>6
  <2>2. read <= d + q
    BY <1>1, <1>5, <2>1
  <2>3. read * LeakRate <= (d + q) * LeakRate
    BY <1>1, <1>5, <2>1, <2>2, TimesMonotonic
  <2>4. (d + q) * LeakRate = d * LeakRate + q * LeakRate
        /\ d * LeakRate \in Int /\ q * LeakRate \in Int /\ read * LeakRate \in Int
    BY <1>1, <1>5, <2>1
  <2>. QED BY <2>1, <2>3, <2>4
<1>7. ASSUME d >= Limit PROVE s - last < LeakRate
  <2>1. CASE s >= last
    <3>1. q = 0
      BY <1>1, <1>2, <1>4, <1>7, <2>1 DEF Greater, Lesser
    <3>2. 0 * LeakRate = 0
      BY <1>1
    <3>. QED BY <1>1, <1>2, <2>1, <3>1, <3>2
  <2>2. CASE ~(s >= last)
    BY <1>1, <2>2
  <2>. QED BY <2>1, <2>2
<1>8. Drained(s, 0, s) = 0
  <2>1. (0 * LeakRate) \div LeakRate = 0 /\ 0 * LeakRate = 0
    BY <1>1, DivOfMultiple
  <2>2. s - s = 0
    OBVIOUS
  <2>. QED BY <2>1, <2>2 DEF Drained, Quotient, Greater, Lesser
<1>. QED BY <1>5, <1>6, <1>7, <1>8 DEF d

LEMMA LeakyFacts ==
    ASSUME LeakyInv, CallInv
    PROVE  /\ leaky.count \in 0 .. Limit /\ leaky.last \in 0 .. MaxTime
           /\ leaky.expires \in Int /\ leaky.last <= now
           /\ lbAllowed \in Nat /\ from \in 0 .. MaxTime /\ now \in 0 .. MaxTime
           /\ \A r \in Callers : /\ stamp[r] \in 0 .. MaxTime /\ stamp[r] <= now
                                 /\ newCount[r] \in 0 .. Limit
BY ConstantTypes DEF LeakyInv, CallInv, LBTypeOK, CallTypeOK

LEMMA InitLeakyInv == CallInit /\ LBInit => LeakyInv
<1>. SUFFICES ASSUME CallInit, LBInit PROVE LeakyInv
  OBVIOUS
<1>1. LBTypeOK
  BY ConstantTypes DEF LBInit, LBTypeOK
<1>2. leaky.count = 0 /\ leaky.last = 0 /\ lbAllowed = 0 /\ now = 0
      /\ \A r \in Callers : newCount[r] = 0 /\ ~fresh[r]
  BY DEF LBInit, CallInit
<1>. QED BY <1>1, <1>2, ConstantTypes DEF LeakyInv, Leaked, RoomFor

LEMMA LeakyUntouched ==
    ASSUME LeakyInv, CallInv, UNCHANGED <<lbVars, strategy, from>>, now' \in Int, now' >= now,
           \/ strategy # "leaky_bucket"
           \/ \A x \in Callers :
                 stage'[x] = "half" => stage[x] = "half" /\ stamp'[x] = stamp[x]
    PROVE  LeakyInv'
<1>1. LBTypeOK' /\ leaky' = leaky /\ newCount' = newCount /\ lbAllowed' = lbAllowed
      /\ fresh' = fresh /\ clean' = clean
  BY DEF LeakyInv, LBTypeOK, lbVars
<1>2. leaky'.last <= now'
  BY <1>1, LeakyFacts, ConstantTypes
<1>3. Leaked'
  BY <1>1 DEF LeakyInv, Leaked
<1>4. ASSUME NEW x \in Callers PROVE RoomFor(x)'
  <2>1. RoomFor(x) /\ (strategy # "leaky_bucket" => ~fresh[x])
    BY DEF LeakyInv
  <2>. QED BY <1>1, <2>1, Zenon DEF RoomFor
<1>. QED BY <1>1, <1>2, <1>3, <1>4 DEF LeakyInv

LEMMA ReadInv ==
    ASSUME LeakyInv, CallInv, strategy = "leaky_bucket", strategy' = strategy,
           NEW r \in Callers, NEW ok \in BOOLEAN, LBRead(r, ok)
    PROVE  LeakyInv' /\ CallInv'
<1>. DEFINE s == stamp[r]
            read == ReadCount(ok)
            last == ReadLast(ok, s)
            left == Drained(s, read, last)
<1>1. UNCHANGED <<now, latest, ordered, from, leaky, lbAllowed, clean>> /\ stage[r] = "sent"
  BY DEF LBRead
<1>2. /\ read \in 0 .. Limit /\ last \in Int /\ s \in Int
  BY LeakyFacts, ConstantTypes DEF ReadCount, ReadLast
<1>3. left \in Nat /\ (s >= last => read * LeakRate <= left * LeakRate + (s - last))
  BY <1>2, DrainFacts
<1>. HIDE DEF left, read, last
<1>4. CASE left >= Limit
  <2>1. Finish(r, "blocked") /\ UNCHANGED <<newCount, fresh>>
    BY <1>4 DEF LBRead, left, read, last
  <2>2. Moves(r, "idle")
    BY <2>1, FinishMoves
  <2>3. CallInv'
    BY <1>1, <2>2, MovesInv DEF Stages
  <2>4. LeakyInv'
    BY <1>1, <2>1, <2>2, LeakyUntouched, LeakyFacts DEF Moves, lbVars
  <2>. QED BY <2>3, <2>4
<1>5. CASE ~(left >= Limit)
  <2>1. /\ stage' = [stage EXCEPT ![r] = "half"] /\ newCount' = [newCount EXCEPT ![r] = left + 1]
        /\ fresh' = [fresh EXCEPT ![r] = ok /\ ~ExpiredInFlight(s)]
        /\ UNCHANGED <<stamp, answer>>
    BY <1>5 DEF LBRead, left, read, last
  <2>2. CallInv'
    BY <1>1, <2>1 DEF CallInv, CallTypeOK, Stages
  <2>3. left + 1 \in Nat /\ left + 1 <= Limit
    BY <1>3, <1>5, ConstantTypes
  <2>4. LBTypeOK' /\ (fresh'[r] => ok /\ ~ExpiredInFlight(s)) /\ newCount'[r] = left + 1
        /\ \A x \in Callers \ {r} : newCount'[x] = newCount[x] /\ fresh'[x] = fresh[x]
                                    /\ stage'[x] = stage[x]
    <3>1. LBTypeOK
      BY DEF LeakyInv
    <3>2. newCount' \in [Callers -> Nat] /\ newCount'[r] = left + 1
          /\ \A x \in Callers \ {r} : newCount'[x] = newCount[x]
      BY <2>1, <2>3, <3>1 DEF LBTypeOK
    <3>. DEFINE f == ok /\ ~ExpiredInFlight(s)
    <3>3. f \in BOOLEAN
      OBVIOUS
    <3>4. fresh' = [fresh EXCEPT ![r] = f] /\ fresh \in [Callers -> BOOLEAN]
      BY <2>1, <3>1 DEF LBTypeOK
    <3>. HIDE DEF f
    <3>5. fresh' \in [Callers -> BOOLEAN] /\ fresh'[r] = f
          /\ \A x \in Callers \ {r} : fresh'[x] = fresh[x]
      BY ONLY <3>3, <3>4, r \in Callers
    <3>6. \A x \in Callers \ {r} : stage'[x] = stage[x]
      BY <2>1 DEF CallInv, CallTypeOK
    <3>7. LBTypeOK'
      BY <1>1, <3>1, <3>2, <3>5, Zenon DEF LBTypeOK
    <3>. QED BY <3>2, <3>5, <3>6, <3>7, Zenon DEF f
  <2>5. \A x \in Callers : newCount'[x] <= Limit
    BY <2>3, <2>4 DEF LeakyInv
  <2>6. Leaked'
    BY <1>1 DEF LeakyInv, Leaked
  <2>7. ASSUME NEW x \in Callers \ {r} PROVE RoomFor(x)'
    <3>1. RoomFor(x)
      BY DEF LeakyInv
    <3>2. stamp'[x] = stamp[x] /\ newCount'[x] = newCount[x] /\ fresh'[x] = fresh[x]
          /\ stage'[x] = stage[x]
      BY <2>1, <2>4
    <3>. QED BY <1>1, <3>1, <3>2, Zenon DEF RoomFor
  <2>8. RoomFor(r)'
    <3>. SUFFICES ASSUME ok, ~ExpiredInFlight(s), clean, s >= leaky.last, s >= from
         PROVE  (lbAllowed + 1) * LeakRate <= (left + 1) * LeakRate + (s - from)
      BY <1>1, <2>1, <2>4 DEF RoomFor
    <3>. DEFINE a == lbAllowed * LeakRate
                b == left * LeakRate
                c == leaky.count * LeakRate
    <3>1. /\ LeakRate \in Nat \ {0} /\ lbAllowed \in Nat /\ left \in Nat
          /\ leaky.count \in 0 .. Limit /\ Limit \in Nat /\ leaky.last \in Int /\ from \in Int
          /\ now \in Int /\ leaky.expires \in Int /\ s \in Int /\ Window \in Nat /\ s <= now
      BY <1>2, <1>3, LeakyFacts, RateFacts, ConstantTypes
    <3>2. /\ a \in Nat /\ b \in Nat /\ c \in Nat
          /\ (lbAllowed + 1) * LeakRate = a + LeakRate /\ (left + 1) * LeakRate = b + LeakRate
      BY <3>1
    <3>3. lbAllowed = 0 => a = 0
      BY <3>1
    <3>4. lbAllowed > 0 => a <= c + (leaky.last - from)
      BY DEF LeakyInv, Leaked
    <3>5. lbAllowed > 0 => c <= b + (s - leaky.last)
      <4>1. CASE now <= leaky.expires
        <5>1. read = leaky.count /\ last = leaky.last
          BY <4>1 DEF read, last, ReadCount, ReadLast
        <5>. QED BY <1>3, <5>1
      <4>2. CASE ~(now <= leaky.expires) /\ leaky.count = 0
        <5>1. c = 0
          BY <3>1, <4>2
        <5>. QED BY <3>1, <3>2, <5>1
      <4>3. CASE ~(now <= leaky.expires) /\ leaky.count # 0
        <5>1. leaky.expires >= leaky.last + Window
          BY <3>1, <4>3 DEF LeakyInv
        <5>2. s > leaky.expires
          BY <3>1, <4>3 DEF ExpiredInFlight
        <5>3. c <= Limit * LeakRate
          BY <3>1, TimesMonotonic
        <5>4. Limit * LeakRate <= Window /\ Limit * LeakRate \in Int
          BY <3>1, RateFacts
        <5>. HIDE DEF c, b
        <5>. QED BY <3>1, <3>2, <5>1, <5>2, <5>3, <5>4
      <4>. QED BY <4>1, <4>2, <4>3
    <3>. HIDE DEF a, b, c
    <3>6. a <= b + (s - from)
      BY <3>1, <3>2, <3>3, <3>4, <3>5
    <3>. QED BY <3>1, <3>2, <3>6
  <2>. QED BY <1>1, <2>2, <2>4, <2>5, <2>6, <2>7, <2>8 DEF LeakyInv
<1>. QED BY <1>4, <1>5

LEMMA WriteInv ==
    ASSUME LeakyInv, CallInv, strategy = "leaky_bucket", strategy' = strategy,
           NEW r \in Callers, LBWrite(r)
    PROVE  LeakyInv' /\ CallInv'
<1>. DEFINE s == stamp[r]
            n == newCount[r]
<1>1. /\ leaky' = [count |-> n, last |-> s, expires |-> now + Window]
      /\ clean' = (clean /\ fresh[r] /\ s >= leaky.last)
      /\ stage[r] = "half" /\ UNCHANGED <<now, latest, ordered, from>>
  BY DEF LBWrite
<1>2. PICK to \in {"idle", "half"} :
         /\ Moves(r, to)
         /\ lbAllowed' = lbAllowed \/ (lbAllowed' = lbAllowed + 1 /\ s >= from)
         /\ \/ fresh' = [x \in Callers |-> FALSE] /\ newCount' = [newCount EXCEPT ![r] = 0]
            \/ /\ fresh' = [x \in Callers |-> x = r /\ fresh[x]] /\ newCount' = newCount
               /\ lbAllowed' = lbAllowed
  <2>1. CASE Resend(r, "half")
             /\ fresh' = [x \in Callers |-> x = r /\ fresh[x]] /\ UNCHANGED <<newCount, lbAllowed>>
    BY <2>1, ResendMoves
  <2>2. ASSUME NEW o \in {"allowed", "error"}, Finish(r, o),
               lbAllowed' = lbAllowed \/ (lbAllowed' = lbAllowed + 1 /\ s >= from),
               newCount' = [newCount EXCEPT ![r] = 0], fresh' = [x \in Callers |-> FALSE]
        PROVE  Moves(r, "idle")
    BY <2>2, FinishMoves
  <2>. QED BY <2>1, <2>2 DEF LBWrite
<1>3. CallInv'
  BY <1>1, <1>2, MovesInv DEF Stages
<1>4. /\ n \in 0 .. Limit /\ s \in 0 .. MaxTime /\ s <= now /\ now \in 0 .. MaxTime
      /\ lbAllowed \in Nat /\ from \in 0 .. MaxTime /\ leaky.last \in 0 .. MaxTime
      /\ Window \in Nat /\ MaxTime \in Nat /\ Limit \in Nat
  BY LeakyFacts, ConstantTypes
<1>5. /\ leaky'.count = n /\ leaky'.last = s /\ leaky'.expires = now + Window
      /\ leaky' \in [count : Nat, last : 0 .. MaxTime, expires : {-1} \cup Nat]
  BY <1>1, <1>4
<1>6. LBTypeOK
  BY DEF LeakyInv
<1>7. clean' \in BOOLEAN
  BY <1>1, <1>6, Zenon DEF LBTypeOK
<1>8. /\ fresh' \in [Callers -> BOOLEAN]
      /\ \A x \in Callers : fresh'[x] => x = r /\ fresh[r] /\ newCount' = newCount
                                         /\ lbAllowed' = lbAllowed
  <2>1. CASE fresh' = [x \in Callers |-> FALSE]
    BY <2>1
  <2>2. CASE fresh' = [x \in Callers |-> x = r /\ fresh[x]] /\ newCount' = newCount
             /\ lbAllowed' = lbAllowed
    BY <2>2
  <2>. QED BY <1>2, <2>1, <2>2
<1>9. newCount' \in [Callers -> Nat] /\ \A x \in Callers : newCount'[x] <= Limit
  <2>1. newCount \in [Callers -> Nat] /\ \A x \in Callers : newCount[x] <= Limit
    BY <1>6 DEF LBTypeOK, LeakyInv
  <2>2. CASE newCount' = newCount
    BY <2>1, <2>2
  <2>3. CASE newCount' = [newCount EXCEPT ![r] = 0]
    BY <1>4, <2>1, <2>3
  <2>. QED BY <1>2, <2>2, <2>3
<1>10. lbAllowed' \in Nat
  BY <1>2, <1>4
<1>11. LBTypeOK'
  BY <1>5, <1>7, <1>8, <1>9, <1>10, Zenon DEF LBTypeOK
<1>12. ASSUME clean', lbAllowed' > 0
       PROVE  s >= from /\ (lbAllowed + 1) * LeakRate <= n * LeakRate + (s - from)
  <2>1. clean /\ fresh[r] /\ s >= leaky.last
    BY <1>1, <1>12
  <2>2. lbAllowed > 0 => leaky.last >= from
    BY <2>1 DEF LeakyInv, Leaked
  <2>3. s >= from
    BY <1>2, <1>4, <1>12, <2>1, <2>2
  <2>4. RoomFor(r)
    BY DEF LeakyInv
  <2>. QED BY <1>1, <2>1, <2>3, <2>4 DEF RoomFor
<1>13. Leaked'
  <2>. SUFFICES ASSUME clean', lbAllowed' > 0
       PROVE  s >= from /\ lbAllowed' * LeakRate <= n * LeakRate + (s - from)
    BY <1>1, <1>5 DEF Leaked
  <2>1. lbAllowed' <= lbAllowed + 1 /\ LeakRate \in Nat
    BY <1>2, <1>4, RateFacts
  <2>2. lbAllowed' * LeakRate <= (lbAllowed + 1) * LeakRate
    BY <1>4, <1>10, <2>1, TimesMonotonic
  <2>3. lbAllowed' * LeakRate \in Int /\ (lbAllowed + 1) * LeakRate \in Int
        /\ n * LeakRate \in Int
    BY <1>4, <1>10, <2>1
  <2>. QED BY <1>4, <1>12, <2>2, <2>3
<1>14. ASSUME NEW x \in Callers PROVE RoomFor(x)'
  <2>. SUFFICES ASSUME fresh'[x], stage'[x] = "half", clean', stamp'[x] >= from'
       PROVE  (lbAllowed' + 1) * LeakRate <= newCount'[x] * LeakRate + (stamp'[x] - from')
    BY DEF RoomFor
  <2>1. x = r /\ newCount'[x] = n /\ lbAllowed' = lbAllowed
    BY <1>8
  <2>2. to = "half" /\ stamp'[x] = s
    BY <1>2, <2>1 DEF Moves
  <2>3. clean /\ fresh[r] /\ s >= leaky.last /\ s >= from
    BY <1>1, <2>2
  <2>4. RoomFor(r)
    BY DEF LeakyInv
  <2>5. (lbAllowed + 1) * LeakRate <= n * LeakRate + (s - from)
    BY <1>1, <2>3, <2>4 DEF RoomFor
  <2>. QED BY <1>1, <2>1, <2>2, <2>5
<1>15. leaky'.count <= Limit /\ leaky'.last <= now'
       /\ leaky'.expires >= leaky'.last + Window
  BY <1>1, <1>4, <1>5
<1>. QED BY <1>3, <1>9, <1>11, <1>13, <1>14, <1>15 DEF LeakyInv

LEMMA WriteLostInv ==
    ASSUME LeakyInv, CallInv, strategy = "leaky_bucket", strategy' = strategy,
           NEW r \in Callers, LBWriteLost(r)
    PROVE  LeakyInv' /\ CallInv'
<1>1. /\ newCount' = [newCount EXCEPT ![r] = 0] /\ fresh' = [fresh EXCEPT ![r] = FALSE]
      /\ UNCHANGED <<now, latest, ordered, from, leaky, lbAllowed, clean>>
      /\ Finish(r, "error")
  BY DEF LBWriteLost
<1>2. Moves(r, "idle")
  BY <1>1, FinishMoves
<1>3. CallInv'
  BY <1>1, <1>2, MovesInv DEF Stages
<1>4. LBTypeOK
  BY DEF LeakyInv
<1>5. /\ newCount' \in [Callers -> Nat] /\ fresh' \in [Callers -> BOOLEAN]
      /\ newCount'[r] = 0 /\ ~fresh'[r]
      /\ \A x \in Callers \ {r} : newCount'[x] = newCount[x] /\ fresh'[x] = fresh[x]
  <2>1. /\ newCount' \in [Callers -> Nat] /\ newCount'[r] = 0
        /\ \A x \in Callers \ {r} : newCount'[x] = newCount[x]
    BY <1>1, <1>4 DEF LBTypeOK
  <2>2. /\ fresh' \in [Callers -> BOOLEAN] /\ ~fresh'[r]
        /\ \A x \in Callers \ {r} : fresh'[x] = fresh[x]
    BY <1>1, <1>4 DEF LBTypeOK
  <2>. QED BY <2>1, <2>2
<1>6. LBTypeOK'
  BY <1>1, <1>4, <1>5, Zenon DEF LBTypeOK
<1>7. \A x \in Callers : newCount'[x] <= Limit
  BY <1>5, ConstantTypes DEF LeakyInv
<1>8. Leaked'
  BY <1>1 DEF LeakyInv, Leaked
<1>9. ASSUME NEW x \in Callers PROVE RoomFor(x)'
  <2>1. CASE x = r
    BY <1>5, <2>1 DEF RoomFor
  <2>2. CASE x # r
    <3>1. RoomFor(x)
      BY DEF LeakyInv
    <3>2. stamp'[x] = stamp[x] /\ stage'[x] = stage[x] /\ newCount'[x] = newCount[x]
          /\ fresh'[x] = fresh[x]
      BY <1>2, <1>5, <2>2 DEF Moves
    <3>. QED BY <1>1, <3>1, <3>2, Zenon DEF RoomFor
  <2>. QED BY <2>1, <2>2
<1>. QED BY <1>1, <1>3, <1>6, <1>7, <1>8, <1>9 DEF LeakyInv

-----------------------------------------------------------------------------
(***************************************************************************)
(* The middleware around the strategy chosen.                              *)
(***************************************************************************)
LimiterInv ==
    /\ CallInv
    /\ FixedInv
    /\ SlidingInv
    /\ LeakyInv
    /\ strategy \in Strategies

LEMMA InitLimiterInv == Init => LimiterInv
BY InitCallInv, InitFixedInv, InitSlidingInv, InitLeakyInv DEF Init, LimiterInv

LEMMA TickKeeps ==
    ASSUME LimiterInv, Tick, UNCHANGED <<fwVars, swVars, lbVars, strategy>>
    PROVE  LimiterInv'
<1>1. now \in Int /\ now' = now + 1 /\ UNCHANGED <<stage, stamp, latest, ordered, from>>
  BY ConstantTypes DEF Tick, LimiterInv, CallInv, CallTypeOK
<1>2. now' \in Int /\ now' >= now
  BY <1>1
<1>3. CallInv'
  BY TickInv DEF LimiterInv
<1>4. FixedInv'
  BY <1>1, <1>2, FixedUntouched DEF LimiterInv
<1>5. SlidingInv'
  BY <1>1, SlidingUntouched DEF LimiterInv
<1>6. LeakyInv'
  BY <1>1, <1>2, LeakyUntouched DEF LimiterInv
<1>. QED BY <1>3, <1>4, <1>5, <1>6 DEF LimiterInv

LEMMA BeginKeeps ==
    ASSUME LimiterInv, NEW r \in Callers, Begin(r), UNCHANGED <<fwVars, swVars, lbVars, strategy>>
    PROVE  LimiterInv'
<1>1. /\ stage[r] = "idle" /\ stage'[r] = "sent" /\ UNCHANGED <<now, latest, ordered, from>>
      /\ now \in Int
  BY ConstantTypes DEF Begin, LimiterInv, CallInv, CallTypeOK
<1>2. now' \in Int /\ now' >= now
  BY <1>1
<1>3. CallInv' /\ \A x \in Callers \ {r} : stage'[x] = stage[x] /\ stamp'[x] = stamp[x]
  BY BeginMoves DEF LimiterInv
<1>4. FixedInv'
  BY <1>1, <1>2, <1>3, FixedUntouched DEF LimiterInv
<1>5. SlidingInv'
  BY <1>1, SlidingUntouched DEF LimiterInv
<1>6. LeakyInv'
  BY <1>1, <1>2, <1>3, LeakyUntouched DEF LimiterInv
<1>. QED BY <1>3, <1>4, <1>5, <1>6 DEF LimiterInv

LEMMA LostKeeps ==
    ASSUME LimiterInv, NEW r \in Callers, CommandLost(r)
    PROVE  LimiterInv'
<1>1. /\ stage[r] = "sent" /\ strategy # "leaky_bucket" /\ Finish(r, "error")
      /\ UNCHANGED <<now, latest, ordered, from>>
      /\ UNCHANGED <<fwVars, swVars, lbVars, strategy>> /\ now \in Int
  BY ConstantTypes DEF CommandLost, Lost, LimiterInv, CallInv, CallTypeOK
<1>2. now' \in Int /\ now' >= now
  BY <1>1
<1>3. Moves(r, "idle")
  BY <1>1, FinishMoves DEF LimiterInv
<1>4. CallInv'
  BY <1>1, <1>3, MovesInv DEF LimiterInv, Stages
<1>5. FixedInv'
  BY <1>1, <1>2, <1>3, FixedUntouched DEF LimiterInv, Moves
<1>6. SlidingInv'
  BY <1>1, SlidingUntouched DEF LimiterInv
<1>7. LeakyInv'
  BY <1>1, <1>2, LeakyUntouched DEF LimiterInv
<1>. QED BY <1>1, <1>4, <1>5, <1>6, <1>7 DEF LimiterInv

LEMMA FWStepKeeps ==
    ASSUME LimiterInv, NEW r \in Callers, strategy = "fixed_window", FWStep(r),
           UNCHANGED <<swVars, lbVars, strategy>>
    PROVE  LimiterInv'
<1>1. UNCHANGED <<now, latest, ordered, from>> /\ now \in Int
  BY ConstantTypes DEF FWStep, Incr, ExpireAt, CutPipeline, LimiterInv, CallInv, CallTypeOK
<1>2. now' \in Int /\ now' >= now
  BY <1>1
<1>3. FixedInv' /\ CallInv'
  BY IncrInv, ExpireAtInv, CutInv DEF FWStep, LimiterInv
<1>4. SlidingInv'
  BY <1>1, SlidingUntouched DEF LimiterInv
<1>5. LeakyInv'
  BY <1>1, <1>2, LeakyUntouched DEF LimiterInv
<1>. QED BY <1>3, <1>4, <1>5 DEF LimiterInv

LEMMA SWStepKeeps ==
    ASSUME LimiterInv, NEW r \in Callers, strategy # "fixed_window",
           strategy # "leaky_bucket", SWStep(r), UNCHANGED <<fwVars, lbVars, strategy>>
    PROVE  LimiterInv'
<1>1. UNCHANGED <<now, from>> /\ now \in Int
  BY ConstantTypes DEF SWStep, LimiterInv, CallInv, CallTypeOK
<1>2. now' \in Int /\ now' >= now
  BY <1>1
<1>3. SlidingInv' /\ CallInv'
  BY SlidingStep DEF LimiterInv
<1>4. FixedInv'
  BY <1>1, FixedIdle DEF LimiterInv
<1>5. LeakyInv'
  BY <1>1, <1>2, LeakyUntouched DEF LimiterInv
<1>. QED BY <1>3, <1>4, <1>5 DEF LimiterInv

LEMMA LBStepKeeps ==
    ASSUME LimiterInv, NEW r \in Callers, strategy = "leaky_bucket", LBStep(r),
           UNCHANGED <<fwVars, swVars, strategy>>
    PROVE  LimiterInv'
<1>1. UNCHANGED <<latest, ordered>>
  BY DEF LBStep, LBRead, LBWrite, LBWriteLost
<1>2. LeakyInv' /\ CallInv'
  BY ReadInv, WriteInv, WriteLostInv DEF LBStep, LimiterInv
<1>3. FixedInv'
  BY FixedIdle DEF LimiterInv
<1>4. SlidingInv'
  BY <1>1, SlidingUntouched DEF LimiterInv
<1>. QED BY <1>2, <1>3, <1>4 DEF LimiterInv

LEMMA NextLimiterInv == LimiterInv /\ [Next]_vars => LimiterInv'
<1>. SUFFICES ASSUME LimiterInv, [Next]_vars PROVE LimiterInv'
  OBVIOUS
<1>1. CASE Environment
  BY <1>1, TickKeeps, BeginKeeps DEF Environment
<1>2. ASSUME NEW r \in Callers, Allow(r) PROVE LimiterInv'
  <2>1. CASE strategy \in {"sliding_window", ""} /\ SWStep(r) /\ UNCHANGED <<fwVars, lbVars>>
             /\ UNCHANGED strategy
    <3>1. strategy # "fixed_window" /\ strategy # "leaky_bucket"
      BY <2>1, Zenon
    <3>. QED BY <2>1, <3>1, SWStepKeeps
  <2>. QED BY <1>2, <2>1, FWStepKeeps, LBStepKeeps, Zenon DEF Allow
<1>3. ASSUME NEW r \in Callers, CommandLost(r) PROVE LimiterInv'
  BY <1>3, LostKeeps
<1>4. CASE UNCHANGED vars
  <2>1. UNCHANGED callVars /\ UNCHANGED <<fwVars, swVars, lbVars, strategy>>
        /\ UNCHANGED <<now, stage, stamp, latest, ordered, from>>
    BY <1>4 DEF vars, callVars
  <2>2. now' \in Int /\ now' >= now
    BY <2>1, ConstantTypes DEF LimiterInv, CallInv, CallTypeOK
  <2>3. CallInv'
    BY <2>1, CallStutters DEF LimiterInv
  <2>4. FixedInv'
    BY <2>1, <2>2, FixedUntouched DEF LimiterInv
  <2>5. SlidingInv'
    BY <2>1, SlidingUntouched DEF LimiterInv
  <2>6. LeakyInv'
    BY <2>1, <2>2, LeakyUntouched DEF LimiterInv
  <2>. QED BY <2>1, <2>3, <2>4, <2>5, <2>6 DEF LimiterInv
<1>. QED BY <1>1, <1>2, <1>3, <1>4 DEF Next

LEMMA LimiterInvariant == Spec => []LimiterInv
BY InitLimiterInv, NextLimiterInv, PTL DEF Spec

-----------------------------------------------------------------------------
(***************************************************************************)
(* The calls, the clock, the keys of Redis and the counts in the process   *)
(* have their types in every strategy of NewStrategy (strategy.go).        *)
(***************************************************************************)
THEOREM LimiterTypes == Spec => []TypeOK
<1>1. LimiterInv => TypeOK
  BY DEF LimiterInv, CallInv, FixedInv, SlidingInv, LeakyInv, TypeOK
<1>. QED BY <1>1, LimiterInvariant, PTL

(***************************************************************************)
(* FixedWindowCounter.Allow (fixed_window.go) with a window of whole       *)
(* seconds grants at most its maximum in each window, though the INCR and  *)
(* EXPIREAT of its pipeline interleave with those of other callers, break  *)
(* between the two, and are sent again.                                    *)
(***************************************************************************)
THEOREM FixedWindowKeepsMax ==
    ASSUME WholeSeconds
    PROVE  Spec => []FWWindowBounded
<1>1. LimiterInv => FWWindowBounded
  BY ConstantTypes DEF LimiterInv, FixedInv, Accounted, FWWindowBounded
<1>. QED BY <1>1, LimiterInvariant, PTL

(***************************************************************************)
(* A counter of fixed_window.go without an expiry belongs to a pipeline    *)
(* that is under way, unless a connection broke inside a pipeline.         *)
(***************************************************************************)
THEOREM CountersExpire == Spec => []FWNoOrphanKey
<1>1. LimiterInv => FWNoOrphanKey
  BY DEF LimiterInv, FixedInv
<1>. QED BY <1>1, LimiterInvariant, PTL

(***************************************************************************)
(* SlidingWindowCounter.Allow (sliding_window.go) grants at most its       *)
(* maximum in every stretch of one window of whole milliseconds, when the  *)
(* transactions run in the order of their clocks and late by no more than  *)
(* the expiry of the set allows for.                                       *)
(***************************************************************************)
THEOREM SlidingWindowKeepsMax ==
    ASSUME EntriesOutliveDelays
    PROVE  Spec => []SWWindowBounded
<1>1. LimiterInv => SWWindowBounded
  BY DEF LimiterInv, SlidingInv, SWWindowBounded
<1>. QED BY <1>1, LimiterInvariant, PTL

(***************************************************************************)
(* LeakyBucketCounter.Allow (leaky_bucket.go) allows, since any moment, at *)
(* most a full bucket and what has leaked, as long as `clean` holds: every *)
(* write is of what was read last, that read succeeded, its bucket had not *)
(* expired between the call's look at the clock and the read, and times    *)
(* are written in their order.                                             *)
(***************************************************************************)
THEOREM LeakyBucketKeepsRate == Spec => []LBRateBounded
<1>1. ASSUME LimiterInv, clean
      PROVE  lbAllowed * LeakRate <= Limit * LeakRate + Greater(0, now - from)
  <2>1. /\ leaky.count \in 0 .. Limit /\ leaky.last \in Int /\ leaky.last <= now
        /\ lbAllowed \in Nat /\ from \in Int /\ now \in Int
        /\ LeakRate \in Nat /\ Limit \in Nat
    BY <1>1, LeakyFacts, RateFacts, ConstantTypes DEF LimiterInv
  <2>2. Greater(0, now - from) \in Nat /\ Greater(0, now - from) >= now - from
    BY <2>1 DEF Greater
  <2>3. Limit * LeakRate \in Nat /\ leaky.count * LeakRate \in Nat /\ lbAllowed * LeakRate \in Nat
    BY <2>1
  <2>4. CASE lbAllowed = 0
    <3>1. lbAllowed * LeakRate = 0
      BY <2>1, <2>4
    <3>. QED BY <2>2, <2>3, <3>1
  <2>5. CASE lbAllowed > 0
    <3>1. lbAllowed * LeakRate <= leaky.count * LeakRate + (leaky.last - from)
      BY <1>1, <2>5 DEF LimiterInv, LeakyInv, Leaked
    <3>2. leaky.count * LeakRate <= Limit * LeakRate
      BY <2>1, TimesMonotonic
    <3>. QED BY <2>1, <2>2, <2>3, <3>1, <3>2
  <2>. QED BY <2>1, <2>4, <2>5
<1>2. LimiterInv => LBRateBounded
  BY <1>1 DEF LBRateBounded
<1>. QED BY <1>2, LimiterInvariant, PTL

(***************************************************************************)
(* LeakyBucketCounter.Allow (leaky_bucket.go) turns a call away only when  *)
(* the last write of the bucket lies less than one leak interval back,     *)
(* whatever the interleaving of its two round trips with those of others.  *)
(***************************************************************************)
THEOREM LeakyBucketRejectsFull == Spec => LBRejectsOnlyAfterFill
<1>1. ASSUME LimiterInv, NEW r \in Callers, NEW ok \in BOOLEAN, LBRead(r, ok), stage'[r] = "idle"
      PROVE  stamp[r] - leaky.last < LeakRate
  <2>. DEFINE s == stamp[r]
              left == Drained(s, ReadCount(ok), ReadLast(ok, s))
  <2>1. left >= Limit
    <3>. SUFFICES ASSUME ~(left >= Limit) PROVE FALSE
      OBVIOUS
    <3>1. stage' = [stage EXCEPT ![r] = "half"]
      BY <1>1 DEF LBRead
    <3>. QED BY <1>1, <3>1 DEF LimiterInv, CallInv, CallTypeOK
  <2>2. s \in Int /\ leaky.last \in Int /\ leaky.count \in 0 .. Limit /\ Limit >= 1 /\ Limit \in Nat
    BY <1>1, LeakyFacts, ConstantTypes DEF LimiterInv
  <2>3. ok /\ now <= leaky.expires
    <3>. SUFFICES ASSUME ~(ok /\ now <= leaky.expires) PROVE FALSE
      OBVIOUS
    <3>1. ReadCount(ok) = 0 /\ ReadLast(ok, s) = s
      BY DEF ReadCount, ReadLast
    <3>2. left = 0
      BY <2>2, <3>1, DrainFacts
    <3>. QED BY <2>1, <2>2, <3>2
  <2>4. ReadCount(ok) = leaky.count /\ ReadLast(ok, s) = leaky.last
    BY <2>3 DEF ReadCount, ReadLast
  <2>. QED BY <2>1, <2>2, <2>4, DrainFacts
<1>2. LimiterInv =>
        [\A r \in Callers, ok \in BOOLEAN :
            LBRead(r, ok) /\ stage'[r] = "idle"
              => stamp[r] - leaky.last < LeakRate]_<<callVars, lbVars>>
  BY <1>1
<1>. QED BY <1>2, LimiterInvariant, PTL DEF LBRejectsOnlyAfterFill

\* The end of a call that Redis did not answer in time.
LEMMA LateServed ==
    ASSUME LimiterInv, [Next]_vars, NEW r \in Callers,
           stage[r] # "idle", stage'[r] = "idle", ~OnTime(r)
    PROVE  answer' = "served"
<1>. USE DEF LimiterInv
<1>1. stage \in [Callers -> Stages] /\ CallInv
  BY DEF CallInv, CallTypeOK
<1>2. ASSUME NEW x \in Callers, NEW to, x # r, Moves(x, to) PROVE FALSE
  BY <1>2 DEF Moves
<1>3. ASSUME Finish(r, "error") PROVE answer' = "served"
  BY <1>3 DEF Finish, Answer
<1>4. ASSUME NEW x \in Callers, Finish(x, "error") PROVE answer' = "served"
  BY <1>1, <1>2, <1>3, <1>4, FinishMoves
<1>5. ASSUME NEW x \in Callers, CommandLost(x) PROVE answer' = "served"
  BY <1>4, <1>5 DEF CommandLost, Lost
<1>6. ASSUME NEW x \in Callers, FWStep(x) PROVE answer' = "served"
  <2>1. ~Incr(x)
    <3>. SUFFICES ASSUME Incr(x) PROVE FALSE
      OBVIOUS
    <3>1. stage' = [stage EXCEPT ![x] = "half"]
      BY DEF Incr
    <3>. QED BY <1>1, <3>1
  <2>2. CASE ExpireAt(x)
    <3>1. x # r
      BY <2>2 DEF ExpireAt
    <3>2. PICK o \in {"allowed", "blocked", "error"} : Finish(x, o) \/ Resend(x, "sent")
      BY <2>2 DEF ExpireAt
    <3>. QED BY <1>1, <1>2, <3>1, <3>2, FinishMoves, ResendMoves
  <2>3. CASE CutPipeline(x)
    <3>1. Finish(x, "error") \/ Resend(x, "sent")
      BY <2>3 DEF CutPipeline
    <3>2. CASE Finish(x, "error")
      BY <1>4, <3>2
    <3>3. CASE Resend(x, "sent")
      BY <1>1, <3>3 DEF Resend
    <3>. QED BY <3>1, <3>2, <3>3
  <2>. QED BY <1>6, <2>1, <2>2, <2>3 DEF FWStep
<1>7. ASSUME NEW x \in Callers, SWStep(x) PROVE answer' = "served"
  <2>1. x # r
    BY <1>7 DEF SWStep
  <2>2. PICK o \in {"allowed", "blocked", "error"} : Finish(x, o) \/ Resend(x, "sent")
    BY <1>7 DEF SWStep, Reply
  <2>. QED BY <1>1, <1>2, <2>1, <2>2, FinishMoves, ResendMoves
<1>8. ASSUME NEW x \in Callers, LBStep(x) PROVE answer' = "served"
  <2>1. ASSUME NEW ok \in BOOLEAN, LBRead(x, ok) PROVE answer' = "served"
    <3>. DEFINE left == Drained(stamp[x], ReadCount(ok), ReadLast(ok, stamp[x]))
    <3>1. CASE left >= Limit
      <4>1. Finish(x, "blocked")
        BY <2>1, <3>1 DEF LBRead
      <4>2. x = r
        BY <1>1, <1>2, <4>1, FinishMoves
      <4>3. ~ok
        BY <2>1, <4>2 DEF LBRead
      <4>4. ReadCount(ok) = 0 /\ ReadLast(ok, stamp[x]) = stamp[x]
        BY <4>3 DEF ReadCount, ReadLast
      <4>5. stamp[x] \in Int /\ 0 \in 0 .. Limit /\ Limit \in Nat /\ Limit >= 1
        BY LeakyFacts, ConstantTypes
      <4>6. Drained(stamp[x], 0, stamp[x]) = 0
        BY <4>5, DrainFacts
      <4>7. left = 0
        BY <4>4, <4>6
      <4>. QED BY <3>1, <4>5, <4>7
    <3>2. CASE ~(left >= Limit)
      <4>1. stage' = [stage EXCEPT ![x] = "half"]
        BY <2>1, <3>2 DEF LBRead
      <4>. QED BY <1>1, <4>1
    <3>. QED BY <3>1, <3>2
  <2>2. CASE LBWrite(x)
    <3>1. x # r
      BY <2>2 DEF LBWrite
    <3>2. PICK o \in {"allowed", "blocked", "error"} : Finish(x, o) \/ Resend(x, "half")
      BY <2>2 DEF LBWrite
    <3>. QED BY <1>1, <1>2, <3>1, <3>2, FinishMoves, ResendMoves
  <2>3. CASE LBWriteLost(x)
    BY <1>4, <2>3 DEF LBWriteLost
  <2>. QED BY <1>8, <2>1, <2>2, <2>3 DEF LBStep
<1>9. ~Environment
  <2>1. ~Tick
    BY DEF Tick
  <2>2. ASSUME NEW x \in Callers, Begin(x) PROVE FALSE
    BY <1>1, <2>2 DEF Begin
  <2>. QED BY <2>1, <2>2 DEF Environment
<1>10. ~(UNCHANGED vars)
  BY DEF vars, callVars
<1>. QED BY <1>5, <1>6, <1>7, <1>8, <1>9, <1>10, Zenon DEF Next, Allow

(***************************************************************************)
(* The middleware of New (ratelimiter.go) serves a request whose command   *)
(* Redis does not run in time, in every strategy, at every round trip.     *)
(***************************************************************************)
THEOREM LateCallsServed == Spec => FailsOpen
<1>1. LimiterInv /\ [Next]_vars =>
        [\A r \in Callers :
            stage[r] # "idle" /\ stage'[r] = "idle" /\ ~OnTime(r)
              => answer' = "served"]_vars
  BY LateServed
<1>. QED BY <1>1, LimiterInvariant, PTL DEF Spec, FailsOpen
=============================================================================
