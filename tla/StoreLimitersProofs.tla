------------------------- MODULE StoreLimitersProofs -------------------------
(***************************************************************************)
(* The users of a Store over a MemoryStore, for any keys, limits, windows, *)
(* bounds and numbers of requests: the map implements the interface, and   *)
(* each user keeps its promise whatever calls fail and interleave.         *)
(***************************************************************************)
EXTENDS StoreLimiters, FiniteSetTheorems, TLAPS

LEMMA QuotaTypes ==
    /\ Len(Quotas) \in Nat \ {0} /\ DOMAIN Quotas = 1 .. Len(Quotas)
    /\ \A i \in 1 .. Len(Quotas) :
          /\ Quotas[i].key \in Keys /\ Quotas[i].limit \in Nat
          /\ Quotas[i].window \in Lifetimes /\ Quotas[i].window \in Nat
          /\ Quotas[i].key \in QuotaKeys
    /\ \A i, j \in 1 .. Len(Quotas) : Quotas[i].key = Quotas[j].key => i = j
<1>. DEFINE Q == [key : Keys, limit : Nat, window : Lifetimes]
<1>1. Quotas \in Seq(Q) /\ Quotas # <<>>
  BY QuotaAssumption
<1>. HIDE DEF Q
<1>2. /\ Len(Quotas) \in Nat \ {0} /\ DOMAIN Quotas = 1 .. Len(Quotas)
      /\ \A i \in 1 .. Len(Quotas) : Quotas[i] \in Q
  BY <1>1
<1>. USE DEF Q
<1>3. ASSUME NEW i \in 1 .. Len(Quotas)
      PROVE  /\ Quotas[i].key \in Keys /\ Quotas[i].limit \in Nat
             /\ Quotas[i].window \in Lifetimes /\ Quotas[i].window \in Nat
             /\ Quotas[i].key \in QuotaKeys
  <2>1. Quotas[i] \in Q
    BY <1>2
  <2>2. Quotas[i].window \in Nat
    BY <2>1, StoreAssumption
  <2>. QED BY <1>2, <2>1, <2>2 DEF QuotaKeys
<1>. QED BY <1>2, <1>3, QuotaAssumption

LEMMA ConstantTypes ==
    /\ Values \subseteq Int /\ Lifetimes \subseteq Nat
    /\ MaxClock \in Nat /\ MaxCount \in Nat
    /\ PriorityWindow \in Lifetimes
    /\ BurstWindow \in Lifetimes /\ BurstWindow \in Nat \ {0}
    /\ BurstKeys \subseteq Keys /\ PriorityKey \in Keys
    /\ QuotaKeys \subseteq Keys /\ OtherKeys \subseteq Keys
<1>1. QuotaKeys \subseteq Keys
  BY QuotaTypes DEF QuotaKeys
<1>2. BurstWindow \in Lifetimes /\ BurstWindow \in Nat \ {0}
  BY StoreAssumption, BurstCounterAssumption
<1>3. /\ Values \subseteq Int /\ Lifetimes \subseteq Nat
      /\ MaxClock \in Nat /\ MaxCount \in Nat
  BY StoreAssumption
<1>4. PriorityWindow \in Lifetimes
  BY PriorityAssumption
<1>5. BurstKeys \subseteq Keys /\ PriorityKey \in Keys /\ OtherKeys \subseteq Keys
  BY KeysAssumption
<1>. QED BY <1>1, <1>2, <1>3, <1>4, <1>5

-----------------------------------------------------------------------------
\* An entry is found when the map has it and its time is not over.
LEMMA Entries ==
    ASSUME MSTypeOK, NEW k \in Keys
    PROVE  /\ get(k) \in [value : Int, expiry : {-1} \cup Nat]
           /\ Found(k) <=> clock <= data[k].expiry
           /\ Found(k) => get(k) = data[k]
           /\ ~Found(k) => get(k) = Missing
BY DEF MSTypeOK, get, Found, Missing

\* What an operation leaves alone is found as before.
LEMMA Kept ==
    ASSUME NEW k \in Keys, clock' = clock, data'[k] = data[k]
    PROVE  get(k)' = get(k) /\ (Found(k)' <=> Found(k))
BY DEF get, Found

\* Time ends entries, and changes none.
LEMMA TickKeeps ==
    ASSUME MSTypeOK, MSTick
    PROVE  /\ MSTypeOK'
           /\ clock' = clock + 1 /\ data' = data
           /\ \A k \in Keys : Found(k)' => Found(k) /\ get(k)' = get(k)
<1>1. MSTypeOK' /\ clock' = clock + 1 /\ data' = data
  BY ConstantTypes DEF MSTypeOK, MSTick
<1>2. ASSUME NEW k \in Keys, Found(k)'
      PROVE  Found(k) /\ get(k)' = get(k)
  <2>1. clock \in Nat /\ data[k].expiry \in Int
    BY DEF MSTypeOK
  <2>. QED BY <1>1, <1>2, <2>1 DEF Found, get, Missing
<1>. QED BY <1>1, <1>2

\* An Increment counts on in a present entry, and makes a new one otherwise.
LEMMA IncrementCounts ==
    ASSUME MSTypeOK, NEW k \in Keys, NEW w \in Nat, Increment(k, w)
    PROVE  /\ MSTypeOK' /\ clock' = clock
           /\ Found(k)'
           /\ reply' = get(k)'.value
           /\ get(k)'.value = IF Found(k) THEN get(k).value + 1 ELSE 1
           /\ get(k)'.expiry = IF Found(k) THEN get(k).expiry ELSE clock + w
           /\ \A j \in Keys \ {k} : data'[j] = data[j]
<1>. DEFINE e == [(IF Found(k) THEN get(k) ELSE New(0, w))
                    EXCEPT !.value = @ + 1]
<1>1. /\ clock \in Nat
      /\ get(k) \in [value : Int, expiry : {-1} \cup Nat]
      /\ Found(k) => clock <= get(k).expiry
  BY Entries DEF MSTypeOK
<1>2. /\ e \in [value : Int, expiry : {-1} \cup Nat]
      /\ e.value = IF Found(k) THEN get(k).value + 1 ELSE 1
      /\ e.expiry = IF Found(k) THEN get(k).expiry ELSE clock + w
      /\ clock <= e.expiry
  BY <1>1 DEF New
<1>3. /\ clock' = clock /\ reply' = data'[k].value
      /\ data' = [data EXCEPT ![k] = e]
  BY DEF Increment, Put
<1>4. /\ data'[k] = e /\ MSTypeOK'
      /\ \A j \in Keys \ {k} : data'[j] = data[j]
  BY <1>2, <1>3 DEF MSTypeOK
<1>5. Found(k)' /\ get(k)' = e
  BY <1>1, <1>2, <1>3, <1>4 DEF Found, get, Missing
<1>. QED BY <1>2, <1>3, <1>4, <1>5

\* The other operations keep the state's type and the other keys' entries.
LEMMA OtherCalls ==
    ASSUME MSTypeOK, NEW k \in Keys, NEW w \in Nat, NEW v \in Int,
           Decrement(k) \/ Get(k) \/ Set(k, v, w) \/ SetNX(k, v, w)
             \/ TTL(k) \/ Delete(k)
    PROVE  /\ MSTypeOK' /\ clock' = clock
           /\ \A j \in Keys \ {k} : data'[j] = data[j]
<1>1. /\ clock \in Nat
      /\ get(k) \in [value : Int, expiry : {-1} \cup Nat]
  BY Entries DEF MSTypeOK
<1>2. PICK e \in [value : Int, expiry : {-1} \cup Nat] :
        data' = [data EXCEPT ![k] = e]
  BY <1>1 DEF Decrement, Get, Set, SetNX, TTL, Delete, Put, New, Missing
<1>3. clock' = clock
  BY DEF Decrement, Get, Set, SetNX, TTL, Delete
<1>4. reply' \in Int
  BY <1>1 DEF Decrement, Get, Set, SetNX, TTL, Delete
<1>. QED BY <1>2, <1>3, <1>4 DEF MSTypeOK

\* A Decrement lowers a present counter.
LEMMA DecrementLowers ==
    ASSUME MSTypeOK, NEW k \in Keys, Decrement(k)
    PROVE  /\ Found(k)' <=> Found(k)
           /\ Found(k) => get(k)'.value = get(k).value - 1
<1>. DEFINE e == IF Found(k) THEN [get(k) EXCEPT !.value = @ - 1] ELSE Missing
<1>1. /\ clock \in Nat
      /\ get(k) \in [value : Int, expiry : {-1} \cup Nat]
      /\ Found(k) => clock <= get(k).expiry
  BY Entries DEF MSTypeOK
<1>2. data'[k] = e /\ clock' = clock
  BY DEF Decrement, Put, MSTypeOK
<1>3. CASE Found(k)
  <2>1. e.value = get(k).value - 1 /\ e.expiry = get(k).expiry
    BY <1>1, <1>3
  <2>2. get(k)' = e /\ Found(k)'
    BY <1>1, <1>2, <1>3, <2>1 DEF get, Found, Missing
  <2>. QED BY <1>3, <2>1, <2>2
<1>4. CASE ~Found(k)
  BY <1>2, <1>4 DEF get, Found
<1>. QED BY <1>3, <1>4

\* A Get leaves every entry to be found as it was.
LEMMA GetKeeps ==
    ASSUME MSTypeOK, NEW k \in Keys, Get(k)
    PROVE  get(k)' = get(k) /\ (Found(k)' <=> Found(k))
<1>1. data'[k] = get(k) /\ clock' = clock
  BY DEF Get, Put, MSTypeOK
<1>. QED BY <1>1 DEF get, Found

-----------------------------------------------------------------------------
\* What QuotaExact says of one quota.
Exact(k, limit) ==
    /\ passed[k] <= limit
    /\ Found(k) =>
         /\ get(k).value = passed[k] + stray[k] + Cardinality(Undoing(k))
         /\ Undoing(k) # {} => passed[k] + stray[k] >= limit

\* Beside the exact counts: a request about to be undone was counted in a life
\* that has begun, so that in a new one there is none to undo.
QuotaInv ==
    /\ QMTypeOK
    /\ \A r \in Requests :
          stage[r] = "undoing" => countedIn[r] <= life[Quota(r).key]
    /\ \A k \in QuotaKeys : IsFiniteSet(Undoing(k))
    /\ ~crossed =>
          \A k \in QuotaKeys : \A i \in 1 .. Len(Quotas) :
             Quotas[i].key = k => Exact(k, Quotas[i].limit)

LEMMA QuotaInvMeans == QuotaInv => QuotaExact
BY QuotaTypes DEF QuotaInv, QuotaExact, Exact

\* A step that leaves the histories alone, that ends or keeps the counters,
\* and that starts or ends no undoing.
LEMMA QuotaQuiet ==
    ASSUME QuotaInv, QMTypeOK',
           UNCHANGED <<life, countedIn, passed, stray, crossed>>,
           \A r \in Requests :
              /\ stage'[r] = "undoing" <=> stage[r] = "undoing"
              /\ stage[r] = "undoing" => index'[r] = index[r],
           \A k \in QuotaKeys : Found(k)' => Found(k) /\ get(k)' = get(k)
    PROVE  QuotaInv'
<1>1. \A k \in QuotaKeys : Undoing(k)' = Undoing(k)
  BY DEF Undoing, Quota
<1>2. \A r \in Requests :
        stage'[r] = "undoing" => countedIn'[r] <= life'[Quota(r)'.key]
  BY DEF QuotaInv, Quota
<1>3. ASSUME ~crossed, NEW k \in QuotaKeys, NEW i \in 1 .. Len(Quotas),
             Quotas[i].key = k
      PROVE  Exact(k, Quotas[i].limit)'
  <2>1. Exact(k, Quotas[i].limit)
    BY <1>3 DEF QuotaInv
  <2>. QED BY <1>1, <2>1 DEF Exact
<1>. QED BY <1>1, <1>2, <1>3 DEF QuotaInv

\* One request moves on: it joins or leaves the requests about to be undone.
LEMMA UndoingMoves ==
    ASSUME QMTypeOK, NEW r \in Requests, NEW s \in QuotaStages,
           NEW i \in 1 .. Len(Quotas), Goto(r, s, i),
           NEW c \in Nat, countedIn'[r] = c,
           \A t \in Requests \ {r} : countedIn'[t] = countedIn[t],
           NEW j \in QuotaKeys, life'[j] = life[j]
    PROVE  Undoing(j)' = IF s = "undoing" /\ Quotas[i].key = j /\ c = life[j]
                         THEN Undoing(j) \cup {r} ELSE Undoing(j) \ {r}
<1>1. /\ stage'[r] = s /\ index'[r] = i /\ countedIn'[r] = c
      /\ \A t \in Requests \ {r} : /\ stage'[t] = stage[t]
                                   /\ index'[t] = index[t]
                                   /\ countedIn'[t] = countedIn[t]
  BY DEF Goto, QMTypeOK
<1>. QED BY <1>1 DEF Undoing, Quota

LEMMA UndoingInNewLife ==
    ASSUME QuotaInv, NEW r \in Requests, NEW s \in QuotaStages,
           NEW i \in 1 .. Len(Quotas), Goto(r, s, i),
           NEW c \in Nat, countedIn'[r] = c,
           \A t \in Requests \ {r} : countedIn'[t] = countedIn[t],
           NEW j \in QuotaKeys, life'[j] = life[j] + 1
    PROVE  Undoing(j)' = IF s = "undoing" /\ Quotas[i].key = j
                              /\ c = life[j] + 1
                         THEN {r} ELSE {}
<1>1. /\ stage'[r] = s /\ index'[r] = i /\ countedIn'[r] = c
      /\ \A t \in Requests \ {r} : /\ stage'[t] = stage[t]
                                   /\ index'[t] = index[t]
                                   /\ countedIn'[t] = countedIn[t]
  BY DEF Goto, QuotaInv, QMTypeOK
<1>2. \A t \in Requests \ {r} : t \notin Undoing(j)'
  <2>. SUFFICES ASSUME NEW t \in Requests \ {r}, stage[t] = "undoing",
                       Quota(t).key = j
                PROVE  countedIn[t] # life[j] + 1
    BY <1>1 DEF Undoing, Quota
  <2>1. countedIn[t] <= life[j] /\ countedIn[t] \in Nat /\ life[j] \in Nat
    BY DEF QuotaInv, QMTypeOK
  <2>. QED BY <2>1
<1>. QED BY <1>1, <1>2 DEF Undoing, Quota
\* The request r, at the n-th quota with the key k, is counted there: as one to
\* undo, one that passed (p = 1), or one that a failure leaves counted (f = 1).
CountedAs(r, n, k, s, i, c, p, f) ==
    /\ stage[r] = "checking"
    /\ index[r] = n
    /\ Quotas[n].key = k
    /\ Increment(k, Quotas[n].window)
    /\ Goto(r, s, i)
    /\ life' = [life EXCEPT ![k] = CountingLife(k)]
    /\ countedIn' = [countedIn EXCEPT ![r] = c]
    /\ passed' = [passed EXCEPT ![k] = InLife(k, passed) + p]
    /\ stray' = [stray EXCEPT ![k] = InLife(k, stray) + f]
    /\ crossed' = crossed
    /\ p + f = IF s = "undoing" THEN 0 ELSE 1
    /\ s = "undoing" => /\ i = n /\ c = CountingLife(k)
                        /\ reply' > Quotas[n].limit
    /\ p = 1 => reply' <= Quotas[n].limit

LEMMA Counted ==
    ASSUME QuotaInv, MSTypeOK,
           NEW r \in Requests, NEW n \in 1 .. Len(Quotas), NEW k \in QuotaKeys,
           NEW s \in QuotaStages, NEW i \in 1 .. Len(Quotas), NEW c \in Nat,
           NEW p \in 0 .. 1, NEW f \in 0 .. 1,
           CountedAs(r, n, k, s, i, c, p, f)
    PROVE  QuotaInv'
<1>. DEFINE q == Quotas[n]
<1>1. k \in Keys /\ q.limit \in Nat /\ q.window \in Nat /\ q.key = k
  BY QuotaTypes DEF CountedAs
<1>0. /\ QMTypeOK /\ countedIn'[r] = c
      /\ \A t \in Requests \ {r} : countedIn'[t] = countedIn[t]
  BY DEF QuotaInv, QMTypeOK, CountedAs
<1>2. /\ life[k] \in Nat /\ passed[k] \in Nat /\ stray[k] \in Nat
      /\ IsFiniteSet(Undoing(k)) /\ Cardinality(Undoing(k)) \in Nat
  BY <1>1, FS_CardinalityType DEF QuotaInv, QMTypeOK
<1>3. /\ Found(k)' /\ reply' = get(k)'.value /\ clock' = clock
      /\ get(k)'.value = IF Found(k) THEN get(k).value + 1 ELSE 1
      /\ \A j \in Keys \ {k} : data'[j] = data[j]
  BY <1>1, IncrementCounts DEF CountedAs
<1>4. /\ life'[k] = IF Found(k) THEN life[k] ELSE life[k] + 1
      /\ passed'[k] = (IF Found(k) THEN passed[k] ELSE 0) + p
      /\ stray'[k] = (IF Found(k) THEN stray[k] ELSE 0) + f
      /\ \A j \in QuotaKeys \ {k} : /\ life'[j] = life[j]
                                    /\ passed'[j] = passed[j]
                                    /\ stray'[j] = stray[j]
  BY <1>1 DEF QuotaInv, QMTypeOK, CountingLife, InLife, CountedAs
<1>5. QMTypeOK'
  <2>1. /\ stage' \in [Requests -> QuotaStages]
        /\ index' \in [Requests -> 1 .. Len(Quotas)]
        /\ countedIn' \in [Requests -> Nat]
    BY DEF QuotaInv, QMTypeOK, Goto, CountedAs
  <2>2. /\ CountingLife(k) \in Nat
        /\ InLife(k, passed) + p \in Nat /\ InLife(k, stray) + f \in Nat
    <3>1. p \in Nat /\ f \in Nat
      OBVIOUS
    <3>2. CountingLife(k) \in Nat
      BY <1>2 DEF CountingLife
    <3>3. InLife(k, passed) \in Nat /\ InLife(k, stray) \in Nat
      BY <1>2 DEF InLife
    <3>. QED BY <3>1, <3>2, <3>3
  <2>3. /\ life' \in [QuotaKeys -> Nat] /\ passed' \in [QuotaKeys -> Nat]
        /\ stray' \in [QuotaKeys -> Nat]
    BY <2>2 DEF QuotaInv, QMTypeOK, CountedAs
  <2>4. crossed' \in BOOLEAN
    BY Zenon DEF QuotaInv, QMTypeOK, CountedAs
  <2>. QED BY <2>1, <2>3, <2>4 DEF QMTypeOK
<1>6. r \notin Undoing(k)
  BY DEF Undoing, CountedAs
<1>7. Undoing(k)' = IF s = "undoing"
                    THEN (IF Found(k) THEN Undoing(k) ELSE {}) \cup {r}
                    ELSE (IF Found(k) THEN Undoing(k) ELSE {})
  <2>1. CASE Found(k)
    <3>1. Undoing(k)' = IF s = "undoing" /\ Quotas[i].key = k /\ c = life[k]
                        THEN Undoing(k) \cup {r} ELSE Undoing(k) \ {r}
      BY <1>0, <1>1, <1>4, <2>1, UndoingMoves DEF CountedAs
    <3>. QED BY <2>1, <3>1, <1>6 DEF Quota, CountingLife, CountedAs
  <2>2. CASE ~Found(k)
    <3>1. Undoing(k)' = IF s = "undoing" /\ Quotas[i].key = k
                             /\ c = life[k] + 1
                        THEN {r} ELSE {}
      BY <1>0, <1>1, <1>4, <2>2, UndoingInNewLife DEF CountedAs
    <3>. QED BY <2>2, <3>1 DEF Quota, CountingLife, CountedAs
  <2>. QED BY <2>1, <2>2
<1>8. ASSUME NEW j \in QuotaKeys \ {k}
      PROVE  Undoing(j)' = Undoing(j)
  <2>1. Undoing(j)' = IF s = "undoing" /\ Quotas[i].key = j /\ c = life[j]
                      THEN Undoing(j) \cup {r} ELSE Undoing(j) \ {r}
    BY <1>0, <1>4, UndoingMoves DEF CountedAs
  <2>2. r \notin Undoing(j)
    BY DEF Undoing, CountedAs
  <2>. QED BY <2>1, <2>2 DEF Quota, CountedAs
<1>9. /\ IsFiniteSet(Undoing(k)')
      /\ Cardinality(Undoing(k)')
           = (IF Found(k) THEN Cardinality(Undoing(k)) ELSE 0)
               + (IF s = "undoing" THEN 1 ELSE 0)
  <2>1. IsFiniteSet({}) /\ Cardinality({}) = 0
    BY FS_EmptySet
  <2>2. /\ IsFiniteSet(Undoing(k) \cup {r})
        /\ Cardinality(Undoing(k) \cup {r}) = Cardinality(Undoing(k)) + 1
    BY <1>2, <1>6, FS_AddElement
  <2>3. IsFiniteSet({} \cup {r}) /\ Cardinality({} \cup {r}) = 0 + 1
    BY <2>1, FS_AddElement
  <2>4. CASE s = "undoing"
    BY <1>2, <1>7, <2>1, <2>2, <2>3, <2>4
  <2>5. CASE s # "undoing"
    BY <1>2, <1>7, <2>1, <2>5
  <2>. QED BY <2>4, <2>5
<1>10. ASSUME NEW t \in Requests, stage'[t] = "undoing"
       PROVE  countedIn'[t] <= life'[Quota(t)'.key]
  <2>1. CASE t = r
    BY <1>1, <1>2, <1>4, <1>10, <2>1
       DEF Goto, QuotaInv, QMTypeOK, Quota, CountingLife, CountedAs
  <2>2. CASE t # r
    <3>1. /\ stage[t] = "undoing" /\ Quota(t)' = Quota(t)
          /\ countedIn'[t] = countedIn[t]
      BY <1>10, <2>2 DEF Goto, QuotaInv, QMTypeOK, Quota, CountedAs
    <3>2. Quota(t).key \in QuotaKeys
      BY QuotaTypes DEF QuotaInv, QMTypeOK, Quota
    <3>3. countedIn[t] <= life[Quota(t).key] /\ countedIn[t] \in Nat
          /\ life[Quota(t).key] \in Nat
      BY <3>1, <3>2 DEF QuotaInv, QMTypeOK
    <3>4. \/ life'[Quota(t).key] = life[Quota(t).key]
          \/ life'[Quota(t).key] = life[Quota(t).key] + 1
      BY <3>2, <1>4
    <3>. QED BY <3>1, <3>3, <3>4
  <2>. QED BY <2>1, <2>2
<1>11. ASSUME ~crossed, NEW j \in QuotaKeys, NEW m \in 1 .. Len(Quotas),
              Quotas[m].key = j
       PROVE  Exact(j, Quotas[m].limit)'
  <2>1. Exact(j, Quotas[m].limit) /\ j \in Keys
    BY <1>11, QuotaTypes DEF QuotaInv
  <2>2. CASE j # k
    <3>1. get(j)' = get(j) /\ (Found(j)' <=> Found(j))
      BY <1>3, <2>1, <2>2, Kept
    <3>. QED BY <1>4, <1>8, <2>1, <2>2, <3>1 DEF Exact
  <2>3. CASE j = k
    <3>. SUFFICES Exact(k, q.limit)'
      BY <1>1, <1>11, <2>3, QuotaTypes
    <3>2. Exact(k, q.limit)
      BY <1>1, <1>11 DEF QuotaInv
    <3>3. Found(k) /\ Undoing(k) = {} => Cardinality(Undoing(k)) = 0
      BY FS_EmptySet
    <3>4. CASE s = "undoing"
      <4>1. p = 0 /\ f = 0 /\ reply' > q.limit
        BY <3>4 DEF CountedAs
      <4>2. CASE Found(k)
        <5>1. passed'[k] = passed[k] /\ stray'[k] = stray[k]
          BY <1>2, <1>4, <4>1, <4>2
        <5>2. /\ get(k)'.value = get(k).value + 1
              /\ Cardinality(Undoing(k)') = Cardinality(Undoing(k)) + 1
          BY <1>2, <1>3, <1>9, <3>4, <4>2
        <5>3. /\ passed[k] <= q.limit
              /\ get(k).value = passed[k] + stray[k] + Cardinality(Undoing(k))
              /\ Undoing(k) # {} => passed[k] + stray[k] >= q.limit
          BY <3>2, <4>2 DEF Exact
        <5>4. passed[k] + stray[k] >= q.limit
          BY <1>1, <1>2, <1>3, <3>3, <4>1, <4>2, <5>2, <5>3
        <5>5. get(k)'.value
                = passed'[k] + stray'[k] + Cardinality(Undoing(k)')
          <6>. DEFINE a == passed[k]
                      b == stray[k]
                      d == Cardinality(Undoing(k))
          <6>1. a \in Nat /\ b \in Nat /\ d \in Nat
            BY <1>2
          <6>. HIDE DEF a, b, d
          <6>2. (a + b + d) + 1 = a + b + (d + 1)
            BY <6>1
          <6>. QED BY <5>1, <5>2, <5>3, <6>2 DEF a, b, d
        <5>. QED BY <5>1, <5>3, <5>4, <5>5 DEF Exact
      <4>3. CASE ~Found(k)
        <5>1. passed'[k] = 0 /\ stray'[k] = 0
          BY <1>4, <4>1, <4>3
        <5>2. get(k)'.value = 1 /\ Cardinality(Undoing(k)') = 1
          BY <1>3, <1>9, <3>4, <4>3
        <5>3. 0 >= q.limit /\ 0 <= q.limit
          BY <1>1, <1>3, <4>1, <4>3
        <5>. QED BY <5>1, <5>2, <5>3 DEF Exact
      <4>. QED BY <4>2, <4>3
    <3>5. CASE s # "undoing"
      <4>1. \/ p = 1 /\ f = 0 /\ reply' <= q.limit
            \/ p = 0 /\ f = 1
        BY <3>5 DEF CountedAs
      <4>2. CASE Found(k)
        <5>1. passed'[k] = passed[k] + p /\ stray'[k] = stray[k] + f
          BY <1>4, <4>2
        <5>2. /\ get(k)'.value = get(k).value + 1
              /\ Undoing(k)' = Undoing(k)
          BY <1>3, <1>7, <3>5, <4>2
        <5>3. /\ passed[k] <= q.limit
              /\ get(k).value = passed[k] + stray[k] + Cardinality(Undoing(k))
              /\ Undoing(k) # {} => passed[k] + stray[k] >= q.limit
          BY <3>2, <4>2 DEF Exact
        <5>. DEFINE a == passed[k]
                    b == stray[k]
                    d == Cardinality(Undoing(k))
        <5>4. a \in Nat /\ b \in Nat /\ d \in Nat
          BY <1>2
        <5>5. (a + b + d) + 1 <= q.limit \/ p = 0
          BY <1>3, <4>1, <4>2, <5>2, <5>3
        <5>. HIDE DEF a, b, d
        <5>6. a <= q.limit
          BY <5>3 DEF a
        <5>7. a + p <= q.limit
          BY <1>1, <4>1, <5>4, <5>5, <5>6
        <5>8. (a + b + d) + 1 = (a + p) + (b + f) + d
          <6>1. (p = 1 /\ f = 0) \/ (p = 0 /\ f = 1)
            BY <4>1
          <6>. QED BY <5>4, <6>1
        <5>9. a + b >= q.limit => (a + p) + (b + f) >= q.limit
          BY <1>1, <4>1, <5>4
        <5>. QED
          BY <5>1, <5>2, <5>3, <5>7, <5>8, <5>9 DEF Exact, a, b, d
      <4>3. CASE ~Found(k)
        BY <1>1, <1>2, <1>3, <1>4, <1>7, <1>9, <3>2, <3>5, <4>1, <4>3
           DEF Exact
      <4>. QED BY <4>2, <4>3
    <3>. QED BY <3>4, <3>5
  <2>. QED BY <2>2, <2>3
<1>12. \A j \in QuotaKeys : IsFiniteSet(Undoing(j)')
  BY <1>8, <1>9 DEF QuotaInv
<1>. QED BY <1>5, <1>10, <1>11, <1>12 DEF QuotaInv, CountedAs

\* The request leaves those about to be undone: its count was taken back, or,
\* where that failed, stays.
LEMMA Undone ==
    ASSUME QuotaInv, MSTypeOK, NEW r \in Requests, Undo(r) \/ UndoFails(r)
    PROVE  QuotaInv' /\ MSTypeOK'
<1>1. PICK n \in 1 .. Len(Quotas) : index[r] = n
  BY DEF QuotaInv, QMTypeOK
<1>2. PICK k \in QuotaKeys : Quotas[n].key = k
  BY QuotaTypes
<1>3. k \in Keys /\ Quotas[n].limit \in Nat
  BY <1>2, QuotaTypes
<1>4. /\ stage[r] = "undoing" /\ Goto(r, "idle", 1)
      /\ UNCHANGED <<life, passed>>
      /\ countedIn' = [countedIn EXCEPT ![r] = 0]
  BY DEF Undo, UndoFails
<1>5. /\ Undo(r) =>
           /\ Decrement(k) /\ UNCHANGED stray
           /\ crossed' = (crossed \/ (Found(k) /\ life[k] # countedIn[r]))
      /\ UndoFails(r) =>
           /\ UNCHANGED msVars /\ UNCHANGED crossed
           /\ stray' = IF life[k] = countedIn[r]
                       THEN [stray EXCEPT ![k] = @ + 1] ELSE stray
  BY <1>1, <1>2 DEF Undo, UndoFails, Quota, NotExecuted
<1>6. /\ MSTypeOK'
      /\ \A j \in QuotaKeys \ {k} :
            get(j)' = get(j) /\ (Found(j)' <=> Found(j))
  <2>1. CASE Decrement(k)
    <3>1. /\ MSTypeOK' /\ clock' = clock
          /\ \A j \in Keys \ {k} : data'[j] = data[j]
      BY <1>3, <2>1, OtherCalls
    <3>2. \A j \in QuotaKeys : j \in Keys
      BY ConstantTypes
    <3>. QED BY <3>1, <3>2, Kept
  <2>2. CASE UNCHANGED msVars
    BY <2>2 DEF msVars, MSTypeOK, get, Found
  <2>. QED BY <1>5, <2>1, <2>2
<1>7. /\ life[k] \in Nat /\ passed[k] \in Nat /\ stray[k] \in Nat
      /\ IsFiniteSet(Undoing(k)) /\ Cardinality(Undoing(k)) \in Nat
  BY FS_CardinalityType DEF QuotaInv, QMTypeOK
<1>8. QMTypeOK'
  <2>1. 1 \in 1 .. Len(Quotas)
    BY QuotaTypes
  <2>2. /\ stage' \in [Requests -> QuotaStages]
        /\ index' \in [Requests -> 1 .. Len(Quotas)]
        /\ countedIn' \in [Requests -> Nat]
    BY <1>4, <2>1 DEF QuotaInv, QMTypeOK, Goto, QuotaStages
  <2>3. stray' \in [QuotaKeys -> Nat]
    <3>1. CASE stray' = stray
      BY <3>1 DEF QuotaInv, QMTypeOK
    <3>2. CASE stray' = [stray EXCEPT ![k] = @ + 1]
      BY <1>7, <3>2 DEF QuotaInv, QMTypeOK
    <3>. QED BY <1>5, <3>1, <3>2
  <2>4. crossed' \in BOOLEAN
    BY <1>5, Zenon DEF QuotaInv, QMTypeOK
  <2>. QED BY <1>4, <2>2, <2>3, <2>4 DEF QuotaInv, QMTypeOK
<1>9. ASSUME NEW j \in QuotaKeys
      PROVE  Undoing(j)' = Undoing(j) \ {r}
  <2>1. /\ 1 \in 1 .. Len(Quotas) /\ "idle" \in QuotaStages
        /\ QMTypeOK /\ countedIn'[r] = 0
        /\ \A t \in Requests \ {r} : countedIn'[t] = countedIn[t]
    BY <1>4, QuotaTypes DEF QuotaInv, QMTypeOK, QuotaStages
  <2>. QED BY <1>4, <2>1, UndoingMoves
<1>10. r \in Undoing(k) <=> countedIn[r] = life[k]
  BY <1>1, <1>2, <1>4 DEF Undoing, Quota
<1>11. ASSUME NEW j \in QuotaKeys \ {k}
       PROVE  Undoing(j)' = Undoing(j)
  BY <1>1, <1>2, <1>9 DEF Undoing, Quota
<1>12. /\ IsFiniteSet(Undoing(k)')
       /\ countedIn[r] = life[k] =>
            Cardinality(Undoing(k)') = Cardinality(Undoing(k)) - 1
       /\ countedIn[r] # life[k] => Undoing(k)' = Undoing(k)
  <2>1. Undoing(k)' = Undoing(k) \ {r}
    BY <1>9
  <2>2. /\ IsFiniteSet(Undoing(k) \ {r})
        /\ r \in Undoing(k) =>
             Cardinality(Undoing(k) \ {r}) = Cardinality(Undoing(k)) - 1
    BY <1>7, FS_RemoveElement
  <2>. QED BY <1>10, <2>1, <2>2
<1>13. ASSUME NEW t \in Requests, stage'[t] = "undoing"
       PROVE  countedIn'[t] <= life'[Quota(t)'.key]
  <2>1. t # r
    BY <1>4, <1>13 DEF QuotaInv, QMTypeOK, Goto
  <2>. QED BY <1>4, <1>13, <2>1 DEF QuotaInv, QMTypeOK, Goto, Quota
<1>14. ASSUME ~crossed', NEW j \in QuotaKeys, NEW m \in 1 .. Len(Quotas),
              Quotas[m].key = j
       PROVE  Exact(j, Quotas[m].limit)'
  <2>1. ~crossed
    BY <1>5, <1>14
  <2>2. Exact(j, Quotas[m].limit)
    BY <1>14, <2>1 DEF QuotaInv
  <2>3. CASE j # k
    BY <1>4, <1>5, <1>6, <1>11, <2>2, <2>3 DEF Exact, QuotaInv, QMTypeOK
  <2>4. CASE j = k
    <3>. SUFFICES Exact(k, Quotas[n].limit)'
      BY <1>2, <1>14, <2>4, QuotaTypes
    <3>1. Exact(k, Quotas[n].limit)
      BY <1>2, <2>1 DEF QuotaInv
    <3>. DEFINE a == passed[k]
                b == stray[k]
                d == Cardinality(Undoing(k))
    <3>2. a \in Nat /\ b \in Nat /\ d \in Nat
      BY <1>7
    <3>3. CASE ~Found(k)'
      BY <1>4, <3>1, <3>3 DEF Exact
    <3>4. CASE Undo(r) /\ Found(k)'
      <4>1. Found(k) /\ get(k)'.value = get(k).value - 1
        BY <1>3, <1>5, <3>4, DecrementLowers
      <4>2. life[k] = countedIn[r]
        BY <1>5, <1>14, <3>4, <4>1
      <4>3. /\ Cardinality(Undoing(k)') = d - 1 /\ Undoing(k) # {}
            /\ passed'[k] = a /\ stray'[k] = b
        BY <1>4, <1>5, <1>10, <1>12, <3>4, <4>2
      <4>4. a <= Quotas[n].limit /\ get(k).value = a + b + d
            /\ a + b >= Quotas[n].limit
        BY <3>1, <4>1, <4>3 DEF Exact
      <4>. HIDE DEF a, b, d
      <4>5. (a + b + d) - 1 = a + b + (d - 1)
        BY <3>2
      <4>. QED BY <4>1, <4>3, <4>4, <4>5 DEF Exact
    <3>5. CASE UndoFails(r) /\ Found(k)'
      <4>1. Found(k) /\ get(k)' = get(k) /\ passed'[k] = a
        BY <1>4, <1>5, <3>5 DEF msVars, get, Found
      <4>2. /\ a <= Quotas[n].limit /\ get(k).value = a + b + d
            /\ Undoing(k) # {} => a + b >= Quotas[n].limit
        BY <3>1, <4>1 DEF Exact
      <4>3. CASE life[k] = countedIn[r]
        <5>1. /\ Cardinality(Undoing(k)') = d - 1 /\ Undoing(k) # {}
              /\ stray'[k] = b + 1
          BY <1>5, <1>10, <1>12, <3>5, <4>3 DEF QuotaInv, QMTypeOK
        <5>. HIDE DEF a, b, d
        <5>2. /\ a + b + d = a + (b + 1) + (d - 1)
              /\ a + b >= Quotas[n].limit => a + (b + 1) >= Quotas[n].limit
          BY <1>3, <3>2
        <5>3. get(k)'.value = a + (b + 1) + (d - 1)
          BY <4>1, <4>2, <5>2
        <5>4. a <= Quotas[n].limit /\ a + (b + 1) >= Quotas[n].limit
          BY <4>2, <5>1, <5>2
        <5>. QED BY <4>1, <5>1, <5>3, <5>4 DEF Exact
      <4>4. CASE life[k] # countedIn[r]
        <5>1. stray'[k] = b /\ Undoing(k)' = Undoing(k)
          BY <1>5, <1>12, <3>5, <4>4
        <5>. QED BY <4>1, <4>2, <5>1 DEF Exact
      <4>. QED BY <4>3, <4>4
    <3>. QED BY <3>3, <3>4, <3>5
  <2>. QED BY <2>3, <2>4
<1>15. \A j \in QuotaKeys : IsFiniteSet(Undoing(j)')
  BY <1>11, <1>12 DEF QuotaInv
<1>. QED BY <1>6, <1>8, <1>13, <1>14, <1>15 DEF QuotaInv

\* Where the request goes next is a place in the list of quotas.
LEMMA NextPlace ==
    ASSUME QMTypeOK, NEW r \in Requests
    PROVE  /\ 1 \in 1 .. Len(Quotas)
           /\ ~LastQuota(r) => index[r] + 1 \in 1 .. Len(Quotas)
BY QuotaTypes DEF QMTypeOK, LastQuota

LEMMA QuotaStepInv ==
    ASSUME QuotaInv, MSTypeOK, NEW r \in Requests, QMStep(r)
    PROVE  QuotaInv' /\ MSTypeOK'
<1>1. /\ QMTypeOK
      /\ "idle" \in QuotaStages /\ "checking" \in QuotaStages
      /\ "undoing" \in QuotaStages /\ "reporting" \in QuotaStages
  BY DEF QuotaInv, QuotaStages
<1>2. PICK n \in 1 .. Len(Quotas) : index[r] = n
  BY <1>1 DEF QMTypeOK
<1>3. PICK k \in QuotaKeys : Quotas[n].key = k
  BY QuotaTypes
<1>4. /\ k \in Keys /\ Quotas[n].limit \in Nat /\ Quotas[n].window \in Nat
      /\ Quota(r) = Quotas[n] /\ Quota(r).key = k
  BY <1>2, <1>3, QuotaTypes DEF Quota
<1>5. /\ CountingLife(k) \in Nat
      /\ InLife(k, passed) \in Nat /\ InLife(k, stray) \in Nat
      /\ InLife(k, passed) = InLife(k, passed) + 0
      /\ InLife(k, stray) = InLife(k, stray) + 0
  <2>1. /\ CountingLife(k) \in Nat
        /\ InLife(k, passed) \in Nat /\ InLife(k, stray) \in Nat
    BY <1>1 DEF CountingLife, InLife, QMTypeOK
  <2>. QED BY <2>1
<1>6. CASE Arrive(r)
  <2>1. QMTypeOK'
    BY <1>1, <1>6, NextPlace DEF Arrive, Goto, QMTypeOK
  <2>2. /\ UNCHANGED <<life, countedIn, passed, stray, crossed>>
        /\ \A t \in Requests :
              /\ stage'[t] = "undoing" <=> stage[t] = "undoing"
              /\ stage[t] = "undoing" => index'[t] = index[t]
    BY <1>1, <1>6 DEF Arrive, Goto, QMTypeOK
  <2>3. /\ MSTypeOK'
        /\ \A j \in QuotaKeys : Found(j)' => Found(j) /\ get(j)' = get(j)
    BY <1>6 DEF Arrive, msVars, MSTypeOK, get, Found
  <2>. QED BY <2>1, <2>2, <2>3, QuotaQuiet
<1>7. CASE Check(r)
  <2>1. /\ Increment(k, Quotas[n].window) /\ stage[r] = "checking"
        /\ UNCHANGED crossed
        /\ life' = [life EXCEPT ![k] = CountingLife(k)]
        /\ stray' = [stray EXCEPT ![k] = InLife(k, stray)]
    BY <1>4, <1>7 DEF Check
  <2>2. MSTypeOK' /\ reply' \in Int
    BY <1>4, <2>1, IncrementCounts DEF MSTypeOK
  <2>3. stray' = [stray EXCEPT ![k] = InLife(k, stray) + 0]
    BY <1>5, <2>1, Zenon
  <2>4. CASE Exceeded(reply', Quotas[n])
    <3>1. /\ Goto(r, "undoing", n)
          /\ countedIn' = [countedIn EXCEPT ![r] = CountingLife(k)]
          /\ passed' = [passed EXCEPT ![k] = InLife(k, passed)]
      BY <1>2, <1>4, <1>7, <2>4 DEF Check
    <3>2. passed' = [passed EXCEPT ![k] = InLife(k, passed) + 0]
      BY <1>5, <3>1, Zenon
    <3>3. PICK c \in Nat : c = CountingLife(k)
      BY <1>5
    <3>4. 0 + 0 = 0 /\ 0 # 1
      OBVIOUS
    <3>5. CountedAs(r, n, k, "undoing", n, c, 0, 0)
      BY <1>2, <1>3, <2>1, <2>3, <2>4, <3>1, <3>2, <3>3, <3>4, Zenon
         DEF CountedAs, Exceeded
    <3>. QED BY <1>1, <2>2, <3>5, Counted
  <2>5. CASE ~Exceeded(reply', Quotas[n])
    <3>1. /\ IF LastQuota(r) THEN Goto(r, "reporting", 1)
                             ELSE Goto(r, "checking", n + 1)
          /\ countedIn' = countedIn
          /\ passed' = [passed EXCEPT ![k] = InLife(k, passed) + 1]
      BY <1>2, <1>4, <1>7, <2>5 DEF Check
    <3>2. PICK i \in 1 .. Len(Quotas), s \in {"reporting", "checking"} :
            Goto(r, s, i)
      BY <1>1, <1>2, <3>1, NextPlace
    <3>3. PICK c \in Nat : c = countedIn[r]
      BY <1>1 DEF QMTypeOK
    <3>4. countedIn' = [countedIn EXCEPT ![r] = c]
      BY <1>1, <3>1, <3>3 DEF QMTypeOK
    <3>5. reply' <= Quotas[n].limit
      BY <1>4, <2>2, <2>5 DEF Exceeded
    <3>6. 1 + 0 = 1 /\ s # "undoing"
      OBVIOUS
    <3>7. CountedAs(r, n, k, s, i, c, 1, 0)
      BY <1>2, <1>3, <2>1, <2>3, <3>1, <3>2, <3>4, <3>5, <3>6, Zenon
         DEF CountedAs
    <3>. QED BY <1>1, <2>2, <3>2, <3>7, Counted
  <2>. QED BY <2>4, <2>5
<1>8. CASE CheckFails(r)
  <2>1. /\ stage[r] = "checking" /\ Goto(r, "idle", 1)
        /\ UNCHANGED <<countedIn, crossed>>
    BY <1>8 DEF CheckFails
  <2>2. CASE NotExecuted /\ UNCHANGED <<life, passed, stray>>
    <3>1. QMTypeOK'
      BY <1>1, <2>1, <2>2, NextPlace DEF Goto, QMTypeOK
    <3>2. \A t \in Requests :
             /\ stage'[t] = "undoing" <=> stage[t] = "undoing"
             /\ stage[t] = "undoing" => index'[t] = index[t]
      BY <1>1, <2>1 DEF Goto, QMTypeOK
    <3>3. /\ MSTypeOK'
          /\ \A j \in QuotaKeys : Found(j)' => Found(j) /\ get(j)' = get(j)
      BY <2>2 DEF NotExecuted, msVars, MSTypeOK, get, Found
    <3>. QED BY <2>1, <2>2, <3>1, <3>2, <3>3, QuotaQuiet
  <2>3. CASE IncrementedUnheard(Quota(r).key, Quota(r).window)
             /\ life' = [life EXCEPT
                           ![Quota(r).key] = CountingLife(Quota(r).key)]
             /\ passed' = [passed EXCEPT
                           ![Quota(r).key] = InLife(Quota(r).key, passed)]
             /\ stray' = [stray EXCEPT
                           ![Quota(r).key] = InLife(Quota(r).key, stray) + 1]
    <3>1. /\ Increment(k, Quotas[n].window)
          /\ life' = [life EXCEPT ![k] = CountingLife(k)]
          /\ passed' = [passed EXCEPT ![k] = InLife(k, passed)]
          /\ stray' = [stray EXCEPT ![k] = InLife(k, stray) + 1]
      BY <1>4, <2>3 DEF IncrementedUnheard
    <3>2. MSTypeOK'
      BY <1>4, <3>1, IncrementCounts
    <3>3. passed' = [passed EXCEPT ![k] = InLife(k, passed) + 0]
      BY <1>5, <3>1, Zenon
    <3>4. PICK c \in Nat : c = countedIn[r]
      BY <1>1 DEF QMTypeOK
    <3>5. countedIn' = [countedIn EXCEPT ![r] = c]
      BY <1>1, <2>1, <3>4 DEF QMTypeOK
    <3>6. 0 + 1 = 1 /\ 0 # 1 /\ "idle" # "undoing"
      OBVIOUS
    <3>7. CountedAs(r, n, k, "idle", 1, c, 0, 1)
      BY <1>2, <1>3, <2>1, <3>1, <3>3, <3>5, <3>6, Zenon DEF CountedAs
    <3>. QED BY <1>1, <3>2, <3>7, NextPlace, Counted
  <2>. QED BY <1>8, <2>2, <2>3 DEF CheckFails
<1>9. CASE Undo(r) \/ UndoFails(r)
  BY <1>9, Undone
<1>10. CASE Report(r)
  <2>1. QMTypeOK'
    BY <1>1, <1>10, NextPlace DEF Report, Goto, QMTypeOK
  <2>2. /\ UNCHANGED <<life, countedIn, passed, stray, crossed>>
        /\ \A t \in Requests :
              /\ stage'[t] = "undoing" <=> stage[t] = "undoing"
              /\ stage[t] = "undoing" => index'[t] = index[t]
    BY <1>1, <1>10 DEF Report, Goto, QMTypeOK
  <2>3. /\ MSTypeOK'
        /\ \A j \in QuotaKeys : Found(j)' => Found(j) /\ get(j)' = get(j)
    <3>1. CASE Get(k)
      <4>1. /\ MSTypeOK' /\ clock' = clock
            /\ \A j \in Keys \ {k} : data'[j] = data[j]
        BY <1>4, <3>1, OtherCalls
      <4>2. get(k)' = get(k) /\ (Found(k)' <=> Found(k))
        BY <1>4, <3>1, GetKeeps
      <4>3. \A j \in QuotaKeys : j \in Keys
        BY ConstantTypes
      <4>. QED BY <4>1, <4>2, <4>3, Kept
    <3>2. CASE NotExecuted
      BY <3>2 DEF NotExecuted, msVars, MSTypeOK, get, Found
    <3>. QED BY <1>4, <1>10, <3>1, <3>2 DEF Report
  <2>. QED BY <2>1, <2>2, <2>3, QuotaQuiet
<1>. QED BY <1>6, <1>7, <1>8, <1>9, <1>10 DEF QMStep

\* Whatever else uses the store, or time, does not spoil the quotas' counts.
LEMMA QuotaUndisturbed ==
    ASSUME QuotaInv, UNCHANGED qmVars,
           \A k \in QuotaKeys : Found(k)' => Found(k) /\ get(k)' = get(k)
    PROVE  QuotaInv'
<1>1. QMTypeOK'
  BY DEF QuotaInv, QMTypeOK, qmVars
<1>2. UNCHANGED <<stage, index, life, countedIn, passed, stray, crossed>>
  BY DEF qmVars
<1>. QED BY <1>1, <1>2, QuotaQuiet

LEMMA InitQuotaInv == MSInit /\ QMInit => QuotaInv
<1>. SUFFICES ASSUME MSInit, QMInit PROVE QuotaInv
  OBVIOUS
<1>1. QMTypeOK
  <2>1. crossed \in BOOLEAN
    BY Zenon DEF QMInit
  <2>2. 1 \in 1 .. Len(Quotas)
    BY QuotaTypes
  <2>. QED BY <2>1, <2>2 DEF QMInit, QMTypeOK, QuotaStages
<1>2. \A k \in QuotaKeys : Undoing(k) = {}
  BY DEF Undoing, QMInit
<1>3. \A k \in QuotaKeys : ~Found(k)
  BY ConstantTypes DEF Found, get, MSInit, Missing
<1>4. ASSUME NEW k \in QuotaKeys, NEW i \in 1 .. Len(Quotas), Quotas[i].key = k
      PROVE  Exact(k, Quotas[i].limit)
  BY <1>3, QuotaTypes DEF Exact, QMInit
<1>. QED BY <1>1, <1>2, <1>4, FS_EmptySet DEF QuotaInv, QMInit

-----------------------------------------------------------------------------
\* A window starts no later than the moments that belong to it.
LEMMA WindowStarts ==
    ASSUME NEW s \in Nat
    PROVE  WindowOf(s) \in Nat /\ WindowOf(s) <= s
<1>1. BurstWindow \in Nat \ {0}
  BY ConstantTypes
<1>. DEFINE q == s \div BurstWindow
<1>2. q \in Nat /\ q * BurstWindow <= s
  BY <1>1
<1>3. q * BurstWindow \in Nat
  BY <1>1, <1>2
<1>. QED BY <1>2, <1>3 DEF WindowOf

\* A multiple of b, divided by b.
LEMMA DivMultiple ==
    ASSUME NEW b \in Nat \ {0}, NEW x \in Int
    PROVE  (b * x) \div b = x
OBVIOUS

\* Windows of whole seconds have keys of their own.
LEMMA WindowKeysDiffer ==
    ASSUME NEW s \in Nat, NEW t \in Nat, windowKey(s) = windowKey(t)
    PROVE  WindowOf(s) = WindowOf(t)
<1>1. /\ BurstWindow \in Nat \ {0} /\ BurstSecond \in Nat \ {0}
      /\ BurstWindow % BurstSecond = 0
  BY ConstantTypes, BurstCounterAssumption
<1>2. PICK m \in Nat : BurstWindow = BurstSecond * m
  <2>1. BurstWindow = BurstSecond * (BurstWindow \div BurstSecond)
    BY <1>1
  <2>2. BurstWindow \div BurstSecond \in Nat
    BY <1>1
  <2>. QED BY <2>1, <2>2
<1>3. ASSUME NEW u \in Nat
      PROVE  BurstSecond * (WindowOf(u) \div BurstSecond) = WindowOf(u)
  <2>. DEFINE q == u \div BurstWindow
  <2>1. q \in Nat /\ WindowOf(u) = q * BurstWindow
    BY <1>1 DEF WindowOf
  <2>. HIDE DEF q
  <2>2. WindowOf(u) = BurstSecond * (q * m)
    BY <1>1, <1>2, <2>1
  <2>3. q * m \in Int
    BY <1>2, <2>1
  <2>. QED BY <1>1, <2>2, <2>3, DivMultiple
<1>4. WindowOf(s) \div BurstSecond = WindowOf(t) \div BurstSecond
  BY DEF windowKey
<1>. QED BY <1>3, <1>4

KeyOf(w) == <<"burst", w \div BurstSecond>>

LEMMA WindowTypes ==
    /\ \A s \in 0 .. MaxClock :
          /\ WindowOf(s) \in Windows /\ windowKey(s) \in BurstKeys
          /\ windowKey(s) = KeyOf(WindowOf(s))
          /\ WindowOf(s) <= s
    /\ \A w \in Windows : w \in Nat /\ KeyOf(w) \in BurstKeys
    /\ \A v, w \in Windows : KeyOf(v) = KeyOf(w) => v = w
    /\ BurstKeys \subseteq Keys /\ effectiveLimit \in Nat
<1>1. MaxClock \in Nat /\ BurstKeys \subseteq Keys /\ effectiveLimit \in Nat
  BY ConstantTypes, BurstCounterAssumption DEF effectiveLimit
<1>2. ASSUME NEW s \in 0 .. MaxClock
      PROVE  /\ WindowOf(s) \in Windows /\ windowKey(s) \in BurstKeys
             /\ windowKey(s) = KeyOf(WindowOf(s))
             /\ WindowOf(s) <= s
  BY <1>1, WindowStarts DEF Windows, BurstKeys, windowKey, KeyOf
<1>3. \A w \in Windows : \E s \in 0 .. MaxClock : w = WindowOf(s)
  BY DEF Windows
<1>4. ASSUME NEW w \in Windows
      PROVE  w \in Nat /\ KeyOf(w) \in BurstKeys
  BY <1>1, <1>2, <1>3, WindowStarts
<1>5. ASSUME NEW v \in Windows, NEW w \in Windows, KeyOf(v) = KeyOf(w)
      PROVE  v = w
  <2>1. PICK s \in 0 .. MaxClock, t \in 0 .. MaxClock :
          v = WindowOf(s) /\ w = WindowOf(t)
    BY <1>3
  <2>2. windowKey(s) = windowKey(t)
    BY <1>2, <1>5, <2>1
  <2>. QED BY <1>1, <2>1, <2>2, WindowKeysDiffer
<1>. QED BY <1>1, <1>2, <1>4, <1>5

\* The counter of a window: until the window ends it has one life, which began
\* in the window and outlives it, and in which every call that passed counted;
\* in any life it counts no more than was spent, until that is the limit.
Share(w, k) ==
    /\ clock < w + BurstWindow =>
         IF Found(k) THEN /\ inTime[w] <= get(k).value
                          /\ w + BurstWindow <= get(k).expiry
                     ELSE inTime[w] = 0
    /\ Found(k) => get(k).value <= spent[w] \/ spent[w] >= effectiveLimit
    /\ inTime[w] <= effectiveLimit
    /\ w \in turnedAway => spent[w] >= effectiveLimit

BurstInv ==
    /\ BUTypeOK
    /\ \A r \in Requests : asked[r] <= clock
    /\ \A w \in Windows : \A k \in BurstKeys : KeyOf(w) = k => Share(w, k)

LEMMA BurstInvMeans == BurstInv => BurstExact
BY WindowTypes DEF BurstInv, BurstExact, Share

\* A call is counted in its window: it passes in time (p = 1), is spent
\* (f = 1), or is turned away.
SpentAs(r, w, k, p, f) ==
    /\ asked[r] # NotAsked /\ WindowOf(asked[r]) = w
    /\ Increment(k, BurstWindow)
    /\ asked' = [asked EXCEPT ![r] = NotAsked]
    /\ inTime' = [inTime EXCEPT ![w] = @ + p]
    /\ spent' = [spent EXCEPT ![w] = @ + f]
    /\ turnedAway' = IF f = 1 THEN turnedAway ELSE turnedAway \cup {w}
    /\ p = 1 => /\ f = 1 /\ clock < w + BurstWindow
                /\ reply' <= effectiveLimit
    /\ f = 0 => reply' > effectiveLimit

LEMMA SpentInv ==
    ASSUME BurstInv, MSTypeOK, NEW r \in Requests, NEW w \in Windows,
           NEW k \in BurstKeys, KeyOf(w) = k,
           NEW p \in 0 .. 1, NEW f \in 0 .. 1, SpentAs(r, w, k, p, f)
    PROVE  BurstInv' /\ MSTypeOK'
<1>1. /\ k \in Keys /\ effectiveLimit \in Nat /\ w \in Nat
      /\ BurstWindow \in Nat \ {0}
  BY WindowTypes, ConstantTypes
<1>2. /\ MSTypeOK' /\ clock' = clock /\ Found(k)'
      /\ reply' = get(k)'.value
      /\ get(k)'.value = IF Found(k) THEN get(k).value + 1 ELSE 1
      /\ get(k)'.expiry = IF Found(k) THEN get(k).expiry
                                      ELSE clock + BurstWindow
      /\ \A j \in Keys \ {k} : data'[j] = data[j]
  BY <1>1, IncrementCounts DEF SpentAs
<1>3. /\ inTime[w] \in Nat /\ spent[w] \in Nat
      /\ inTime'[w] = inTime[w] + p /\ spent'[w] = spent[w] + f
      /\ w \in turnedAway' <=> w \in turnedAway \/ f = 0
  BY DEF BurstInv, BUTypeOK, SpentAs
<1>4. BUTypeOK'
  <2>1. inTime[w] + p \in Nat /\ spent[w] + f \in Nat
    BY <1>3
  <2>. QED BY <2>1 DEF BurstInv, BUTypeOK, SpentAs
<1>5. \A q \in Requests : asked'[q] <= clock'
  <2>1. clock \in Nat
    BY DEF MSTypeOK
  <2>. QED BY <1>2, <2>1 DEF BurstInv, BUTypeOK, SpentAs, NotAsked
<1>6. w <= clock /\ clock \in Nat
  <2>1. asked[r] \in 0 .. MaxClock /\ asked[r] <= clock /\ clock \in Nat
    BY DEF BurstInv, BUTypeOK, SpentAs, MSTypeOK
  <2>2. w <= asked[r]
    BY <2>1, WindowTypes DEF SpentAs
  <2>. QED BY <1>1, <2>1, <2>2
<1>7. ASSUME NEW v \in Windows, NEW j \in BurstKeys, KeyOf(v) = j
      PROVE  Share(v, j)'
  <2>1. CASE j # k
    <3>1. /\ v # w /\ Share(v, j) /\ j \in Keys
      BY <1>7, <2>1, WindowTypes DEF BurstInv
    <3>2. get(j)' = get(j) /\ (Found(j)' <=> Found(j))
      BY <1>2, <2>1, <3>1, Kept
    <3>3. /\ inTime'[v] = inTime[v] /\ spent'[v] = spent[v]
          /\ v \in turnedAway' <=> v \in turnedAway
      BY <3>1 DEF BurstInv, BUTypeOK, SpentAs
    <3>. QED BY <1>2, <3>1, <3>2, <3>3 DEF Share
  <2>2. CASE j = k
    <3>. SUFFICES Share(w, k)'
      BY <1>7, <2>2, WindowTypes
    <3>1. Share(w, k)
      BY DEF BurstInv
    <3>2. f = 0 => reply' > effectiveLimit
      BY DEF SpentAs
    <3>3. p = 1 => clock < w + BurstWindow /\ reply' <= effectiveLimit
      BY DEF SpentAs
    <3>4. Found(k) => get(k).value \in Int
      BY <1>1, Entries
    <3>5. clock < w + BurstWindow =>
            /\ inTime'[w] <= get(k)'.value
            /\ w + BurstWindow <= get(k)'.expiry
      <4>1. CASE Found(k)
        BY <1>1, <1>2, <1>3, <1>6, <3>1, <3>4, <4>1 DEF Share
      <4>2. CASE ~Found(k)
        BY <1>1, <1>2, <1>3, <1>6, <3>1, <4>2 DEF Share
      <4>. QED BY <4>1, <4>2
    <3>6. get(k)'.value <= spent'[w] \/ spent'[w] >= effectiveLimit
      <4>1. CASE Found(k)
        BY <1>1, <1>2, <1>3, <3>1, <3>2, <3>4, <4>1 DEF Share
      <4>2. CASE ~Found(k)
        BY <1>1, <1>2, <1>3, <3>2, <4>2
      <4>. QED BY <4>1, <4>2
    <3>7. inTime'[w] <= effectiveLimit
      <4>1. CASE p = 1
        <5>1. inTime'[w] <= get(k)'.value /\ get(k)'.value <= effectiveLimit
          BY <1>2, <3>3, <3>5, <4>1
        <5>2. get(k)'.value \in Int /\ inTime'[w] \in Int
          BY <1>2, <1>3, <3>4
        <5>. QED BY <1>1, <5>1, <5>2
      <4>2. CASE p = 0
        BY <1>3, <3>1, <4>2 DEF Share
      <4>. QED BY <4>1, <4>2
    <3>8. w \in turnedAway' => spent'[w] >= effectiveLimit
      <4>1. CASE w \in turnedAway
        BY <1>1, <1>3, <3>1, <4>1 DEF Share
      <4>2. CASE w \notin turnedAway /\ f = 0
        <5>1. get(k)'.value > effectiveLimit
          BY <1>2, <3>2, <4>2
        <5>2. spent'[w] = spent[w] /\ spent[w] \in Nat
          BY <1>3, <4>2
        <5>3. get(k)'.value \in Int
          BY <1>2, <3>4
        <5>. QED BY <1>1, <1>2, <3>1, <3>4, <5>1, <5>2, <5>3 DEF Share
      <4>. QED BY <1>3, <4>1, <4>2
    <3>. QED BY <1>2, <3>5, <3>6, <3>7, <3>8 DEF Share
  <2>. QED BY <2>1, <2>2
<1>. QED BY <1>2, <1>4, <1>5, <1>7 DEF BurstInv

\* The numbers of a call that passed late, and of one that was turned away.
LEMMA ZeroOne == 0 # 1
OBVIOUS

LEMMA BurstStepInv ==
    ASSUME BurstInv, MSTypeOK, NEW r \in Requests, BUStep(r)
    PROVE  BurstInv' /\ MSTypeOK'
<1>1. BUTypeOK /\ NotAsked = -1 /\ clock \in 0 .. MaxClock
  BY DEF BurstInv, NotAsked, MSTypeOK
<1>2. CASE Ask(r)
  <2>1. /\ BUTypeOK' /\ MSTypeOK' /\ clock' = clock
        /\ \A q \in Requests : asked'[q] <= clock'
    BY <1>1, <1>2 DEF Ask, BurstInv, BUTypeOK, msVars, MSTypeOK
  <2>2. \A w \in Windows : \A k \in BurstKeys : Share(w, k)' <=> Share(w, k)
    BY <1>2 DEF Ask, msVars, Share, get, Found
  <2>. QED BY <2>1, <2>2 DEF BurstInv
<1>3. CASE asked[r] # NotAsked /\ (Decide(r) \/ BurstError(r))
  <2>1. PICK s \in 0 .. MaxClock : asked[r] = s
    BY <1>1, <1>3 DEF BUTypeOK
  <2>2. PICK w \in Windows, k \in BurstKeys :
          w = WindowOf(s) /\ k = windowKey(s) /\ KeyOf(w) = k
    BY WindowTypes
  <2>3. /\ inTime[w] \in Nat /\ spent[w] \in Nat
        /\ inTime = [inTime EXCEPT ![w] = @ + 0]
        /\ spent = [spent EXCEPT ![w] = @ + 0]
    BY <1>1 DEF BUTypeOK
  <2>4. CASE Decide(r)
    <3>1. /\ Increment(k, BurstWindow)
          /\ asked' = [asked EXCEPT ![r] = NotAsked]
      BY <2>1, <2>2, <2>4 DEF Decide
    <3>2. CASE reply' <= effectiveLimit
      <4>1. /\ spent' = [spent EXCEPT ![w] = @ + 1]
            /\ inTime' = IF clock < w + BurstWindow
                         THEN [inTime EXCEPT ![w] = @ + 1] ELSE inTime
            /\ turnedAway' = turnedAway
        BY <2>1, <2>2, <2>4, <3>2 DEF Decide, Within
      <4>2. CASE clock < w + BurstWindow
        <5>1. SpentAs(r, w, k, 1, 1)
          BY <1>3, <2>1, <2>2, <3>1, <3>2, <4>1, <4>2 DEF SpentAs
        <5>. QED BY <2>2, <5>1, SpentInv
      <4>3. CASE ~(clock < w + BurstWindow)
        <5>1. inTime' = [inTime EXCEPT ![w] = @ + 0]
          BY <2>3, <4>1, <4>3, Zenon
        <5>2. SpentAs(r, w, k, 0, 1)
          BY <1>3, <2>1, <2>2, <3>1, <4>1, <5>1, ZeroOne, Zenon DEF SpentAs
        <5>. QED BY <2>2, <5>2, SpentInv
      <4>. QED BY <4>2, <4>3
    <3>3. CASE ~(reply' <= effectiveLimit)
      <4>1. /\ turnedAway' = turnedAway \cup {w}
            /\ inTime' = inTime /\ spent' = spent
        BY <2>1, <2>2, <2>4, <3>3 DEF Decide, Within
      <4>2. reply' > effectiveLimit
        <5>1. k \in Keys /\ BurstWindow \in Nat /\ effectiveLimit \in Int
          BY ConstantTypes, WindowTypes
        <5>2. reply' \in Int
          BY <3>1, <5>1, IncrementCounts DEF MSTypeOK
        <5>. QED BY <3>3, <5>1, <5>2
      <4>3. /\ inTime' = [inTime EXCEPT ![w] = @ + 0]
            /\ spent' = [spent EXCEPT ![w] = @ + 0]
        BY <2>3, <4>1, Zenon
      <4>4. SpentAs(r, w, k, 0, 0)
        BY <1>3, <2>1, <2>2, <3>1, <4>1, <4>2, <4>3, ZeroOne, Zenon
             DEF SpentAs
      <4>. QED BY <2>2, <4>4, SpentInv
    <3>. QED BY <3>2, <3>3
  <2>5. CASE BurstError(r)
    <3>1. /\ asked' = [asked EXCEPT ![r] = NotAsked]
          /\ inTime' = inTime /\ turnedAway' = turnedAway
      BY <2>5 DEF BurstError
    <3>2. CASE NotExecuted /\ UNCHANGED spent
      <4>1. /\ BUTypeOK' /\ MSTypeOK' /\ clock' = clock
            /\ \A q \in Requests : asked'[q] <= clock'
        BY <1>1, <3>1, <3>2
           DEF NotExecuted, BurstInv, BUTypeOK, msVars, MSTypeOK
      <4>2. \A v \in Windows : \A j \in BurstKeys :
              Share(v, j)' <=> Share(v, j)
        BY <3>1, <3>2 DEF NotExecuted, msVars, Share, get, Found
      <4>. QED BY <4>1, <4>2 DEF BurstInv
    <3>3. CASE /\ IncrementedUnheard(k, BurstWindow)
               /\ spent' = [spent EXCEPT ![w] = @ + 1]
      <4>1. inTime' = [inTime EXCEPT ![w] = @ + 0]
        BY <2>3, <3>1, Zenon
      <4>2. SpentAs(r, w, k, 0, 1)
        BY <1>3, <2>1, <2>2, <3>1, <3>3, <4>1, ZeroOne, Zenon
             DEF SpentAs, IncrementedUnheard
      <4>. QED BY <2>2, <4>2, SpentInv
    <3>. QED BY <2>1, <2>2, <2>5, <3>2, <3>3 DEF BurstError
  <2>. QED BY <1>3, <2>4, <2>5
<1>. QED BY <1>2, <1>3 DEF BUStep, Decide, BurstError

\* The end of a counter comes after that of its window.
LEMMA BurstTick ==
    ASSUME BurstInv, MSTypeOK, MSTick, UNCHANGED buVars
    PROVE  BurstInv'
<1>1. /\ clock' = clock + 1 /\ data' = data /\ clock \in Nat
      /\ \A k \in Keys : Found(k)' => Found(k) /\ get(k)' = get(k)
  BY TickKeeps DEF MSTypeOK
<1>2. BUTypeOK' /\ \A r \in Requests : asked'[r] <= clock'
  BY <1>1 DEF BurstInv, BUTypeOK, buVars, NotAsked
<1>3. ASSUME NEW w \in Windows, NEW k \in BurstKeys, KeyOf(w) = k
      PROVE  Share(w, k)'
  <2>1. /\ k \in Keys /\ w \in Nat /\ BurstWindow \in Nat
        /\ Share(w, k)
        /\ inTime' = inTime /\ spent' = spent /\ turnedAway' = turnedAway
    BY <1>3, ConstantTypes, WindowTypes DEF BurstInv, buVars
  <2>2. CASE Found(k) /\ clock' < w + BurstWindow
    <3>1. /\ get(k) = data[k] /\ data[k].expiry \in Int
          /\ w + BurstWindow <= get(k).expiry
      BY <1>1, <2>1, <2>2, Entries DEF Share, MSTypeOK
    <3>2. Found(k)'
      BY <1>1, <2>1, <2>2, <3>1 DEF Found, get, Missing
    <3>. QED BY <1>1, <2>1, <2>2, <3>2 DEF Share
  <2>3. CASE ~(Found(k) /\ clock' < w + BurstWindow)
    BY <1>1, <2>1, <2>3 DEF Share
  <2>. QED BY <2>2, <2>3
<1>. QED BY <1>2, <1>3 DEF BurstInv

\* Calls of other keys do not touch the windows' counters.
LEMMA BurstUndisturbed ==
    ASSUME BurstInv, UNCHANGED buVars, clock' = clock,
           \A k \in BurstKeys : get(k)' = get(k) /\ (Found(k)' <=> Found(k))
    PROVE  BurstInv'
<1>1. BUTypeOK' /\ \A r \in Requests : asked'[r] <= clock'
  BY DEF BurstInv, BUTypeOK, buVars
<1>2. \A w \in Windows : \A k \in BurstKeys : Share(w, k)' <=> Share(w, k)
  BY DEF Share, buVars
<1>. QED BY <1>1, <1>2 DEF BurstInv

LEMMA InitBurstInv == MSInit /\ BUInit => BurstInv
<1>. SUFFICES ASSUME MSInit, BUInit PROVE BurstInv
  OBVIOUS
<1>1. BUTypeOK /\ \A r \in Requests : asked[r] <= clock
  BY DEF BUInit, BUTypeOK, MSInit, NotAsked
<1>2. \A k \in BurstKeys : ~Found(k)
  BY ConstantTypes DEF Found, get, MSInit, Missing
<1>3. \A w \in Windows : \A k \in BurstKeys : Share(w, k)
  BY <1>2, WindowTypes DEF Share, BUInit
<1>. QED BY <1>1, <1>3 DEF BurstInv

-----------------------------------------------------------------------------
\* A percentage, rounded down.
LEMMA Percent ==
    ASSUME NEW n \in Int, NEW c \in Nat
    PROVE  /\ (n * c) \div 100 \in Int
           /\ 100 * ((n * c) \div 100) <= n * c
           /\ n * c < 100 * ((n * c) \div 100) + 100
           /\ n >= 0 /\ c <= 100 => (n * c) \div 100 <= n
           /\ n >= 0 /\ c >= 100 => (n * c) \div 100 >= n
           /\ n <= 0 => (n * c) \div 100 <= 0
<1>. DEFINE x == n * c
<1>1. x \in Int
  OBVIOUS
<1>2. /\ n >= 0 /\ c <= 100 => x <= 100 * n
      /\ n >= 0 /\ c >= 100 => x >= 100 * n
      /\ n <= 0 => x <= 0
  OBVIOUS
<1>. HIDE DEF x
<1>3. /\ x \div 100 \in Int /\ 100 * (x \div 100) <= x
      /\ x < 100 * (x \div 100) + 100
  BY <1>1
<1>4. /\ n >= 0 /\ c <= 100 => x \div 100 <= n
      /\ n >= 0 /\ c >= 100 => x \div 100 >= n
      /\ n <= 0 => x \div 100 <= 0
  BY <1>1, <1>2, <1>3
<1>. QED BY <1>1, <1>3, <1>4 DEF x

LEMMA PriorityTypes ==
    /\ Priorities \subseteq Int /\ PriorityLimit \in Int
    /\ HighPercent \in Nat /\ HighPercent >= 100
    /\ LowPercent \in Nat /\ LowPercent <= 100
    /\ PriorityKey \in Keys /\ PriorityWindow \in Nat
<1>1. Priorities \subseteq Int
  BY PriorityAssumption
     DEF Priorities, defaultPriorityKeyFunc, PriorityNormal
<1>. QED BY <1>1, ConstantTypes, PriorityAssumption

\* A higher priority has no lower limit, and no limit is below one.
LEMMA Tiers ==
    /\ \A p \in Priorities : EffectiveLimit(p) \in Nat /\ EffectiveLimit(p) >= 1
    /\ \A p, q \in Priorities : p <= q => EffectiveLimit(p) <= EffectiveLimit(q)
<1>. DEFINE high == (PriorityLimit * HighPercent) \div 100
            low == (PriorityLimit * LowPercent) \div 100
<1>1. /\ high \in Int /\ low \in Int /\ PriorityLimit \in Int
      /\ PriorityLimit >= 0 => low <= PriorityLimit /\ PriorityLimit <= high
      /\ PriorityLimit <= 0 => low <= 0 /\ high <= 0
  BY Percent, PriorityTypes
<1>2. ASSUME NEW p \in Priorities
      PROVE  Scaled(p) = IF p >= 10 THEN high
                         ELSE IF p <= 1 THEN low ELSE PriorityLimit
  <2>1. p \in Int
    BY PriorityTypes
  <2>. HIDE DEF high, low
  <2>2. CASE p >= 10
    BY <2>1, <2>2 DEF Scaled, PriorityHigh, PriorityLow, high, low
  <2>3. CASE p <= 1
    BY <2>1, <2>3 DEF Scaled, PriorityHigh, PriorityLow, high, low
  <2>4. CASE ~(p >= 10) /\ ~(p <= 1)
    BY <2>1, <2>4 DEF Scaled, PriorityHigh, PriorityLow
  <2>. QED BY <2>1, <2>2, <2>3, <2>4
<1>. HIDE DEF high, low
<1>. QED BY <1>1, <1>2, PriorityTypes DEF EffectiveLimit

\* The counter holds what its life has counted; no priority passed more often
\* than that, nor than its limit, and a refused one found its limit used up.
PriorityInv ==
    /\ PRTypeOK
    /\ Found(PriorityKey) => get(PriorityKey).value = counted
    /\ \A p \in Priorities :
          passedBy[p] <= counted /\ passedBy[p] <= EffectiveLimit(p)
    /\ \A p \in refusedBy : counted > EffectiveLimit(p)

LEMMA PriorityInvMeans == PriorityInv => TiersRespected
<1>. SUFFICES ASSUME PriorityInv, NEW p \in Priorities, p \in refusedBy
              PROVE  /\ counted > 1
                     /\ 100 * counted > PriorityLimit *
                          (IF p >= PriorityHigh THEN HighPercent
                           ELSE IF p <= PriorityLow THEN LowPercent ELSE 100)
  BY DEF TiersRespected, PriorityInv
<1>. DEFINE c == IF p >= PriorityHigh THEN HighPercent
                 ELSE IF p <= PriorityLow THEN LowPercent ELSE 100
<1>1. /\ p \in Int /\ counted \in Nat /\ c \in Nat /\ PriorityLimit \in Int
      /\ counted > EffectiveLimit(p)
      /\ EffectiveLimit(p) \in Nat /\ EffectiveLimit(p) >= 1
  BY PriorityTypes, Tiers DEF PriorityInv, PRTypeOK
<1>2. EffectiveLimit(p) >= (PriorityLimit * c) \div 100
  <2>1. Scaled(p) = (PriorityLimit * c) \div 100
    <3>1. CASE p >= PriorityHigh \/ p <= PriorityLow
      BY <1>1, <3>1 DEF Scaled, PriorityHigh, PriorityLow
    <3>2. CASE ~(p >= PriorityHigh) /\ ~(p <= PriorityLow)
      <4>1. (PriorityLimit * 100) \div 100 = PriorityLimit
        BY <1>1
      <4>. QED BY <3>2, <4>1 DEF Scaled
    <3>. QED BY <3>1, <3>2
  <2>2. (PriorityLimit * c) \div 100 \in Int
    BY <1>1, Percent
  <2>. QED BY <2>1, <2>2 DEF EffectiveLimit
<1>. QED BY <1>1, <1>2, Percent

LEMMA PriorityStepInv ==
    ASSUME PriorityInv, MSTypeOK, NEW p \in Priorities, PRStep(p)
    PROVE  PriorityInv' /\ MSTypeOK'
<1>1. CASE NotExecuted /\ UNCHANGED prVars
  BY <1>1 DEF NotExecuted, msVars, prVars, PriorityInv, PRTypeOK, MSTypeOK,
              Found, get
<1>2. ASSUME Increment(PriorityKey, PriorityWindow),
             counted' = IF Found(PriorityKey) THEN counted + 1 ELSE 1,
             \/ /\ reply' > EffectiveLimit(p)
                /\ passedBy' = Passed /\ refusedBy' = Refused \cup {p}
             \/ /\ ~(reply' > EffectiveLimit(p))
                /\ passedBy' = [q \in Priorities |->
                                  IF p <= q THEN Passed[q] + 1 ELSE Passed[q]]
                /\ refusedBy' = Refused
             \/ passedBy' = Passed /\ refusedBy' = Refused
      PROVE  PriorityInv' /\ MSTypeOK'
  <2>1. /\ MSTypeOK' /\ Found(PriorityKey)'
        /\ reply' = get(PriorityKey)'.value
        /\ get(PriorityKey)'.value =
             IF Found(PriorityKey) THEN get(PriorityKey).value + 1 ELSE 1
    BY <1>2, PriorityTypes, IncrementCounts
  <2>2. /\ counted' \in Nat /\ reply' = counted'
        /\ get(PriorityKey)'.value = counted'
    BY <1>2, <2>1 DEF PriorityInv, PRTypeOK
  <2>3. /\ Passed \in [Priorities -> Nat] /\ Refused \subseteq Priorities
        /\ \A q \in Priorities : /\ Passed[q] + 1 <= counted'
                                 /\ Passed[q] <= EffectiveLimit(q)
        /\ \A q \in Refused : counted' > EffectiveLimit(q)
    <3>1. CASE Found(PriorityKey)
      <4>1. Passed = passedBy /\ Refused = refusedBy /\ counted' = counted + 1
        BY <1>2, <3>1 DEF Passed, Refused
      <4>. QED BY <4>1, Tiers DEF PriorityInv, PRTypeOK
    <3>2. CASE ~Found(PriorityKey)
      <4>1. Passed = NonePassed /\ Refused = {} /\ counted' = 1
        BY <1>2, <3>2 DEF Passed, Refused
      <4>. QED BY <4>1, Tiers DEF NonePassed
    <3>. QED BY <3>1, <3>2
  <2>4. CASE passedBy' = Passed /\ refusedBy' = Refused
    BY <2>1, <2>2, <2>3, <2>4, Tiers DEF PriorityInv, PRTypeOK
  <2>5. CASE /\ reply' > EffectiveLimit(p)
             /\ passedBy' = Passed /\ refusedBy' = Refused \cup {p}
    BY <2>1, <2>2, <2>3, <2>5, Tiers DEF PriorityInv, PRTypeOK
  <2>6. CASE /\ ~(reply' > EffectiveLimit(p))
             /\ passedBy' = [q \in Priorities |->
                               IF p <= q THEN Passed[q] + 1 ELSE Passed[q]]
             /\ refusedBy' = Refused
    <3>1. counted' <= EffectiveLimit(p)
      BY <2>2, <2>6, Tiers
    <3>2. passedBy' \in [Priorities -> Nat]
      BY <2>3, <2>6
    <3>3. ASSUME NEW q \in Priorities
          PROVE  passedBy'[q] <= counted' /\ passedBy'[q] <= EffectiveLimit(q)
      <4>1. /\ p \in Int /\ q \in Int /\ Passed[q] \in Nat
            /\ EffectiveLimit(p) \in Nat /\ EffectiveLimit(q) \in Nat
            /\ Passed[q] + 1 <= counted' /\ Passed[q] <= EffectiveLimit(q)
        BY <2>3, PriorityTypes, Tiers
      <4>2. CASE p <= q
        BY <2>2, <2>6, <3>1, <4>1, <4>2, Tiers
      <4>3. CASE ~(p <= q)
        BY <2>2, <2>6, <4>1, <4>3
      <4>. QED BY <4>2, <4>3
    <3>. QED BY <2>1, <2>2, <2>3, <2>6, <3>2, <3>3 DEF PriorityInv, PRTypeOK
  <2>. QED BY <1>2, <2>4, <2>5, <2>6
<1>. QED
  BY <1>1, <1>2 DEF PRStep, Prioritized, PriorityError, IncrementedUnheard

\* Time, and calls of other keys, end the counter's life or leave it alone.
LEMMA PriorityUndisturbed ==
    ASSUME PriorityInv, UNCHANGED prVars,
           Found(PriorityKey)' =>
             Found(PriorityKey) /\ get(PriorityKey)' = get(PriorityKey)
    PROVE  PriorityInv'
BY DEF PriorityInv, PRTypeOK, prVars

LEMMA InitPriorityInv == MSInit /\ PRInit => PriorityInv
<1>. SUFFICES ASSUME MSInit, PRInit PROVE PriorityInv
  OBVIOUS
<1>1. ~Found(PriorityKey)
  BY PriorityTypes DEF Found, get, MSInit, Missing
<1>. QED
  BY <1>1, Tiers DEF PRInit, NonePassed, PriorityInv, PRTypeOK

-----------------------------------------------------------------------------
\* What a store sees of an entry of the map.
Seen(e) == IF clock > e.expiry THEN Contract!Absent
                               ELSE [value |-> e.value, till |-> e.expiry]

LEMMA SeenEntries ==
    ASSUME MSTypeOK, NEW k \in Keys
    PROVE  /\ Abstraction[k] = Seen(data[k])
           /\ Abstraction[k] = Seen(get(k))
           /\ Found(k) => Abstraction[k] = [value |-> get(k).value,
                                            till |-> get(k).expiry]
           /\ Abstraction[k] = Contract!Absent <=> ~Found(k)
           /\ Abstraction[k].value = get(k).value
<1>1. /\ clock \in Nat
      /\ data[k] \in [value : Int, expiry : {-1} \cup Nat]
  BY DEF MSTypeOK
<1>2. Abstraction[k] = Seen(data[k])
  BY DEF Abstraction, Seen, Contract!Absent
<1>3. CASE Found(k)
  <2>1. get(k) = data[k] /\ clock <= data[k].expiry
    BY <1>3, Entries
  <2>2. Abstraction[k] = [value |-> get(k).value, till |-> get(k).expiry]
    BY <1>1, <1>2, <2>1 DEF Seen
  <2>3. get(k).expiry # -1
    BY <1>1, <2>1
  <2>. QED BY <1>2, <1>3, <2>1, <2>2, <2>3 DEF Contract!Absent
<1>4. CASE ~Found(k)
  <2>1. get(k) = Missing /\ clock > data[k].expiry
    BY <1>1, <1>4, Entries
  <2>2. Abstraction[k] = Contract!Absent /\ Seen(get(k)) = Contract!Absent
    BY <1>1, <1>2, <2>1 DEF Seen, Missing, Contract!Absent
  <2>. QED BY <1>2, <1>4, <2>1, <2>2 DEF Missing, Contract!Absent
<1>. QED BY <1>3, <1>4

\* An operation that writes one entry of the map changes one key of the store.
LEMMA SeenPut ==
    ASSUME MSTypeOK, NEW k \in Keys, NEW e, clock' = clock,
           data' = [data EXCEPT ![k] = e]
    PROVE  /\ Abstraction' = [Abstraction EXCEPT ![k] = Seen(e)]
           /\ Abstraction'[k] = Seen(e)
           /\ Seen(e) = Abstraction[k] => Abstraction' = Abstraction
<1>1. \A j \in Keys : data'[j] = IF j = k THEN e ELSE data[j]
  BY DEF MSTypeOK
<1>2. Abstraction' = [j \in Keys |-> IF j = k THEN Seen(e) ELSE Abstraction[j]]
  BY <1>1 DEF Abstraction, Seen, Contract!Absent
<1>3. Abstraction = [j \in Keys |-> Abstraction[j]]
  BY DEF Abstraction
<1>. QED BY <1>2, <1>3

LEMMA ContractInit == MSInit => Contract!Init
BY DEF MSInit, Contract!Init, Abstraction, Missing, Contract!Absent

LEMMA ContractTick == MSTypeOK /\ MSTick => Contract!Tick
<1>. SUFFICES ASSUME MSTypeOK, MSTick PROVE Contract!Tick
  OBVIOUS
<1>1. clock < MaxClock /\ clock' = clock + 1 /\ data' = data /\ reply' = reply
  BY DEF MSTick
<1>2. ASSUME NEW k \in Keys
      PROVE  Abstraction'[k] = IF Abstraction[k].till < clock'
                               THEN Contract!Absent ELSE Abstraction[k]
  <2>1. /\ clock \in Nat
        /\ data[k] \in [value : Int, expiry : {-1} \cup Nat]
    BY DEF MSTypeOK
  <2>2. /\ Abstraction[k] = Seen(data[k])
        /\ Abstraction'[k] = Seen(data[k])'
    BY <1>1 DEF Abstraction, Seen, Contract!Absent
  <2>3. CASE clock > data[k].expiry
    BY <1>1, <2>1, <2>2, <2>3 DEF Seen, Contract!Absent
  <2>4. CASE ~(clock > data[k].expiry)
    BY <1>1, <2>1, <2>2, <2>4 DEF Seen
  <2>. QED BY <2>3, <2>4
<1>3. Abstraction' = [k \in Keys |-> Abstraction'[k]]
  BY DEF Abstraction
<1>. QED BY <1>1, <1>2, <1>3 DEF Contract!Tick

\* Each operation of the map is the operation of that name of the store.
LEMMA ContractIncrement ==
    ASSUME MSTypeOK, NEW k \in Keys, NEW ttl \in Nat, Increment(k, ttl)
    PROVE  Contract!Increment(k, ttl)
<1>1. /\ clock \in Nat
      /\ get(k) \in [value : Int, expiry : {-1} \cup Nat]
      /\ Found(k) => clock <= get(k).expiry
  BY Entries DEF MSTypeOK
<1>2. PICK e : e = [(IF Found(k) THEN get(k) ELSE New(0, ttl))
                      EXCEPT !.value = @ + 1]
  OBVIOUS
<1>3. /\ clock' = clock /\ reply' = data'[k].value
      /\ data' = [data EXCEPT ![k] = e]
  BY <1>2 DEF Increment, Put
<1>4. /\ Seen(e) = [value |-> e.value, till |-> e.expiry]
      /\ e.value = IF Found(k) THEN get(k).value + 1 ELSE 1
      /\ e.expiry = IF Found(k) THEN get(k).expiry ELSE clock + ttl
  BY <1>1, <1>2 DEF Seen, New
<1>5. reply' = Abstraction'[k].value
      /\ Abstraction' = [Abstraction EXCEPT ![k] = Seen(e)]
  <2>1. data'[k] = e
    BY <1>3 DEF MSTypeOK
  <2>2. /\ Abstraction'[k] = Seen(e)
        /\ Abstraction' = [Abstraction EXCEPT ![k] = Seen(e)]
    BY <1>3, SeenPut
  <2>3. Seen(e).value = e.value
    BY <1>4
  <2>. QED BY <1>3, <2>1, <2>2, <2>3, Zenon
<1>6. Abstraction' = [Abstraction EXCEPT
                        ![k] = IF @ = Contract!Absent
                               THEN Contract!Entry(1, ttl)
                               ELSE [value |-> @.value + 1, till |-> @.till]]
  <2>1. CASE Found(k)
    <3>1. /\ Abstraction[k] = [value |-> get(k).value, till |-> get(k).expiry]
          /\ Abstraction[k] # Contract!Absent
      BY <2>1, SeenEntries
    <3>2. Seen(e) = [value |-> Abstraction[k].value + 1,
                     till |-> Abstraction[k].till]
      BY <1>4, <2>1, <3>1
    <3>. QED BY <1>5, <3>1, <3>2, Zenon
  <2>2. CASE ~Found(k)
    <3>1. Abstraction[k] = Contract!Absent
      BY <2>2, SeenEntries
    <3>2. Seen(e) = Contract!Entry(1, ttl)
      BY <1>4, <2>2 DEF Contract!Entry
    <3>. QED BY <1>5, <3>1, <3>2, Zenon
  <2>. QED BY <2>1, <2>2
<1>. QED BY <1>3, <1>5, <1>6 DEF Contract!Increment

LEMMA ContractDecrement ==
    ASSUME MSTypeOK, NEW k \in Keys, Decrement(k)
    PROVE  Contract!Decrement(k)
<1>1. /\ clock \in Nat
      /\ get(k) \in [value : Int, expiry : {-1} \cup Nat]
      /\ Found(k) => clock <= get(k).expiry
  BY Entries DEF MSTypeOK
<1>2. PICK e : e = IF Found(k) THEN [get(k) EXCEPT !.value = @ - 1] ELSE Missing
  OBVIOUS
<1>3. /\ clock' = clock /\ reply' = 0
      /\ data' = [data EXCEPT ![k] = e]
  BY <1>2 DEF Decrement, Put
<1>4. Abstraction' = [Abstraction EXCEPT ![k] = Seen(e)]
  BY <1>3, SeenPut
<1>5. Abstraction' = [Abstraction EXCEPT
                        ![k] = IF @ = Contract!Absent
                               THEN @
                               ELSE [value |-> @.value - 1, till |-> @.till]]
  <2>1. CASE Found(k)
    <3>1. /\ Abstraction[k] = [value |-> get(k).value, till |-> get(k).expiry]
          /\ Abstraction[k] # Contract!Absent
      BY <2>1, SeenEntries
    <3>2. e.value = get(k).value - 1 /\ e.expiry = get(k).expiry
      BY <1>1, <1>2, <2>1
    <3>3. Seen(e) = [value |-> Abstraction[k].value - 1,
                     till |-> Abstraction[k].till]
      BY <1>1, <2>1, <3>1, <3>2 DEF Seen
    <3>. QED BY <1>4, <3>1, <3>3, Zenon
  <2>2. CASE ~Found(k)
    <3>1. e = get(k) /\ Abstraction[k] = Contract!Absent
      BY <1>2, <2>2, Entries, SeenEntries
    <3>2. Seen(e) = Abstraction[k]
      BY <3>1, SeenEntries
    <3>. QED BY <1>4, <3>1, <3>2, Zenon
  <2>. QED BY <2>1, <2>2
<1>. QED BY <1>3, <1>5 DEF Contract!Decrement

LEMMA ContractGet ==
    ASSUME MSTypeOK, NEW k \in Keys, Get(k)
    PROVE  Contract!Get(k)
<1>1. PICK e : e = get(k)
  OBVIOUS
<1>2. clock' = clock /\ reply' = e.value /\ data' = [data EXCEPT ![k] = e]
  BY <1>1 DEF Get, Put
<1>3. Seen(e) = Abstraction[k] /\ Abstraction[k].value = e.value
  BY <1>1, SeenEntries
<1>4. Abstraction' = Abstraction
  BY <1>2, <1>3, SeenPut
<1>. QED BY <1>2, <1>3, <1>4 DEF Contract!Get

LEMMA ContractTTL ==
    ASSUME MSTypeOK, NEW k \in Keys, TTL(k)
    PROVE  Contract!TTL(k)
<1>1. PICK e : e = get(k)
  OBVIOUS
<1>2. /\ clock' = clock /\ data' = [data EXCEPT ![k] = e]
      /\ reply' = IF Found(k) THEN e.expiry - clock ELSE -1
  BY <1>1 DEF TTL, Put
<1>3. /\ Seen(e) = Abstraction[k]
      /\ Abstraction[k] = Contract!Absent <=> ~Found(k)
      /\ Found(k) => Abstraction[k].till = e.expiry
  <2>1. Found(k) => Abstraction[k] = [value |-> e.value, till |-> e.expiry]
    BY <1>1, SeenEntries
  <2>. QED BY <1>1, <2>1, SeenEntries
<1>4. Abstraction' = Abstraction
  BY <1>2, <1>3, SeenPut
<1>. QED BY <1>2, <1>3, <1>4 DEF Contract!TTL

LEMMA ContractSet ==
    ASSUME MSTypeOK, NEW k \in Keys, NEW v, NEW ttl \in Nat, Set(k, v, ttl)
    PROVE  Contract!Set(k, v, ttl)
<1>1. PICK e : e = New(v, ttl)
  OBVIOUS
<1>2. clock' = clock /\ reply' = 0 /\ data' = [data EXCEPT ![k] = e]
  BY <1>1 DEF Set, Put
<1>3. Seen(e) = Contract!Entry(v, ttl)
  BY <1>1 DEF Seen, New, Contract!Entry, MSTypeOK
<1>4. Abstraction' = [Abstraction EXCEPT ![k] = Seen(e)]
  BY <1>2, SeenPut
<1>. QED BY <1>2, <1>3, <1>4, Zenon DEF Contract!Set

LEMMA ContractSetNX ==
    ASSUME MSTypeOK, NEW k \in Keys, NEW v, NEW ttl \in Nat, SetNX(k, v, ttl)
    PROVE  Contract!SetNX(k, v, ttl)
<1>1. PICK e : e = IF Found(k) THEN get(k) ELSE New(v, ttl)
  OBVIOUS
<1>2. /\ clock' = clock /\ reply' = IF Found(k) THEN 0 ELSE 1
      /\ data' = [data EXCEPT ![k] = e]
  BY <1>1 DEF SetNX, Put
<1>3. /\ Abstraction' = [Abstraction EXCEPT ![k] = Seen(e)]
      /\ Seen(e) = Abstraction[k] => Abstraction' = Abstraction
  BY <1>2, SeenPut
<1>4. CASE Found(k)
  <2>1. Seen(e) = Abstraction[k] /\ Abstraction[k] # Contract!Absent
    BY <1>1, <1>4, SeenEntries
  <2>. QED BY <1>2, <1>3, <1>4, <2>1, Zenon DEF Contract!SetNX
<1>5. CASE ~Found(k)
  <2>1. Seen(e) = Contract!Entry(v, ttl)
    BY <1>1, <1>5 DEF Seen, New, Contract!Entry, MSTypeOK
  <2>2. Abstraction[k] = Contract!Absent
    BY <1>5, SeenEntries
  <2>. QED BY <1>2, <1>3, <1>5, <2>1, <2>2, Zenon DEF Contract!SetNX
<1>. QED BY <1>4, <1>5

LEMMA ContractDelete ==
    ASSUME MSTypeOK, NEW k \in Keys, Delete(k)
    PROVE  Contract!Delete(k)
<1>1. PICK e : e = Missing
  OBVIOUS
<1>2. clock' = clock /\ reply' = 0 /\ data' = [data EXCEPT ![k] = e]
  BY <1>1 DEF Delete, Put
<1>3. Seen(e) = Contract!Absent
  BY <1>1 DEF Seen, Missing, Contract!Absent, MSTypeOK
<1>4. Abstraction' = [Abstraction EXCEPT ![k] = Seen(e)]
  BY <1>2, SeenPut
<1>. QED BY <1>2, <1>3, <1>4, Zenon DEF Contract!Delete

-----------------------------------------------------------------------------
\* A call of the key k.
Call(k) ==
    \/ Decrement(k) \/ Get(k) \/ TTL(k) \/ Delete(k)
    \/ \E ttl \in Lifetimes :
          \/ Increment(k, ttl)
          \/ \E v \in Values : Set(k, v, ttl) \/ SetNX(k, v, ttl)

\* It is a step of the contract, and touches no other key.
LEMMA CallSteps ==
    ASSUME MSTypeOK, NEW k \in Keys, Call(k)
    PROVE  /\ Contract!Next
           /\ MSTypeOK'
           /\ \A j \in Keys \ {k} : get(j)' = get(j) /\ (Found(j)' <=> Found(j))
           /\ clock' = clock
<1>. DEFINE Frame == /\ MSTypeOK' /\ clock' = clock
                     /\ \A j \in Keys \ {k} : data'[j] = data[j]
<1>1. CASE Decrement(k) \/ Get(k) \/ TTL(k) \/ Delete(k)
  <2>1. Contract!Next
    BY <1>1, ContractDecrement, ContractGet, ContractTTL, ContractDelete
       DEF Contract!Next
  <2>2. 0 \in Nat /\ 0 \in Int
    OBVIOUS
  <2>3. Frame
    BY <1>1, <2>2, OtherCalls
  <2>. QED BY <2>1, <2>3, Kept
<1>2. ASSUME NEW ttl \in Lifetimes, Increment(k, ttl)
      PROVE  Contract!Next /\ Frame
  <2>1. ttl \in Nat
    BY ConstantTypes
  <2>. QED BY <1>2, <2>1, IncrementCounts, ContractIncrement DEF Contract!Next
<1>3. ASSUME NEW ttl \in Lifetimes, NEW v \in Values,
             Set(k, v, ttl) \/ SetNX(k, v, ttl)
      PROVE  Contract!Next /\ Frame
  <2>1. ttl \in Nat /\ v \in Int
    BY ConstantTypes
  <2>2. Frame
    BY <1>3, <2>1, OtherCalls
  <2>3. Contract!Set(k, v, ttl) \/ Contract!SetNX(k, v, ttl)
    BY <1>3, <2>1, ContractSet, ContractSetNX
  <2>. QED BY <2>2, <2>3 DEF Contract!Next
<1>4. Contract!Next /\ Frame => /\ Contract!Next /\ MSTypeOK' /\ clock' = clock
                                /\ \A j \in Keys \ {k} :
                                      get(j)' = get(j) /\ (Found(j)' <=> Found(j))
  BY Kept
<1>. QED BY <1>1, <1>2, <1>3, <1>4 DEF Call

\* A step of any user calls the store for at most one key, which is its own.
LEMMA QuotaCalls ==
    ASSUME QuotaInv, NEW r \in Requests, QMStep(r)
    PROVE  UNCHANGED msVars \/ \E k \in QuotaKeys : Call(k)
<1>1. PICK n \in 1 .. Len(Quotas) : index[r] = n
  BY DEF QuotaInv, QMTypeOK
<1>2. PICK k \in QuotaKeys, w \in Lifetimes :
        Quotas[n].key = k /\ Quotas[n].window = w
  BY QuotaTypes
<1>3. Quota(r).key = k /\ Quota(r).window = w
  BY <1>1, <1>2 DEF Quota
<1>4. UNCHANGED msVars \/ Increment(k, w) \/ Decrement(k) \/ Get(k)
  BY <1>3 DEF QMStep, Arrive, Check, CheckFails, Undo, UndoFails, Report,
              NotExecuted, IncrementedUnheard
<1>. QED BY <1>4 DEF Call

LEMMA BurstCalls ==
    ASSUME BurstInv, NEW r \in Requests, BUStep(r)
    PROVE  UNCHANGED msVars \/ \E k \in BurstKeys : Call(k)
<1>1. \/ UNCHANGED msVars
      \/ asked[r] # NotAsked /\ Increment(windowKey(asked[r]), BurstWindow)
  BY DEF BUStep, Ask, Decide, BurstError, NotExecuted, IncrementedUnheard
<1>2. asked[r] # NotAsked => asked[r] \in 0 .. MaxClock
  BY DEF BurstInv, BUTypeOK
<1>3. asked[r] # NotAsked => windowKey(asked[r]) \in BurstKeys
  BY <1>2, WindowTypes
<1>4. BurstWindow \in Lifetimes
  BY ConstantTypes
<1>. QED BY <1>1, <1>3, <1>4 DEF Call

LEMMA PriorityCalls ==
    ASSUME NEW p, PRStep(p)
    PROVE  UNCHANGED msVars \/ Call(PriorityKey)
<1>1. PriorityWindow \in Lifetimes
  BY ConstantTypes
<1>. QED
  BY <1>1 DEF PRStep, Prioritized, PriorityError, NotExecuted,
              IncrementedUnheard, Call

-----------------------------------------------------------------------------
IInv ==
    /\ MSTypeOK /\ user \in Users
    /\ QuotaInv /\ BurstInv /\ PriorityInv

LEMMA InitIInv == Init => IInv
<1>1. MSInit => MSTypeOK
  BY ConstantTypes DEF MSInit, MSTypeOK, Missing
<1>. QED
  BY <1>1, InitQuotaInv, InitBurstInv, InitPriorityInv DEF Init, IInv

\* The users' keys are their own.
LEMMA KeysApart ==
    /\ PriorityKey \notin BurstKeys
    /\ QuotaKeys \cap (BurstKeys \cup {PriorityKey}) = {}
    /\ OtherKeys \cap (QuotaKeys \cup BurstKeys \cup {PriorityKey}) = {}
<1>1. PriorityKey \notin BurstKeys
  BY DEF PriorityKey, BurstKeys, windowKey
<1>. QED BY <1>1, KeysAssumption

\* A user whose keys no call of the step is about keeps its invariant.
LEMMA Bystanders ==
    ASSUME IInv, clock' = clock,
           NEW K \in SUBSET Keys,
           \A j \in Keys \ K : get(j)' = get(j) /\ (Found(j)' <=> Found(j))
    PROVE  /\ K \cap QuotaKeys = {} /\ UNCHANGED qmVars => QuotaInv'
           /\ K \cap BurstKeys = {} /\ UNCHANGED buVars => BurstInv'
           /\ PriorityKey \notin K /\ UNCHANGED prVars => PriorityInv'
<1>1. QuotaKeys \subseteq Keys /\ BurstKeys \subseteq Keys /\ PriorityKey \in Keys
  BY ConstantTypes
<1>2. ASSUME K \cap QuotaKeys = {}, UNCHANGED qmVars PROVE QuotaInv'
  BY <1>1, <1>2, QuotaUndisturbed DEF IInv
<1>3. ASSUME K \cap BurstKeys = {}, UNCHANGED buVars PROVE BurstInv'
  BY <1>1, <1>3, BurstUndisturbed DEF IInv
<1>4. ASSUME PriorityKey \notin K, UNCHANGED prVars PROVE PriorityInv'
  BY <1>1, <1>4, PriorityUndisturbed DEF IInv
<1>. QED BY <1>2, <1>3, <1>4

\* What a step that calls at most one of the keys K does to the store.
LEMMA CallsOf ==
    ASSUME MSTypeOK, NEW K \in SUBSET Keys,
           UNCHANGED msVars \/ \E k \in K : Call(k)
    PROVE  /\ [Contract!Next]_Contract!storeVars
           /\ MSTypeOK' /\ clock' = clock
           /\ \A j \in Keys \ K : get(j)' = get(j) /\ (Found(j)' <=> Found(j))
<1>1. CASE UNCHANGED msVars
  <2>1. UNCHANGED Contract!storeVars
    BY <1>1 DEF msVars, Contract!storeVars, Abstraction
  <2>. QED BY <1>1, <2>1 DEF msVars, MSTypeOK, get, Found
<1>2. CASE \E k \in K : Call(k)
  BY <1>2, CallSteps
<1>. QED BY <1>1, <1>2

LEMMA NextIInv ==
    IInv /\ [Next]_vars => IInv' /\ [Contract!Next]_Contract!storeVars
<1>. SUFFICES ASSUME IInv, [Next]_vars
              PROVE  IInv' /\ [Contract!Next]_Contract!storeVars
  OBVIOUS
<1>1. MSTypeOK /\ QuotaInv /\ BurstInv /\ PriorityInv /\ user \in Users
  BY DEF IInv
<1>2. /\ QuotaKeys \in SUBSET Keys /\ BurstKeys \in SUBSET Keys
      /\ {PriorityKey} \in SUBSET Keys /\ OtherKeys \in SUBSET Keys
      /\ {} \in SUBSET Keys
  BY ConstantTypes
<1>3. user' \in Users
  BY <1>1 DEF Next, vars
<1>4. CASE MSTick /\ UNCHANGED <<qmVars, buVars, prVars>>
  <2>1. /\ MSTypeOK'
        /\ \A k \in Keys : Found(k)' => Found(k) /\ get(k)' = get(k)
    BY <1>1, <1>4, TickKeeps
  <2>2. QuotaInv' /\ BurstInv' /\ PriorityInv'
    BY <1>1, <1>2, <1>4, <2>1, QuotaUndisturbed, BurstTick, PriorityUndisturbed
  <2>3. Contract!Next
    BY <1>1, <1>4, ContractTick DEF Contract!Next
  <2>. QED BY <1>3, <2>1, <2>2, <2>3 DEF IInv
<1>5. ASSUME NEW r \in Requests, QMStep(r), UNCHANGED <<buVars, prVars>>
      PROVE  IInv' /\ [Contract!Next]_Contract!storeVars
  <2>1. QuotaInv'
    BY <1>1, <1>5, QuotaStepInv
  <2>2. /\ [Contract!Next]_Contract!storeVars /\ MSTypeOK' /\ clock' = clock
        /\ \A j \in Keys \ QuotaKeys :
              get(j)' = get(j) /\ (Found(j)' <=> Found(j))
    BY <1>1, <1>2, <1>5, QuotaCalls, CallsOf
  <2>3. BurstInv' /\ PriorityInv'
    BY <1>2, <1>5, <2>2, Bystanders, KeysApart
  <2>. QED BY <1>3, <2>1, <2>2, <2>3 DEF IInv
<1>6. ASSUME NEW r \in Requests, BUStep(r), UNCHANGED <<qmVars, prVars>>
      PROVE  IInv' /\ [Contract!Next]_Contract!storeVars
  <2>1. BurstInv'
    BY <1>1, <1>6, BurstStepInv
  <2>2. /\ [Contract!Next]_Contract!storeVars /\ MSTypeOK' /\ clock' = clock
        /\ \A j \in Keys \ BurstKeys :
              get(j)' = get(j) /\ (Found(j)' <=> Found(j))
    BY <1>1, <1>2, <1>6, BurstCalls, CallsOf
  <2>3. QuotaInv' /\ PriorityInv'
    BY <1>2, <1>6, <2>2, Bystanders, KeysApart
  <2>. QED BY <1>3, <2>1, <2>2, <2>3 DEF IInv
<1>7. ASSUME NEW p \in Priorities, PRStep(p), UNCHANGED <<qmVars, buVars>>
      PROVE  IInv' /\ [Contract!Next]_Contract!storeVars
  <2>1. PriorityInv'
    BY <1>1, <1>7, PriorityStepInv
  <2>2. UNCHANGED msVars \/ \E k \in {PriorityKey} : Call(k)
    BY <1>7, PriorityCalls
  <2>3. /\ [Contract!Next]_Contract!storeVars /\ MSTypeOK' /\ clock' = clock
        /\ \A j \in Keys \ {PriorityKey} :
              get(j)' = get(j) /\ (Found(j)' <=> Found(j))
    BY <1>1, <1>2, <2>2, CallsOf
  <2>4. QuotaInv' /\ BurstInv'
    BY <1>2, <1>7, <2>3, Bystanders, KeysApart
  <2>. QED BY <1>3, <2>1, <2>3, <2>4 DEF IInv
<1>8. CASE AnyCall /\ UNCHANGED <<qmVars, buVars, prVars>>
  <2>1. \E k \in OtherKeys : Call(k)
    BY <1>8 DEF AnyCall, Call
  <2>2. /\ [Contract!Next]_Contract!storeVars /\ MSTypeOK' /\ clock' = clock
        /\ \A j \in Keys \ OtherKeys :
              get(j)' = get(j) /\ (Found(j)' <=> Found(j))
    BY <1>1, <1>2, <2>1, CallsOf
  <2>3. QuotaInv' /\ BurstInv' /\ PriorityInv'
    BY <1>2, <1>8, <2>2, Bystanders, KeysApart
  <2>. QED BY <1>3, <2>2, <2>3 DEF IInv
<1>9. CASE UNCHANGED vars
  <2>1. /\ [Contract!Next]_Contract!storeVars /\ MSTypeOK' /\ clock' = clock
        /\ \A j \in Keys \ {} : get(j)' = get(j) /\ (Found(j)' <=> Found(j))
    BY <1>1, <1>2, <1>9, CallsOf DEF vars
  <2>2. QuotaInv' /\ BurstInv' /\ PriorityInv'
    BY <1>2, <1>9, <2>1, Bystanders DEF vars
  <2>. QED BY <1>3, <2>1, <2>2 DEF IInv
<1>10. \A n \in PriorityHeaders : defaultPriorityKeyFunc(n) \in Priorities
  BY DEF Priorities
<1>. QED BY <1>4, <1>5, <1>6, <1>7, <1>8, <1>9, <1>10 DEF Next

-----------------------------------------------------------------------------
(***************************************************************************)
(* The map, in which entries whose time is over stay until a call looks at *)
(* them, implements the Store of which such keys are gone: every state     *)
(* change and every reply is one the interface promises.                   *)
(***************************************************************************)
THEOREM MapImplementsStore == Spec => ImplementsStore
<1>1. Init => Contract!Init
  BY ContractInit DEF Init
<1>. QED
  BY <1>1, InitIInv, NextIInv, PTL DEF Spec, ImplementsStore, Contract!Spec

(***************************************************************************)
(* Every quota counts exactly what it let pass, what is about to be undone *)
(* and what failures left, and lets no more pass than its limit, as long   *)
(* as no Decrement came too late.                                          *)
(***************************************************************************)
THEOREM QuotasExact == Spec => []QuotaExact
<1>1. IInv => QuotaExact
  BY QuotaInvMeans DEF IInv
<1>. QED BY <1>1, InitIInv, NextIInv, PTL DEF Spec

(***************************************************************************)
(* A window lets at most limit and burst calls pass before its end, and    *)
(* refuses none before as many were spent, although its key is named after *)
(* one clock reading and expires by another.                               *)
(***************************************************************************)
THEOREM BurstsExact == Spec => []BurstExact
<1>1. IInv => BurstExact
  BY BurstInvMeans DEF IInv
<1>. QED BY <1>1, InitIInv, NextIInv, PTL DEF Spec

(***************************************************************************)
(* In one life of the shared counter the requests up to each priority pass *)
(* at most as often as that priority's limit, which rises with priority.   *)
(***************************************************************************)
THEOREM TiersAlwaysRespected == Spec => []TiersRespected
<1>1. IInv => TiersRespected
  BY PriorityInvMeans DEF IInv
<1>. QED BY <1>1, InitIInv, NextIInv, PTL DEF Spec

\* The store's and all its users' state keeps its type.
THEOREM StoreLimitersTypes == Spec => []TypeOK
<1>1. IInv => TypeOK
  BY DEF IInv, QuotaInv, BurstInv, PriorityInv, TypeOK
<1>. QED BY <1>1, InitIInv, NextIInv, PTL DEF Spec
=============================================================================
