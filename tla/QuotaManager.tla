---------------------------- MODULE QuotaManager ----------------------------
(***************************************************************************)
(* QuotaManager (quota.go) and its middleware (quota_middleware.go) over a *)
(* MemoryStore.  CheckAll counts a request in one quota after the other    *)
(* and stops at the first that is exceeded; a request that passes them all *)
(* then reads the counters again, for its headers.  Every call of the      *)
(* store is a step, and other requests' calls come in between.             *)
(***************************************************************************)
EXTENDS StoreCalls, Sequences, FiniteSets

CONSTANT
    Quotas      \* the quotas in order: a sequence of [key, limit, window]

\* A manager without quotas lets everything pass and calls no store.
ASSUME QuotaAssumption ==
    /\ Quotas \in Seq([key : Keys, limit : Nat, window : Lifetimes])
    /\ Quotas # <<>>
    /\ \A i, j \in DOMAIN Quotas : Quotas[i].key = Quotas[j].key => i = j

VARIABLES
    stage,      \* stage[r]: what r does
    index,      \* index[r]: the quota r is at
    life,       \* history: life[k], how often key k was created
    countedIn,  \* history: the life of the key in which r was counted
    passed,     \* history: passed[k], requests counted within k's limit in
                \* its current life
    stray,      \* history: stray[k], others that stay counted since then,
                \* because a call of the store failed
    crossed     \* history: a Decrement hit a later life than its Increment

qmVars == <<stage, index, life, countedIn, passed, stray, crossed>>

QuotaKeys == {Quotas[i].key : i \in DOMAIN Quotas}
QuotaStages == {"idle", "checking", "undoing", "reporting"}

QMTypeOK ==
    /\ stage \in [Requests -> QuotaStages]
    /\ index \in [Requests -> 1 .. Len(Quotas)]
    /\ life \in [QuotaKeys -> Nat]
    /\ countedIn \in [Requests -> Nat]
    /\ passed \in [QuotaKeys -> Nat]
    /\ stray \in [QuotaKeys -> Nat]
    /\ crossed \in BOOLEAN

QMInit ==
    /\ stage = [r \in Requests |-> "idle"]
    /\ index = [r \in Requests |-> 1]
    /\ life = [k \in QuotaKeys |-> 0]
    /\ countedIn = [r \in Requests |-> 0]
    /\ passed = [k \in QuotaKeys |-> 0]
    /\ stray = [k \in QuotaKeys |-> 0]
    /\ crossed = FALSE

Quota(r) == Quotas[index[r]]
\* Mutant: off by one at the end of the list of quotas.
LastQuotaPastEnd(r) == index[r] > Len(Quotas)

LastQuota(r) == index[r] = Len(Quotas)

\* r goes on to the stage s, at the quota i.
Goto(r, s, i) ==
    /\ stage' = [stage EXCEPT ![r] = s]
    /\ index' = [index EXCEPT ![r] = i]

Arrive(r) ==
    /\ stage[r] = "idle"
    /\ Goto(r, "checking", 1)
    /\ UNCHANGED <<msVars, life, countedIn, passed, stray, crossed>>

\* Mutant: the quota is exceeded only beyond one request too many.
ExceededTooLate(count, q) == count > q.limit + 1

Exceeded(count, q) == count > q.limit

\* The life of k that an Increment counts in, and what it has counted so far.
CountingLife(k) == IF Found(k) THEN life[k] ELSE life[k] + 1
InLife(k, history) == IF Found(k) THEN history[k] ELSE 0

\* One round of CheckAll's loop: count the request, compare with the limit.
Check(r) ==
    LET q == Quota(r)
        k == q.key
    IN  /\ stage[r] = "checking"
        /\ Increment(k, q.window)
        /\ life' = [life EXCEPT ![k] = CountingLife(k)]
        /\ stray' = [stray EXCEPT ![k] = InLife(k, stray)]
        /\ IF Exceeded(reply', q)
           THEN /\ Goto(r, "undoing", index[r])
                /\ countedIn' = [countedIn EXCEPT ![r] = CountingLife(k)]
                /\ passed' = [passed EXCEPT ![k] = InLife(k, passed)]
           ELSE /\ IF LastQuota(r) THEN Goto(r, "reporting", 1)
                                   ELSE Goto(r, "checking", index[r] + 1)
                /\ passed' = [passed EXCEPT ![k] = InLife(k, passed) + 1]
                /\ UNCHANGED countedIn
        /\ UNCHANGED crossed

\* The Increment fails: 500, and what was counted stays counted.
CheckFails(r) ==
    LET k == Quota(r).key
    IN  /\ stage[r] = "checking"
        /\ \/ NotExecuted /\ UNCHANGED <<life, passed, stray>>
           \/ /\ IncrementedUnheard(k, Quota(r).window)
              /\ life' = [life EXCEPT ![k] = CountingLife(k)]
              /\ passed' = [passed EXCEPT ![k] = InLife(k, passed)]
              /\ stray' = [stray EXCEPT ![k] = InLife(k, stray) + 1]
        /\ Goto(r, "idle", 1)
        /\ UNCHANGED <<countedIn, crossed>>

\* "Decrement to avoid overcounting on a blocked request."  That it was
\* executed and its answer lost makes no difference.
Undo(r) ==
    LET k == Quota(r).key
    IN  /\ stage[r] = "undoing"
        /\ Decrement(k)
        /\ Goto(r, "idle", 1)
        /\ countedIn' = [countedIn EXCEPT ![r] = 0]
        /\ crossed' = (crossed \/ (Found(k) /\ life[k] # countedIn[r]))
        /\ UNCHANGED <<life, passed, stray>>

\* The Decrement fails, and CheckAll drops the error.
UndoFails(r) ==
    LET k == Quota(r).key
    IN  /\ stage[r] = "undoing"
        /\ NotExecuted
        /\ Goto(r, "idle", 1)
        /\ countedIn' = [countedIn EXCEPT ![r] = 0]
        /\ stray' = IF life[k] = countedIn[r] THEN [stray EXCEPT ![k] = @ + 1]
                                              ELSE stray
        /\ UNCHANGED <<life, passed, crossed>>

\* The middleware reads the quotas' Remaining, and leaves out what it cannot
\* read; then it calls the handler.
Report(r) ==
    /\ stage[r] = "reporting"
    /\ Get(Quota(r).key) \/ NotExecuted
    /\ IF LastQuota(r) THEN Goto(r, "idle", 1)
                       ELSE Goto(r, "reporting", index[r] + 1)
    /\ UNCHANGED <<life, countedIn, passed, stray, crossed>>

QMStep(r) ==
    Arrive(r) \/ Check(r) \/ CheckFails(r) \/ Undo(r) \/ UndoFails(r) \/ Report(r)

QMNext ==
    \/ MSTick /\ UNCHANGED qmVars
    \/ \E r \in Requests : QMStep(r)

QMSpec == MSInit /\ QMInit /\ [][QMNext]_<<msVars, qmVars>>

-----------------------------------------------------------------------------
Undoing(k) ==
    {r \in Requests : /\ stage[r] = "undoing"
                      /\ Quota(r).key = k
                      /\ countedIn[r] = life[k]}

(***************************************************************************)
(* Each quota is exact through all interleavings of the counting and the   *)
(* undoing: its counter is the number of requests it let pass plus those   *)
(* about to be undone plus those that a failure left counted, it lets pass *)
(* at most its limit in each life of the key, and a request is turned away *)
(* only when the limit is used up by what passed and what failed.  Unless  *)
(* an Undo came so late that it hit the key's next life.                   *)
(***************************************************************************)
QuotaExact ==
    ~crossed =>
        \A i \in DOMAIN Quotas :
            LET q == Quotas[i]
                k == q.key
            IN  /\ passed[k] <= q.limit
                /\ Found(k) =>
                     /\ get(k).value =
                          passed[k] + stray[k] + Cardinality(Undoing(k))
                     /\ Undoing(k) # {} => passed[k] + stray[k] >= q.limit

(***************************************************************************)
(* "To avoid overcounting on a blocked request": when no request is under  *)
(* way, a request that one quota blocked counts in no other either: what   *)
(* every later quota has counted, the earlier ones let through to it.      *)
(***************************************************************************)
BlockedNotCounted ==
    (\A r \in Requests : stage[r] = "idle") =>
        \A i, j \in DOMAIN Quotas :
            LET ki == Quotas[i].key
                kj == Quotas[j].key
            IN  life[ki] = 1 /\ life[kj] = 1 /\ Found(ki) /\ Found(kj)
                  => get(ki).value = get(kj).value
=============================================================================
