--------------------------- MODULE StoreLimiters ----------------------------
(***************************************************************************)
(* The users of a Store, each in behaviours of its own: their keys differ, *)
(* so that they meet nowhere but in the clock.                             *)
(***************************************************************************)
EXTENDS QuotaManager, Burst, Priority

CONSTANT OtherKeys  \* keys for whatever else a user may do with the store

\* The names of quotas' keys begin with "quota:", those of the priority
\* counter's with "priority:"; that no client's burst key does is assumed.
ASSUME KeysAssumption ==
    /\ BurstKeys \cup {PriorityKey} \subseteq Keys \ QuotaKeys
    /\ OtherKeys \subseteq Keys \ (QuotaKeys \cup BurstKeys \cup {PriorityKey})

VARIABLE user   \* who uses the store

Users == {"quota", "burst", "priority", "any"}

vars == <<msVars, qmVars, buVars, prVars, user>>

TypeOK ==
    /\ MSTypeOK /\ QMTypeOK /\ BUTypeOK /\ PRTypeOK
    /\ user \in Users

Init ==
    /\ MSInit /\ QMInit /\ BUInit /\ PRInit
    /\ user \in Users

\* Any call of the interface.
AnyCall ==
    \E k \in OtherKeys :
        \/ Get(k) \/ TTL(k) \/ Delete(k)
        \/ \E ttl \in Lifetimes :
              \/ \E v \in Values : Set(k, v, ttl) \/ SetNX(k, v, ttl)
              \/ Increment(k, ttl)

Next ==
    /\ \/ MSTick /\ UNCHANGED <<qmVars, buVars, prVars>>
       \/ /\ user = "quota"
          /\ \E r \in Requests : QMStep(r)
          /\ UNCHANGED <<buVars, prVars>>
       \/ /\ user = "burst"
          /\ \E r \in Requests : BUStep(r)
          /\ UNCHANGED <<qmVars, prVars>>
       \/ /\ user = "priority"
          /\ \E n \in PriorityHeaders : PRStep(defaultPriorityKeyFunc(n))
          /\ UNCHANGED <<qmVars, buVars>>
       \/ user = "any" /\ AnyCall /\ UNCHANGED <<qmVars, buVars, prVars>>
    /\ UNCHANGED user

Spec == Init /\ [][Next]_vars
=============================================================================
