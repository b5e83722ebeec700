------------------------------- MODULE Store --------------------------------
(***************************************************************************)
(* What the Store interface promises (store.go), whatever implements it: a *)
(* key is absent, or has a value until a moment; the moment it passes, the *)
(* key is absent, and nothing but the operations below changes that.       *)
(***************************************************************************)
EXTENDS Integers

CONSTANTS
    Keys,
    Values,     \* what users Set a key to
    Lifetimes,  \* the windows and expiries users ask for
    MaxClock    \* bound on the clock, for model checking

VARIABLES
    clock,
    stored,     \* stored[k]: Absent, or k's value and its last valid moment
    reply       \* what the last operation returned

storeVars == <<clock, stored, reply>>

Absent == [value |-> 0, till |-> -1]

Init ==
    /\ clock = 0
    /\ stored = [k \in Keys |-> Absent]
    /\ reply = 0

Entry(value, ttl) == [value |-> value, till |-> clock + ttl]

\* Time passes, and with it the keys whose time is over.
Tick ==
    /\ clock < MaxClock
    /\ clock' = clock + 1
    /\ stored' = [k \in Keys |-> IF stored[k].till < clock' THEN Absent
                                                           ELSE stored[k]]
    /\ UNCHANGED reply

\* "Increments the counter for key by 1 and sets expiry if the key is new."
Increment(k, ttl) ==
    /\ stored' = [stored EXCEPT
                    ![k] = IF @ = Absent
                           THEN Entry(1, ttl)
                           ELSE [value |-> @.value + 1, till |-> @.till]]
    /\ reply' = stored'[k].value
    /\ UNCHANGED clock

\* Not in the interface; QuotaManager calls it: lowers a present counter.
Decrement(k) ==
    /\ stored' = [stored EXCEPT
                    ![k] = IF @ = Absent
                           THEN @
                           ELSE [value |-> @.value - 1, till |-> @.till]]
    /\ reply' = 0
    /\ UNCHANGED clock

Get(k) ==
    /\ reply' = stored[k].value
    /\ UNCHANGED <<clock, stored>>

Set(k, v, ttl) ==
    /\ stored' = [stored EXCEPT ![k] = Entry(v, ttl)]
    /\ reply' = 0
    /\ UNCHANGED clock

\* The reply is 1 if the key was set and 0 if it existed.
SetNX(k, v, ttl) ==
    /\ IF stored[k] = Absent
       THEN stored' = [stored EXCEPT ![k] = Entry(v, ttl)] /\ reply' = 1
       ELSE stored' = stored /\ reply' = 0
    /\ UNCHANGED clock

\* The time the key still has; of an absent key, some negative number.
TTL(k) ==
    /\ IF stored[k] = Absent THEN reply' \in {-1, -2}
                             ELSE reply' = stored[k].till - clock
    /\ UNCHANGED <<clock, stored>>

Delete(k) ==
    /\ stored' = [stored EXCEPT ![k] = Absent]
    /\ reply' = 0
    /\ UNCHANGED clock

Next ==
    \/ Tick
    \/ \E k \in Keys :
          \/ Decrement(k) \/ Get(k) \/ TTL(k) \/ Delete(k)
          \/ \E ttl \in Lifetimes :
                \/ Increment(k, ttl)
                \/ \E v \in Values : Set(k, v, ttl) \/ SetNX(k, v, ttl)

Spec == Init /\ [][Next]_storeVars
=============================================================================
