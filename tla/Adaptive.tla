------------------------------ MODULE Adaptive ------------------------------
(***************************************************************************)
(* AdaptiveLimiter and WithAdaptiveLimit (adaptive_limit.go).  Recalculate *)
(* reads the load without the lock and computes the limit under it: two    *)
(* requests may write in another order than they read, and the limit a     *)
(* request shows may be another one's.  Loads are in percent, which makes  *)
(* the interpolation exact; rounding of floats is not modelled.            *)
(***************************************************************************)
EXTENDS Integers

CONSTANTS
    Askers,             \* goroutines that serve requests
    AdaptiveConfigs,    \* what a user may configure, 0 where it is left out
    Loads               \* what LoadFunc may return

\* NewAdaptiveLimiter's defaults.
WithDefaults(c) ==
    [c EXCEPT !.MinLimit = IF @ <= 0 THEN 1 ELSE @,
              !.MaxLimit = IF @ <= 0 THEN 2 * c.BaseLimit ELSE @,
              !.HighLoadMark = IF @ = 0 THEN 80 ELSE @,
              !.LowLoadMark = IF @ = 0 THEN 40 ELSE @]

ASSUME AdaptiveAssumption ==
    /\ AdaptiveConfigs \subseteq
         [BaseLimit : Nat, MinLimit : Int, MaxLimit : Int,
          HighLoadMark : 0 .. 100, LowLoadMark : 0 .. 100, LoadFunc : BOOLEAN]
    /\ \A c \in AdaptiveConfigs :
          WithDefaults(c).MinLimit <= WithDefaults(c).MaxLimit
    /\ Loads \subseteq 0 .. 100

Configs == {WithDefaults(c) : c \in AdaptiveConfigs}

VARIABLES
    config,         \* a.cfg, with its defaults
    load,           \* what LoadFunc would return
    currentLimit,   \* a.currentLimit
    doing,          \* doing[r]: what r does next
    reading,        \* reading[r]: the load r read last
    shown           \* shown[r]: the limit in r's last response

adVars == <<config, load, currentLimit, doing, reading, shown>>

ADTypeOK ==
    /\ config \in Configs
    /\ load \in Loads
    /\ currentLimit \in Nat
    /\ doing \in [Askers -> {"read", "store", "show"}]
    /\ reading \in [Askers -> Loads]
    /\ shown \in [Askers -> Nat]

\* NewAdaptiveLimiter
ADInit ==
    /\ config \in Configs
    /\ load \in Loads
    /\ currentLimit = config.BaseLimit
    /\ doing = [r \in Askers |-> "read"]
    /\ reading = [r \in Askers |-> load]
    /\ shown = [r \in Askers |-> 0]

LoadChanges ==
    /\ load' \in Loads
    /\ UNCHANGED <<config, currentLimit, doing, reading, shown>>

\* Recalculate, before the lock.
ReadLoad(r) ==
    /\ doing[r] = "read"
    /\ IF config.LoadFunc
       THEN /\ reading' = [reading EXCEPT ![r] = load]
            /\ doing' = [doing EXCEPT ![r] = "store"]
       ELSE /\ doing' = [doing EXCEPT ![r] = "show"]
            /\ UNCHANGED reading
    /\ UNCHANGED <<config, load, currentLimit, shown>>

Limit(l) ==
    LET range == config.HighLoadMark - config.LowLoadMark
        span == config.MaxLimit - config.MinLimit
    IN  CASE l >= config.HighLoadMark -> config.MinLimit
          [] l < config.HighLoadMark /\ l <= config.LowLoadMark -> config.MaxLimit
          [] OTHER -> config.MaxLimit
                        - ((l - config.LowLoadMark) * span) \div range

\* Mutant: a load between the marks leaves the limit as it is.
StoreLimitAtMarks(r) ==
    /\ doing[r] = "store"
    /\ currentLimit' = IF Limit(reading[r]) \in {config.MinLimit, config.MaxLimit}
                       THEN Limit(reading[r]) ELSE currentLimit
    /\ doing' = [doing EXCEPT ![r] = "show"]
    /\ UNCHANGED <<config, load, reading, shown>>

\* Recalculate, under the lock.
StoreLimit(r) ==
    /\ doing[r] = "store"
    /\ currentLimit' = Limit(reading[r])
    /\ doing' = [doing EXCEPT ![r] = "show"]
    /\ UNCHANGED <<config, load, reading, shown>>

\* CurrentLimit, for the header; then the handler.
ShowLimit(r) ==
    /\ doing[r] = "show"
    /\ shown' = [shown EXCEPT ![r] = currentLimit]
    /\ doing' = [doing EXCEPT ![r] = "read"]
    /\ UNCHANGED <<config, load, currentLimit, reading>>

ADStep(r) == ReadLoad(r) \/ StoreLimit(r) \/ ShowLimit(r)

ADNext == LoadChanges \/ \E r \in Askers : ADStep(r)

-----------------------------------------------------------------------------
\* n lies on the line from MaxLimit at the low mark to MinLimit at the high
\* one, rounded up to a whole number.
OnLine(l, n) ==
    LET span == config.MaxLimit - config.MinLimit
        range == config.HighLoadMark - config.LowLoadMark
        spare == (config.HighLoadMark - l) * span
    IN  /\ (n - config.MinLimit) * range >= spare
        /\ (n - config.MinLimit - 1) * range < spare

Fits(l, n) ==
    /\ l >= config.HighLoadMark => n = config.MinLimit
    /\ l <= config.LowLoadMark /\ l < config.HighLoadMark => n = config.MaxLimit
    /\ l > config.LowLoadMark /\ l < config.HighLoadMark => OnLine(l, n)

(***************************************************************************)
(* "Updates the current limit based on the latest load reading": when the  *)
(* load settles and requests keep coming, the limit settles at the load's, *)
(* and so does what the responses say, whatever old readings were still on *)
(* their way.                                                              *)
(***************************************************************************)
AdaptsToLoad ==
    \A l \in Loads :
        <>[](config.LoadFunc /\ load = l) =>
            <>[](/\ Fits(l, currentLimit)
                 /\ \A r \in Askers : Fits(l, shown[r]))
=============================================================================
