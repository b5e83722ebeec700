----------------------------- MODULE StoreCalls -----------------------------
(***************************************************************************)
(* Calls of a Store that may fail, as a remote one does: the caller gets   *)
(* an error, and the command was executed or was not.                      *)
(***************************************************************************)
EXTENDS MemoryStore

CONSTANTS
    Requests,   \* goroutines that serve requests of one client
    StoreFails  \* whether calls may fail

ASSUME StoreFailsAssumption == StoreFails \in BOOLEAN

NotExecuted == StoreFails /\ UNCHANGED msVars
IncrementedUnheard(k, window) == StoreFails /\ Increment(k, window)
=============================================================================
