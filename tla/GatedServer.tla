---------------------------- MODULE GatedServer -----------------------------
(***************************************************************************)
(* A handler behind both gates: WithRequestPause around                    *)
(* WithRequestThrottle.  A request reaches the throttle when the pause     *)
(* controller lets it pass.                                                *)
(***************************************************************************)
EXTENDS Throttle, Pause

gsVars == <<thVars, paVars>>

GSTypeOK == THTypeOK /\ PATypeOK

GSInit == THInit /\ PAInit

Throttled(r) ==
    /\ Serve(r) \/ GiveBack(r) \/ Cancel(r)
    /\ UNCHANGED paVars

\* A request that passes the pause controller arrives at the throttle.
Enter(r) == PassThrough(r) /\ Arrive(r)
Leave(r) == Release(r) /\ Arrive(r)

GSNext ==
    \/ Tick /\ UNCHANGED paVars
    \/ (PauseCall \/ ResumeCall) /\ UNCHANGED thVars
    \/ \E r \in Requests :
          \/ Throttled(r)
          \/ Enter(r)
          \/ Leave(r)
          \/ stage[r] = "out" /\ Hold(r) /\ UNCHANGED thVars

GSSpec == GSInit /\ [][GSNext]_gsVars

(***************************************************************************)
(* What is fair: time passes, a goroutine that can run does, and handlers  *)
(* return.  Clients need not cancel, nobody need call Pause or Resume.     *)
(***************************************************************************)
TimersRun == Tick /\ UNCHANGED paVars
GSStep(r) == Leave(r) \/ ((Serve(r) \/ GiveBack(r)) /\ UNCHANGED paVars)

-----------------------------------------------------------------------------
(***************************************************************************)
(* No request waits forever in either gate: a held one goes on when the    *)
(* controller resumes or maxHold is over, a queued one leaves at the       *)
(* latest when its timer fires, and gets its token out of the channel.     *)
(***************************************************************************)
EveryRequestLeaves ==
    \A r \in Requests :
        (stage[r] # "out" \/ channel[r] # Free)
            ~> (stage[r] = "out" /\ channel[r] = Free)
=============================================================================
