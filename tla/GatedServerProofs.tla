-------------------------- MODULE GatedServerProofs --------------------------
(***************************************************************************)
(* A handler behind both gates keeps the promises of each: the throttle's  *)
(* counts stay exact although the pause controller lets requests in, and   *)
(* no held request misses the Resume that should wake it.                  *)
(***************************************************************************)
EXTENDS GatedServer, ThrottleProofs

\* Of the channels, numbered as they are made, none after the current one is
\* closed or waited for, and while the server runs no open one is waited for.
PauseInv ==
    /\ PATypeOK
    /\ \A c \in closed : c <= resume
    /\ \A r \in Held : channel[r] <= resume
    /\ NoLostWakeup

-----------------------------------------------------------------------------
\* The steps of the gated server are, seen from the throttle, its own steps or
\* none at all.
LEMMA ThrottleSteps == [GSNext]_gsVars => [THNext]_thVars
<1>. SUFFICES ASSUME GSNext PROVE [THNext]_thVars
  BY DEF gsVars
<1>1. ASSUME NEW r \in Requests, Throttled(r) \/ Enter(r) \/ Leave(r)
      PROVE  THNext
  BY <1>1 DEF Throttled, Enter, Leave, THNext
<1>2. ASSUME NEW r \in Requests, Hold(r), UNCHANGED thVars
      PROVE  UNCHANGED thVars
  BY <1>2
<1>. QED BY <1>1, <1>2 DEF GSNext, THNext

LEMMA InitPauseInv == PAInit => PauseInv
<1>. SUFFICES ASSUME PAInit PROVE PauseInv
  OBVIOUS
<1>1. paused \in BOOLEAN
  BY Zenon DEF PAInit
<1>2. resume \in Channels /\ closed \subseteq Channels
  BY PauseAssumption DEF PAInit, Channels
<1>3. channel \in [Held -> Channels \cup {Free}]
  BY DEF PAInit
<1>. QED BY <1>1, <1>2, <1>3 DEF PAInit, PauseInv, PATypeOK, NoLostWakeup, Free

\* Each operation of the controller keeps every waiting request awake or
\* about to be woken.
LEMMA PauseCallInv == PauseInv /\ PauseCall => PauseInv'
<1>. SUFFICES ASSUME PauseInv, PauseCall PROVE PauseInv'
  OBVIOUS
<1>. USE PauseAssumption DEF PauseInv, PauseCall, PATypeOK, Channels, Free
<1>1. PATypeOK'
  OBVIOUS
<1>2. resume' \notin closed'
  OBVIOUS
<1>3. (\A c \in closed' : c <= resume') /\ (\A r \in Held : channel'[r] <= resume')
  OBVIOUS
<1>4. \A r \in Held : channel'[r] \in closed' \cup {-1}
  BY DEF NoLostWakeup
<1>. QED BY <1>1, <1>2, <1>3, <1>4 DEF NoLostWakeup

LEMMA ResumeCallInv == PauseInv /\ ResumeCall => PauseInv'
<1>. SUFFICES ASSUME PauseInv, ResumeCall PROVE PauseInv'
  OBVIOUS
<1>. USE DEF PauseInv, ResumeCall, PATypeOK, Channels, Free
<1>1. PATypeOK'
  OBVIOUS
<1>2. (\A c \in closed' : c <= resume') /\ (\A r \in Held : channel'[r] <= resume')
  OBVIOUS
<1>3. \A r \in Held : channel'[r] \in closed' \cup {-1}
  BY DEF NoLostWakeup
<1>. QED BY <1>1, <1>2, <1>3 DEF NoLostWakeup

LEMMA HoldInv == ASSUME PauseInv, NEW r, Hold(r) PROVE PauseInv'
<1>. USE DEF PauseInv, Hold, PATypeOK
<1>1. \A s \in Held : channel'[s] = resume \/ channel'[s] = channel[s]
  OBVIOUS
<1>2. PATypeOK'
  OBVIOUS
<1>3. \A s \in Held : channel'[s] <= resume'
  BY <1>1 DEF Channels
<1>. QED BY <1>1, <1>2, <1>3 DEF NoLostWakeup

LEMMA ReleaseInv == ASSUME PauseInv, NEW r, Release(r) PROVE PauseInv'
<1>. USE DEF PauseInv, Release, PATypeOK
<1>1. \A s \in Held : channel'[s] = Free \/ channel'[s] = channel[s]
  OBVIOUS
<1>2. PATypeOK'
  OBVIOUS
<1>3. \A s \in Held : channel'[s] <= resume'
  BY <1>1 DEF Channels, Free
<1>. QED BY <1>1, <1>2, <1>3 DEF NoLostWakeup

LEMMA NextPauseInv == PauseInv /\ [GSNext]_gsVars => PauseInv'
<1>. SUFFICES ASSUME PauseInv, [GSNext]_gsVars PROVE PauseInv'
  OBVIOUS
<1>1. CASE UNCHANGED paVars
  BY <1>1 DEF paVars, PauseInv, PATypeOK, NoLostWakeup
<1>2. CASE PauseCall \/ ResumeCall
  BY <1>2, PauseCallInv, ResumeCallInv
<1>3. CASE \E r \in Requests : Hold(r) \/ Release(r)
  BY <1>3, HoldInv, ReleaseInv
<1>. QED
  BY <1>1, <1>2, <1>3 DEF GSNext, gsVars, Throttled, Enter, Leave, PassThrough

-----------------------------------------------------------------------------
(***************************************************************************)
(* Whatever Pause and Resume do, the throttle behind the gate counts its   *)
(* running and its waiting requests exactly.                               *)
(***************************************************************************)
THEOREM GatedSlotsAccounted == GSSpec => []SlotsAccounted
<1>1. GSInit => ThrottleInv
  BY InitThrottleInv DEF GSInit
<1>2. ThrottleInv /\ [GSNext]_gsVars => ThrottleInv'
  BY NextThrottleInv, ThrottleSteps
<1>3. ThrottleInv => SlotsAccounted
  BY DEF ThrottleInv
<1>. QED BY <1>1, <1>2, <1>3, PTL DEF GSSpec

(***************************************************************************)
(* Over any sequence of Pause and Resume calls, the channel a request waits *)
(* on was closed or is the one the next Resume closes, once.               *)
(***************************************************************************)
THEOREM NoWakeupLost == GSSpec => []NoLostWakeup
<1>1. GSInit => PauseInv
  BY InitPauseInv DEF GSInit
<1>2. PauseInv => NoLostWakeup
  BY DEF PauseInv
<1>. QED BY <1>1, NextPauseInv, <1>2, PTL DEF GSSpec

\* The state of both gates keeps its type, for any number of requests.
THEOREM GatedTypes == GSSpec => []GSTypeOK
<1>1. GSInit => ThrottleInv /\ PauseInv
  BY InitThrottleInv, InitPauseInv DEF GSInit
<1>2. ThrottleInv /\ PauseInv /\ [GSNext]_gsVars => (ThrottleInv /\ PauseInv)'
  BY NextThrottleInv, ThrottleSteps, NextPauseInv
<1>3. ThrottleInv /\ PauseInv => GSTypeOK
  BY DEF ThrottleInv, PauseInv, GSTypeOK
<1>. QED BY <1>1, <1>2, <1>3, PTL DEF GSSpec
=============================================================================
