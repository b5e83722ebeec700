------------------------------- MODULE Pause --------------------------------
(***************************************************************************)
(* PauseController (request_pause.go).  Pause replaces the channel resume, *)
(* Resume closes it; a request reads the flag and the channel under the    *)
(* lock and then, without it, waits on the channel it saw or for maxHold.  *)
(***************************************************************************)
EXTENDS Integers

CONSTANTS
    Held,       \* goroutines that may wait in the controller
    MaxPauses   \* bound on the calls of Pause, for model checking

ASSUME PauseAssumption == MaxPauses \in Nat

VARIABLES
    paused,     \* p.paused
    resume,     \* p.resume: channels are numbered in order of creation
    closed,     \* the channels that were closed
    channel     \* channel[r]: the channel r waits on, or Free

paVars == <<paused, resume, closed, channel>>

Channels == 0 .. MaxPauses
Free == -1

PATypeOK ==
    /\ paused \in BOOLEAN
    /\ resume \in Channels
    /\ closed \subseteq Channels
    /\ channel \in [Held -> Channels \cup {Free}]

PAInit ==
    /\ paused = FALSE
    /\ resume = 0
    /\ closed = {}
    /\ channel = [r \in Held |-> Free]

\* Mutant: a second Pause is no no-op, and replaces the channel in use.
PauseAgain ==
    /\ resume < MaxPauses
    /\ paused' = TRUE
    /\ resume' = resume + 1
    /\ UNCHANGED <<closed, channel>>

PauseCall ==
    /\ ~paused
    /\ resume < MaxPauses
    /\ paused' = TRUE
    /\ resume' = resume + 1
    /\ UNCHANGED <<closed, channel>>

ResumeCall ==
    /\ paused
    /\ paused' = FALSE
    /\ closed' = closed \cup {resume}
    /\ UNCHANGED <<resume, channel>>

\* wait() finds the controller running, or takes the channel to wait on.
PassThrough(r) ==
    /\ channel[r] = Free
    /\ ~paused
    /\ UNCHANGED paVars

Hold(r) ==
    /\ channel[r] = Free
    /\ paused
    /\ channel' = [channel EXCEPT ![r] = resume]
    /\ UNCHANGED <<paused, resume, closed>>

\* The channel was closed, or maxHold went by.
Release(r) ==
    /\ channel[r] # Free
    /\ channel' = [channel EXCEPT ![r] = Free]
    /\ UNCHANGED <<paused, resume, closed>>

-----------------------------------------------------------------------------
(***************************************************************************)
(* No wakeup is lost and no channel is closed twice: the channel a request *)
(* waits on was closed, or it is the one the next Resume closes, which is  *)
(* still open; over any sequence of pauses and resumes, some of which come *)
(* between a request's look at the channel and its wait on it.             *)
(***************************************************************************)
NoLostWakeup ==
    /\ paused => resume \notin closed
    /\ \A r \in Held :
          \/ channel[r] \in closed \cup {Free}
          \/ paused /\ channel[r] = resume
=============================================================================
