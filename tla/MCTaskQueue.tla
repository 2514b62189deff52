------------------------------ MODULE MCTaskQueue ------------------------------
(***************************************************************************)
(* The task queue for TLC: addTask calls in flight together (part "adds",  *)
(* TaskQueue itself), and every operation of the queue with crashes and    *)
(* writes that throw (part "faults", an instance beside it).  A behaviour  *)
(* is one of a single part.                                                *)
(***************************************************************************)
EXTENDS TaskQueue

CONSTANTS
  Caller, Operation, MaxTried, MaxHeld, MaxEnds \* "faults": calls, tasks, the limit, crashes

VARIABLE part

VARIABLES queueF, priorityF, createdF, pcF, argF, droppingF, victimF, queueFileF, expiredF, failedF,
          upF, crashesF, acceptedF, discardedF
Faults == INSTANCE TaskQueue
  WITH Call <- Caller, MaxTask <- MaxTried, MaxQueueSize <- MaxHeld, Operations <- Operation,
       WritesMayFail <- TRUE, MaxCrashes <- MaxEnds,
       queue <- queueF, priority <- priorityF, created <- createdF, pc <- pcF, arg <- argF,
       dropping <- droppingF, victim <- victimF, queueFile <- queueFileF, expired <- expiredF,
       failed <- failedF, up <- upF, crashes <- crashesF, accepted <- acceptedF,
       discarded <- discardedF

faultVars == <<queueF, priorityF, createdF, pcF, argF, droppingF, victimF, queueFileF, expiredF,
               failedF, upF, crashesF, acceptedF, discardedF>>
allVars == <<part, vars, faultVars>>

SystemInit == part \in {"adds", "faults"} /\ Init /\ Faults!Init

SystemNext ==
  /\ \/ part = "adds" /\ Next
     \/ part = "faults" /\ Faults!Next
  /\ part = "adds" \/ UNCHANGED vars
  /\ part = "faults" \/ UNCHANGED faultVars
  /\ UNCHANGED part

\* The event loop runs what is ready.
SystemSpec ==
  /\ SystemInit /\ [][SystemNext]_allVars
  /\ WF_vars(part = "adds" /\ Initialize) /\ \A c \in Call : WF_vars(part = "adds" /\ Resume(c))

--------------------------------------------------------------------------------
(* Properties.                                                                  *)

\* Whatever throws and whenever the process crashes, a task that addTask accepted is in
\* the queue's file or archived until somebody asks to remove it.
AcceptedTaskIsKept == Faults!AcceptedIsKept
================================================================================
