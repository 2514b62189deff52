---------------------------- MODULE MCQueueProcesses ----------------------------
(***************************************************************************)
(* The queues for TLC: health checks and a hook that overlap (part         *)
(* "overlap"), one session's hooks, one after the other, with a backlog to *)
(* drain (part "drain"), and the runs of the batch runner (part "batch").  *)
(* A behaviour is one of a single part.                                    *)
(***************************************************************************)
EXTENDS QueueProcesses

CONSTANTS
  Hook, MaxBacklog, MaxPending,           \* "drain": a hook of the session, its tasks, the limit
  Runner, LastItem, MaxRetries, MaxShared \* "batch"

\* Items are numbered.
ASSUME BatchAssumption == LastItem \in Nat

\* The backlog of a session is within the limit.
ASSUME SessionAssumption == MaxBacklog \in Nat /\ MaxPending \in Nat /\ MaxBacklog <= MaxPending

VARIABLE part

VARIABLES existsD, fileD, priorityD, createdD, pcD, memD, curD, printedD, archivedD, crashesD,
          reportedD
Session == INSTANCE QueueProcesses
  WITH HealthCheck <- {}, Drain <- {Hook}, MaxTask <- MaxBacklog, Backlog <- MaxBacklog,
       MaxQueueSize <- MaxPending,
       exists <- existsD, file <- fileD, priority <- priorityD, created <- createdD, pc <- pcD,
       mem <- memD, cur <- curD, printed <- printedD, archived <- archivedD,
       crashes <- crashesD, reported <- reportedD

VARIABLES tracking, temp, lock, branches, run, workers, built, overlap, stolen, givenUp
Batch == INSTANCE QueueRunner

batchVars == <<tracking, temp, lock, branches, run, workers, built, overlap, stolen, givenUp>>
sessionVars == <<existsD, fileD, priorityD, createdD, pcD, memD, curD, printedD, archivedD,
                 crashesD, reportedD>>
allVars == <<part, vars, sessionVars, batchVars>>

\* The state that a part keeps in the behaviours of the others.
Idle ==
  /\ part # "overlap" => created = 0
  /\ part # "drain" => createdD = 0
  /\ part # "batch" => \A i \in DOMAIN tracking : tracking[i] = "queued"

SystemInit == part \in {"overlap", "drain", "batch"} /\ Init /\ Session!Init /\ Batch!Init /\ Idle

SystemNext ==
  /\ \/ part = "overlap" /\ Next
     \/ part = "drain" /\ Session!Next
     \/ part = "batch" /\ Batch!Next
  /\ part = "overlap" \/ UNCHANGED vars
  /\ part = "drain" \/ UNCHANGED sessionVars
  /\ part = "batch" \/ UNCHANGED batchVars
  /\ UNCHANGED part

\* Commands go on being issued in the session, and a hook goes on.
SystemSpec ==
  /\ SystemInit /\ [][SystemNext]_allVars
  /\ WF_sessionVars(part = "drain" /\ Session!DrainStep(Hook))

---------------------------------------------------------------------------------
(* Properties.                                                                   *)

\* In a session of its own a task is printed at most once, and the task printed is the
\* most important of those pending.
PrintedOnceInOrder == []Session!PrintedAtMostOnce /\ Session!PrintedByImportance

\* Every pending task is printed in the end.
BacklogIsPrinted == part = "drain" => Session!PendingIsPrinted

\* queue-runner.sh: no two runs work on an item; tracking.json is whole unless a lock was
\* taken from a run that goes on; and where runs do not overlap it tells what became of
\* every item they came to.
ItemsAreTracked == Batch!OneRunPerItem /\ Batch!FileWhole /\ Batch!OutcomeTold
=================================================================================
