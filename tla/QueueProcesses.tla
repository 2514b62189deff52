---------------------------- MODULE QueueProcesses ----------------------------
(***************************************************************************)
(* The processes around queue.json.  Each one loads the queue into its own *)
(* QueueManager, works on that copy and saves the copy:                    *)
(*                                                                         *)
(*  - the health check (watcher/src/cli/health-check.ts), started in the   *)
(*    background when a session starts, loads the queue BEFORE it runs     *)
(*    `npm test` (up to five minutes) and queues the failure after it;     *)
(*  - the drain script (watcher/src/drain-queue.ts), run by the            *)
(*    pre-command hook, marks the next task executing, prints it for       *)
(*    Claude and marks it completed.                                       *)
(*                                                                         *)
(* Between two file accesses of one process any step of another may fall;  *)
(* the accesses themselves are whole here (what saves do that overlap in   *)
(* the middle is the subject of QueueFile), and within one process only    *)
(* one call is in flight (module TaskQueue has the others).                *)
(* Tasks are numbered in order of creation.                                *)
(***************************************************************************)
EXTENDS Naturals, FiniteSets

CONSTANTS
  HealthCheck,   \* health checks, one at a time each
  Drain,         \* pre-command hooks, one for each session on the project
  MaxTask,       \* bound on the tasks ever created
  Backlog,       \* at most so many tasks are pending from an earlier session
  Priority,      \* values of PRIORITY_ORDER in use
  MaxQueueSize,  \* maxQueueSize of the queue manager
  MaxCrashes     \* bound on the processes killed

ASSUME ConstantsAssumption ==
  /\ MaxTask \in Nat /\ Backlog \in 0..MaxTask
  /\ Priority \subseteq 0..3 /\ 1 \in Priority
  /\ MaxQueueSize \in Nat /\ Backlog <= MaxQueueSize /\ MaxCrashes \in Nat
  /\ HealthCheck \cap Drain = {}

Process == HealthCheck \cup Drain
Task == 1..MaxTask
None == 0

VARIABLES
  exists,    \* queue.json exists
  file,      \* the tasks in queue.json, with their status
  priority,  \* priority of each task
  created,   \* tasks created so far
  pc,        \* what each process does next
  mem,       \* the queue each process has in memory
  cur,       \* the task each process is about
  printed,   \* how often each task was printed for Claude
  archived,  \* tasks written to queue-expired.json
  crashes,   \* processes killed so far
  reported   \* history: tasks whose health check ended with the task queued

disk == <<exists, file>>
vars == <<exists, file, priority, created, pc, mem, cur, printed, archived,
          crashes, reported>>

NoTasks == [t \in {} |-> "pending"]
Pending(q) == {t \in DOMAIN q : q[t] = "pending"}

\* The order of the array: most important first, then oldest.
Before(t, u, prio) == prio[t] < prio[u] \/ (prio[t] = prio[u] /\ t < u)

\* Mutant: the oldest of the pending tasks, whatever its priority.
IsOldest(t, S) == t \in S /\ \A u \in S : t <= u

\* getNextTask: t is the next one of the pending tasks S.
IsNext(t, S) == t \in S /\ \A u \in S \ {t} : Before(t, u, priority)

Init ==
  /\ created \in 0..Backlog
  /\ exists = (created > 0)
  /\ file = [t \in 1..created |-> "pending"]
  /\ priority \in {p \in [Task -> Priority] : \A t \in Task : t > created => p[t] = 1}
  /\ pc = [p \in Process |-> "off"]
  /\ mem = [p \in Process |-> NoTasks]
  /\ cur = [p \in Process |-> None]
  /\ printed = [t \in Task |-> 0]
  /\ archived = {}
  /\ crashes = 0
  /\ reported = {}

\* The process ends.
Exits(p) ==
  /\ pc' = [pc EXCEPT ![p] = "off"]
  /\ mem' = [mem EXCEPT ![p] = NoTasks]
  /\ cur' = [cur EXCEPT ![p] = None]

\* The process replaces queue.json by its copy, changed to q.
Saves(p, q) == mem' = [mem EXCEPT ![p] = q] /\ file' = q /\ exists' = TRUE

-----------------------------------------------------------------------------
(* The health check.                                                       *)

\* initialize loads queue.json, or finds none.
HealthLoad(h) ==
  /\ pc[h] = "off"
  /\ pc' = [pc EXCEPT ![h] = IF exists THEN "test" ELSE "create"]
  /\ mem' = [mem EXCEPT ![h] = IF exists THEN file ELSE NoTasks]
  /\ UNCHANGED <<disk, priority, created, cur, printed, archived, crashes, reported>>

\* initialize found no queue.json and saves an empty queue.
HealthCreate(h) ==
  /\ pc[h] = "create"
  /\ Saves(h, NoTasks)
  /\ pc' = [pc EXCEPT ![h] = "test"]
  /\ UNCHANGED <<priority, created, cur, printed, archived, crashes, reported>>

\* npm test ends without a failing test that has a name.
HealthPasses(h) ==
  /\ pc[h] = "test"
  /\ Exits(h)
  /\ UNCHANGED <<disk, priority, created, printed, archived, crashes, reported>>

\* npm test fails: reportFailure creates a task of priority high; enforceMaxSize
\* archives the oldest of the least important ones if that is one too many.
HealthReports(h) ==
  LET t == created + 1
      S == DOMAIN mem[h] \cup {t}
      drops == IF Cardinality(S) <= MaxQueueSize THEN {}
               ELSE {u \in S : /\ \A v \in S : priority[v] <= priority[u]
                               /\ \A v \in S : priority[v] = priority[u] => u <= v}
  IN /\ pc[h] = "test" /\ created < MaxTask
     /\ created' = t
     /\ archived' = archived \cup drops
     /\ mem' = [mem EXCEPT ![h] =
                  [u \in S \ drops |-> IF u = t THEN "pending" ELSE mem[h][u]]]
     /\ cur' = [cur EXCEPT ![h] = t]
     /\ pc' = [pc EXCEPT ![h] = "save"]
     /\ UNCHANGED <<disk, priority, printed, crashes, reported>>

\* The queue is saved and the process exits with "task(s) queued".
HealthSaves(h) ==
  /\ pc[h] = "save"
  /\ file' = mem[h] /\ exists' = TRUE
  /\ reported' = reported \cup {cur[h]}
  /\ Exits(h)
  /\ UNCHANGED <<priority, created, printed, archived, crashes>>

-----------------------------------------------------------------------------
(* The pre-command hook.                                                   *)

\* The hook goes on only where queue.json has a pending task.
DrainLoads(d) ==
  /\ pc[d] = "off" /\ exists
  /\ \E t \in Task : IsNext(t, Pending(file)) /\ cur' = [cur EXCEPT ![d] = t]
  /\ mem' = [mem EXCEPT ![d] = file]
  /\ pc' = [pc EXCEPT ![d] = "mark"]
  /\ UNCHANGED <<disk, priority, created, printed, archived, crashes, reported>>

\* Mutant: the hook exits without output when no OTHER task is pending.
DrainMarksLast(d) ==
  LET q == [mem[d] EXCEPT ![cur[d]] = "executing"]
  IN /\ pc[d] = "mark"
     /\ file' = q /\ exists' = TRUE
     /\ IF Pending(q) = {} THEN Exits(d)
        ELSE /\ pc' = [pc EXCEPT ![d] = "print"]
             /\ mem' = [mem EXCEPT ![d] = q]
             /\ UNCHANGED cur
     /\ UNCHANGED <<priority, created, printed, archived, crashes, reported>>

\* Mutant: the task is marked with its final status at once.
DrainMarksCompleted(d) ==
  /\ pc[d] = "mark"
  /\ Saves(d, [mem[d] EXCEPT ![cur[d]] = "completed"])
  /\ pc' = [pc EXCEPT ![d] = "print"]
  /\ UNCHANGED <<priority, created, cur, printed, archived, crashes, reported>>

DrainMarks(d) ==
  /\ pc[d] = "mark"
  /\ Saves(d, [mem[d] EXCEPT ![cur[d]] = "executing"])
  /\ pc' = [pc EXCEPT ![d] = "print"]
  /\ UNCHANGED <<priority, created, cur, printed, archived, crashes, reported>>

DrainPrints(d) ==
  /\ pc[d] = "print"
  /\ printed' = [printed EXCEPT ![cur[d]] = @ + 1]
  /\ pc' = [pc EXCEPT ![d] = "complete"]
  /\ UNCHANGED <<disk, priority, created, mem, cur, archived, crashes, reported>>

\* Mutant: the task goes back to pending after the output.
DrainRequeues(d) ==
  /\ pc[d] = "complete"
  /\ file' = [mem[d] EXCEPT ![cur[d]] = "pending"] /\ exists' = TRUE
  /\ Exits(d)
  /\ UNCHANGED <<priority, created, printed, archived, crashes, reported>>

DrainCompletes(d) ==
  /\ pc[d] = "complete"
  /\ file' = [mem[d] EXCEPT ![cur[d]] = "completed"] /\ exists' = TRUE
  /\ Exits(d)
  /\ UNCHANGED <<priority, created, printed, archived, crashes, reported>>

\* A session ends, or a hook is cancelled, and its process is killed.
Crash(p) ==
  /\ pc[p] # "off" /\ crashes < MaxCrashes
  /\ crashes' = crashes + 1
  /\ Exits(p)
  /\ UNCHANGED <<disk, priority, created, printed, archived, reported>>

HealthStep(h) ==
  \/ HealthLoad(h) \/ HealthCreate(h)
  \/ HealthPasses(h) \/ HealthReports(h) \/ HealthSaves(h)
DrainStep(d) == DrainLoads(d) \/ DrainMarks(d) \/ DrainPrints(d) \/ DrainCompletes(d)

Next ==
  \/ \E h \in HealthCheck : HealthStep(h)
  \/ \E d \in Drain : DrainStep(d)
  \/ \E p \in Process : Crash(p)

\* The user goes on issuing commands.
Fairness == \A d \in Drain : WF_vars(DrainStep(d))

Spec == Init /\ [][Next]_vars
FairSpec == Spec /\ Fairness

-----------------------------------------------------------------------------
(* Properties.                                                             *)

\* Whatever processes overlap and die, a task that queue.json calls completed
\* was shown to Claude.
CompletedWasPrinted == \A t \in DOMAIN file : file[t] = "completed" => printed[t] > 0

\* With one session and no health check under way, no task is printed twice,
\* wherever its hook is killed.
PrintedAtMostOnce == \A t \in Task : printed[t] <= 1

\* Tasks are printed most important first: what a hook prints comes before every
\* task that is still pending.
PrintedByImportance ==
  [][\A t \in Task : printed'[t] > printed[t] =>
       \A u \in Pending(file) : Before(t, u, priority)]_vars

\* Every pending task is printed sooner or later, unless a hook was killed.
PendingIsPrinted ==
  \A t \in Task : t \in Pending(file) ~> printed[t] > 0 \/ crashes > 0

\* A failure the health check reported as queued is in queue.json, or archived.
ReportedIsKept == \A t \in reported : t \in DOMAIN file \cup archived
=============================================================================
