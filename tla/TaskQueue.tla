------------------------------ MODULE TaskQueue ------------------------------
(***************************************************************************)
(* The task queue of the watcher: class QueueManager of                    *)
(* watcher/src/queue/manager.ts, inside ONE process.                       *)
(*                                                                         *)
(* Every public operation is an async method.  A call runs without         *)
(* interruption up to its next `await`, then every other call in flight    *)
(* may run before it resumes; the program counter pc[c] of a call c names  *)
(* the code it resumes with.  A continuation performs at most one file     *)
(* write, and a file is replaced by writing a temporary file and renaming  *)
(* it (module QueueFile), so a crash of the process falls between two      *)
(* actions.                                                                *)
(*                                                                         *)
(* Tasks are numbered in order of creation, so the number of a task stands *)
(* for its created_at and for its unique id.  The array `tasks`, which     *)
(* every insertion sorts by priority, then age, is the partial function    *)
(* queue: its domain is the set of the tasks held, and DropsBefore is the  *)
(* order the code sorts by when it looks for a task to drop.               *)
(***************************************************************************)
EXTENDS Naturals, FiniteSets

CONSTANTS
  Call,           \* calls that may be in flight together in the process
  MaxTask,        \* bound on the tasks ever created
  MaxQueueSize,   \* maxQueueSize of the constructor (50 in production)
  Priority,       \* the values of PRIORITY_ORDER in use: 0 critical .. 3 low
  Status,         \* the values of TaskStatus in use: pending, executing, ..
  Operations,     \* the operations the process calls (the watcher only adds)
  WritesMayFail,  \* whether a file write may throw (disk full, bad archive)
  MaxCrashes      \* bound on the crashes of the process

ASSUME ConstantsAssumption ==
  /\ MaxTask \in Nat
  /\ MaxQueueSize \in Nat
  /\ Priority \subseteq 0..3
  /\ "pending" \in Status
  /\ Operations \subseteq {"add", "update", "remove", "fail", "clear"}
  /\ WritesMayFail \in BOOLEAN
  /\ MaxCrashes \in Nat

Task == 1..MaxTask
None == 0

VARIABLES
  queue,      \* this.queue.tasks: the tasks held in memory, with their status
  priority,   \* priority of each task created so far
  created,    \* number of tasks created so far
  pc,         \* what each call resumes with
  arg,        \* the task the call is about
  dropping,   \* droppedTasks of enforceMaxSize still to filter out
  victim,     \* the one of them archived last, filtered out next
  queueFile,  \* contents of queue.json
  expired,    \* number of copies of each task in queue-expired.json
  failed,     \* number of copies of each task in queue-failed.json
  up,         \* the process runs and has called initialize
  crashes,    \* crashes so far
  accepted,   \* history: tasks whose addTask has resolved
  discarded   \* history: tasks a caller asked to remove

memory == <<queue, pc, arg, dropping, victim>>
files == <<queueFile, expired, failed>>
history == <<accepted, discarded>>
vars == <<queue, priority, created, pc, arg, dropping, victim, queueFile,
          expired, failed, up, crashes, accepted, discarded>>

Held == DOMAIN queue

\* The in-memory array with task t pushed, and with the tasks of S filtered out.
Pushed(t) == [i \in Held \cup {t} |-> IF i = t THEN "pending" ELSE queue[i]]
Without(S) == [i \in Held \ S |-> queue[i]]

\* May a write succeed (TRUE) or throw (FALSE)?
WriteOutcome == IF WritesMayFail THEN BOOLEAN ELSE {TRUE}

\* Mutant: the youngest of the tasks of lowest priority goes first.
DropsYoungestFirst(t, u, prio) ==
  \/ prio[t] > prio[u]
  \/ prio[t] = prio[u] /\ t > u

\* sortedByDropPriority: lowest priority first, then oldest first.
DropsBefore(t, u, prio) ==
  \/ prio[t] > prio[u]
  \/ prio[t] = prio[u] /\ t < u

\* Mutant: the task just pushed is not counted.
ExcessButOne(S) == Cardinality(S) - MaxQueueSize - 1

\* tasksToDrop, for the tasks S.
Excess(S) == Cardinality(S) - MaxQueueSize

\* D is the first n tasks of S in that order, and t is the first one of D.
IsDropped(D, n, S, prio) ==
  /\ Cardinality(D) = n
  /\ \A t \in D, u \in S \ D : DropsBefore(t, u, prio)
IsFirst(t, D, prio) == \A u \in D \ {t} : DropsBefore(t, u, prio)

Idle(c) == up /\ pc[c] = "idle"
Starts(op) == op \in Operations

Init ==
  /\ queue = [i \in {} |-> "pending"]
  /\ priority = [t \in Task |-> 0]
  /\ created = 0
  /\ pc = [c \in Call |-> "idle"]
  /\ arg = [c \in Call |-> None]
  /\ dropping = [c \in Call |-> {}]
  /\ victim = [c \in Call |-> None]
  /\ queueFile = queue
  /\ expired = [t \in Task |-> 0]
  /\ failed = [t \in Task |-> 0]
  /\ up = TRUE
  /\ crashes = 0
  /\ accepted = {}
  /\ discarded = {}

-----------------------------------------------------------------------------
(* addTask: push, sort, enforceMaxSize, persist, emit, return.             *)

\* The call c returns or throws; its local variables are gone.
Ends(c) ==
  /\ pc' = [pc EXCEPT ![c] = "idle"]
  /\ arg' = [arg EXCEPT ![c] = None]
  /\ dropping' = [dropping EXCEPT ![c] = {}]
  /\ victim' = [victim EXCEPT ![c] = None]

\* Call c, for task t, archives v, the first of the tasks D it has to drop, and
\* awaits; or the append to queue-expired.json throws.
ArchivesFirst(c, t, D, prio, ok) ==
  IF ok
  THEN \E v \in D :
         /\ IsFirst(v, D, prio)
         /\ expired' = [expired EXCEPT ![v] = @ + 1]
         /\ victim' = [victim EXCEPT ![c] = v]
         /\ dropping' = [dropping EXCEPT ![c] = D]
         /\ arg' = [arg EXCEPT ![c] = t]
         /\ pc' = [pc EXCEPT ![c] = "drop"]
  ELSE Ends(c) /\ UNCHANGED expired

\* enforceMaxSize, task t being held too: nothing to drop, or the first dropped
\* task is archived.
Fits(c, t) ==
  /\ Excess(Held \cup {t}) <= 0
  /\ arg' = [arg EXCEPT ![c] = t]
  /\ pc' = [pc EXCEPT ![c] = "persist"]
  /\ UNCHANGED <<dropping, victim, expired>>

Overflows(c, t, prio, ok) ==
  LET S == Held \cup {t}
  IN /\ Excess(S) > 0
     /\ \E D \in SUBSET S : /\ IsDropped(D, Excess(S), S, prio)
                            /\ ArchivesFirst(c, t, D, prio, ok)

\* The synchronous start of addTask.
AddTask(c, p, ok) ==
  LET t == created + 1
      prio == [priority EXCEPT ![t] = p]
  IN /\ Starts("add") /\ Idle(c) /\ created < MaxTask
     /\ created' = t
     /\ priority' = prio
     /\ queue' = Pushed(t)
     /\ Fits(c, t) \/ Overflows(c, t, prio, ok)
     /\ UNCHANGED <<queueFile, failed, up, crashes, history>>

\* Mutant: the archived task is not filtered out.
DropTaskKeeps(c, ok) ==
  LET left == dropping[c] \ {victim[c]}
  IN /\ up /\ pc[c] = "drop"
     /\ \/ /\ left = {}
           /\ dropping' = [dropping EXCEPT ![c] = {}]
           /\ victim' = [victim EXCEPT ![c] = None]
           /\ pc' = [pc EXCEPT ![c] = "persist"]
           /\ UNCHANGED <<arg, expired>>
        \/ left # {} /\ ArchivesFirst(c, arg[c], left, priority, ok)
     /\ UNCHANGED <<queue, priority, created, queueFile, failed, up, crashes, history>>

\* The loop of enforceMaxSize resumes: the archived task is filtered out of the
\* queue, and the next one, if any, is archived.
DropTask(c, ok) ==
  LET left == dropping[c] \ {victim[c]}
  IN /\ up /\ pc[c] = "drop"
     /\ queue' = Without({victim[c]})
     /\ \/ /\ left = {}
           /\ dropping' = [dropping EXCEPT ![c] = {}]
           /\ victim' = [victim EXCEPT ![c] = None]
           /\ pc' = [pc EXCEPT ![c] = "persist"]
           /\ UNCHANGED <<arg, expired>>
        \/ /\ left # {}
           /\ ArchivesFirst(c, arg[c], left, priority, ok)
     /\ UNCHANGED <<priority, created, queueFile, failed, up, crashes, history>>

\* Mutant: nothing is written for a task that was itself dropped.
PersistAddIfHeld(c, ok) ==
  /\ up /\ pc[c] = "persist"
  /\ queueFile' = IF arg[c] \in Held THEN queue ELSE queueFile
  /\ pc' = [pc EXCEPT ![c] = "resolve"]
  /\ UNCHANGED <<queue, arg, dropping, victim, priority, created, expired, failed,
                 up, crashes, history>>

\* Mutant: the call waits for its task to be held before it saves the queue.
PersistAddWhenHeld(c, ok) ==
  /\ arg[c] \in Held
  /\ PersistAddIfHeld(c, ok)

\* Mutant: an error of the write is swallowed and the call goes on.
PersistAddUnchecked(c, ok) ==
  /\ up /\ pc[c] = "persist"
  /\ queueFile' = IF ok THEN queue ELSE queueFile
  /\ pc' = [pc EXCEPT ![c] = "resolve"]
  /\ UNCHANGED <<queue, arg, dropping, victim, priority, created, expired, failed,
                 up, crashes, history>>

\* persist: queue.json is replaced by the tasks now in memory.
PersistAdd(c, ok) ==
  /\ up /\ pc[c] = "persist"
  /\ IF ok THEN /\ queueFile' = queue
                /\ pc' = [pc EXCEPT ![c] = "resolve"]
                /\ UNCHANGED <<arg, dropping, victim>>
     ELSE Ends(c) /\ UNCHANGED queueFile
  /\ UNCHANGED <<queue, priority, created, expired, failed, up, crashes, history>>

\* The event is emitted and the promise of addTask resolves.
ResolveAdd(c) ==
  /\ up /\ pc[c] = "resolve"
  /\ Ends(c)
  /\ accepted' = accepted \cup {arg[c]}
  /\ UNCHANGED <<queue, priority, created, files, up, crashes, discarded>>

-----------------------------------------------------------------------------
(* The other operations.                                                   *)

\* What follows the write of an operation is an event only: pc stays "idle".
Replace(q, ok) ==
  /\ queue' = q
  /\ queueFile' = IF ok THEN q ELSE queueFile

UpdateTask(c, t, s, ok) ==
  /\ Starts("update") /\ Idle(c) /\ t \in Held
  /\ Replace([queue EXCEPT ![t] = s], ok)
  /\ UNCHANGED <<priority, created, pc, arg, dropping, victim, expired, failed,
                 up, crashes, history>>

RemoveTask(c, t, ok) ==
  /\ Starts("remove") /\ Idle(c) /\ t <= created
  /\ Replace(Without({t}), ok)
  /\ discarded' = discarded \cup {t}
  /\ UNCHANGED <<priority, created, pc, arg, dropping, victim, expired, failed,
                 up, crashes, accepted>>

\* moveToFailed archives the task; its removal follows an await.
MoveToFailed(c, t) ==
  /\ Starts("fail") /\ Idle(c) /\ t \in Held
  /\ failed' = [failed EXCEPT ![t] = @ + 1]
  /\ arg' = [arg EXCEPT ![c] = t]
  /\ pc' = [pc EXCEPT ![c] = "remove"]
  /\ UNCHANGED <<queue, dropping, victim, priority, created, queueFile, expired,
                 up, crashes, history>>

RemoveFailed(c, ok) ==
  /\ up /\ pc[c] = "remove"
  /\ Replace(Without({arg[c]}), ok)
  /\ Ends(c)
  /\ UNCHANGED <<priority, created, expired, failed, up, crashes, history>>

Clear(c, ok) ==
  /\ Starts("clear") /\ Idle(c)
  /\ Replace(Without(Held), ok)
  /\ discarded' = discarded \cup Held
  /\ UNCHANGED <<priority, created, pc, arg, dropping, victim, expired, failed,
                 up, crashes, accepted>>

-----------------------------------------------------------------------------
(* The process dies and is started again: initialize reads queue.json.     *)

Crash ==
  /\ up /\ crashes < MaxCrashes
  /\ up' = FALSE
  /\ crashes' = crashes + 1
  /\ queue' = Without(Held)
  /\ pc' = [c \in Call |-> "idle"]
  /\ arg' = [c \in Call |-> None]
  /\ dropping' = [c \in Call |-> {}]
  /\ victim' = [c \in Call |-> None]
  /\ UNCHANGED <<priority, created, files, history>>

Initialize ==
  /\ ~up
  /\ up' = TRUE
  /\ queue' = queueFile
  /\ UNCHANGED <<priority, created, pc, arg, dropping, victim, files, crashes,
                 history>>

Resume(c) ==
  \/ \E ok \in WriteOutcome : \/ DropTask(c, ok)
                              \/ PersistAdd(c, ok)
                              \/ RemoveFailed(c, ok)
  \/ ResolveAdd(c)

Start(c) ==
  \E ok \in WriteOutcome :
    \/ \E p \in Priority : AddTask(c, p, ok)
    \/ \E t \in Task : \/ \E s \in Status : UpdateTask(c, t, s, ok)
                       \/ RemoveTask(c, t, ok)
                       \/ MoveToFailed(c, t)
    \/ Clear(c, ok)

Next ==
  \/ \E c \in Call : Start(c) \/ Resume(c)
  \/ Crash
  \/ Initialize

\* An await on a settled promise always resumes, and the watcher is restarted.
Fairness == (\A c \in Call : WF_vars(Resume(c))) /\ WF_vars(Initialize)

Spec == Init /\ [][Next]_vars
FairSpec == Spec /\ Fairness

-----------------------------------------------------------------------------
(* Properties.                                                             *)

\* The local variables of the calls.
LocalsOK ==
  /\ pc \in [Call -> {"idle", "drop", "persist", "resolve", "remove"}]
  /\ arg \in [Call -> Task \cup {None}]
  /\ dropping \in [Call -> SUBSET Task]
  /\ victim \in [Call -> Task \cup {None}]

\* Every variable keeps its type.
TypeOK ==
  /\ LocalsOK
  /\ Held \subseteq Task /\ \A t \in Held : queue[t] \in Status
  /\ DOMAIN queueFile \subseteq Task
  /\ \A t \in DOMAIN queueFile : queueFile[t] \in Status
  /\ priority \in [Task -> 0..3]
  /\ created \in 0..MaxTask
  /\ expired \in [Task -> Nat]
  /\ failed \in [Task -> Nat]
  /\ up \in BOOLEAN
  /\ crashes \in 0..MaxCrashes
  /\ accepted \subseteq Task
  /\ discarded \subseteq Task

\* A task whose addTask resolved is never lost, whatever calls interleave with
\* it, wherever the process crashes and whichever write throws: it is in
\* queue.json, or archived as dropped or failed, or a caller removed it.
AcceptedIsKept ==
  \A t \in accepted : \/ t \in DOMAIN queueFile
                      \/ expired[t] > 0
                      \/ failed[t] > 0
                      \/ t \in discarded

\* While every write succeeds, queue.json lags behind the memory of a running
\* process only while some call has its own write still to do: when the calls
\* in flight have returned nothing is left unsaved.
NothingUnsaved ==
  up /\ queue # queueFile => \E c \in Call : pc[c] \in {"drop", "persist"}

\* The limit of enforceMaxSize: calls that overflow the queue together drop
\* enough between them, although each computes its victims from a queue that
\* still holds those of the others.
QueueCapped ==
  up /\ (\A c \in Call : pc[c] # "drop") => Cardinality(Held) <= MaxQueueSize

BeingDropped == UNION {dropping[c] : c \in Call}

\* enforceMaxSize never gives up a task while the queue goes on holding one of
\* lower priority, or an older one of the same priority, that no call is
\* dropping: the tasks lost are the least important ones (where calls only add).
DropsLeastImportant ==
  [][up' => \A t \in Held \ DOMAIN queue', u \in DOMAIN queue' \ BeingDropped' :
              \/ priority[u] < priority[t]
              \/ priority[u] = priority[t] /\ u > t]_vars

\* An addTask in a process that does not crash resolves, however many others
\* are in flight.
AddResolves == \A t \in Task : created >= t ~> t \in accepted \/ crashes > 0

\* A task dropped to queue-expired.json leaves queue.json, so that drain-queue
\* cannot still execute it.
DroppedLeavesFile ==
  \A t \in Task : expired[t] > 0 ~> t \notin DOMAIN queueFile \/ crashes > 0
=============================================================================
