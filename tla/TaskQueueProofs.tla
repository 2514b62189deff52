--------------------------- MODULE TaskQueueProofs ---------------------------
(***************************************************************************)
(* Proofs about TaskQueue for every number of calls, tasks and crashes:    *)
(* types, what is unsaved, that accepted tasks are kept (KeptInv follows   *)
(* the task of each call), the limit (CapInv counts what no call is        *)
(* dropping) and what is dropped (DropInv orders it before all the rest).  *)
(***************************************************************************)
EXTENDS TaskQueue, FiniteSetTheorems, TLAPS

\* Tasks are positive numbers, so None is not one.
LEMMA TaskFacts == Task \subseteq Nat /\ None \notin Task /\ None \in Nat
  BY ConstantsAssumption DEF Task, None

\* What TypeOK needs to be inductive: a call in flight is about a task.
TypeInv ==
  /\ TypeOK
  /\ \A c \in Call : pc[c] # "idle" => arg[c] \in Task

-----------------------------------------------------------------------------
(* Type correctness: one lemma per action that writes local variables.     *)

\* The initial state is well typed.
LEMMA InitType == Init => TypeOK
  BY ConstantsAssumption, TaskFacts DEF Init, TypeOK, LocalsOK, Held

\* Archiving the first of a set of dropped tasks preserves the types.
LEMMA ArchivesFirstType ==
  ASSUME TypeOK, NEW c \in Call, NEW t \in Task \cup {None}, NEW D \in SUBSET Task,
         NEW prio, NEW ok \in BOOLEAN, ArchivesFirst(c, t, D, prio, ok)
  PROVE  LocalsOK' /\ expired' \in [Task -> Nat]
  <1>1. CASE ok
    <2>1. PICK v \in D : /\ expired' = [expired EXCEPT ![v] = @ + 1]
                         /\ victim' = [victim EXCEPT ![c] = v]
                         /\ dropping' = [dropping EXCEPT ![c] = D]
                         /\ arg' = [arg EXCEPT ![c] = t]
                         /\ pc' = [pc EXCEPT ![c] = "drop"]
      BY <1>1 DEF ArchivesFirst
    <2>2. expired' \in [Task -> Nat]
      BY <2>1 DEF TypeOK
    <2>3. QED  BY <2>1, <2>2 DEF TypeOK, LocalsOK
  <1>2. CASE ~ok
    BY <1>2, TaskFacts DEF TypeOK, LocalsOK, ArchivesFirst, Ends
  <1>3. QED  BY <1>1, <1>2

\* addTask preserves the types.
LEMMA AddTaskType ==
  ASSUME TypeOK, NEW c \in Call, NEW p \in Priority, NEW ok \in BOOLEAN,
         AddTask(c, p, ok)
  PROVE  TypeOK'
  <1> DEFINE t == created + 1
  <1>1. t \in Task /\ created' = t /\ created' \in 0..MaxTask
    BY ConstantsAssumption DEF AddTask, TypeOK, Task
  <1>2. priority' \in [Task -> 0..3]
    BY <1>1, ConstantsAssumption DEF AddTask, TypeOK
  <1>3. queue' = Pushed(t)
    BY DEF AddTask
  <1>4. Held' \subseteq Task /\ \A i \in Held' : queue'[i] \in Status
    BY <1>1, <1>3, ConstantsAssumption DEF Pushed, Held, TypeOK
  <1>5. Fits(c, t) \/ Overflows(c, t, priority', ok)
    BY DEF AddTask
  <1>6. LocalsOK' /\ expired' \in [Task -> Nat]
    <2>1. CASE Fits(c, t)
      BY <2>1, <1>1 DEF Fits, TypeOK, LocalsOK
    <2>2. CASE Overflows(c, t, priority', ok)
      <3>1. PICK D \in SUBSET (Held \cup {t}) : ArchivesFirst(c, t, D, priority', ok)
        BY <2>2 DEF Overflows
      <3>2. D \in SUBSET Task
        BY <1>1 DEF TypeOK
      <3>3. QED  BY <3>1, <3>2, <1>1, ArchivesFirstType
    <2>3. QED  BY <1>5, <2>1, <2>2
  <1>7. QED
    BY <1>1, <1>2, <1>4, <1>6 DEF AddTask, TypeOK, history, Held

\* Filtering tasks out of the queue preserves its type.
LEMMA WithoutType ==
  ASSUME TypeOK, NEW S
  PROVE  /\ DOMAIN Without(S) = Held \ S
         /\ DOMAIN Without(S) \subseteq Task
         /\ \A i \in DOMAIN Without(S) : Without(S)[i] \in Status
  BY DEF TypeOK, Held, Without

\* The loop of enforceMaxSize preserves the types.
LEMMA DropTaskType ==
  ASSUME TypeOK, NEW c \in Call, NEW ok \in BOOLEAN, DropTask(c, ok)
  PROVE  TypeOK'
  <1> DEFINE left == dropping[c] \ {victim[c]}
  <1>1. left \in SUBSET Task /\ arg[c] \in Task \cup {None}
    BY DEF TypeOK, LocalsOK
  <1>2. Held' \subseteq Task /\ \A i \in Held' : queue'[i] \in Status
    BY WithoutType DEF DropTask, Held
  <1>3. CASE left = {}
    BY <1>2, <1>3, TaskFacts DEF DropTask, ArchivesFirst, TypeOK, LocalsOK, history, Held
  <1>4. CASE left # {}
    <2>1. ArchivesFirst(c, arg[c], left, priority, ok)
      BY <1>4 DEF DropTask
    <2>2. LocalsOK' /\ expired' \in [Task -> Nat]
      BY <2>1, <1>1, ArchivesFirstType
    <2>3. QED  BY <1>2, <2>2 DEF DropTask, TypeOK, history, Held
  <1>5. QED  BY <1>3, <1>4

\* A call that ends leaves local variables of their types.
LEMMA EndsType == ASSUME TypeOK, NEW c \in Call, Ends(c) PROVE LocalsOK'
  BY TaskFacts DEF TypeOK, LocalsOK, Ends

\* The other steps of a call preserve the types.
LEMMA CallType ==
  ASSUME TypeInv, TypeOK, NEW c \in Call, NEW ok \in BOOLEAN
  PROVE  /\ PersistAdd(c, ok) => TypeOK'
         /\ ResolveAdd(c) => TypeOK'
         /\ \A t \in Task, s \in Status : UpdateTask(c, t, s, ok) => TypeOK'
         /\ \A t \in Task : RemoveTask(c, t, ok) => TypeOK'
         /\ \A t \in Task : MoveToFailed(c, t) => TypeOK'
         /\ RemoveFailed(c, ok) => TypeOK'
         /\ Clear(c, ok) => TypeOK'
  <1>1. ASSUME PersistAdd(c, ok) PROVE TypeOK'
    <2>1. LocalsOK'
      BY <1>1, EndsType DEF PersistAdd, TypeOK, LocalsOK
    <2>2. QED  BY <1>1, <2>1 DEF PersistAdd, TypeOK, history, Held
  <1>2. ASSUME ResolveAdd(c) PROVE TypeOK'
    <2>1. accepted' \subseteq Task
      BY <1>2 DEF ResolveAdd, TypeInv, TypeOK
    <2>2. QED  BY <1>2, <2>1, EndsType DEF ResolveAdd, TypeInv, TypeOK, files, Held
  <1>3. ASSUME NEW t \in Task, NEW s \in Status, UpdateTask(c, t, s, ok) PROVE TypeOK'
    BY <1>3 DEF UpdateTask, Replace, TypeOK, LocalsOK, history, Held
  <1>4. ASSUME NEW t \in Task, RemoveTask(c, t, ok) PROVE TypeOK'
    BY <1>4, WithoutType DEF RemoveTask, Replace, TypeOK, LocalsOK, Held
  <1>5. ASSUME NEW t \in Task, MoveToFailed(c, t) PROVE TypeOK'
    BY <1>5 DEF MoveToFailed, TypeOK, LocalsOK, history, Held
  <1>6. ASSUME RemoveFailed(c, ok) PROVE TypeOK'
    BY <1>6, WithoutType, EndsType DEF RemoveFailed, Replace, TypeOK, history, Held
  <1>7. ASSUME Clear(c, ok) PROVE TypeOK'
    BY <1>7, WithoutType DEF Clear, Replace, TypeOK, LocalsOK, Held
  <1>8. QED
    BY <1>1, <1>2, <1>3, <1>4, <1>5, <1>6, <1>7

\* A crash and a restart preserve the types.
LEMMA ProcessType == ASSUME TypeOK, Crash \/ Initialize PROVE TypeOK'
  <1>1. CASE Crash
    <2>1. LocalsOK'
      BY <1>1, TaskFacts DEF Crash, LocalsOK
    <2>2. Held' \subseteq Task /\ \A t \in Held' : queue'[t] \in Status
      BY <1>1, WithoutType DEF Crash, Held
    <2>3. crashes' \in 0..MaxCrashes
      BY <1>1, ConstantsAssumption DEF Crash, TypeOK
    <2>4. QED
      BY <1>1, <2>1, <2>2, <2>3 DEF Crash, TypeOK, files, history, Held
  <1>2. CASE Initialize
    BY <1>2 DEF Initialize, TypeOK, LocalsOK, files, history, Held
  <1>3. QED  BY <1>1, <1>2

\* A call in flight is about a task: only the steps of the call itself set arg.
LEMMA ArgStep ==
  ASSUME TypeInv, [Next]_vars
  PROVE  \A c \in Call : pc'[c] # "idle" => arg'[c] \in Task
  <1> USE DEF TypeInv, TypeOK, LocalsOK
  <1>1. ASSUME NEW c \in Call, NEW ok \in BOOLEAN, NEW p \in Priority, AddTask(c, p, ok)
        PROVE  \A d \in Call : pc'[d] # "idle" => arg'[d] \in Task
    <2>1. created + 1 \in Task /\ (Fits(c, created + 1) \/ Overflows(c, created + 1, priority', ok))
      BY <1>1, ConstantsAssumption DEF AddTask, Task
    <2>2. QED  BY <2>1, <1>1 DEF Fits, Overflows, ArchivesFirst, Ends
  <1>2. ASSUME NEW c \in Call, NEW ok \in BOOLEAN, DropTask(c, ok)
        PROVE  \A d \in Call : pc'[d] # "idle" => arg'[d] \in Task
    BY <1>2 DEF DropTask, ArchivesFirst, Ends
  <1>3. ASSUME NEW c \in Call, NEW ok \in BOOLEAN,
               PersistAdd(c, ok) \/ ResolveAdd(c) \/ RemoveFailed(c, ok)
        PROVE  \A d \in Call : pc'[d] # "idle" => arg'[d] \in Task
    BY <1>3 DEF PersistAdd, ResolveAdd, RemoveFailed, Ends
  <1>4. ASSUME NEW c \in Call, NEW t \in Task, MoveToFailed(c, t)
        PROVE  \A d \in Call : pc'[d] # "idle" => arg'[d] \in Task
    BY <1>4 DEF MoveToFailed
  <1>5. ASSUME NEW c \in Call, NEW ok \in BOOLEAN,
               \/ \E t \in Task, s \in Status : UpdateTask(c, t, s, ok)
               \/ \E t \in Task : RemoveTask(c, t, ok)
               \/ Clear(c, ok)
        PROVE  \A d \in Call : pc'[d] # "idle" => arg'[d] \in Task
    BY <1>5 DEF UpdateTask, RemoveTask, Clear
  <1>6. ASSUME Crash \/ Initialize \/ UNCHANGED vars
        PROVE  \A d \in Call : pc'[d] # "idle" => arg'[d] \in Task
    BY <1>6 DEF Crash, Initialize, vars
  <1>7. ASSUME NEW c \in Call, Start(c)
        PROVE  \A d \in Call : pc'[d] # "idle" => arg'[d] \in Task
    BY <1>1, <1>4, <1>5, <1>7 DEF Start, WriteOutcome
  <1>8. ASSUME NEW c \in Call, Resume(c)
        PROVE  \A d \in Call : pc'[d] # "idle" => arg'[d] \in Task
    BY <1>2, <1>3, <1>8 DEF Resume, WriteOutcome
  <1>9. QED
    BY <1>6, <1>7, <1>8 DEF Next

\* Every variable keeps its type, with TypeInv as inductive invariant.
THEOREM TypeInvariant == Spec => []TypeInv
  <1>1. Init => TypeInv
    BY InitType DEF Init, TypeInv
  <1>2. TypeInv /\ [Next]_vars => TypeInv'
    <2> SUFFICES ASSUME TypeInv, [Next]_vars PROVE TypeInv'
      OBVIOUS
    <2>1. TypeOK
      BY DEF TypeInv
    <2>2. TypeOK'
      <3>1. ASSUME NEW c \in Call, Resume(c) PROVE TypeOK'
        BY <2>1, <3>1, DropTaskType, CallType DEF Resume, WriteOutcome
      <3>2. ASSUME NEW c \in Call, Start(c) PROVE TypeOK'
        BY <2>1, <3>2, AddTaskType, CallType DEF Start, WriteOutcome
      <3>3. CASE UNCHANGED vars
        BY <2>1, <3>3 DEF vars, TypeOK, LocalsOK, Held
      <3>4. QED  BY <2>1, <3>1, <3>2, <3>3, ProcessType DEF Next
    <2>3. QED  BY <2>2, ArgStep DEF TypeInv
  <1>3. QED  BY <1>1, <1>2, PTL DEF Spec

\* Every variable keeps its type.
THEOREM TypeCorrect == Spec => []TypeOK
  <1>1. TypeInv => TypeOK
    BY DEF TypeInv
  <1>2. QED  BY <1>1, TypeInvariant, PTL

-----------------------------------------------------------------------------
(* The steps of Next with a write that succeeds or throws, by name.        *)

\* Every step is one of these.
LEMMA NextCases ==
  ASSUME [Next]_vars
  PROVE  \/ \E c \in Call, p \in Priority, ok \in WriteOutcome : AddTask(c, p, ok)
         \/ \E c \in Call, ok \in WriteOutcome : DropTask(c, ok)
         \/ \E c \in Call, ok \in WriteOutcome : PersistAdd(c, ok)
         \/ \E c \in Call : ResolveAdd(c)
         \/ \E c \in Call, t \in Task, s \in Status, ok \in WriteOutcome :
              UpdateTask(c, t, s, ok)
         \/ \E c \in Call, t \in Task, ok \in WriteOutcome : RemoveTask(c, t, ok)
         \/ \E c \in Call, t \in Task : MoveToFailed(c, t)
         \/ \E c \in Call, ok \in WriteOutcome : RemoveFailed(c, ok)
         \/ \E c \in Call, ok \in WriteOutcome : Clear(c, ok)
         \/ Crash
         \/ Initialize
         \/ UNCHANGED vars
  <1>1. ASSUME NEW c \in Call, Start(c)
        PROVE  \/ \E p \in Priority, ok \in WriteOutcome : AddTask(c, p, ok)
               \/ \E t \in Task, s \in Status, ok \in WriteOutcome : UpdateTask(c, t, s, ok)
               \/ \E t \in Task, ok \in WriteOutcome : RemoveTask(c, t, ok)
               \/ \E t \in Task : MoveToFailed(c, t)
               \/ \E ok \in WriteOutcome : Clear(c, ok)
    BY <1>1 DEF Start
  <1>2. ASSUME NEW c \in Call, Resume(c)
        PROVE  \/ \E ok \in WriteOutcome : DropTask(c, ok)
               \/ \E ok \in WriteOutcome : PersistAdd(c, ok)
               \/ ResolveAdd(c)
               \/ \E ok \in WriteOutcome : RemoveFailed(c, ok)
    BY <1>2 DEF Resume
  <1>3. QED
    BY <1>1, <1>2 DEF Next

-----------------------------------------------------------------------------
(* NothingUnsaved is inductive when writes do not fail.                    *)

\* While writes succeed, queue.json differs from memory only while a call has
\* its own write still to do.
THEOREM NothingIsUnsaved ==
  ASSUME WritesMayFail = FALSE
  PROVE  Spec => []NothingUnsaved
  <1>1. Init => NothingUnsaved
    BY DEF Init, NothingUnsaved
  <1>2. TypeInv /\ NothingUnsaved /\ [Next]_vars => NothingUnsaved'
    <2> SUFFICES ASSUME TypeInv, NothingUnsaved, [Next]_vars
                 PROVE  NothingUnsaved'
      OBVIOUS
    <2> USE DEF TypeInv, TypeOK, LocalsOK, NothingUnsaved
    <2>ok. WriteOutcome = {TRUE}
      BY DEF WriteOutcome
    <2>1. ASSUME NEW c \in Call, NEW p \in Priority, AddTask(c, p, TRUE) PROVE NothingUnsaved'
      <3>1. pc'[c] \in {"drop", "persist"}
        BY <2>1 DEF AddTask, Fits, Overflows, ArchivesFirst
      <3>2. QED  BY <3>1
    <2>2. ASSUME NEW c \in Call, DropTask(c, TRUE) PROVE NothingUnsaved'
      <3>1. pc'[c] \in {"drop", "persist"}
        BY <2>2 DEF DropTask, ArchivesFirst
      <3>2. QED  BY <3>1
    <2>3. ASSUME NEW c \in Call, PersistAdd(c, TRUE) PROVE NothingUnsaved'
      BY <2>3 DEF PersistAdd
    <2>4. ASSUME NEW c \in Call, ResolveAdd(c) PROVE NothingUnsaved'
      BY <2>4 DEF ResolveAdd, Ends, files
    <2>5. ASSUME NEW c \in Call, NEW t \in Task,
                 \/ \E s \in Status : UpdateTask(c, t, s, TRUE)
                 \/ RemoveTask(c, t, TRUE)
          PROVE  NothingUnsaved'
      BY <2>5 DEF UpdateTask, RemoveTask, Replace
    <2>6. ASSUME NEW c \in Call, RemoveFailed(c, TRUE) \/ Clear(c, TRUE)
          PROVE  NothingUnsaved'
      BY <2>6 DEF RemoveFailed, Clear, Replace
    <2>7. ASSUME NEW c \in Call, NEW t \in Task, MoveToFailed(c, t) PROVE NothingUnsaved'
      BY <2>7 DEF MoveToFailed, Idle
    <2>8. CASE Crash \/ Initialize \/ UNCHANGED vars
      BY <2>8 DEF Crash, Initialize, vars, files
    <2>9. QED
      BY <2>ok, <2>1, <2>2, <2>3, <2>4, <2>5, <2>6, <2>7, <2>8, NextCases
  <1>3. QED  BY <1>1, <1>2, TypeInvariant, PTL DEF Spec

-----------------------------------------------------------------------------
(* AcceptedIsKept: the invariant follows the task of each call.            *)

\* Archived, or removed by a caller.
Gone(t) == expired[t] > 0 \/ failed[t] > 0 \/ t \in discarded
Kept(t) == t \in DOMAIN queueFile \/ Gone(t)
Remembered(t) == up => t \in Held \/ Gone(t)

KeptInv ==
  /\ \A t \in accepted : Kept(t) /\ Remembered(t)
  /\ \A c \in Call :
       /\ pc[c] # "idle" => up /\ Remembered(arg[c])
       /\ pc[c] = "drop" => victim[c] \in Task /\ expired[victim[c]] > 0
       /\ pc[c] = "resolve" => Kept(arg[c])
       /\ pc[c] = "remove" => failed[arg[c]] > 0

\* A task that is gone stays gone: copies are never taken out of an archive.
LEMMA GoneStays ==
  ASSUME TypeInv, [Next]_vars, NEW t \in Task, Gone(t)
  PROVE  Gone(t)'
  <1> USE DEF TypeInv, TypeOK, Gone
  <1>1. ASSUME NEW c \in Call, NEW p \in Priority, NEW ok \in WriteOutcome, AddTask(c, p, ok)
        PROVE  Gone(t)'
    BY <1>1 DEF AddTask, Fits, Overflows, ArchivesFirst, history
  <1>2. ASSUME NEW c \in Call, NEW ok \in WriteOutcome, DropTask(c, ok) PROVE Gone(t)'
    BY <1>2 DEF DropTask, ArchivesFirst, history
  <1>3. ASSUME NEW c \in Call, NEW u \in Task, MoveToFailed(c, u) PROVE Gone(t)'
    BY <1>3 DEF MoveToFailed, history
  <1>4. QED
    BY <1>1, <1>2, <1>3, NextCases
    DEF PersistAdd, ResolveAdd, UpdateTask, RemoveTask, RemoveFailed, Clear, Crash,
        Initialize, vars, files, history

\* A task in memory stays there unless it is archived or a caller removes it.
LEMMA RememberedStays ==
  ASSUME TypeInv, KeptInv, [Next]_vars, NEW t \in Task, up, Remembered(t)
  PROVE  Remembered(t)'
  <1> USE DEF TypeInv, TypeOK, Remembered, Held
  <1>1. Gone(t) => Gone(t)'
    BY GoneStays
  <1>2. SUFFICES ASSUME t \in Held, up', ~Gone(t)' PROVE t \in DOMAIN queue'
    BY <1>1
  <1>3. ASSUME NEW c \in Call, NEW p \in Priority, NEW ok \in WriteOutcome, AddTask(c, p, ok)
        PROVE  t \in DOMAIN queue'
    BY <1>2, <1>3 DEF AddTask, Pushed
  <1>4. ASSUME NEW c \in Call, NEW ok \in WriteOutcome, DropTask(c, ok)
        PROVE  t \in DOMAIN queue'
    <2>1. victim[c] # t
      BY <1>1, <1>2, <1>4 DEF DropTask, KeptInv, Gone
    <2>2. QED  BY <2>1, <1>2, <1>4 DEF DropTask, Without
  <1>5. ASSUME NEW c \in Call, NEW u \in Task, NEW ok \in WriteOutcome,
               \/ \E s \in Status : UpdateTask(c, u, s, ok)
               \/ RemoveTask(c, u, ok)
        PROVE  t \in DOMAIN queue'
    BY <1>2, <1>5 DEF UpdateTask, RemoveTask, Replace, Without, Gone
  <1>6. ASSUME NEW c \in Call, NEW ok \in WriteOutcome, RemoveFailed(c, ok)
        PROVE  t \in DOMAIN queue'
    <2>1. arg[c] # t
      BY <1>1, <1>2, <1>6 DEF RemoveFailed, KeptInv, Gone
    <2>2. QED  BY <2>1, <1>2, <1>6 DEF RemoveFailed, Replace, Without
  <1>7. ASSUME NEW c \in Call, NEW ok \in WriteOutcome, Clear(c, ok)
        PROVE  t \in DOMAIN queue'
    BY <1>2, <1>7 DEF Clear, Gone
  <1>8. QED
    BY <1>2, <1>3, <1>4, <1>5, <1>6, <1>7, NextCases
    DEF PersistAdd, ResolveAdd, MoveToFailed, Crash, Initialize, vars

\* A task on disk stays there unless the queue saved no longer holds it.
LEMMA KeptStays ==
  ASSUME TypeInv, KeptInv, [Next]_vars, NEW t \in Task, Kept(t), Remembered(t)
  PROVE  Kept(t)' /\ Remembered(t)'
  <1>1. Gone(t) => Gone(t)'
    BY GoneStays
  <1>2. Remembered(t)'
    <2>1. CASE up
      BY <2>1, RememberedStays
    <2>2. CASE ~up /\ up'
      <3>1. queue' = queueFile
        BY <2>2, NextCases
        DEF AddTask, DropTask, PersistAdd, ResolveAdd, UpdateTask, RemoveTask,
            MoveToFailed, RemoveFailed, Clear, Idle, Crash, Initialize, vars
      <3>2. QED  BY <1>1, <3>1 DEF Kept, Remembered, Held
    <2>3. CASE ~up'
      BY <2>3 DEF Remembered
    <2>4. QED  BY <2>1, <2>2, <2>3 DEF TypeInv, TypeOK
  <1>3. Kept(t)'
    <2>1. queueFile' = queueFile \/ (queueFile' = queue' /\ up')
      <3>1. ASSUME NEW c \in Call, NEW u \in Task, NEW ok \in WriteOutcome,
                   \/ \E s \in Status : UpdateTask(c, u, s, ok)
                   \/ RemoveTask(c, u, ok)
            PROVE  <2>1!1 \/ <2>1!2
        BY <3>1 DEF UpdateTask, RemoveTask, Replace, Idle
      <3>2. ASSUME NEW c \in Call, NEW ok \in WriteOutcome,
                   RemoveFailed(c, ok) \/ Clear(c, ok) \/ PersistAdd(c, ok)
            PROVE  <2>1!1 \/ <2>1!2
        BY <3>2 DEF RemoveFailed, Clear, PersistAdd, Replace, Idle
      <3>3. QED
        BY <3>1, <3>2, NextCases
        DEF AddTask, DropTask, ResolveAdd, MoveToFailed, Crash, Initialize, vars, files
    <2>2. QED  BY <1>1, <1>2, <2>1 DEF Kept, Remembered, Held
  <1>4. QED  BY <1>2, <1>3

\* What KeptInv says of one call.
CallInv(c) ==
  /\ pc[c] # "idle" => up /\ Remembered(arg[c])
  /\ pc[c] = "drop" => victim[c] \in Task /\ expired[victim[c]] > 0
  /\ pc[c] = "resolve" => Kept(arg[c])
  /\ pc[c] = "remove" => failed[arg[c]] > 0

\* A task in an archive stays in it.
ArchiveGrows(archive) == \A t \in Task : archive[t] > 0 => archive'[t] > 0

\* A step that leaves the locals of a call alone preserves CallInv for it.
LEMMA OtherCallKept ==
  ASSUME TypeInv, KeptInv, [Next]_vars, NEW c \in Call,
         pc'[c] = pc[c], arg'[c] = arg[c], victim'[c] = victim[c], up' = up,
         ArchiveGrows(expired) /\ ArchiveGrows(failed)
  PROVE  CallInv(c)'
  <1>1. CASE pc[c] = "idle"
    BY <1>1 DEF CallInv
  <1>2. CASE pc[c] # "idle"
    <2>1. arg[c] \in Task /\ up /\ Remembered(arg[c])
      BY <1>2 DEF TypeInv, KeptInv
    <2>2. Remembered(arg[c])'
      <3>1. Remembered(arg[c]) => \A t \in Task : t = arg[c] => Remembered(t)'
        BY <2>1, RememberedStays
      <3>2. QED  BY <3>1, <2>1 DEF Remembered, Gone
    <2>3. pc[c] = "resolve" => Kept(arg[c])'
      <3>1. Kept(arg[c]) => \A t \in Task : t = arg[c] => Kept(t)'
        BY <2>1, KeptStays
      <3>2. QED  BY <3>1, <2>1 DEF KeptInv, Kept, Gone
    <2>4. QED  BY <2>1, <2>2, <2>3 DEF CallInv, KeptInv, ArchiveGrows
  <1>3. QED  BY <1>1, <1>2

\* The archives only grow.
LEMMA ArchivesGrow ==
  ASSUME TypeInv, [Next]_vars
  PROVE  ArchiveGrows(expired) /\ ArchiveGrows(failed)
  <1> USE DEF TypeInv, TypeOK, ArchiveGrows
  <1>1. ASSUME NEW c \in Call, NEW t \in Task \cup {None}, NEW D, NEW prio, NEW ok,
               ArchivesFirst(c, t, D, prio, ok)
        PROVE  ArchiveGrows(expired)
    BY <1>1 DEF ArchivesFirst
  <1>2. ASSUME NEW c \in Call, NEW p \in Priority, NEW ok \in WriteOutcome, AddTask(c, p, ok)
        PROVE  ArchiveGrows(expired) /\ ArchiveGrows(failed)
    <2>1. failed' = failed
      BY <1>2 DEF AddTask
    <2>2. Fits(c, created + 1) \/ Overflows(c, created + 1, priority', ok)
      BY <1>2 DEF AddTask
    <2>3. created + 1 \in Task
      BY <1>2, ConstantsAssumption DEF AddTask, Task
    <2>4. QED  BY <1>1, <2>1, <2>2, <2>3 DEF Fits, Overflows
  <1>3. ASSUME NEW c \in Call, NEW ok \in WriteOutcome, DropTask(c, ok)
        PROVE  ArchiveGrows(expired) /\ ArchiveGrows(failed)
    <2>1. failed' = failed
      BY <1>3 DEF DropTask
    <2>2. arg[c] \in Task \cup {None}
      BY DEF LocalsOK
    <2>3. QED  BY <1>1, <1>3, <2>1, <2>2 DEF DropTask
  <1>4. ASSUME NEW c \in Call, NEW t \in Task, MoveToFailed(c, t)
        PROVE  ArchiveGrows(expired) /\ ArchiveGrows(failed)
    BY <1>4 DEF MoveToFailed
  <1>5. ASSUME expired' = expired, failed' = failed
        PROVE  ArchiveGrows(expired) /\ ArchiveGrows(failed)
    BY <1>5
  <1>6. QED
    BY <1>2, <1>3, <1>4, <1>5, NextCases
    DEF PersistAdd, ResolveAdd, UpdateTask, RemoveTask, RemoveFailed, Clear, Crash,
        Initialize, vars, files

\* Each call keeps what KeptInv says of it.
LEMMA CallKept ==
  ASSUME TypeInv, KeptInv, [Next]_vars, NEW c \in Call
  PROVE  CallInv(c)'
  <1> USE DEF TypeInv, TypeOK, LocalsOK
  <1>same. ASSUME pc'[c] = pc[c], arg'[c] = arg[c], victim'[c] = victim[c], up' = up
           PROVE  CallInv(c)'
    BY <1>same, ArchivesGrow, OtherCallKept
  <1>1. ASSUME NEW e \in Call, NEW p \in Priority, NEW ok \in WriteOutcome, AddTask(e, p, ok)
        PROVE  CallInv(c)'
    <2>1. CASE e # c
      <3>1. pc'[c] = pc[c] /\ arg'[c] = arg[c] /\ victim'[c] = victim[c] /\ up' = up
        BY <1>1, <2>1 DEF AddTask, Fits, Overflows, ArchivesFirst, Ends
      <3>2. QED  BY <1>same, <3>1
    <2>2. CASE e = c
      <3>1. created + 1 \in Held' /\ up'
        BY <1>1 DEF AddTask, Pushed, Held, Idle
      <3>2. pc'[c] # "idle" => arg'[c] = created + 1
        BY <1>1, <2>2 DEF AddTask, Fits, Overflows, ArchivesFirst, Ends
      <3>3. pc'[c] # "resolve" /\ pc'[c] # "remove"
        BY <1>1, <2>2 DEF AddTask, Fits, Overflows, ArchivesFirst, Ends
      <3>4. pc'[c] = "drop" => victim'[c] \in Task /\ expired'[victim'[c]] > 0
        <4>1. created + 1 \in Task /\ Held \subseteq Task
          BY <1>1, ConstantsAssumption DEF AddTask, Task
        <4>2. QED
          BY <1>1, <2>2, <4>1 DEF AddTask, Fits, Overflows, ArchivesFirst, Ends
      <3>5. QED  BY <3>1, <3>2, <3>3, <3>4 DEF CallInv, Remembered
    <2>3. QED  BY <2>1, <2>2
  <1>2. ASSUME NEW e \in Call, NEW ok \in WriteOutcome, DropTask(e, ok)
        PROVE  CallInv(c)'
    <2>1. CASE e # c
      <3>1. pc'[c] = pc[c] /\ arg'[c] = arg[c] /\ victim'[c] = victim[c] /\ up' = up
        BY <1>2, <2>1 DEF DropTask, ArchivesFirst, Ends
      <3>2. QED  BY <1>same, <3>1
    <2>2. CASE e = c
      <3>1. pc[c] = "drop" /\ up' /\ up
        BY <1>2, <2>2 DEF DropTask
      <3>2. arg[c] \in Task /\ Remembered(arg[c])
        BY <3>1 DEF KeptInv
      <3>3. pc'[c] # "idle" => arg'[c] = arg[c]
        BY <1>2, <2>2 DEF DropTask, ArchivesFirst, Ends
      <3>4. Remembered(arg[c])' \/ pc'[c] = "idle"
        <4>1. \A t \in Task : t = arg[c] => Remembered(t)'
          BY <3>1, <3>2, RememberedStays
        <4>2. QED  BY <4>1, <3>2, <3>3 DEF Remembered, Gone
      <3>5. pc'[c] # "resolve" /\ pc'[c] # "remove"
        BY <1>2, <2>2 DEF DropTask, ArchivesFirst, Ends
      <3>6. pc'[c] = "drop" => victim'[c] \in Task /\ expired'[victim'[c]] > 0
        <4>1. dropping[c] \ {victim[c]} \subseteq Task
          OBVIOUS
        <4>2. QED  BY <1>2, <2>2, <4>1 DEF DropTask, ArchivesFirst, Ends
      <3>7. QED  BY <3>1, <3>4, <3>5, <3>6 DEF CallInv
    <2>3. QED  BY <2>1, <2>2
  <1>3. ASSUME NEW e \in Call, NEW ok \in WriteOutcome, PersistAdd(e, ok)
        PROVE  CallInv(c)'
    <2>1. CASE e # c
      <3>1. pc'[c] = pc[c] /\ arg'[c] = arg[c] /\ victim'[c] = victim[c] /\ up' = up
        BY <1>3, <2>1 DEF PersistAdd, Ends
      <3>2. QED  BY <1>same, <3>1
    <2>2. CASE e = c
      <3>1. pc'[c] \in {"idle", "resolve"} /\ up /\ up' /\ pc[c] = "persist"
        BY <1>3, <2>2 DEF PersistAdd, Ends
      <3>2. pc'[c] = "resolve" => arg' = arg /\ queue' = queue /\ queueFile' = queue'
                                 /\ UNCHANGED <<expired, failed, discarded>>
        BY <1>3, <2>2 DEF PersistAdd, Ends, history
      <3>3. Remembered(arg[c])
        BY <3>1 DEF KeptInv
      <3>4. QED  BY <3>1, <3>2, <3>3 DEF CallInv, Remembered, Kept, Gone, Held
    <2>3. QED  BY <2>1, <2>2
  <1>4. ASSUME NEW e \in Call, NEW t \in Task, MoveToFailed(e, t)
        PROVE  CallInv(c)'
    <2>1. CASE e # c
      <3>1. pc'[c] = pc[c] /\ arg'[c] = arg[c] /\ victim'[c] = victim[c] /\ up' = up
        BY <1>4, <2>1 DEF MoveToFailed
      <3>2. QED  BY <1>same, <3>1
    <2>2. CASE e = c
      BY <1>4, <2>2 DEF MoveToFailed, Idle, CallInv, Remembered, Held
    <2>3. QED  BY <2>1, <2>2
  <1>5. ASSUME NEW e \in Call, NEW ok \in WriteOutcome, ResolveAdd(e) \/ RemoveFailed(e, ok)
        PROVE  CallInv(c)'
    <2>1. CASE e # c
      <3>1. pc'[c] = pc[c] /\ arg'[c] = arg[c] /\ victim'[c] = victim[c] /\ up' = up
        BY <1>5, <2>1 DEF ResolveAdd, RemoveFailed, Ends
      <3>2. QED  BY <1>same, <3>1
    <2>2. CASE e = c
      BY <1>5, <2>2 DEF ResolveAdd, RemoveFailed, Ends, CallInv
    <2>3. QED  BY <2>1, <2>2
  <1>6. ASSUME \/ \E e \in Call, t \in Task, s \in Status, ok \in WriteOutcome :
                     UpdateTask(e, t, s, ok)
               \/ \E e \in Call, t \in Task, ok \in WriteOutcome : RemoveTask(e, t, ok)
               \/ \E e \in Call, ok \in WriteOutcome : Clear(e, ok)
               \/ UNCHANGED vars
        PROVE  CallInv(c)'
    <2>1. pc' = pc /\ arg' = arg /\ victim' = victim /\ up' = up
      BY <1>6 DEF UpdateTask, RemoveTask, Clear, vars
    <2>2. QED  BY <1>same, <2>1
  <1>7. ASSUME Crash \/ Initialize
        PROVE  CallInv(c)'
    <2>1. pc'[c] = "idle"
      BY <1>7 DEF Crash, Initialize, KeptInv
    <2>2. QED  BY <2>1 DEF CallInv
  <1>8. WriteOutcome # {}
    BY DEF WriteOutcome
  <1>9. QED
    BY <1>1, <1>2, <1>3, <1>4, <1>5, <1>6, <1>7, <1>8, NextCases

\* KeptInv is an invariant.
THEOREM KeptInvariant == Spec => []KeptInv
  <1>1. Init => KeptInv
    BY DEF Init, KeptInv
  <1>2. TypeInv /\ KeptInv /\ [Next]_vars => KeptInv'
    <2> SUFFICES ASSUME TypeInv, KeptInv, [Next]_vars PROVE KeptInv'
      OBVIOUS
    <2>1. ASSUME NEW t \in accepted' PROVE Kept(t)' /\ Remembered(t)'
      <3>1. CASE t \in accepted
        BY <3>1, KeptStays DEF KeptInv, TypeInv, TypeOK
      <3>2. CASE t \notin accepted
        <4>1. PICK c \in Call : ResolveAdd(c) /\ t = arg[c]
          BY <3>2, NextCases
          DEF AddTask, DropTask, PersistAdd, ResolveAdd, UpdateTask, RemoveTask,
              MoveToFailed, RemoveFailed, Clear, Crash, Initialize, vars, history
        <4>2. t \in Task /\ Kept(t) /\ Remembered(t)
          BY <4>1 DEF ResolveAdd, KeptInv, TypeInv
        <4>3. QED  BY <4>2, KeptStays
      <3>3. QED  BY <3>1, <3>2
    <2>2. QED  BY <2>1, CallKept DEF KeptInv, CallInv
  <1>3. QED  BY <1>1, <1>2, TypeInvariant, PTL DEF Spec

\* No accepted task is lost.
THEOREM AcceptedTasksAreKept == Spec => []AcceptedIsKept
  <1>1. KeptInv => AcceptedIsKept
    BY DEF KeptInv, Kept, Gone, AcceptedIsKept
  <1>2. QED  BY <1>1, KeptInvariant, PTL

-----------------------------------------------------------------------------
(* QueueCapped: the tasks being dropped are the excess, however many calls *)
(* drop together.                                                          *)

CapInv ==
  /\ up
  /\ \A c \in Call : pc[c] # "drop" => dropping[c] = {}
  /\ Cardinality(Held \ BeingDropped) <= MaxQueueSize

\* A set of tasks is finite.
LEMMA TasksFinite ==
  ASSUME NEW S \in SUBSET Task
  PROVE  IsFiniteSet(S) /\ Cardinality(S) \in Nat
  <1>1. IsFiniteSet(Task)
    BY ConstantsAssumption, FS_Interval DEF Task
  <1>2. IsFiniteSet(S)
    BY <1>1, FS_Subset
  <1>3. QED  BY <1>2, FS_CardinalityType

\* If no more tasks are held outside the dropped ones, the limit still holds.
LEMMA CapShrinks ==
  ASSUME TypeInv, TypeInv', CapInv, Held' \ BeingDropped' \subseteq Held \ BeingDropped
  PROVE  Cardinality(Held' \ BeingDropped') <= MaxQueueSize
  <1>1. Held \ BeingDropped \in SUBSET Task
    BY DEF TypeInv, TypeOK
  <1>2. Held' \ BeingDropped' \in SUBSET (Held \ BeingDropped)
    OBVIOUS
  <1>3. Cardinality(Held' \ BeingDropped') <= Cardinality(Held \ BeingDropped)
    BY <1>1, <1>2, TasksFinite, FS_Subset
  <1>4. Held' \ BeingDropped' \in SUBSET Task
    BY <1>1, <1>2
  <1>5. QED  BY <1>1, <1>3, <1>4, TasksFinite, ConstantsAssumption DEF CapInv

\* An addTask drops the excess it made, or made none.
LEMMA AddTaskCap ==
  ASSUME TypeInv, TypeInv', CapInv, NEW c \in Call, NEW p \in Priority, AddTask(c, p, TRUE)
  PROVE  CapInv'
  <1> DEFINE S == Held \cup {created + 1}
  <1> USE DEF TypeInv, TypeOK, LocalsOK
  <1>1. Held' = S
    BY DEF AddTask, Pushed, Held
  <1>2. S \in SUBSET Task
    BY <1>1
  <1>3. up' /\ pc[c] = "idle"
    BY DEF AddTask, Idle
  <1>4. Fits(c, created + 1) \/ Overflows(c, created + 1, priority', TRUE)
    BY DEF AddTask
  <1>5. CASE Fits(c, created + 1)
    <2>1. Cardinality(S) <= MaxQueueSize
      BY <1>2, <1>5, TasksFinite, ConstantsAssumption DEF Fits, Excess
    <2>2. Held' \ BeingDropped' \in SUBSET S
      BY <1>1
    <2>3. Cardinality(Held' \ BeingDropped') <= MaxQueueSize
      <3>1. Cardinality(Held' \ BeingDropped') <= Cardinality(S)
        BY <1>2, <2>2, TasksFinite, FS_Subset
      <3>2. Held' \ BeingDropped' \in SUBSET Task
        BY <1>2, <2>2
      <3>3. QED  BY <1>2, <2>1, <3>1, <3>2, TasksFinite, ConstantsAssumption
    <2>4. \A d \in Call : pc'[d] # "drop" => dropping'[d] = {}
      BY <1>3, <1>5 DEF Fits, CapInv
    <2>5. QED  BY <1>3, <2>3, <2>4 DEF CapInv
  <1>6. CASE Overflows(c, created + 1, priority', TRUE)
    <2>1. PICK D \in SUBSET S : /\ Cardinality(D) = Excess(S)
                                /\ dropping' = [dropping EXCEPT ![c] = D]
                                /\ pc' = [pc EXCEPT ![c] = "drop"]
      BY <1>6 DEF Overflows, IsDropped, ArchivesFirst
    <2>2. Cardinality(S \ D) <= MaxQueueSize
      <3>1. S \cap D = D
        OBVIOUS
      <3>2. Cardinality(S \ D) = Cardinality(S) - Cardinality(D)
        BY <1>2, <3>1, TasksFinite, FS_Difference
      <3>3. QED  BY <1>2, <2>1, <3>2, TasksFinite, ConstantsAssumption DEF Excess
    <2>3. Held' \ BeingDropped' \in SUBSET (S \ D)
      <3>1. D \subseteq BeingDropped'
        BY <2>1 DEF BeingDropped
      <3>2. QED  BY <1>1, <3>1
    <2>4. Cardinality(Held' \ BeingDropped') <= MaxQueueSize
      <3>1. S \ D \in SUBSET Task /\ Held' \ BeingDropped' \in SUBSET Task
        BY <1>2, <2>3
      <3>2. Cardinality(Held' \ BeingDropped') <= Cardinality(S \ D)
        BY <2>3, <3>1, TasksFinite, FS_Subset
      <3>3. QED  BY <2>2, <3>1, <3>2, TasksFinite, ConstantsAssumption
    <2>5. \A d \in Call : pc'[d] # "drop" => dropping'[d] = {}
      BY <2>1 DEF CapInv
    <2>6. QED  BY <1>3, <2>4, <2>5 DEF CapInv
  <1>7. QED  BY <1>4, <1>5, <1>6

\* A step of the loop filters out one of the tasks being dropped.
LEMMA DropTaskCap ==
  ASSUME TypeInv, TypeInv', CapInv, NEW c \in Call, DropTask(c, TRUE)
  PROVE  CapInv'
  <1> DEFINE left == dropping[c] \ {victim[c]}
  <1> USE DEF TypeInv, TypeOK, LocalsOK
  <1>1. Held' = Held \ {victim[c]}
    BY DEF DropTask, Without, Held
  <1>2. dropping' = [dropping EXCEPT ![c] = left]
    BY DEF DropTask, ArchivesFirst
  <1>3. BeingDropped \ {victim[c]} \subseteq BeingDropped'
    BY <1>2 DEF BeingDropped
  <1>4. Cardinality(Held' \ BeingDropped') <= MaxQueueSize
    BY <1>1, <1>3, CapShrinks
  <1>5. pc' = [pc EXCEPT ![c] = IF left = {} THEN "persist" ELSE "drop"]
    BY DEF DropTask, ArchivesFirst
  <1>6. \A d \in Call : pc'[d] # "drop" => dropping'[d] = {}
    BY <1>2, <1>5 DEF CapInv
  <1>7. QED  BY <1>4, <1>6 DEF DropTask, CapInv

\* The other steps add no task and drop none.
LEMMA OtherCap ==
  ASSUME TypeInv, TypeInv', CapInv, up', Held' \subseteq Held,
         \/ dropping' = dropping /\ \A c \in Call : pc'[c] # "drop" => pc[c] # "drop"
         \/ \E c \in Call : pc[c] # "drop" /\ Ends(c)
  PROVE  CapInv'
  <1> USE DEF TypeInv, TypeOK, LocalsOK
  <1>1. dropping' = dropping /\ \A c \in Call : pc'[c] # "drop" => dropping'[c] = {}
    <2>1. CASE dropping' = dropping /\ \A c \in Call : pc'[c] # "drop" => pc[c] # "drop"
      BY <2>1 DEF CapInv
    <2>2. ASSUME NEW c \in Call, pc[c] # "drop", Ends(c)
          PROVE  dropping' = dropping /\ \A d \in Call : pc'[d] # "drop" => dropping'[d] = {}
      <3>1. dropping[c] = {}
        BY <2>2 DEF CapInv
      <3>2. dropping' = dropping
        BY <2>2, <3>1 DEF Ends
      <3>3. pc' = [pc EXCEPT ![c] = "idle"]
        BY <2>2 DEF Ends
      <3>4. QED  BY <3>1, <3>2, <3>3 DEF CapInv
    <2>3. QED  BY <2>1, <2>2
  <1>2. BeingDropped' = BeingDropped
    BY <1>1 DEF BeingDropped
  <1>3. QED  BY <1>1, <1>2, CapShrinks DEF CapInv

\* In a process that does not crash and whose writes succeed, the queue is
\* within its limit whenever no call is dropping.
THEOREM QueueIsCapped ==
  ASSUME WritesMayFail = FALSE, MaxCrashes = 0
  PROVE  Spec => []QueueCapped
  <1>1. Init => CapInv
    BY FS_EmptySet, ConstantsAssumption DEF Init, CapInv, Held, BeingDropped
  <1>2. TypeInv /\ TypeInv' /\ CapInv /\ [Next]_vars => CapInv'
    <2> SUFFICES ASSUME TypeInv, TypeInv', CapInv, [Next]_vars PROVE CapInv'
      OBVIOUS
    <2>ok. WriteOutcome = {TRUE}
      BY DEF WriteOutcome
    <2>1. ASSUME NEW c \in Call, PersistAdd(c, TRUE) \/ ResolveAdd(c) \/ RemoveFailed(c, TRUE)
          PROVE  CapInv'
      <3>1. up' /\ Held' \subseteq Held
        BY <2>1 DEF PersistAdd, ResolveAdd, RemoveFailed, Replace, Without, Held
      <3>2. \/ dropping' = dropping /\ \A d \in Call : pc'[d] # "drop" => pc[d] # "drop"
            \/ pc[c] # "drop" /\ Ends(c)
        BY <2>1 DEF PersistAdd, ResolveAdd, RemoveFailed, TypeInv, TypeOK, LocalsOK
      <3>3. QED  BY <3>1, <3>2, OtherCap
    <2>2. ASSUME NEW c \in Call, NEW t \in Task,
                 \/ \E s \in Status : UpdateTask(c, t, s, TRUE)
                 \/ RemoveTask(c, t, TRUE)
                 \/ MoveToFailed(c, t)
          PROVE  CapInv'
      <3>1. up' /\ Held' \subseteq Held /\ dropping' = dropping
        BY <2>2 DEF UpdateTask, RemoveTask, MoveToFailed, Replace, Without, Held, Idle
      <3>2. \A d \in Call : pc'[d] # "drop" => pc[d] # "drop"
        BY <2>2 DEF UpdateTask, RemoveTask, MoveToFailed, Idle, TypeInv, TypeOK, LocalsOK
      <3>3. QED  BY <3>1, <3>2, OtherCap
    <2>3. ASSUME NEW c \in Call, Clear(c, TRUE) PROVE CapInv'
      <3>1. up' /\ Held' \subseteq Held /\ dropping' = dropping /\ pc' = pc
        BY <2>3 DEF Clear, Replace, Without, Held, Idle
      <3>2. QED  BY <3>1, OtherCap
    <2>4. ~Crash /\ ~Initialize
      BY ConstantsAssumption DEF Crash, Initialize, CapInv, TypeInv, TypeOK
    <2>5. CASE UNCHANGED vars
      BY <2>5, OtherCap DEF vars, CapInv, Held
    <2>6. QED
      BY <2>ok, <2>1, <2>2, <2>3, <2>4, <2>5, AddTaskCap, DropTaskCap, NextCases
  <1>3. CapInv => QueueCapped
    <2> SUFFICES ASSUME CapInv, \A c \in Call : pc[c] # "drop"
                 PROVE  Cardinality(Held) <= MaxQueueSize
      BY DEF QueueCapped
    <2>1. BeingDropped = {}
      BY DEF CapInv, BeingDropped
    <2>2. Held \ BeingDropped = Held
      BY <2>1
    <2>3. QED  BY <2>2 DEF CapInv
  <1>4. QED  BY <1>1, <1>2, <1>3, TypeInvariant, PTL DEF Spec

-----------------------------------------------------------------------------
(* DropsLeastImportant: where calls only add and writes succeed, the tasks  *)
(* being dropped come before all the others held, and are exactly those in  *)
(* excess, so that a call that overflows chooses what others are dropping.  *)

Safe == Held \ BeingDropped

DropInv ==
  /\ Held \subseteq 1..created /\ BeingDropped \subseteq 1..created
  /\ DOMAIN queueFile \subseteq 1..created
  /\ \A c \in Call : /\ pc[c] # "remove"
                     /\ pc[c] = "drop" => victim[c] \in dropping[c]
                     /\ pc[c] # "drop" => dropping[c] = {}
  /\ ~up => Held = {} /\ BeingDropped = {}
  /\ Held \cap BeingDropped # {} => Cardinality(Safe) = MaxQueueSize
  /\ \A t \in Held \cap BeingDropped, u \in Safe : DropsBefore(t, u, priority)

\* Sets of tasks held: what is being dropped and what is safe make up what is held.
LEMMA HeldSplit ==
  ASSUME TypeInv
  PROVE  /\ Cardinality(Held) \in Nat /\ Cardinality(Safe) \in Nat
         /\ Cardinality(Held \cap BeingDropped) \in Nat
         /\ Cardinality(Held) = Cardinality(Held \cap BeingDropped) + Cardinality(Safe)
  <1>1. Held \in SUBSET Task
    BY DEF TypeInv, TypeOK
  <1>2. Held \cap BeingDropped \in SUBSET Task /\ Safe \in SUBSET Task
    BY <1>1 DEF Safe
  <1>3. Cardinality(Safe) = Cardinality(Held) - Cardinality(Held \cap BeingDropped)
    BY <1>1, TasksFinite, FS_Difference DEF Safe
  <1>4. QED  BY <1>1, <1>2, <1>3, TasksFinite

\* A call that overflows chooses all that others are dropping.
LEMMA ChoosesDropped ==
  ASSUME TypeInv, DropInv, NEW n \in Task, n = created + 1, NEW prio,
         prio \in [Task -> 0..3], \A t \in Task : t # n => prio[t] = priority[t],
         NEW D \in SUBSET (Held \cup {n}), Excess(Held \cup {n}) > 0,
         IsDropped(D, Excess(Held \cup {n}), Held \cup {n}, prio)
  PROVE  Held \cap BeingDropped \subseteq D
  <1> DEFINE S == Held \cup {n}
             B == Held \cap BeingDropped
  <1>1. Held \in SUBSET Task /\ n \notin Held /\ n \notin BeingDropped
    BY ConstantsAssumption DEF TypeInv, TypeOK, DropInv
  <1>2. Cardinality(S) = Cardinality(Held) + 1
    BY <1>1, TasksFinite, FS_AddElement
  <1>3. SUFFICES ASSUME NEW t \in B, t \notin D PROVE FALSE
    OBVIOUS
  <1>4. Cardinality(Safe) = MaxQueueSize
    BY <1>3 DEF DropInv
  <1>5. Cardinality(D) = Cardinality(B) + 1
    <2>1. Cardinality(D) = Cardinality(S) - MaxQueueSize
      BY DEF IsDropped, Excess
    <2>2. QED  BY <1>2, <1>4, <2>1, HeldSplit, ConstantsAssumption
  <1>6. \A d \in D : d \notin Safe
    <2>1. SUFFICES ASSUME NEW d \in D, d \in Safe PROVE FALSE
      OBVIOUS
    <2>2. DropsBefore(d, t, prio)
      BY <1>3 DEF IsDropped
    <2>3. DropsBefore(t, d, priority)
      BY <1>3, <2>1 DEF DropInv
    <2>4. /\ d \in Task /\ t \in Task /\ d # n /\ t # n
          /\ prio[d] = priority[d] /\ prio[t] = priority[t]
      BY <1>1, <1>3, <2>1 DEF Safe
    <2>5. priority[d] \in Nat /\ priority[t] \in Nat /\ d \in Nat /\ t \in Nat
      BY <2>4, TaskFacts DEF TypeInv, TypeOK
    <2>6. QED  BY <2>2, <2>3, <2>4, <2>5 DEF DropsBefore
  <1>7. D \subseteq (B \ {t}) \cup {n}
    BY <1>3, <1>6 DEF Safe
  <1>8. B \in SUBSET Task /\ n \notin B \ {t}
    BY <1>1
  <1>9. Cardinality((B \ {t}) \cup {n}) = Cardinality(B)
    <2>1. B \ {t} \in SUBSET Task
      BY <1>8
    <2>2. Cardinality(B \ {t}) = Cardinality(B) - 1
      BY <1>3, <1>8, TasksFinite, FS_RemoveElement
    <2>3. Cardinality((B \ {t}) \cup {n}) = Cardinality(B \ {t}) + 1
      BY <1>8, <2>1, TasksFinite, FS_AddElement
    <2>4. QED  BY <1>8, <2>2, <2>3, TasksFinite
  <1>10. Cardinality(D) <= Cardinality(B)
    <2>1. (B \ {t}) \cup {n} \in SUBSET Task
      BY <1>8
    <2>2. IsFiniteSet((B \ {t}) \cup {n})
      BY <2>1, TasksFinite
    <2>3. QED  BY <1>7, <1>9, <2>2, FS_Subset
  <1>11. QED  BY <1>5, <1>8, <1>10, TasksFinite

\* An addTask that fits finds nothing being dropped; one that overflows drops the excess.
LEMMA AddTaskDrop ==
  ASSUME TypeInv, DropInv, NEW c \in Call, NEW p \in Priority, AddTask(c, p, TRUE)
  PROVE  DropInv' /\ Held \subseteq Held'
  <1> DEFINE n == created + 1
             S == Held \cup {n}
  <1> USE DEF TypeInv, TypeOK, LocalsOK
  <1>1. /\ up /\ up' /\ pc[c] = "idle" /\ created' = n /\ Held' = S /\ queueFile' = queueFile
        /\ priority' = [priority EXCEPT ![n] = p]
        /\ Fits(c, n) \/ Overflows(c, n, priority', TRUE)
    BY DEF AddTask, Idle, Pushed, Held
  <1>2. n \in Task /\ created \in Nat
    BY ConstantsAssumption DEF AddTask, Task
  <1>3. S \subseteq 1..n /\ DOMAIN queueFile \subseteq 1..n /\ BeingDropped \subseteq 1..n
    BY <1>2 DEF DropInv
  <1>4. n \notin Held /\ n \notin BeingDropped
    BY <1>2 DEF DropInv
  <1>5. S \in SUBSET Task
    BY <1>2
  <1>6. Cardinality(S) = Cardinality(Held) + 1
    <2>1. Held \in SUBSET Task
      OBVIOUS
    <2>2. IsFiniteSet(Held)
      BY <2>1, TasksFinite
    <2>3. QED  BY <1>4, <2>2, FS_AddElement
  <1>7. dropping[c] = {}
    BY <1>1 DEF DropInv
  <1>8. CASE Fits(c, n)
    <2>1. Held \cap BeingDropped = {}
      <3>1. SUFFICES ASSUME Held \cap BeingDropped # {} PROVE FALSE
        OBVIOUS
      <3>2. Cardinality(Safe) = MaxQueueSize
        BY <3>1 DEF DropInv
      <3>3. Cardinality(S) <= MaxQueueSize
        BY <1>5, <1>8, TasksFinite, ConstantsAssumption DEF Fits, Excess
      <3>4. QED  BY <1>6, <3>2, <3>3, HeldSplit, ConstantsAssumption
    <2>2. /\ pc' = [pc EXCEPT ![c] = "persist"] /\ dropping' = dropping /\ victim' = victim
      BY <1>8 DEF Fits
    <2>3. BeingDropped' = BeingDropped
      BY <2>2 DEF BeingDropped
    <2>4. Held' \cap BeingDropped' = {}
      BY <1>1, <1>4, <2>1, <2>3
    <2>5. \A d \in Call : /\ pc'[d] # "remove"
                          /\ pc'[d] = "drop" => victim'[d] \in dropping'[d]
                          /\ pc'[d] # "drop" => dropping'[d] = {}
      BY <1>7, <2>2 DEF DropInv
    <2>6. QED  BY <1>1, <1>3, <2>3, <2>4, <2>5 DEF DropInv
  <1>9. CASE Overflows(c, n, priority', TRUE)
    <2>1. PICK D \in SUBSET S : /\ IsDropped(D, Excess(S), S, priority') /\ Excess(S) > 0
                                /\ ArchivesFirst(c, n, D, priority', TRUE)
      BY <1>9 DEF Overflows
    <2>2. PICK v \in D : /\ victim' = [victim EXCEPT ![c] = v]
                         /\ dropping' = [dropping EXCEPT ![c] = D]
                         /\ pc' = [pc EXCEPT ![c] = "drop"]
      BY <2>1 DEF ArchivesFirst
    <2>3. \A d \in Call : /\ pc'[d] # "remove"
                          /\ pc'[d] = "drop" => victim'[d] \in dropping'[d]
                          /\ pc'[d] # "drop" => dropping'[d] = {}
      BY <2>2 DEF DropInv
    <2>4. BeingDropped' = BeingDropped \cup D
      BY <1>7, <2>2 DEF BeingDropped
    <2>5. Held \cap BeingDropped \subseteq D
      <3>1. priority' \in [Task -> 0..3] /\ \A t \in Task : t # n => priority'[t] = priority[t]
        BY <1>1, <1>2, ConstantsAssumption
      <3>2. QED  BY <1>2, <2>1, <3>1, ChoosesDropped
    <2>6. Held' \cap BeingDropped' = D /\ Safe' = S \ D
      BY <1>1, <1>4, <2>4, <2>5 DEF Safe
    <2>7. Cardinality(S \ D) = MaxQueueSize
      <3>1. S \cap D = D /\ D \in SUBSET Task
        BY <1>5
      <3>2. Cardinality(S \ D) = Cardinality(S) - Cardinality(D)
        BY <1>5, <3>1, TasksFinite, FS_Difference
      <3>3. Cardinality(D) = Cardinality(S) - MaxQueueSize
        BY <2>1 DEF IsDropped, Excess
      <3>4. QED  BY <1>5, <3>2, <3>3, TasksFinite, ConstantsAssumption
    <2>8. \A t \in D, u \in S \ D : DropsBefore(t, u, priority')
      BY <2>1 DEF IsDropped
    <2>9. BeingDropped' \subseteq 1..n
      BY <1>3, <2>4
    <2>10. Cardinality(Safe') = MaxQueueSize
      BY <2>6, <2>7
    <2>11. \A t \in Held' \cap BeingDropped', u \in Safe' : DropsBefore(t, u, priority')
      BY <2>6, <2>8
    <2>12. QED  BY <1>1, <1>3, <2>3, <2>9, <2>10, <2>11 DEF DropInv, DropsBefore
  <1>10. QED  BY <1>1, <1>8, <1>9

\* What is filtered out comes before all that is held and not being dropped.
LEMMA DropTaskDrop ==
  ASSUME TypeInv, DropInv, NEW c \in Call, DropTask(c, TRUE)
  PROVE  /\ DropInv'
         /\ \A t \in Held \ Held', u \in Held' \ BeingDropped' : DropsBefore(t, u, priority)
  <1> DEFINE v == victim[c]
             left == dropping[c] \ {v}
  <1> USE DEF TypeInv, TypeOK, LocalsOK
  <1>1. /\ up /\ up' /\ pc[c] = "drop" /\ Held' = Held \ {v}
        /\ UNCHANGED <<priority, created, queueFile>>
    BY DEF DropTask, Without, Held
  <1>2. /\ dropping' = [dropping EXCEPT ![c] = left]
        /\ pc' = [pc EXCEPT ![c] = IF left = {} THEN "persist" ELSE "drop"]
        /\ \/ left = {}
           \/ \E w \in left : victim' = [victim EXCEPT ![c] = w]
        /\ \A d \in Call : d # c => victim'[d] = victim[d]
    BY DEF DropTask, ArchivesFirst
  <1>3. v \in BeingDropped
    BY <1>1 DEF DropInv, BeingDropped
  <1>4. BeingDropped \ {v} \subseteq BeingDropped' /\ BeingDropped' \subseteq BeingDropped
    BY <1>2 DEF BeingDropped
  <1>5. Safe' = Safe /\ Held' \cap BeingDropped' \subseteq Held \cap BeingDropped
    BY <1>1, <1>3, <1>4 DEF Safe
  <1>6. \A d \in Call : /\ pc'[d] # "remove"
                        /\ pc'[d] = "drop" => victim'[d] \in dropping'[d]
                        /\ pc'[d] # "drop" => dropping'[d] = {}
    <2>1. ASSUME NEW d \in Call, d # c
          PROVE  /\ pc'[d] # "remove"
                 /\ pc'[d] = "drop" => victim'[d] \in dropping'[d]
                 /\ pc'[d] # "drop" => dropping'[d] = {}
      BY <1>2, <2>1 DEF DropInv
    <2>2. pc'[c] = (IF left = {} THEN "persist" ELSE "drop") /\ dropping'[c] = left
      BY <1>2
    <2>3. left # {} => victim'[c] \in left
      BY <1>2
    <2>4. QED  BY <2>1, <2>2, <2>3
  <1>7. \A t \in Held \cap BeingDropped, u \in Safe : DropsBefore(t, u, priority)
    BY DEF DropInv
  <1>8. DropInv'
    <2>1. Held' \subseteq 1..created' /\ BeingDropped' \subseteq 1..created'
          /\ DOMAIN queueFile' \subseteq 1..created'
      BY <1>1, <1>4 DEF DropInv
    <2>2. Held' \cap BeingDropped' # {} => Cardinality(Safe') = MaxQueueSize
      BY <1>5 DEF DropInv
    <2>3. \A t \in Held' \cap BeingDropped', u \in Safe' : DropsBefore(t, u, priority')
      BY <1>1, <1>5, <1>7
    <2>4. QED  BY <1>1, <1>6, <2>1, <2>2, <2>3 DEF DropInv, DropsBefore
  <1>9. Held \ Held' \subseteq Held \cap BeingDropped /\ Held' \ BeingDropped' = Safe'
    BY <1>1, <1>3 DEF Safe
  <1>10. QED  BY <1>5, <1>7, <1>8, <1>9

\* The other steps of a process that only adds neither add, drop nor filter a task.
LEMMA OtherDrop ==
  ASSUME TypeInv, DropInv, UNCHANGED <<queue, priority, created, up>>,
         DOMAIN queueFile' \subseteq Held \cup DOMAIN queueFile,
         \/ UNCHANGED <<pc, dropping, victim>>
         \/ \E c \in Call : /\ pc[c] # "drop" /\ dropping' = [dropping EXCEPT ![c] = {}]
                            /\ \A d \in Call : d # c => pc'[d] = pc[d] /\ victim'[d] = victim[d]
                            /\ pc'[c] \notin {"drop", "remove"}
  PROVE  DropInv'
  <1> USE DEF TypeInv, TypeOK, LocalsOK
  <1>1. dropping' = dropping
    BY DEF DropInv
  <1>2. \A d \in Call : /\ pc'[d] # "remove"
                        /\ pc'[d] = "drop" => victim'[d] \in dropping'[d]
                        /\ pc'[d] # "drop" => dropping'[d] = {}
    BY <1>1 DEF DropInv
  <1>3. BeingDropped' = BeingDropped /\ Held' = Held /\ Safe' = Safe
    BY <1>1 DEF BeingDropped, Held, Safe
  <1>4. DOMAIN queueFile' \subseteq 1..created'
    BY DEF DropInv
  <1>5. QED  BY <1>2, <1>3, <1>4 DEF DropInv, DropsBefore

\* A crash forgets what was being dropped, and a restart drops nothing.
LEMMA RestartDrop ==
  ASSUME TypeInv, DropInv, Crash \/ Initialize
  PROVE  DropInv' /\ (up' => Held = {})
  <1> USE DEF TypeInv, TypeOK, LocalsOK
  <1>1. CASE Crash
    <2>1. /\ ~up' /\ Held' = {} /\ UNCHANGED <<created, queueFile>>
          /\ pc' = [c \in Call |-> "idle"] /\ dropping' = [c \in Call |-> {}]
      BY <1>1 DEF Crash, Without, Held, files
    <2>2. BeingDropped' = {}
      BY <2>1 DEF BeingDropped
    <2>3. QED  BY <2>1, <2>2 DEF DropInv
  <1>2. CASE Initialize
    <2>1. /\ ~up /\ up' /\ queue' = queueFile
          /\ UNCHANGED <<created, queueFile, pc, dropping, victim>>
      BY <1>2 DEF Initialize, files
    <2>2. BeingDropped' = {} /\ Held = {}
      BY <2>1 DEF BeingDropped, DropInv
    <2>3. Held' \subseteq 1..created'
      BY <2>1 DEF Held, DropInv
    <2>4. QED  BY <2>1, <2>2, <2>3 DEF DropInv
  <1>3. QED  BY <1>1, <1>2

\* What overlapping calls give up are the least important tasks, the oldest of them
\* first, where writes succeed and the process only adds, wherever it is killed
\* (enforceMaxSize sorts a queue that still holds what others are dropping).
THEOREM LeastImportantAreDropped ==
  ASSUME WritesMayFail = FALSE, Operations = {"add"}
  PROVE  Spec => DropsLeastImportant
  <1>1. Init => DropInv
    <2>1. SUFFICES ASSUME Init PROVE DropInv
      OBVIOUS
    <2>2. \A c \in Call : pc[c] = "idle" /\ dropping[c] = {}
      BY <2>1 DEF Init
    <2>3. Held = {} /\ BeingDropped = {} /\ DOMAIN queueFile = {} /\ up
      BY <2>1, <2>2 DEF Init, Held, BeingDropped
    <2>4. QED  BY <2>2, <2>3 DEF DropInv
  <1>2. ASSUME TypeInv, DropInv, [Next]_vars
        PROVE  /\ DropInv'
               /\ up' => \A t \in Held \ Held', u \in Held' \ BeingDropped' :
                            DropsBefore(t, u, priority)
    <2>ok. WriteOutcome = {TRUE}
      BY DEF WriteOutcome
    <2> DEFINE Goal == /\ DropInv'
                       /\ up' => \A t \in Held \ Held', u \in Held' \ BeingDropped' :
                                    DropsBefore(t, u, priority)
    <2>1. ASSUME NEW c \in Call, NEW p \in Priority, AddTask(c, p, TRUE) PROVE Goal
      BY <1>2, <2>1, AddTaskDrop
    <2>2. ASSUME NEW c \in Call, DropTask(c, TRUE) PROVE Goal
      BY <1>2, <2>2, DropTaskDrop
    <2>3. ASSUME NEW c \in Call, PersistAdd(c, TRUE) PROVE Goal
      <3>1. /\ UNCHANGED <<queue, priority, created, up, dropping, victim>>
            /\ queueFile' = queue /\ pc' = [pc EXCEPT ![c] = "resolve"] /\ pc[c] = "persist"
        BY <2>3 DEF PersistAdd
      <3>2. dropping' = [dropping EXCEPT ![c] = {}]
        BY <1>2, <3>1 DEF DropInv, TypeInv, TypeOK, LocalsOK
      <3>3. DropInv' /\ Held' = Held
        BY <1>2, <3>1, <3>2, OtherDrop DEF Held, TypeInv, TypeOK, LocalsOK
      <3>4. QED  BY <3>3
    <2>4. ASSUME NEW c \in Call, ResolveAdd(c) PROVE Goal
      <3>1. /\ UNCHANGED <<queue, priority, created, up, queueFile>>
            /\ dropping' = [dropping EXCEPT ![c] = {}] /\ victim' = [victim EXCEPT ![c] = None]
            /\ pc' = [pc EXCEPT ![c] = "idle"] /\ pc[c] = "resolve"
        BY <2>4 DEF ResolveAdd, Ends, files
      <3>2. DropInv' /\ Held' = Held
        BY <1>2, <3>1, OtherDrop DEF Held, TypeInv, TypeOK, LocalsOK
      <3>3. QED  BY <3>2
    <2>5. ASSUME NEW c \in Call
          PROVE  /\ \A t \in Task : /\ \A s \in Status : ~UpdateTask(c, t, s, TRUE)
                                    /\ ~RemoveTask(c, t, TRUE) /\ ~MoveToFailed(c, t)
                 /\ ~RemoveFailed(c, TRUE) /\ ~Clear(c, TRUE)
      BY <1>2 DEF UpdateTask, RemoveTask, MoveToFailed, RemoveFailed, Clear, Starts, DropInv
    <2>6. CASE Crash \/ Initialize
      BY <1>2, <2>6, RestartDrop
    <2>7. CASE UNCHANGED vars
      <3>1. DropInv' /\ Held' = Held
        BY <1>2, <2>7, OtherDrop DEF vars, Held
      <3>2. QED  BY <3>1
    <2>8. QED
      BY <1>2, <2>ok, <2>1, <2>2, <2>3, <2>4, <2>5, <2>6, <2>7, NextCases
  <1>3. ASSUME NEW t \in Task, NEW u \in Task, DropsBefore(t, u, priority)
        PROVE  \/ priority[u] < priority[t]
               \/ priority[u] = priority[t] /\ u > t
    BY <1>3 DEF DropsBefore
  <1>4. TypeInv /\ TypeInv' /\ DropInv /\ [Next]_vars =>
          /\ DropInv'
          /\ [up' => \A t \in Held \ DOMAIN queue', u \in DOMAIN queue' \ BeingDropped' :
                \/ priority[u] < priority[t]
                \/ priority[u] = priority[t] /\ u > t]_vars
    <2>1. SUFFICES ASSUME TypeInv, TypeInv', DropInv, [Next]_vars
                   PROVE  /\ DropInv'
                          /\ up' => \A t \in Held \ Held', u \in Held' \ BeingDropped' :
                                \/ priority[u] < priority[t]
                                \/ priority[u] = priority[t] /\ u > t
      BY DEF Held
    <2>2. Held \subseteq Task /\ Held' \subseteq Task
      BY <2>1 DEF TypeInv, TypeOK
    <2>3. QED  BY <1>2, <1>3, <2>1, <2>2
  <1>5. QED  BY <1>1, <1>4, TypeInvariant, PTL DEF Spec, DropsLeastImportant
=============================================================================
