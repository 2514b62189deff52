------------------------------ MODULE QueueProofs ------------------------------
(***************************************************************************)
(* Proofs about the parts of MCQueueProcesses: the processes that overlap, *)
(* the hooks of one session, and the batch runner.  What holds of a part   *)
(* holds of the system: a step of the system is one of the part, or leaves *)
(* its variables alone.                                                    *)
(***************************************************************************)
EXTENDS MCQueueProcesses, FiniteSetTheorems, WellFoundedInduction, TLAPS

LEMMA PartSteps ==
  /\ SystemInit => Init /\ Session!Init /\ Batch!Init
  /\ [SystemNext]_allVars => [Next]_vars /\ [Session!Next]_sessionVars /\ [Batch!Next]_batchVars
<1>1. UNCHANGED allVars => UNCHANGED vars /\ UNCHANGED sessionVars /\ UNCHANGED batchVars
  BY DEF allVars
<1>2. SystemNext => [Next]_vars /\ [Session!Next]_sessionVars /\ [Batch!Next]_batchVars
  BY DEF SystemNext
<1> QED BY <1>1, <1>2 DEF SystemInit

-----------------------------------------------------------------------------
(* Health checks and hooks that overlap.  IInv says of every copy of the   *)
(* queue what CompletedWasPrinted says of the file: a copy travels between *)
(* memory and the file, so the property is inductive only for all of them. *)

\* What the copies and the file hold, and what a process is about.
QueueOf(q) == /\ DOMAIN q \subseteq Task
              /\ \A t \in DOMAIN q : q[t] \in {"pending", "executing", "completed"}

Shown(q) == \A t \in DOMAIN q : q[t] = "completed" => printed[t] > 0

IInv ==
  /\ printed \in [Task -> Nat]
  /\ created \in Nat
  /\ QueueOf(file) /\ Shown(file)
  /\ pc \in [Process -> {"off", "create", "test", "save", "mark", "print", "complete"}]
  /\ cur \in [Process -> Task \cup {None}]
  /\ DOMAIN mem = Process
  /\ \A p \in Process : /\ QueueOf(mem[p]) /\ Shown(mem[p])
                        /\ pc[p] \in {"mark", "print", "complete"} => cur[p] \in Task
                        /\ pc[p] = "complete" => printed[cur[p]] > 0

LEMMA InitIInv == Init => IInv
  BY ConstantsAssumption DEF Init, IInv, QueueOf, Shown, NoTasks, Process, Task, None

\* Each step of a process preserves the invariant.
LEMMA HealthIInv == ASSUME NEW h \in HealthCheck, IInv, HealthStep(h) PROVE IInv'
<1> USE DEF IInv, QueueOf, Shown
<1>0. h \in Process BY DEF Process
<1>1. CASE HealthLoad(h)
  BY <1>0, <1>1 DEF HealthLoad, disk, NoTasks
<1>2. CASE HealthCreate(h)
  BY <1>0, <1>2 DEF HealthCreate, Saves, NoTasks
<1>3. CASE HealthPasses(h)
  BY <1>0, <1>3 DEF HealthPasses, Exits, disk, NoTasks, None
<1>4. CASE HealthReports(h)
  <2> DEFINE t == created + 1
             S == DOMAIN mem[h] \cup {t}
             drops == IF Cardinality(S) <= MaxQueueSize THEN {}
                      ELSE {u \in S : /\ \A v \in S : priority[v] <= priority[u]
                                      /\ \A v \in S : priority[v] = priority[u] => u <= v}
             q == [u \in S \ drops |-> IF u = t THEN "pending" ELSE mem[h][u]]
  <2>1. /\ mem' = [mem EXCEPT ![h] = q] /\ cur' = [cur EXCEPT ![h] = t]
        /\ pc' = [pc EXCEPT ![h] = "save"] /\ created < MaxTask /\ created' = t
        /\ UNCHANGED <<file, printed>>
    BY <1>4 DEF HealthReports, disk
  <2>2. t \in Task BY <2>1, ConstantsAssumption DEF Task
  <2>3. S \ drops \subseteq Task BY <1>0, <2>2
  <2>4. QueueOf(q) /\ Shown(q)
    <3> HIDE DEF drops
    <3> QED BY <1>0, <2>3
  <2> HIDE DEF q, t
  <2> QED BY <1>0, <2>1, <2>2, <2>4 DEF Task
<1>5. CASE HealthSaves(h)
  BY <1>0, <1>5 DEF HealthSaves, Exits, NoTasks, None
<1> QED BY <1>1, <1>2, <1>3, <1>4, <1>5 DEF HealthStep

LEMMA DrainIInv == ASSUME NEW d \in Drain, IInv, DrainStep(d) PROVE IInv'
<1> USE DEF IInv, QueueOf, Shown
<1>0. d \in Process BY DEF Process
<1>1. CASE DrainLoads(d)
  BY <1>0, <1>1 DEF DrainLoads, disk
<1>2. CASE DrainMarks(d)
  BY <1>0, <1>2 DEF DrainMarks, Saves
<1>3. CASE DrainPrints(d)
  BY <1>0, <1>3 DEF DrainPrints, disk
<1>4. CASE DrainCompletes(d)
  BY <1>0, <1>4 DEF DrainCompletes, Exits, NoTasks, None
<1> QED BY <1>1, <1>2, <1>3, <1>4 DEF DrainStep

LEMMA CrashIInv == ASSUME NEW p \in Process, IInv, Crash(p) PROVE IInv'
  BY DEF IInv, QueueOf, Shown, Crash, Exits, disk, NoTasks, None

LEMMA NextIInv == IInv /\ [Next]_vars => IInv'
<1> SUFFICES ASSUME IInv, [Next]_vars PROVE IInv'
  OBVIOUS
<1>1. CASE UNCHANGED vars
  BY <1>1 DEF vars, IInv, QueueOf, Shown
<1>2. CASE Next
  BY <1>2, HealthIInv, DrainIInv, CrashIInv DEF Next
<1> QED BY <1>1, <1>2

\* A task that queue.json calls completed was shown to Claude, whatever processes
\* overlap and wherever they are killed (DrainMarks, DrainPrints, DrainCompletes).
THEOREM CompletedIsShown ==
  /\ Spec => []CompletedWasPrinted
  /\ SystemSpec => []CompletedWasPrinted
<1>1. IInv => CompletedWasPrinted
  BY DEF IInv, Shown, CompletedWasPrinted
<1>2. Spec => []CompletedWasPrinted
  BY <1>1, InitIInv, NextIInv, PTL DEF Spec
<1>3. SystemInit => Init
  BY PartSteps
<1>4. [SystemNext]_allVars => [Next]_vars
  BY PartSteps
<1>5. SystemSpec => []CompletedWasPrinted
  BY <1>1, <1>3, <1>4, InitIInv, NextIInv, PTL DEF SystemSpec
<1> QED BY <1>2, <1>5

-----------------------------------------------------------------------------
(* The hooks of one session, with no health check and one hook at a time:  *)
(* what the hook has in memory is then what the file holds.                *)

HookQueue(q) == DOMAIN q \subseteq Session!Task

HookInv ==
  /\ printedD \in [Session!Task -> Nat]
  /\ HookQueue(fileD)
  /\ pcD \in [Session!Process -> {"off", "mark", "print", "complete"}]
  /\ curD \in [Session!Process -> Session!Task \cup {Session!None}]
  /\ DOMAIN memD = Session!Process
  /\ HookQueue(memD[Hook])
  /\ pcD[Hook] # "off" => curD[Hook] \in Session!Task

LEMMA HookIs == Session!Process = {Hook} BY DEF Session!Process

LEMMA InitHook == Session!Init => HookInv
  BY SessionAssumption, HookIs
  DEF Session!Init, HookInv, HookQueue, Session!NoTasks, Session!Task, Session!None

LEMMA NextHook == HookInv /\ [Session!Next]_sessionVars => HookInv'
<1> SUFFICES ASSUME HookInv, [Session!Next]_sessionVars PROVE HookInv'
  OBVIOUS
<1> USE HookIs DEF HookInv, HookQueue
<1>1. CASE Session!DrainLoads(Hook)
  BY <1>1 DEF Session!DrainLoads, Session!disk, Session!Pending
<1>2. CASE Session!DrainMarks(Hook)
  BY <1>2 DEF Session!DrainMarks, Session!Saves
<1>3. CASE Session!DrainPrints(Hook)
  BY <1>3 DEF Session!DrainPrints, Session!disk
<1>4. CASE Session!DrainCompletes(Hook)
  BY <1>4 DEF Session!DrainCompletes, Session!Exits, Session!NoTasks, Session!None
<1>5. CASE Session!Crash(Hook)
  BY <1>5 DEF Session!Crash, Session!Exits, Session!disk, Session!NoTasks, Session!None
<1>6. CASE UNCHANGED sessionVars
  BY <1>6 DEF sessionVars
<1> QED BY <1>1, <1>2, <1>3, <1>4, <1>5, <1>6 DEF Session!Next, Session!DrainStep

\* What the hook is about comes before all that is pending.
ComesFirst(t) == \A u \in Session!Pending(fileD) : Session!Before(t, u, priorityD)

SessionInv ==
  /\ \A t \in Session!Task : printedD[t] <= 1
  /\ \A t \in Session!Pending(fileD) : printedD[t] = 0
  /\ pcD[Hook] \in {"off", "mark", "print", "complete"}
  /\ pcD[Hook] # "off" => memD[Hook] = fileD /\ curD[Hook] \in DOMAIN fileD
  /\ pcD[Hook] = "mark" => Session!IsNext(curD[Hook], Session!Pending(fileD))
  /\ pcD[Hook] = "print" => printedD[curD[Hook]] = 0 /\ ComesFirst(curD[Hook])
  /\ pcD[Hook] = "print" => curD[Hook] \notin Session!Pending(fileD)

LEMMA InitSession == Session!Init => SessionInv
<1> SUFFICES ASSUME Session!Init PROVE SessionInv
  OBVIOUS
<1>1. DOMAIN fileD \subseteq Session!Task
  BY SessionAssumption DEF Session!Init, Session!Task
<1>2. \A t \in Session!Task : printedD[t] = 0
  BY DEF Session!Init
<1>3. pcD[Hook] = "off"
  BY DEF Session!Init, Session!Process
<1> QED
  BY <1>1, <1>2, <1>3 DEF SessionInv, Session!Pending

LEMMA LoadsSession ==
  ASSUME HookInv, SessionInv, Session!DrainLoads(Hook) PROVE SessionInv'
<1>1. Hook \in Session!Process
  BY DEF Session!Process
<1>2. PICK t \in Session!Task : Session!IsNext(t, Session!Pending(fileD)) /\ curD' = [curD EXCEPT ![Hook] = t]
  BY DEF Session!DrainLoads
<1>3. /\ pcD' = [pcD EXCEPT ![Hook] = "mark"] /\ memD' = [memD EXCEPT ![Hook] = fileD]
      /\ UNCHANGED <<fileD, priorityD, printedD>>
  BY DEF Session!DrainLoads, Session!disk
<1>4. pcD'[Hook] = "mark" /\ memD'[Hook] = fileD /\ curD'[Hook] = t
  BY <1>1, <1>2, <1>3 DEF HookInv
<1>5. t \in DOMAIN fileD
  BY <1>2 DEF Session!IsNext, Session!Pending
<1> QED
  BY <1>2, <1>3, <1>4, <1>5 DEF SessionInv, Session!IsNext, Session!Pending, Session!Before

LEMMA MarksSession ==
  ASSUME HookInv, SessionInv, Session!DrainMarks(Hook) PROVE SessionInv'
<1> DEFINE t == curD[Hook]
           q == [memD[Hook] EXCEPT ![t] = "executing"]
<1>1. Hook \in Session!Process
  BY DEF Session!Process
<1>2. /\ pcD[Hook] = "mark" /\ pcD' = [pcD EXCEPT ![Hook] = "print"]
      /\ memD' = [memD EXCEPT ![Hook] = q] /\ fileD' = q
      /\ UNCHANGED <<priorityD, printedD, curD>>
  BY DEF Session!DrainMarks, Session!Saves
<1>3. pcD'[Hook] = "print" /\ memD'[Hook] = fileD'
  BY <1>1, <1>2 DEF HookInv
<1>4. memD[Hook] = fileD /\ Session!IsNext(t, Session!Pending(fileD)) /\ t \in DOMAIN fileD
  BY <1>2 DEF SessionInv
<1>5. DOMAIN fileD' = DOMAIN fileD /\ Session!Pending(fileD') = Session!Pending(fileD) \ {t}
  BY <1>2, <1>4 DEF Session!Pending
<1>6. \A u \in Session!Pending(fileD) \ {t} : Session!Before(t, u, priorityD)
  BY <1>4 DEF Session!IsNext
<1>7. printedD[t] = 0
  BY <1>4 DEF SessionInv, Session!IsNext
<1>8. \A u \in Session!Pending(fileD)' : Session!Before(t, u, priorityD)'
  BY <1>2, <1>5, <1>6 DEF Session!Before
<1>9. t' = t
  BY <1>2
<1>10. /\ \A u \in Session!Task : printedD'[u] <= 1
       /\ \A u \in Session!Pending(fileD)' : printedD'[u] = 0
  BY <1>2, <1>5 DEF SessionInv
<1> HIDE DEF q
<1> QED
  BY <1>2, <1>3, <1>4, <1>5, <1>7, <1>8, <1>9, <1>10 DEF SessionInv, ComesFirst

LEMMA PrintsSession ==
  ASSUME HookInv, SessionInv, Session!DrainPrints(Hook)
  PROVE  SessionInv' /\ \A t \in Session!Task : printedD'[t] > printedD[t] => ComesFirst(t)
<1> DEFINE c == curD[Hook]
<1>1. Hook \in Session!Process /\ c \in Session!Task
  BY DEF Session!Process, Session!DrainPrints, HookInv
<1>2. /\ pcD[Hook] = "print" /\ pcD' = [pcD EXCEPT ![Hook] = "complete"]
      /\ printedD' = [printedD EXCEPT ![c] = @ + 1]
      /\ UNCHANGED <<fileD, priorityD, memD, curD>>
  BY DEF Session!DrainPrints, Session!disk
<1>3. pcD'[Hook] = "complete"
  BY <1>1, <1>2 DEF HookInv
<1>4. printedD[c] = 0 /\ ComesFirst(c) /\ c \notin Session!Pending(fileD) /\ memD[Hook] = fileD
      /\ c \in DOMAIN fileD
  BY <1>2 DEF SessionInv
<1>5. /\ printedD'[c] = 1
      /\ \A t \in Session!Task : t # c => printedD'[t] = printedD[t]
  BY <1>1, <1>2, <1>4 DEF HookInv
<1>6. \A t \in Session!Task : printedD'[t] <= 1
  BY <1>5 DEF SessionInv
<1>7. \A t \in Session!Pending(fileD) : t \in Session!Task /\ printedD'[t] = 0
  BY <1>4, <1>5 DEF SessionInv, Session!Pending, HookInv, HookQueue
<1>8. \A t \in Session!Task : printedD'[t] > printedD[t] => t = c
  BY <1>5 DEF HookInv
<1> HIDE DEF c
<1>9. ASSUME NEW t \in Session!Task, printedD'[t] > printedD[t] PROVE ComesFirst(t)
  BY <1>4, <1>8, <1>9
<1>10. memD'[Hook] = fileD' /\ curD'[Hook] \in DOMAIN fileD'
  BY <1>2, <1>4 DEF c
<1>11. SessionInv'
  BY <1>2, <1>3, <1>6, <1>7, <1>10 DEF SessionInv, Session!Pending
<1> QED
  BY <1>9, <1>11

LEMMA CompletesSession ==
  ASSUME HookInv, SessionInv, Session!DrainCompletes(Hook) PROVE SessionInv'
<1> DEFINE q == [memD[Hook] EXCEPT ![curD[Hook]] = "completed"]
<1>1. Hook \in Session!Process
  BY DEF Session!Process
<1>2. pcD[Hook] = "complete" /\ pcD' = [pcD EXCEPT ![Hook] = "off"] /\ fileD' = q
      /\ UNCHANGED <<priorityD, printedD>>
  BY DEF Session!DrainCompletes, Session!Exits
<1>3. pcD'[Hook] = "off"
  BY <1>1, <1>2 DEF HookInv
<1>4. Session!Pending(q) \subseteq Session!Pending(fileD)
  BY <1>2 DEF SessionInv, Session!Pending
<1> HIDE DEF q
<1>5. \A t \in Session!Pending(fileD)' : printedD'[t] = 0
  BY <1>2, <1>4 DEF SessionInv
<1> QED
  BY <1>2, <1>3, <1>5 DEF SessionInv

LEMMA CrashSession ==
  ASSUME HookInv, SessionInv, Session!Crash(Hook) PROVE SessionInv'
<1>1. pcD'[Hook] = "off" /\ UNCHANGED <<fileD, priorityD, printedD>>
  BY HookIs DEF Session!Crash, Session!Exits, Session!disk, HookInv
<1> QED
  BY <1>1 DEF SessionInv, Session!Pending

LEMMA NextSession ==
  ASSUME HookInv, SessionInv, [Session!Next]_sessionVars
  PROVE  /\ SessionInv'
         /\ \A t \in Session!Task : printedD'[t] > printedD[t] => ComesFirst(t)
<1>0. printedD \in [Session!Task -> Nat]
  BY DEF HookInv
<1>1. ASSUME UNCHANGED printedD
      PROVE  \A t \in Session!Task : printedD'[t] > printedD[t] => ComesFirst(t)
  BY <1>0, <1>1
<1>2. ASSUME Session!DrainLoads(Hook) \/ Session!DrainMarks(Hook) \/ Session!DrainCompletes(Hook)
      PROVE  SessionInv' /\ UNCHANGED printedD
  BY <1>2, LoadsSession, MarksSession, CompletesSession
  DEF Session!DrainLoads, Session!DrainMarks, Session!DrainCompletes
<1>3. ASSUME Session!Crash(Hook) PROVE SessionInv' /\ UNCHANGED printedD
  BY <1>3, CrashSession DEF Session!Crash
<1>4. CASE UNCHANGED sessionVars
  BY <1>1, <1>4 DEF sessionVars, SessionInv, Session!Pending, Session!IsNext, ComesFirst, Session!Before
<1> QED
  BY <1>1, <1>2, <1>3, <1>4, PrintsSession, HookIs DEF Session!Next, Session!DrainStep

\* drain-queue.ts: in a session whose hooks run one after the other, however long the
\* backlog and wherever a hook is killed, no task is printed twice, and what is printed is
\* the most important of what is pending.
THEOREM SessionPrints == SystemSpec => PrintedOnceInOrder
<1>1. SystemInit => HookInv /\ SessionInv
  BY PartSteps, InitHook, InitSession
<1>2. HookInv /\ SessionInv /\ [SystemNext]_allVars => HookInv' /\ SessionInv'
  BY PartSteps, NextHook, NextSession
<1>3. SessionInv => Session!PrintedAtMostOnce
  BY DEF SessionInv, Session!PrintedAtMostOnce
<1>4. UNCHANGED sessionVars => UNCHANGED Session!vars
  BY DEF sessionVars, Session!vars
<1>5. HookInv /\ SessionInv /\ [SystemNext]_allVars =>
        [\A t \in Session!Task : printedD'[t] > printedD[t] =>
           \A u \in Session!Pending(fileD) : Session!Before(t, u, priorityD)]_Session!vars
  BY <1>4, PartSteps, NextSession DEF ComesFirst
<1> QED
  BY <1>1, <1>2, <1>3, <1>5, PTL DEF SystemSpec, PrintedOnceInOrder, Session!PrintedByImportance

-----------------------------------------------------------------------------
(* Every set of natural numbers has a least element.                       *)

Less == {p \in Nat \X Nat : p[1] < p[2]}

LEMMA LessWellFounded == IsWellFoundedOn(Less, Nat)
BY NatLessThanWellFounded DEF OpToRel, Less

LEMMA LeastItem ==
  ASSUME NEW S \in SUBSET Batch!Item, S # {}
  PROVE  Batch!Min(S) \in S
<1>1. S \in SUBSET Nat
  BY BatchAssumption DEF Batch!Item
<1>2. PICK n \in S : \A m \in S : <<m, n>> \notin Less
  BY <1>1, LessWellFounded, WFMin
<1>3. ASSUME NEW m \in S PROVE n <= m
  <2>1. m \in Nat /\ n \in Nat /\ <<m, n>> \in Nat \X Nat
    BY <1>1
  <2> QED BY <1>2, <2>1 DEF Less
<1> QED BY <1>3 DEF Batch!Min

-----------------------------------------------------------------------------
(* The batch runner.                                                       *)

Status == {"queued", "ideated", "planning", "building", "shipping", "completed", "failed"}
Text == {Batch!Torn} \cup [Batch!Item -> Status]

\* The steps of an item, those of a write, and those at which the run has the lock.
Work == {"branch", "plan", "planned", "build", "attempt", "built", "ship", "shipped", "note", "next"}
Filled == {"lock", "held", "remove", "again", "time", "truncate", "write", "move"}
Writing == Filled \cup {"read", "release"}
Critical == {"time", "truncate", "write", "move", "release"}
Step == Work \cup Writing \cup {"off", "ended", "dead"}

Run == [step : Step, left : SUBSET Batch!Item, copy : Text, to : Status \cup {"same", "none"},
        then : (Work \ {"branch"}) \cup {"none"}, tries : Nat]

RunnerType ==
  /\ tracking \in Text /\ temp \subseteq Text
  /\ lock \subseteq [by : Runner, timed : BOOLEAN] /\ \A k, l \in lock : k.by = l.by
  /\ run \in [Runner -> Run]
  /\ workers \in [Batch!Item -> SUBSET Runner] /\ branches \subseteq Batch!Item
  /\ overlap \in BOOLEAN /\ stolen \in BOOLEAN /\ givenUp \in BOOLEAN
  /\ \A r \in Runner :
       /\ run[r].step \in Work \cup Writing => run[r].left # {}
       /\ run[r].step \in Writing =>
            run[r].to \in (Status \cup {"same"}) \ {"queued", "ideated"}
              /\ run[r].then \in Work \ {"branch"}

\* What the other runs do, and the rest of this one, does not change.
Only(r) == \A q \in Runner \ {r} : run'[q] = run[q]

LEMMA GotoFacts ==
  ASSUME run \in [Runner -> Run], NEW r \in Runner, NEW s \in Step, Batch!Goto(r, s)
  PROVE  /\ run' \in [Runner -> Run] /\ Only(r) /\ run'[r].step = s
         /\ run'[r].left = run[r].left /\ run'[r].copy = run[r].copy
         /\ run'[r].to = run[r].to /\ run'[r].then = run[r].then
BY DEF Batch!Goto, Run, Only

LEMMA UpdateFacts ==
  ASSUME run \in [Runner -> Run], NEW r \in Runner, NEW to \in Status \cup {"same"},
         NEW then \in Work \ {"branch"}, Batch!Update(r, to, then)
  PROVE  /\ run' \in [Runner -> Run] /\ Only(r) /\ run'[r].step = "read"
         /\ run'[r].left = run[r].left /\ run'[r].to = to /\ run'[r].then = then
<1> DEFINE new == [run[r] EXCEPT !.step = "read", !.to = to, !.then = then]
<1>1. run' = [run EXCEPT ![r] = new]
  BY DEF Batch!Update, Run
<1>2. new \in Run /\ new.step = "read" /\ new.left = run[r].left /\ new.to = to /\ new.then = then
  BY DEF Run, Step, Writing
<1> HIDE DEF new
<1> QED BY <1>1, <1>2 DEF Only

\* What the actions that follow an item do: they move no file, and leave the run at a step
\* of an item, before a write, or at its end.
ItemStep(r) ==
  \/ Batch!Start(r) \/ Batch!Branch(r) \/ Batch!Phase(r, "plan", "planned")
       \/ Batch!SetStatus(r, "planned", "building", "build")
  \/ Batch!RetryBuild(r) \/ Batch!Build(r) \/ Batch!ResolveConflicts(r)
  \/ Batch!Phase(r, "ship", "shipped")
  \/ Batch!SetStatus(r, "shipped", "completed", "note")
       \/ Batch!SetStatus(r, "note", "same", "next")
  \/ Batch!NextItem(r)

LEMMA NextIs ==
  Batch!Next => \E r \in Runner : ItemStep(r) \/ Batch!WriteTracking(r) \/ Batch!Kill(r)
BY DEF Batch!Next, Batch!ProcessItem, ItemStep

\* An attempt to build begins, or has failed without a session to write.
BuildsOn(r) ==
  \/ run[r].step = "build" /\ run' = [run EXCEPT ![r].tries = @ + 1, ![r].step = "attempt"]
  \/ run[r].step = "attempt" /\ Batch!Goto(r, "build")

LEMMA BuildsOnFacts ==
  ASSUME run \in [Runner -> Run], NEW r \in Runner, BuildsOn(r)
  PROVE  /\ run' \in [Runner -> Run] /\ Only(r)
         /\ run[r].step \in {"build", "attempt"} /\ run'[r].step \in {"build", "attempt"}
         /\ run'[r].left = run[r].left /\ run'[r].copy = run[r].copy
         /\ run'[r].to = run[r].to /\ run'[r].then = run[r].then
<1>1. CASE run[r].step = "attempt" /\ Batch!Goto(r, "build")
  BY <1>1, GotoFacts DEF Step, Work
<1>2. CASE run[r].step = "build"
           /\ run' = [run EXCEPT ![r].tries = @ + 1, ![r].step = "attempt"]
  <2> DEFINE n == run[r].tries + 1
             new == [run[r] EXCEPT !.tries = n, !.step = "attempt"]
  <2>1. run' = [run EXCEPT ![r] = new] BY <1>2 DEF Run
  <2>3. n \in Nat BY DEF Run
  <2> HIDE DEF n
  <2>2. /\ new \in Run /\ new.step = "attempt" /\ new.left = run[r].left
        /\ new.copy = run[r].copy /\ new.to = run[r].to /\ new.then = run[r].then
    BY <2>3 DEF Run, Step, Work
  <2> HIDE DEF new
  <2> QED BY <1>2, <2>1, <2>2 DEF Only
<1> QED BY <1>1, <1>2 DEF BuildsOn

\* A run that follows an item begins a write or goes on; one that ends has no item left.
LEMMA ItemMoves ==
  ASSUME RunnerType, NEW r \in Runner, ItemStep(r)
  PROVE  /\ run' \in [Runner -> Run] /\ Only(r)
         /\ run[r].step \in Work \cup {"off"}
         /\ run'[r].step \in Work \cup {"read", "ended"}
         /\ run'[r].step \in Work \cup {"read"} => run'[r].left # {}
         /\ run'[r].step = "read" =>
              /\ run'[r].to \in (Status \cup {"same"}) \ {"queued", "ideated"}
              /\ run'[r].then \in Work \ {"branch"}
         /\ UNCHANGED <<Batch!files, stolen, givenUp>>
         /\ overlap' \in BOOLEAN
         /\ (UNCHANGED <<branches, workers>>
             \/ /\ run[r].step = "branch" /\ Batch!Current(r) \notin branches
                /\ branches' = branches \cup {Batch!Current(r)}
                /\ workers' = [workers EXCEPT ![Batch!Current(r)] = @ \cup {r}])
<1> USE DEF RunnerType, Batch!files, Batch!history, Batch!At
<1>1. CASE Batch!Start(r)
  <2>1. Batch!Ideated \in SUBSET Batch!Item
    BY DEF Batch!Ideated
  <2>2. /\ run' = [run EXCEPT ![r].left = Batch!Ideated,
                         ![r].step = IF Batch!Ideated = {} THEN "ended" ELSE "branch"]
        /\ run[r].step = "off"
        /\ UNCHANGED <<Batch!files, stolen, givenUp, branches, workers>> /\ overlap' \in BOOLEAN
    BY <1>1 DEF Batch!Start
  <2> HIDE DEF Batch!Ideated
  <2> DEFINE new == [run[r] EXCEPT !.left = Batch!Ideated,
        !.step = IF Batch!Ideated = {} THEN "ended" ELSE "branch"]
  <2>3. run' = [run EXCEPT ![r] = new]
    BY <2>2 DEF Run
  <2>4. new \in Run /\ new.left = Batch!Ideated
          /\ new.step = IF Batch!Ideated = {} THEN "ended" ELSE "branch"
    BY <2>1, ZenonT(30) DEF Run, Step, Work
  <2> HIDE DEF new
  <2>5. run' \in [Runner -> Run] /\ Only(r) /\ run'[r].left = Batch!Ideated
        /\ run'[r].step = IF Batch!Ideated = {} THEN "ended" ELSE "branch"
    BY <2>3, <2>4 DEF Only
  <2> QED BY <2>2, <2>5 DEF Work
<1>2. CASE Batch!Branch(r)
  <2>1. run[r].step = "branch" /\ run[r].left # {}
    BY <1>2 DEF Batch!Branch, Work
  <2>2. Batch!Update(r, "planning", "plan") \/ Batch!Update(r, "failed", "next")
    BY <1>2 DEF Batch!Branch
  <2>3. "plan" \in Work \ {"branch"} /\ "next" \in Work \ {"branch"}
        /\ "planning" \in Status /\ "failed" \in Status
    BY DEF Work, Status
  <2>4. /\ run' \in [Runner -> Run] /\ Only(r) /\ run'[r].step = "read"
        /\ run'[r].left = run[r].left
        /\ run'[r].to \in {"planning", "failed"} /\ run'[r].then \in Work \ {"branch"}
    BY <2>2, <2>3, UpdateFacts
  <2> QED BY <1>2, <2>1, <2>4 DEF Batch!Branch, Work, Status
<1>3. ASSUME NEW s \in Work, NEW to \in Status \cup {"same"}, NEW then \in Work \ {"branch"},
             run[r].step = s, Batch!Update(r, to, then), to \notin {"queued", "ideated"},
             UNCHANGED <<Batch!files, stolen, givenUp, overlap, branches, workers>>
      PROVE  /\ run' \in [Runner -> Run] /\ Only(r) /\ run'[r].step = "read"
             /\ run[r].step \in Work /\ run'[r].left # {}
             /\ run'[r].to \in (Status \cup {"same"}) \ {"queued", "ideated"}
             /\ run'[r].then \in Work \ {"branch"}
  BY <1>3, UpdateFacts
<1>4. ASSUME NEW s \in Work, NEW then \in Work \ {"branch"}, Batch!Phase(r, s, then)
      PROVE  /\ Batch!Update(r, "same", then) /\ run[r].step = s
             /\ UNCHANGED <<Batch!files, stolen, givenUp, overlap, branches, workers>>
  BY <1>4 DEF Batch!Phase
<1>5. ASSUME NEW s \in Work, NEW to \in Status \cup {"same"}, NEW then \in Work \ {"branch"},
             Batch!SetStatus(r, s, to, then)
      PROVE  /\ Batch!Update(r, to, then) /\ run[r].step = s
             /\ UNCHANGED <<Batch!files, stolen, givenUp, overlap, branches, workers>>
  BY <1>5 DEF Batch!SetStatus
<1>6. CASE Batch!RetryBuild(r) \/ Batch!Build(r)
  <2>1. run[r].step \in {"build", "attempt"}
          /\ UNCHANGED <<Batch!files, stolen, givenUp, overlap, branches, workers>>
    BY <1>6 DEF Batch!RetryBuild, Batch!Build
  <2>2. CASE Batch!Update(r, "same", "built") \/ Batch!Update(r, "same", "build")
             \/ Batch!Update(r, "failed", "note")
    BY <2>1, <2>2, <1>3 DEF Work, Status
  <2>3. CASE BuildsOn(r)
    BY <2>1, <2>3, BuildsOnFacts DEF Work
  <2> QED BY <1>6, <2>2, <2>3 DEF Batch!RetryBuild, Batch!Build, BuildsOn
<1>7. CASE Batch!ResolveConflicts(r)
  <2>1. run[r].step = "built"
          /\ UNCHANGED <<Batch!files, stolen, givenUp, overlap, branches, workers>>
    BY <1>7 DEF Batch!ResolveConflicts
  <2>2. Batch!Update(r, "shipping", "ship") \/ Batch!Update(r, "failed", "note")
        \/ Batch!Update(r, "failed", "next")
    BY <1>7 DEF Batch!ResolveConflicts
  <2> QED BY <2>1, <2>2, <1>3 DEF Work, Status
<1>8. CASE Batch!NextItem(r)
  <2> DEFINE left == run[r].left \ {Batch!Current(r)}
             end == [Batch!Unborn EXCEPT !.left = left,
                   !.step = IF left = {} THEN "ended" ELSE "branch"]
  <2>1. /\ run[r].step = "next" /\ run' = [run EXCEPT ![r] = end]
        /\ UNCHANGED <<Batch!files, stolen, givenUp, overlap, branches, workers>>
    BY <1>8 DEF Batch!NextItem
  <2>2. left \in SUBSET Batch!Item
    BY DEF Run
  <2> HIDE DEF left
  <2>3. end \in Run /\ end.left = left /\ end.step = IF left = {} THEN "ended" ELSE "branch"
    BY <2>2 DEF Batch!Unborn, Run, Step, Work, Status, Text
  <2> HIDE DEF end
  <2>4. run' \in [Runner -> Run] /\ Only(r) /\ run'[r] = end
    BY <2>1, <2>3 DEF Only
  <2> QED BY <2>1, <2>3, <2>4 DEF Work
<1>9. CASE Batch!Phase(r, "plan", "planned")
  BY <1>9, <1>3, <1>4 DEF Work
<1>10. CASE Batch!Phase(r, "ship", "shipped")
  BY <1>10, <1>3, <1>4 DEF Work
<1>11. CASE Batch!SetStatus(r, "planned", "building", "build")
  BY <1>11, <1>3, <1>5, SMTT(30) DEF Work, Status
<1>12. CASE Batch!SetStatus(r, "shipped", "completed", "note")
  BY <1>12, <1>3, <1>5, SMTT(30) DEF Work, Status
<1>13. CASE Batch!SetStatus(r, "note", "same", "next")
  BY <1>13, <1>3, <1>5, SMTT(30) DEF Work, Status
<1> QED
  BY <1>1, <1>2, <1>6, <1>7, <1>8, <1>9, <1>10, <1>11, <1>12, <1>13 DEF ItemStep

LEMMA KillMoves ==
  ASSUME RunnerType, NEW r \in Runner, Batch!Kill(r)
  PROVE  /\ run' \in [Runner -> Run] /\ Only(r) /\ run'[r].step = "dead" /\ Batch!Live(r)
         /\ UNCHANGED <<Batch!files, branches, Batch!history>>
<1> DEFINE dead == [Batch!Unborn EXCEPT !.step = "dead"]
<1>1. dead \in Run /\ dead.step = "dead"
  BY DEF Batch!Unborn, Run, Step, Text
<1>2. run' = [run EXCEPT ![r] = dead] /\ Batch!Live(r)
        /\ UNCHANGED <<Batch!files, branches, Batch!history>>
  BY DEF Batch!Kill
<1> HIDE DEF dead
<1> QED BY <1>1, <1>2 DEF RunnerType, Only

LEMMA TornIsNoText == Batch!Torn \notin [Batch!Item -> Status]
<1> SUFFICES ASSUME Batch!Torn \in [Batch!Item -> Status] PROVE FALSE
  OBVIOUS
<1>1. DOMAIN Batch!Torn = Batch!Item /\ Batch!Torn[1] = "torn" /\ DOMAIN Batch!Torn = {1}
  BY DEF Batch!Torn
<1> QED BY <1>1 DEF Status

\* A write changes neither what is written nor what the runs have worked on.
LEMMA WriteMoves ==
  ASSUME RunnerType, NEW r \in Runner, Batch!WriteTracking(r)
  PROVE  /\ run' \in [Runner -> Run] /\ Only(r)
         /\ run[r].step \in Writing /\ run'[r].step \in Writing \cup (Work \ {"branch"})
         /\ run'[r].left = run[r].left /\ run'[r].to = run[r].to /\ run'[r].then = run[r].then
         /\ run'[r].step = run[r].then \/ run'[r].step \in Writing \ {"read"}
         /\ RunnerType'
         /\ UNCHANGED <<branches, workers, built, overlap>>
<1> USE DEF RunnerType, Batch!files, Batch!history, Batch!At, Writing, Filled
<1>1. run[r].then \in Work \ {"branch"}
        /\ run[r].to \in (Status \cup {"same"}) \ {"queued", "ideated"}
      /\ run[r].left # {} /\ run[r].step \in Writing
  BY DEF Batch!WriteTracking, Batch!Read, Batch!MakeLock, Batch!RemoveStale, Batch!RemoveLock,
       Batch!MakeAgain, Batch!GiveUp, Batch!WriteTime,
         Batch!Truncate, Batch!Write, Batch!Move, Batch!Release
<1> DEFINE Moves(s) == /\ run' \in [Runner -> Run] /\ Only(r) /\ run'[r].step = s
                       /\ run'[r].left = run[r].left /\ run'[r].to = run[r].to
                       /\ run'[r].then = run[r].then
<1>2. ASSUME NEW s \in Step, Batch!Goto(r, s) PROVE Moves(s)
  BY <1>2, GotoFacts
<1>3. "lock" \in Step /\ "held" \in Step /\ "remove" \in Step /\ "again" \in Step
        /\ "time" \in Step
      /\ "truncate" \in Step /\ "write" \in Step /\ "move" \in Step /\ "release" \in Step
      /\ run[r].then \in Step
  BY <1>1 DEF Step
<1>4. ASSUME NEW s \in (Writing \ {"read"}) \cup {run[r].then}, Moves(s), tracking' \in Text,
             temp' \subseteq Text, lock' \subseteq [by : Runner, timed : BOOLEAN],
             \A k, l \in lock' : k.by = l.by, stolen' \in BOOLEAN, givenUp' \in BOOLEAN,
             UNCHANGED <<branches, workers, built, overlap>>
      PROVE  /\ RunnerType' /\ run' \in [Runner -> Run] /\ Only(r)
             /\ run'[r].step \in Writing \cup (Work \ {"branch"})
             /\ run'[r].left = run[r].left /\ run'[r].to = run[r].to /\ run'[r].then = run[r].then
             /\ run'[r].step = run[r].then \/ run'[r].step \in Writing \ {"read"}
  <2>1. ASSUME NEW q \in Runner
        PROVE  /\ run'[q].step \in Work \cup Writing => run'[q].left # {}
               /\ run'[q].step \in Writing =>
                    /\ run'[q].to \in (Status \cup {"same"}) \ {"queued", "ideated"}
                    /\ run'[q].then \in Work \ {"branch"}
    BY <1>1, <1>4 DEF Only
  <2> QED BY <1>1, <1>4, <2>1
<1> HIDE DEF Moves
<1>5. CASE Batch!Read(r)
  <2> DEFINE copy == IF tracking = Batch!Torn \/ run[r].to = "same" THEN tracking
                     ELSE [tracking EXCEPT ![Batch!Current(r)] = run[r].to]
             new == [run[r] EXCEPT !.step = "lock", !.copy = copy]
  <2>1. run' = [run EXCEPT ![r] = new] /\ UNCHANGED <<Batch!files, branches, Batch!history>>
    BY <1>5 DEF Batch!Read, Run
  <2>2. copy \in Text
    BY <1>1 DEF Text
  <2> HIDE DEF copy
  <2>3. new \in Run /\ new.step = "lock" /\ new.left = run[r].left /\ new.to = run[r].to
        /\ new.then = run[r].then
    BY <2>2, ZenonT(30) DEF Run, Step
  <2> HIDE DEF new
  <2>4. Moves("lock")
    BY <2>1, <2>3 DEF Only, Moves
  <2> QED BY <1>1, <1>4, <2>1, <2>4
<1>6. CASE Batch!MakeLock(r)
  <2>1. Batch!Goto(r, "time") \/ Batch!Goto(r, "held")
    BY <1>6 DEF Batch!MakeLock
  <2>2. lock' = lock \/ lock' = {[by |-> r, timed |-> FALSE]}
    BY <1>6 DEF Batch!MakeLock, Batch!Made
  <2>3. UNCHANGED <<tracking, temp, branches, workers, built, overlap, stolen, givenUp>>
    BY <1>6 DEF Batch!MakeLock
  <2>4. lock' \subseteq [by : Runner, timed : BOOLEAN] /\ \A k, l \in lock' : k.by = l.by
    <3>1. CASE lock' = lock
      BY <3>1
    <3>2. CASE lock' = {[by |-> r, timed |-> FALSE]}
      BY <3>2
    <3> QED BY <2>2, <3>1, <3>2
  <2> QED BY <1>1, <1>2, <1>3, <1>4, <2>1, <2>3, <2>4
<1>7. CASE Batch!RemoveStale(r)
  BY <1>1, <1>2, <1>3, <1>4, <1>7 DEF Batch!RemoveStale
<1>8. CASE Batch!RemoveLock(r)
  <2>1. stolen' \in BOOLEAN
    BY <1>8 DEF Batch!RemoveLock
  <2> QED BY <1>1, <1>2, <1>3, <1>4, <1>8, <2>1 DEF Batch!RemoveLock
<1>9. CASE Batch!MakeAgain(r)
  BY <1>1, <1>2, <1>3, <1>4, <1>9 DEF Batch!MakeAgain, Batch!Made
<1>10. CASE Batch!GiveUp(r)
  BY <1>1, <1>2, <1>3, <1>4, <1>10 DEF Batch!GiveUp
<1>11. CASE Batch!WriteTime(r)
  <2>1. lock' = {[l EXCEPT !.timed = TRUE] : l \in lock}
    BY <1>11 DEF Batch!WriteTime
  <2>2. lock' \subseteq [by : Runner, timed : BOOLEAN] /\ \A k, l \in lock' : k.by = l.by
    <3>1. \A l \in [by : Runner, timed : BOOLEAN] :
            /\ [l EXCEPT !.timed = TRUE] \in [by : Runner, timed : BOOLEAN]
            /\ [l EXCEPT !.timed = TRUE].by = l.by
      OBVIOUS
    <3> QED BY <2>1, <3>1
  <2>3. (Batch!Goto(r, run[r].then) \/ Batch!Goto(r, "truncate")) /\ givenUp' \in BOOLEAN
    BY <1>11 DEF Batch!WriteTime
  <2>4. UNCHANGED <<tracking, temp, branches, workers, built, overlap, stolen>>
    BY <1>11 DEF Batch!WriteTime
  <2> QED BY <1>1, <1>2, <1>3, <1>4, <2>2, <2>3, <2>4
<1>12. CASE Batch!Truncate(r)
  BY <1>1, <1>2, <1>3, <1>4, <1>12 DEF Batch!Truncate, Text
<1>13. CASE Batch!Write(r)
  <2>1. run[r].copy \in Text
    BY DEF Run
  <2> QED BY <1>1, <1>2, <1>3, <1>4, <1>13, <2>1 DEF Batch!Write
<1>14. CASE Batch!Move(r)
  <2>1. tracking' \in Text /\ temp' \subseteq Text
    BY <1>14 DEF Batch!Move
  <2> QED BY <1>1, <1>2, <1>3, <1>4, <1>14, <2>1 DEF Batch!Move
<1>15. CASE Batch!Release(r)
  <2>1. stolen' \in BOOLEAN
    BY <1>15 DEF Batch!Release
  <2> QED BY <1>1, <1>2, <1>3, <1>4, <1>15, <2>1 DEF Batch!Release
<1> QED
  BY <1>5, <1>6, <1>7, <1>8, <1>9, <1>10, <1>11, <1>12, <1>13, <1>14, <1>15
       DEF Batch!WriteTracking

LEMMA RunnerTypeStep ==
  ASSUME RunnerType, [Batch!Next]_batchVars
  PROVE  RunnerType'
<1>1. CASE UNCHANGED batchVars
  BY <1>1 DEF RunnerType, batchVars
<1>2. ASSUME NEW r \in Runner, ItemStep(r) PROVE RunnerType'
  <2>1. branches' \subseteq Batch!Item /\ workers' \in [Batch!Item -> SUBSET Runner]
    <3>1. CASE UNCHANGED <<branches, workers>>
      BY <3>1 DEF RunnerType
    <3>2. CASE /\ run[r].step = "branch" /\ Batch!Current(r) \notin branches
               /\ branches' = branches \cup {Batch!Current(r)}
               /\ workers' = [workers EXCEPT ![Batch!Current(r)] = @ \cup {r}]
      <4>1. run[r].left \in SUBSET Batch!Item /\ run[r].left # {}
        BY <3>2 DEF RunnerType, Run, Work
      <4>2. Batch!Current(r) \in Batch!Item
        BY <4>1, LeastItem DEF Batch!Current
      <4> QED BY <3>2, <4>2 DEF RunnerType
    <3> QED BY <1>2, <3>1, <3>2, ItemMoves
  <2>2. /\ run' \in [Runner -> Run] /\ Only(r)
        /\ run'[r].step \in Work \cup {"read", "ended"}
        /\ run'[r].step \in Work \cup {"read"} => run'[r].left # {}
        /\ run'[r].step = "read" =>
             /\ run'[r].to \in (Status \cup {"same"}) \ {"queued", "ideated"}
             /\ run'[r].then \in Work \ {"branch"}
        /\ UNCHANGED <<Batch!files, stolen, givenUp>> /\ overlap' \in BOOLEAN
    BY <1>2, ItemMoves
  <2>3. ASSUME NEW q \in Runner
        PROVE  /\ run'[q].step \in Work \cup Writing => run'[q].left # {}
               /\ run'[q].step \in Writing =>
                    /\ run'[q].to \in (Status \cup {"same"}) \ {"queued", "ideated"}
                    /\ run'[q].then \in Work \ {"branch"}
    BY <2>2 DEF RunnerType, Only, Writing, Filled, Work
  <2> QED BY <2>1, <2>2, <2>3 DEF RunnerType, Batch!files
<1>3. ASSUME NEW r \in Runner, Batch!Kill(r) PROVE RunnerType'
  <2>1. /\ run' \in [Runner -> Run] /\ Only(r) /\ run'[r].step = "dead"
        /\ UNCHANGED <<Batch!files, branches, Batch!history>>
    BY <1>3, KillMoves
  <2>2. ASSUME NEW q \in Runner
        PROVE  /\ run'[q].step \in Work \cup Writing => run'[q].left # {}
               /\ run'[q].step \in Writing =>
                    /\ run'[q].to \in (Status \cup {"same"}) \ {"queued", "ideated"}
                    /\ run'[q].then \in Work \ {"branch"}
    BY <2>1 DEF RunnerType, Only, Writing, Filled, Work
  <2> QED BY <2>1, <2>2 DEF RunnerType, Batch!files, Batch!history
<1> QED BY <1>1, <1>2, <1>3, NextIs, WriteMoves

\* Whoever made the lock has it until it lets go or is killed; unless it is taken from one
\* that goes on, one run at a time has it, and the file and its copies are whole.
WholeInv ==
  /\ \A l \in lock : run[l.by].step \in Critical \cup {"dead"}
  /\ ~stolen =>
       /\ \A r \in Runner : run[r].step \in Critical => \E l \in lock : l.by = r
       /\ tracking # Batch!Torn
       /\ \A r \in Runner : run[r].step \in Filled => run[r].copy # Batch!Torn
       /\ \A r \in Runner : run[r].step = "move" => temp = {run[r].copy}

LEMMA WholeStep ==
  ASSUME RunnerType, WholeInv, [Batch!Next]_batchVars
  PROVE  WholeInv'
<1> USE DEF Batch!files, Batch!history, Batch!At, Critical, Filled
<1>1. CASE UNCHANGED batchVars
  BY <1>1 DEF WholeInv, batchVars
<1>2. \A l \in lock : l.by \in Runner
  BY DEF RunnerType
\* A run that holds nothing goes on, or one is killed.
<1>3. ASSUME NEW r \in Runner, UNCHANGED <<Batch!files, stolen>>, Only(r),
             run'[r].step \notin Critical \cup Filled,
             \/ run'[r].step = "dead"
             \/ run[r].step \notin Critical \cup {"dead"}
      PROVE  WholeInv'
  BY <1>2, <1>3 DEF WholeInv, Only
<1>4. ASSUME NEW r \in Runner, ItemStep(r) PROVE WholeInv'
  <2>1. /\ UNCHANGED <<Batch!files, stolen>> /\ Only(r)
        /\ run[r].step \in Work \cup {"off"} /\ run'[r].step \in Work \cup {"read", "ended"}
    BY <1>4, ItemMoves
  <2> QED BY <1>3, <2>1 DEF Work
<1>5. ASSUME NEW r \in Runner, Batch!Kill(r) PROVE WholeInv'
  <2>1. /\ run'[r].step = "dead" /\ Only(r) /\ UNCHANGED <<Batch!files, branches, Batch!history>>
    BY <1>5, KillMoves
  <2> QED BY <1>3, <2>1
<1>6. ASSUME NEW r \in Runner, Batch!WriteTracking(r) PROVE WholeInv'
  <2>1. Only(r) /\ run' \in [Runner -> Run] /\ run[r].then \in Work
    <3>1. run[r].step \in Writing
      BY <1>6, WriteMoves
    <3> QED BY <1>6, <3>1, WriteMoves DEF RunnerType
  <2>2. ASSUME NEW s \in Step, Batch!Goto(r, s)
    PROVE run'[r].step = s /\ run'[r].copy = run[r].copy
    BY <2>2, GotoFacts DEF RunnerType
  <2>3. "lock" \in Step /\ "held" \in Step /\ "remove" \in Step /\ "again" \in Step
        /\ "time" \in Step /\ "truncate" \in Step /\ "write" \in Step /\ "move" \in Step
        /\ "release" \in Step /\ run[r].then \in Step
    BY <2>1 DEF Step, Writing
  <2>4. CASE Batch!Read(r)
    <3> DEFINE copy == IF tracking = Batch!Torn \/ run[r].to = "same" THEN tracking
                       ELSE [tracking EXCEPT ![Batch!Current(r)] = run[r].to]
    <3>1. run[r].step = "read" /\ UNCHANGED <<tracking, temp, lock, stolen>>
      BY <2>4 DEF Batch!Read
    <3>2. run'[r].step = "lock" /\ run'[r].copy = copy
      BY <2>4 DEF Batch!Read, RunnerType, Run
    <3>3. ~stolen => copy # Batch!Torn
      <4>1. run[r].to \in Status \cup {"same"}
        BY <3>1 DEF RunnerType, Writing
      <4>2. ~stolen => tracking \in [Batch!Item -> Status]
        BY DEF WholeInv, RunnerType, Text
      <4>3. ~stolen => copy \in [Batch!Item -> Status]
        BY <4>1, <4>2, TornIsNoText
      <4> QED BY <4>3, TornIsNoText
    <3> HIDE DEF copy
    <3> QED BY <1>2, <2>1, <3>1, <3>2, <3>3 DEF WholeInv, Only
  <2>5. CASE Batch!MakeLock(r)
    <3>1. /\ run[r].step = "lock" /\ UNCHANGED <<tracking, temp, stolen>>
          /\ \/ lock = {} /\ lock' = {[by |-> r, timed |-> FALSE]} /\ Batch!Goto(r, "time")
             \/ lock' = lock /\ Batch!Goto(r, "held")
      BY <2>5 DEF Batch!MakeLock, Batch!Made
    <3>2. CASE lock' = lock /\ Batch!Goto(r, "held")
      BY <1>2, <2>1, <2>2, <2>3, <3>1, <3>2 DEF WholeInv, Only
    <3>3. CASE lock = {} /\ lock' = {[by |-> r, timed |-> FALSE]} /\ Batch!Goto(r, "time")
      BY <1>2, <2>1, <2>2, <2>3, <3>1, <3>3 DEF WholeInv, Only
    <3> QED BY <3>1, <3>2, <3>3
  <2>6. CASE Batch!RemoveStale(r)
    <3>1. run[r].step = "held" /\ UNCHANGED <<tracking, temp, lock, stolen>>
            /\ Batch!Goto(r, "remove")
      BY <2>6 DEF Batch!RemoveStale
    <3> QED BY <1>2, <2>1, <2>2, <2>3, <3>1 DEF WholeInv, Only
  <2>7. CASE Batch!RemoveLock(r)
    <3>1. /\ run[r].step = "remove" /\ UNCHANGED <<tracking, temp>> /\ lock' = {}
          /\ Batch!Goto(r, "again") /\ (stolen' <=> stolen \/ \E l \in lock : Batch!Live(l.by))
      BY <2>7 DEF Batch!RemoveLock
    <3>2. ~stolen' => \A l \in lock : run[l.by].step = "dead"
      BY <3>1 DEF WholeInv, Batch!Live
    <3>3. ~stolen' => \A q \in Runner : run[q].step \notin Critical
      BY <3>1, <3>2 DEF WholeInv
    <3> QED BY <2>1, <2>2, <2>3, <3>1, <3>3 DEF WholeInv, Only
  <2>8. CASE Batch!MakeAgain(r)
    <3>1. /\ run[r].step = "again" /\ UNCHANGED <<tracking, temp, stolen>> /\ lock = {}
          /\ lock' = {[by |-> r, timed |-> FALSE]} /\ Batch!Goto(r, "time")
      BY <2>8 DEF Batch!MakeAgain, Batch!Made
    <3> QED BY <1>2, <2>1, <2>2, <2>3, <3>1 DEF WholeInv, Only
  <2>9. CASE Batch!GiveUp(r)
    <3>1. /\ run[r].step \in {"held", "again"} /\ UNCHANGED <<tracking, temp, lock, stolen>>
          /\ Batch!Goto(r, run[r].then)
      BY <2>9 DEF Batch!GiveUp
    <3>2. run'[r].step \in Work
      BY <2>1, <2>2, <2>3, <3>1
    <3> QED BY <1>3, <2>1, <3>1, <3>2 DEF Work
  <2>10. CASE Batch!WriteTime(r)
    <3>1. /\ run[r].step = "time" /\ UNCHANGED <<tracking, temp, stolen>>
          /\ lock' = {[l EXCEPT !.timed = TRUE] : l \in lock}
          /\ \/ lock = {} /\ Batch!Goto(r, run[r].then)
             \/ lock # {} /\ Batch!Goto(r, "truncate")
      BY <2>10 DEF Batch!WriteTime
    <3>2. \A l \in lock : [l EXCEPT !.timed = TRUE].by = l.by
      BY DEF RunnerType
    <3>3. CASE lock = {} /\ Batch!Goto(r, run[r].then)
      <4>1. lock' = {} /\ stolen /\ stolen'
        BY <3>1, <3>3 DEF WholeInv
      <4> QED BY <4>1 DEF WholeInv
    <3>4. CASE lock # {} /\ Batch!Goto(r, "truncate")
      <4>1. /\ \A k \in lock' : \E l \in lock : k.by = l.by
            /\ \A l \in lock : \E k \in lock' : k.by = l.by
        BY <3>1, <3>2
      <4>2. run'[r].step = "truncate" /\ run'[r].copy = run[r].copy
        BY <2>2, <2>3, <3>4
      <4>3. run[r].step = "time" /\ UNCHANGED <<tracking, temp, stolen>>
        BY <3>1
      <4> QED BY <1>2, <2>1, <4>1, <4>2, <4>3 DEF WholeInv, Only
    <3> QED BY <3>1, <3>3, <3>4
  <2>11. ASSUME run[r].step \in Critical, ~stolen
         PROVE  \A q \in Runner \ {r} : run[q].step \notin Critical
    BY <2>11 DEF WholeInv, RunnerType
  <2>12. CASE Batch!Truncate(r)
    <3>1. run[r].step = "truncate" /\ UNCHANGED <<tracking, lock, stolen>>
            /\ Batch!Goto(r, "write")
      BY <2>12 DEF Batch!Truncate
    <3> QED BY <1>2, <2>1, <2>2, <2>3, <2>11, <3>1 DEF WholeInv, Only
  <2>13. CASE Batch!Write(r)
    <3>1. /\ run[r].step = "write" /\ UNCHANGED <<tracking, lock, stolen>>
               /\ Batch!Goto(r, "move")
          /\ temp' = {run[r].copy}
      BY <2>13 DEF Batch!Write
    <3> QED BY <1>2, <2>1, <2>2, <2>3, <2>11, <3>1 DEF WholeInv, Only
  <2>14. CASE Batch!Move(r)
    <3>1. /\ run[r].step = "move" /\ UNCHANGED <<lock, stolen>> /\ Batch!Goto(r, "release")
          /\ tracking' = IF temp = {} THEN tracking ELSE CHOOSE t \in temp : TRUE
      BY <2>14 DEF Batch!Move
    <3>2. ~stolen => tracking' = run[r].copy /\ run[r].copy # Batch!Torn
      BY <3>1 DEF WholeInv
    <3> QED BY <1>2, <2>1, <2>2, <2>3, <2>11, <3>1, <3>2 DEF WholeInv, Only
  <2>15. CASE Batch!Release(r)
    <3>1. /\ run[r].step = "release" /\ UNCHANGED <<tracking, temp>> /\ lock' = {}
          /\ Batch!Goto(r, run[r].then) /\ (stolen' <=> stolen
                \/ \E l \in lock : l.by # r /\ Batch!Live(l.by))
      BY <2>15 DEF Batch!Release
    <3>2. run'[r].step \in Work
      BY <2>1, <2>2, <2>3, <3>1
    <3>3. ~stolen' => \A q \in Runner \ {r} : run[q].step \notin Critical
      BY <2>11, <3>1
    <3> QED BY <2>1, <3>1, <3>2, <3>3 DEF WholeInv, Only, Work
  <2> QED
    BY <1>6, <2>4, <2>5, <2>6, <2>7, <2>8, <2>9, <2>10, <2>12, <2>13, <2>14, <2>15
       DEF Batch!WriteTracking
<1> QED BY <1>1, <1>4, <1>5, <1>6, NextIs

LEMMA BatchCardinality == ASSUME NEW S PROVE Batch!Cardinality(S) = Cardinality(S)
BY DEF Batch!Cardinality, Cardinality

\* A branch is made once, by the run that works on the item.
BranchInv ==
  \A i \in Batch!Item :
    (i \notin branches => workers[i] = {}) /\ (workers[i] = {}
          \/ \E r \in Runner : workers[i] = {r})

LEMMA BranchStep ==
  ASSUME RunnerType, BranchInv, [Batch!Next]_batchVars
  PROVE  BranchInv'
<1>1. CASE UNCHANGED <<branches, workers>>
  BY <1>1 DEF BranchInv
<1>2. ASSUME NEW r \in Runner, Batch!Current(r) \notin branches,
      branches' = branches \cup {Batch!Current(r)},
             workers' = [workers EXCEPT ![Batch!Current(r)] = @ \cup {r}]
      PROVE  BranchInv'
  <2> SUFFICES ASSUME NEW i \in Batch!Item
               PROVE  /\ (i \notin branches' => workers'[i] = {})
                      /\ (workers'[i] = {} \/ \E q \in Runner : workers'[i] = {q})
    BY DEF BranchInv
  <2>1. CASE i = Batch!Current(r)
    <3>1. workers[i] = {}
      BY <1>2, <2>1 DEF BranchInv
    <3>2. workers'[i] = {r}
      BY <1>2, <2>1, <3>1 DEF RunnerType
    <3> QED BY <1>2, <2>1, <3>2
  <2>2. CASE i # Batch!Current(r)
    BY <1>2, <2>2 DEF BranchInv, RunnerType
  <2> QED BY <2>1, <2>2
<1>3. ASSUME NEW r \in Runner, ItemStep(r) PROVE BranchInv'
  BY <1>1, <1>2, <1>3, ItemMoves
<1>4. ASSUME NEW r \in Runner, Batch!WriteTracking(r) PROVE BranchInv'
  BY <1>1, <1>4, WriteMoves
<1>5. ASSUME NEW r \in Runner, Batch!Kill(r) PROVE BranchInv'
  BY <1>1, <1>5, KillMoves DEF Batch!history
<1> QED BY <1>1, <1>3, <1>4, <1>5, NextIs DEF batchVars

-----------------------------------------------------------------------------
(* What becomes of the items, where runs do not overlap and no write is    *)
(* given up.                                                               *)

Calm == ~overlap /\ ~givenUp
Final == {"completed", "failed"}

\* The status an item has at each step of its run.
Expected(step) ==
  CASE step = "branch" -> {"ideated"}
    [] step \in {"plan", "planned"} -> {"planning"}
    [] step \in {"build", "attempt", "built"} -> {"building"}
    [] step \in {"ship", "shipped"} -> {"shipping"}
    [] OTHER -> Final

\* Where a run that goes on has got: the items left are ideated but for the current one,
\* whose status is that of the step, now or when the write under way is done.
Progress(r) ==
  LET c == Batch!Current(r)
      x == run[r]
  IN /\ \A i \in x.left \ {c} : tracking[i] = "ideated"
     /\ \A i \in Batch!Item : tracking[i] = "ideated" => i \in x.left
     /\ \A i \in Batch!Item \ x.left : r \in workers[i] => tracking[i] \in Final
     /\ \A q \in Runner : run[q].step = "ended" => q \notin workers[c]
     /\ x.step \in Work => tracking[c] \in Expected(x.step)
     /\ x.step \in {"built", "ship", "shipped"} => c \in built
     /\ x.step \in Writing =>
          /\ x.to = "same" \/ x.step = "release" => tracking[c] \in Expected(x.then)
          /\ x.to # "same" => x.to \in Expected(x.then)
          /\ x.then \in {"built", "ship", "shipped"} \/ x.to = "completed" => c \in built
     /\ x.step \in Filled =>
          x.copy = IF x.to = "same" THEN tracking ELSE [tracking EXCEPT ![c] = x.to]

Outcome ==
  \A i \in Batch!Item :
    /\ tracking[i] = "completed" => i \in built
    /\ \A r \in workers[i] : run[r].step = "ended" => tracking[i] \in Final
    /\ (\E r \in Runner : run[r].step = "ended") => tracking[i] # "ideated"
    /\ tracking[i] = "queued" => workers[i] = {}

OutcomeInv ==
  /\ \A r \in Runner, i \in Batch!Item : run[r].step = "off" => r \notin workers[i]
  /\ ~overlap => \A q, r \in Runner : Batch!Live(q) /\ Batch!Live(r) => q = r
  /\ Calm => ~stolen /\ Outcome /\ \A r \in Runner : Batch!Live(r) => Progress(r)

LEMMA CurrentIsLeft ==
  ASSUME RunnerType, NEW r \in Runner, run[r].step \in Work \cup Writing
  PROVE  Batch!Current(r) \in run[r].left /\ Batch!Current(r) \in Batch!Item
<1>1. run[r].left \in SUBSET Batch!Item /\ run[r].left # {}
  BY DEF RunnerType, Run
<1> QED BY <1>1, LeastItem DEF Batch!Current

LEMMA LiveIs ==
  ASSUME RunnerType, NEW r \in Runner
  PROVE  Batch!Live(r) <=> run[r].step \in Work \cup Writing
BY DEF RunnerType, Run, Step, Batch!Live, Work, Writing, Filled

\* A run that goes on alone: the others stay as they are, and none of them goes on.
LEMMA Alone ==
  ASSUME RunnerType, RunnerType', OutcomeInv, ~overlap, NEW r \in Runner, Batch!Live(r), Only(r)
  PROVE  \A q \in Runner \ {r} : run'[q] = run[q] /\ ~Batch!Live(q) /\ ~Batch!Live(q)'
BY DEF OutcomeInv, Only, Batch!Live

\* The write of a status, or of a field that nothing here depends on, begins.
LEMMA UpdateKeeps ==
  ASSUME RunnerType, RunnerType', OutcomeInv, NEW r \in Runner, run[r].step \in Work,
         NEW to \in Status \cup {"same"}, NEW then \in Work \ {"branch"},
           Batch!Update(r, to, then),
         UNCHANGED <<tracking, overlap, givenUp, stolen>>, built \subseteq built',
         \A i \in Batch!Item \ {Batch!Current(r)} : workers'[i] = workers[i],
         \/ workers'[Batch!Current(r)] = workers[Batch!Current(r)]
         \/ /\ run[r].step = "branch"
            /\ workers'[Batch!Current(r)] = workers[Batch!Current(r)] \cup {r},
         Calm => /\ IF to = "same" THEN tracking[Batch!Current(r)] \in Expected(then)
                    ELSE to \in Expected(then)
                 /\ then \in {"built", "ship", "shipped"}
                       \/ to = "completed" => Batch!Current(r) \in built'
  PROVE  OutcomeInv'
<1> DEFINE c == Batch!Current(r)
<1>1. c \in run[r].left /\ c \in Batch!Item /\ Batch!Live(r)
  BY CurrentIsLeft, LiveIs
<1>2. /\ Only(r) /\ run'[r].step = "read" /\ run'[r].left = run[r].left
      /\ run'[r].to = to /\ run'[r].then = then
  <2>1. run \in [Runner -> Run]
    BY DEF RunnerType
  <2> QED BY <2>1, UpdateFacts
<1>3. Batch!Current(r)' = c
  BY <1>2 DEF Batch!Current
<1>4. \A q \in Runner, i \in Batch!Item : run'[q].step = "off" => q \notin workers'[i]
  BY <1>2 DEF OutcomeInv, Only, Work
<1>5. ~overlap' => \A q \in Runner \ {r} : run'[q] = run[q] /\ ~Batch!Live(q) /\ ~Batch!Live(q)'
  BY <1>1, <1>2, Alone
<1>6. ASSUME Calm' PROVE ~stolen' /\ Outcome' /\ Progress(r)'
  <2>1. Calm /\ ~stolen /\ Outcome /\ Progress(r)
    BY <1>1, <1>6 DEF OutcomeInv, Calm
  <2>2. \A q \in Runner : run'[q].step = "ended" => run[q].step = "ended" /\ q # r
    BY <1>2 DEF Only
  <2>3. Outcome'
    <3>1. tracking[c] = "queued" => workers'[c] = {}
      <4>1. run[r].step = "branch" => tracking[c] = "ideated"
        BY <2>1 DEF Progress, Expected, Work
      <4> QED BY <1>1, <2>1, <4>1 DEF Outcome
    <3> SUFFICES ASSUME NEW i \in Batch!Item
                 PROVE  /\ tracking[i] = "completed" => i \in built'
                        /\ \A q \in workers'[i] : run'[q].step = "ended" => tracking[i] \in Final
                        /\ (\E q \in Runner : run'[q].step = "ended") => tracking[i] # "ideated"
                        /\ tracking[i] = "queued" => workers'[i] = {}
      BY DEF Outcome
    <3>2. \A q \in workers'[i] : q \in workers[i] \/ q = r
      BY <1>1
    <3>3. \A q \in workers'[i] : q \in Runner
      BY DEF RunnerType
    <3> QED BY <1>1, <2>1, <2>2, <3>1, <3>2, <3>3 DEF Outcome
  <2>4. Progress(r)'
    <3>1. /\ \A i \in run'[r].left \ {c} : tracking'[i] = "ideated"
          /\ \A i \in Batch!Item : tracking'[i] = "ideated" => i \in run'[r].left
          /\ \A i \in Batch!Item \ run'[r].left : r \in workers'[i] => tracking'[i] \in Final
      BY <1>1, <1>2, <2>1 DEF Progress
    <3>2. \A q \in Runner : run'[q].step = "ended" => q \notin workers'[c]
      BY <2>1, <2>2 DEF Progress
    <3>3. "read" \notin Work /\ "read" \notin Filled /\ "read" # "release"
      BY DEF Work, Filled
    <3>4. /\ to = "same" => tracking'[c] \in Expected(then)
          /\ to # "same" => to \in Expected(then)
          /\ then \in {"built", "ship", "shipped"} \/ to = "completed" => c \in built'
      BY <2>1
    <3> QED BY <1>2, <1>3, <3>1, <3>2, <3>3, <3>4 DEF Progress
  <2> QED BY <2>1, <2>3, <2>4
<1>7. ~overlap' => \A p, q \in Runner : Batch!Live(p)' /\ Batch!Live(q)' => p = q
  BY <1>5
<1>8. Calm' => \A q \in Runner : Batch!Live(q)' => Progress(q)'
  BY <1>5, <1>6 DEF Calm
<1> QED BY <1>4, <1>6, <1>7, <1>8 DEF OutcomeInv

\* A run begins: it finds what is ideated.
LEMMA StartKeeps ==
  ASSUME RunnerType, RunnerType', WholeInv, OutcomeInv, NEW r \in Runner, Batch!Start(r)
  PROVE  OutcomeInv'
<1>1. /\ run[r].step = "off" /\ UNCHANGED <<tracking, workers, built, stolen, givenUp>>
      /\ (overlap' <=> overlap \/ \E q \in Runner : Batch!Live(q))
  BY DEF Batch!Start, Batch!At, Batch!files
<1>2. /\ Only(r) /\ run'[r].left = Batch!Ideated
      /\ run'[r].step = IF Batch!Ideated = {} THEN "ended" ELSE "branch"
  <2> DEFINE new == [run[r] EXCEPT !.left = Batch!Ideated,
        !.step = IF Batch!Ideated = {} THEN "ended" ELSE "branch"]
  <2> HIDE DEF Batch!Ideated
  <2>1. run' = [run EXCEPT ![r] = new]
    BY ZenonT(30) DEF Batch!Start, RunnerType, Run
  <2>2. new.left = Batch!Ideated /\ new.step = IF Batch!Ideated = {} THEN "ended" ELSE "branch"
    BY DEF RunnerType, Run
  <2> HIDE DEF new
  <2> QED BY <2>1, <2>2 DEF RunnerType, Only
<1> HIDE DEF Batch!Ideated
<1>3. \A q \in Runner, i \in Batch!Item : run'[q].step = "off" => q \notin workers'[i]
  BY <1>1, <1>2 DEF OutcomeInv, Only
<1>4. ~overlap' => \A q \in Runner \ {r} : run'[q] = run[q] /\ ~Batch!Live(q) /\ ~Batch!Live(q)'
  BY <1>1, <1>2 DEF Only, Batch!Live
<1>5. ASSUME Calm' PROVE ~stolen' /\ Outcome' /\ (Batch!Live(r)' => Progress(r)')
  <2>1. Calm /\ ~stolen /\ Outcome
    BY <1>1, <1>5 DEF OutcomeInv, Calm
  <2>2. \A i \in Batch!Item : r \notin workers[i]
    BY <1>1 DEF OutcomeInv
  <2>6. \A i \in Batch!Item : i \in Batch!Ideated <=> tracking[i] = "ideated"
    <3>1. tracking # Batch!Torn
      BY <2>1 DEF WholeInv
    <3> QED BY <3>1 DEF Batch!Ideated
  <2>7. \A q \in Runner : run'[q].step = "ended" => run[q].step = "ended"
        \/ (q = r /\ Batch!Ideated = {})
    BY <1>2 DEF Only
  <2>8. \A i \in Batch!Item : workers[i] \subseteq Runner
    BY DEF RunnerType
  <2>9. Outcome'
    BY <1>1, <2>1, <2>2, <2>6, <2>7, <2>8 DEF Outcome
  <2>10. ASSUME Batch!Live(r)' PROVE Progress(r)'
    <3>1. run'[r].step = "branch" /\ Batch!Ideated # {}
      BY <1>2, <2>10 DEF Batch!Live
    <3>2. Batch!Current(r)' \in Batch!Ideated /\ Batch!Current(r)' \in Batch!Item
      BY <1>2, <3>1, CurrentIsLeft, LeastItem DEF Batch!Current, Batch!Ideated
    <3>3. "branch" \in Work /\ "branch" \notin Writing \cup Filled
            /\ Expected("branch") = {"ideated"}
      BY DEF Work, Writing, Filled, Expected
    <3>4. \A q \in Runner : run'[q].step # "ended"
      BY <1>2, <2>1, <2>6, <3>1, <3>2, <2>7 DEF Outcome
    <3> DEFINE c == Batch!Current(r)'
    <3>5. /\ \A i \in run'[r].left \ {c} : tracking'[i] = "ideated"
          /\ \A i \in Batch!Item : tracking'[i] = "ideated" => i \in run'[r].left
          /\ \A i \in Batch!Item \ run'[r].left : r \in workers'[i] => tracking'[i] \in Final
      BY <1>1, <1>2, <2>2, <2>6, <3>2 DEF Batch!Ideated
    <3>6. tracking'[c] \in Expected(run'[r].step)
      BY <1>1, <2>6, <3>1, <3>2, <3>3
    <3>7. run'[r].step \notin Writing /\ run'[r].step \notin Filled
          /\ run'[r].step \notin {"built", "ship", "shipped"}
      BY <3>1, <3>3
    <3> HIDE DEF c
    <3>8. Batch!Current(r)' = c
      BY DEF c
    <3> QED BY <3>4, <3>5, <3>6, <3>7, <3>8 DEF Progress
  <2> QED BY <1>1, <2>1, <2>9, <2>10
<1>6. Calm' => \A q \in Runner : Batch!Live(q)' => Progress(q)'
  BY <1>4, <1>5 DEF Calm
<1>7. ~overlap' => \A p, q \in Runner : Batch!Live(p)' /\ Batch!Live(q)' => p = q
  BY <1>4
<1> QED BY <1>3, <1>5, <1>6, <1>7 DEF OutcomeInv

\* Where a run that goes on alone has got.
LEMMA WhereItIs ==
  ASSUME RunnerType, OutcomeInv, Calm, NEW r \in Runner, run[r].step \in Work
  PROVE  /\ tracking[Batch!Current(r)] \in Expected(run[r].step)
         /\ run[r].step \in {"built", "ship", "shipped"} => Batch!Current(r) \in built
BY LiveIs DEF OutcomeInv, Progress

\* Every step of an item that begins a write begins the one that is due.
LEMMA ItemUpdateKeeps ==
  ASSUME RunnerType, RunnerType', OutcomeInv, NEW r \in Runner, ItemStep(r), ~Batch!Start(r),
        ~Batch!NextItem(r), ~BuildsOn(r)
  PROVE  OutcomeInv'
<1> USE DEF Batch!At, Batch!files, Batch!history
<1>1. Work \subseteq Step /\ "same" \notin Status
      /\ {"planning", "building", "shipping", "completed", "failed"} \subseteq Status
      /\ {"plan", "planned", "build", "attempt", "built", "ship", "shipped", "note",
            "next"} \subseteq Work \ {"branch"}
  BY DEF Work, Step, Status
<1>2. /\ Expected("plan") = {"planning"} /\ Expected("planned") = {"planning"}
      /\ Expected("build") = {"building"} /\ Expected("built") = {"building"}
      /\ Expected("attempt") = {"building"}
      /\ Expected("ship") = {"shipping"} /\ Expected("shipped") = {"shipping"}
      /\ Expected("note") = Final /\ Expected("next") = Final
  BY DEF Expected
<1>3. Calm /\ run[r].step \in Work =>
        /\ tracking[Batch!Current(r)] \in Expected(run[r].step)
        /\ run[r].step \in {"built", "ship", "shipped"} => Batch!Current(r) \in built
  BY WhereItIs
<1>4. "completed" \in Final /\ "failed" \in Final
  BY DEF Final
<1> DEFINE c == Batch!Current(r)
<1>5. ASSUME NEW to \in Status \cup {"same"}, NEW then \in Work \ {"branch"},
               Batch!Update(r, to, then),
             run[r].step \in Work, UNCHANGED <<tracking, overlap, givenUp, stolen, workers>>,
             built \subseteq built',
             Calm => IF to = "same" THEN tracking[c] \in Expected(then)
                     ELSE to \in Expected(then),
             Calm => (then \in {"built", "ship", "shipped"} \/ to = "completed" => c \in built')
      PROVE  OutcomeInv'
  BY <1>5, UpdateKeeps
<1>6. CASE Batch!Branch(r)
  <2>1. /\ run[r].step = "branch" /\ run[r].step \in Work
        /\ UNCHANGED <<tracking, overlap, givenUp, stolen, built>>
    BY <1>6 DEF Batch!Branch, Work
  <2>2. c \in Batch!Item
    BY <2>1, CurrentIsLeft
  <2>3. CASE /\ c \notin branches /\ branches' = branches \cup {c}
             /\ workers' = [workers EXCEPT ![c] = @ \cup {r}]
             /\ Batch!Update(r, "planning", "plan")
    <3>1. /\ \A i \in Batch!Item \ {c} : workers'[i] = workers[i]
          /\ workers'[c] = workers[c] \cup {r}
      BY <2>2, <2>3 DEF RunnerType
    <3>2. "planning" \in Status \cup {"same"} /\ "plan" \in Work \ {"branch"}
          /\ "planning" # "same" /\ "planning" \in Expected("plan")
      BY <1>1, <1>2
    <3>3. ~("plan" \in {"built", "ship", "shipped"} \/ "planning" = "completed")
      OBVIOUS
    <3> QED BY <2>1, <2>3, <3>1, <3>2, <3>3, UpdateKeeps
  <2>4. CASE Batch!Update(r, "failed", "next") /\ UNCHANGED <<branches, workers>>
    BY <1>1, <1>2, <1>4, <1>5, <2>1, <2>4
  <2> QED BY <1>6, <2>3, <2>4 DEF Batch!Branch
<1>7. CASE Batch!Phase(r, "plan", "planned")
  BY <1>1, <1>2, <1>3, <1>5, <1>7 DEF Batch!Phase
<1>8. CASE Batch!Phase(r, "ship", "shipped")
  BY <1>1, <1>2, <1>3, <1>5, <1>8 DEF Batch!Phase
<1>9. CASE Batch!SetStatus(r, "planned", "building", "build")
  BY <1>1, <1>2, <1>3, <1>5, <1>9 DEF Batch!SetStatus
<1>10. CASE Batch!SetStatus(r, "shipped", "completed", "note")
  BY <1>1, <1>2, <1>3, <1>4, <1>5, <1>10 DEF Batch!SetStatus
<1>11. CASE Batch!SetStatus(r, "note", "same", "next")
  BY <1>1, <1>2, <1>3, <1>5, <1>11 DEF Batch!SetStatus
<1>12. CASE Batch!RetryBuild(r) \/ Batch!Build(r)
  <2>1. run[r].step \in {"build", "attempt"}
        /\ UNCHANGED <<tracking, overlap, givenUp, stolen, workers>>
    BY <1>12 DEF Batch!RetryBuild, Batch!Build
  <2>2. CASE Batch!Update(r, "same", "built") /\ built' = built \cup {c}
    BY <1>1, <1>2, <1>3, <1>5, <2>1, <2>2
  <2>3. CASE Batch!Update(r, "failed", "note") /\ built' = built
    BY <1>1, <1>2, <1>4, <1>5, <2>1, <2>3
  <2>4. CASE Batch!Update(r, "same", "build") /\ built' = built
    BY <1>1, <1>2, <1>3, <1>5, <2>1, <2>4
  <2> QED BY <1>12, <2>2, <2>3, <2>4 DEF Batch!RetryBuild, Batch!Build, BuildsOn
<1>13. CASE Batch!ResolveConflicts(r)
  <2>1. run[r].step = "built" /\ UNCHANGED <<tracking, overlap, givenUp, stolen, workers, built>>
    BY <1>13 DEF Batch!ResolveConflicts
  <2>2. CASE Batch!Update(r, "shipping", "ship")
    BY <1>1, <1>2, <1>3, <1>5, <2>1, <2>2
  <2>3. CASE Batch!Update(r, "failed", "note") \/ Batch!Update(r, "failed", "next")
    BY <1>1, <1>2, <1>4, <1>5, <2>1, <2>3
  <2> QED BY <1>13, <2>2, <2>3 DEF Batch!ResolveConflicts
<1> QED BY <1>6, <1>7, <1>8, <1>9, <1>10, <1>11, <1>12, <1>13 DEF ItemStep

\* Another attempt to build changes nothing that the others see.
LEMMA RetryKeeps ==
  ASSUME RunnerType, OutcomeInv, NEW r \in Runner, BuildsOn(r),
         UNCHANGED <<tracking, workers, built, overlap, stolen, givenUp>>
  PROVE  OutcomeInv'
<1>1. ASSUME NEW q \in Runner
      PROVE  /\ \/ run'[q].step = run[q].step
                \/ run[q].step \in {"build", "attempt"} /\ run'[q].step \in {"build", "attempt"}
             /\ run'[q].left = run[q].left
                  /\ run'[q].copy = run[q].copy
             /\ run'[q].to = run[q].to /\ run'[q].then = run[q].then
  BY BuildsOnFacts DEF RunnerType, Only
<1>2. \A q \in Runner : Batch!Current(q)' = Batch!Current(q) /\ (Batch!Live(q)' <=> Batch!Live(q))
  BY <1>1 DEF Batch!Current, Batch!Live
<1>3. (Calm' <=> Calm) /\ Expected("build") = Expected("attempt")
  BY DEF Calm, Expected
<1>4. ASSUME NEW q \in Runner, Progress(q) PROVE Progress(q)'
  <2>1. /\ Expected(run'[q].step) = Expected(run[q].step) \/ run'[q].step \notin Work
        /\ run'[q].step \in Work => run[q].step \in Work
        /\ run'[q].step \in Writing => run[q].step = run'[q].step
        /\ run'[q].step \in Filled => run[q].step = run'[q].step
    BY <1>1, <1>3 DEF Work, Writing, Filled
  <2>2. \A p \in Runner : run'[p].step = "ended" => run[p].step = "ended" BY <1>1
  <2> QED BY <1>1, <1>2, <1>4, <2>1, <2>2 DEF Progress
<1>5. Outcome => Outcome'
  <2>1. \A i \in Batch!Item : workers[i] \subseteq Runner
    BY DEF RunnerType
  <2> QED BY <1>1, <2>1 DEF Outcome
<1> QED BY <1>1, <1>2, <1>3, <1>4, <1>5 DEF OutcomeInv

\* The run goes on with the next item, or ends.
LEMMA NextItemKeeps ==
  ASSUME RunnerType, RunnerType', OutcomeInv, NEW r \in Runner, Batch!NextItem(r)
  PROVE  OutcomeInv'
<1> DEFINE c == Batch!Current(r)
           left == run[r].left \ {c}
           new == [Batch!Unborn EXCEPT !.left = left,
                 !.step = IF left = {} THEN "ended" ELSE "branch"]
<1>1. /\ run[r].step = "next" /\ run' = [run EXCEPT ![r] = new]
      /\ UNCHANGED <<tracking, workers, built, overlap, stolen, givenUp>>
  BY DEF Batch!NextItem, Batch!At, Batch!files, Batch!history
<1>2. c \in run[r].left /\ c \in Batch!Item /\ Batch!Live(r)
  BY <1>1, CurrentIsLeft, LiveIs DEF Work
<1> HIDE DEF left, c
<1>3. new.left = left /\ new.step = IF left = {} THEN "ended" ELSE "branch"
  BY DEF Batch!Unborn
<1> HIDE DEF new
<1>4. Only(r) /\ run'[r].left = left /\ run'[r].step = IF left = {} THEN "ended" ELSE "branch"
  BY <1>1, <1>3 DEF RunnerType, Only
<1>5. ~overlap' => \A q \in Runner \ {r} : run'[q] = run[q] /\ ~Batch!Live(q) /\ ~Batch!Live(q)'
  BY <1>1, <1>2, <1>4, Alone
<1>6. ASSUME Calm' PROVE ~stolen' /\ Outcome' /\ (Batch!Live(r)' => Progress(r)')
  <2>1. Calm /\ ~stolen /\ Outcome /\ Progress(r)
    BY <1>1, <1>2, <1>6 DEF OutcomeInv, Calm
  <2>2. /\ \A i \in left : tracking[i] = "ideated"
        /\ \A i \in Batch!Item : tracking[i] = "ideated" => i \in run[r].left
        /\ \A i \in Batch!Item \ run[r].left : r \in workers[i] => tracking[i] \in Final
    BY <2>1 DEF Progress, left, c
  <2>3. tracking[c] \in Final
    BY <1>1, <2>1 DEF Progress, Expected, Work, c
  <2>4. left \subseteq Batch!Item /\ run[r].left = left \cup {c} /\ c \notin left
    BY <1>2 DEF RunnerType, Run, left
  <2>5. /\ \A i \in Batch!Item : tracking[i] = "ideated" => i \in left
        /\ \A i \in Batch!Item \ left : r \in workers[i] => tracking[i] \in Final
    BY <2>2, <2>3, <2>4 DEF Final
  <2>6. \A q \in Runner : run'[q].step = "ended" => run[q].step = "ended" \/ (q = r /\ left = {})
    BY <1>4 DEF Only
  <2>7. \A i \in Batch!Item : workers[i] \subseteq Runner
    BY DEF RunnerType
  <2>8. Outcome'
    BY <1>1, <2>1, <2>5, <2>6, <2>7 DEF Outcome
  <2>9. ASSUME Batch!Live(r)' PROVE Progress(r)'
    <3>1. run'[r].step = "branch" /\ left # {}
      BY <1>4, <2>9 DEF Batch!Live
    <3> DEFINE d == Batch!Current(r)'
    <3>2. d \in left /\ d \in Batch!Item
      BY <1>4, <2>4, <3>1, LeastItem DEF Batch!Current
    <3>3. "branch" \in Work /\ "branch" \notin Writing \cup Filled
            /\ Expected("branch") = {"ideated"}
      BY DEF Work, Writing, Filled, Expected
    <3>4. \A q \in Runner : run'[q].step # "ended"
      BY <2>1, <2>2, <2>4, <2>6, <3>1, <3>2 DEF Outcome
    <3>5. /\ \A i \in run'[r].left \ {d} : tracking'[i] = "ideated"
          /\ \A i \in Batch!Item : tracking'[i] = "ideated" => i \in run'[r].left
          /\ \A i \in Batch!Item \ run'[r].left : r \in workers'[i] => tracking'[i] \in Final
      BY <1>1, <1>4, <2>2, <2>5
    <3>6. tracking'[d] \in Expected(run'[r].step)
      BY <1>1, <2>2, <3>1, <3>2, <3>3
    <3>7. run'[r].step \notin Writing /\ run'[r].step \notin Filled
          /\ run'[r].step \notin {"built", "ship", "shipped"}
      BY <3>1, <3>3
    <3> HIDE DEF d
    <3>8. Batch!Current(r)' = d
      BY DEF d
    <3> QED BY <3>4, <3>5, <3>6, <3>7, <3>8 DEF Progress
  <2> QED BY <1>1, <2>1, <2>8, <2>9
<1>7. \A q \in Runner, i \in Batch!Item : run'[q].step = "off" => q \notin workers'[i]
  BY <1>1, <1>4 DEF OutcomeInv, Only
<1>8. ~overlap' => \A p, q \in Runner : Batch!Live(p)' /\ Batch!Live(q)' => p = q
  BY <1>5
<1>9. Calm' => \A q \in Runner : Batch!Live(q)' => Progress(q)'
  BY <1>5, <1>6 DEF Calm
<1> QED BY <1>6, <1>7, <1>8, <1>9 DEF OutcomeInv

\* A run that is killed leaves everything as it is.
LEMMA KillKeeps ==
  ASSUME RunnerType, RunnerType', OutcomeInv, NEW r \in Runner, Batch!Kill(r)
  PROVE  OutcomeInv'
<1>1. /\ Only(r) /\ run'[r].step = "dead" /\ Batch!Live(r)
      /\ UNCHANGED <<tracking, workers, built, overlap, stolen, givenUp>>
  BY KillMoves DEF Batch!files, Batch!history
<1>2. ~overlap' => \A q \in Runner \ {r} : run'[q] = run[q] /\ ~Batch!Live(q) /\ ~Batch!Live(q)'
  BY <1>1, Alone
<1>3. ~Batch!Live(r)'
  BY <1>1 DEF Batch!Live
<1>4. \A i \in Batch!Item : workers[i] \subseteq Runner
  BY DEF RunnerType
<1>5. \A q \in Runner : run'[q].step = "ended" => run[q].step = "ended"
  BY <1>1 DEF Only
<1>6. Outcome => Outcome'
  BY <1>1, <1>4, <1>5 DEF Outcome
<1>7. \A q \in Runner : run'[q].step = "off" => run[q].step = "off"
  BY <1>1 DEF Only
<1> QED BY <1>1, <1>2, <1>3, <1>6, <1>7 DEF OutcomeInv, Calm

\* A step of a write keeps the invariant, if it does for what it writes.
LEMMA WriteStays ==
  ASSUME RunnerType, RunnerType', OutcomeInv, NEW r \in Runner, Batch!WriteTracking(r),
         Calm' => Calm /\ ~stolen' /\ Outcome' /\ Progress(r)'
  PROVE  OutcomeInv'
<1>1. /\ run' \in [Runner -> Run] /\ Only(r) /\ run[r].step \in Writing
      /\ run'[r].step \in Writing \cup (Work \ {"branch"})
           /\ UNCHANGED <<workers, built, overlap>>
  BY WriteMoves
<1>2. Batch!Live(r)
  BY <1>1, LiveIs
<1>3. ~overlap' => \A q \in Runner \ {r} : run'[q] = run[q] /\ ~Batch!Live(q) /\ ~Batch!Live(q)'
  BY <1>1, <1>2, Alone
<1>4. \A q \in Runner : run'[q].step = "off" => run[q].step = "off"
  BY <1>1 DEF Only, Work, Writing, Filled
<1>5. Calm' => \A q \in Runner : Batch!Live(q)' => Progress(q)'
  BY <1>3 DEF Calm
<1> QED BY <1>1, <1>3, <1>4, <1>5 DEF OutcomeInv

\* Where a run that writes has got.
WriteOf(r, c, text, copy, step) ==
  /\ \A i \in run[r].left \ {c} : text[i] = "ideated"
  /\ \A i \in Batch!Item : text[i] = "ideated" => i \in run[r].left
  /\ \A i \in Batch!Item \ run[r].left : r \in workers[i] => text[i] \in Final
  /\ run[r].to = "same" \/ step = "release" => text[c] \in Expected(run[r].then)
  /\ run[r].to # "same" => run[r].to \in Expected(run[r].then)
  /\ run[r].then \in {"built", "ship", "shipped"} \/ run[r].to = "completed" => c \in built
  /\ step \in Filled => copy = IF run[r].to = "same" THEN text ELSE [text EXCEPT ![c] = run[r].to]

LEMMA WriteProgress ==
  ASSUME NEW r \in Runner, run'[r].left = run[r].left, run'[r].to = run[r].to,
         run'[r].then = run[r].then, run'[r].step \in Writing, UNCHANGED <<workers, built>>,
         WriteOf(r, Batch!Current(r), tracking', run'[r].copy, run'[r].step),
         \A q \in Runner : run'[q].step = "ended" => q \notin workers[Batch!Current(r)]
  PROVE  Progress(r)'
<1>1. Batch!Current(r)' = Batch!Current(r)
  BY DEF Batch!Current
<1>2. run'[r].step \notin Work /\ run'[r].step \notin {"built", "ship", "shipped"}
  BY DEF Work, Writing, Filled
<1> HIDE DEF Batch!Current
<1> QED BY <1>1, <1>2 DEF Progress, WriteOf

LEMMA WriteKeeps ==
  ASSUME RunnerType, RunnerType', WholeInv, OutcomeInv, NEW r \in Runner, Batch!WriteTracking(r)
  PROVE  OutcomeInv'
<1> DEFINE c == Batch!Current(r)
<1>1. /\ run' \in [Runner -> Run] /\ Only(r) /\ run[r].step \in Writing
      /\ run'[r].left = run[r].left /\ run'[r].to = run[r].to /\ run'[r].then = run[r].then
      /\ run'[r].step = run[r].then \/ run'[r].step \in Writing \ {"read"}
      /\ UNCHANGED <<workers, built, overlap>>
  BY WriteMoves
<1>2. /\ c \in run[r].left /\ c \in Batch!Item /\ Batch!Live(r)
           /\ run[r].then \in Work \ {"branch"}
      /\ run[r].to \in (Status \cup {"same"}) \ {"queued", "ideated"}
  BY <1>1, CurrentIsLeft, LiveIs DEF RunnerType
<1>3. \A q \in Runner : run'[q].step = "ended" <=> run[q].step = "ended"
  BY <1>1, <1>2 DEF Only, Work, Writing, Filled
<1>4. Calm => /\ ~stolen /\ Outcome /\ Progress(r)
              /\ WriteOf(r, c, tracking, run[r].copy, run[r].step)
              /\ \A q \in Runner : run'[q].step = "ended" => q \notin workers[c]
  <2>1. Calm => ~stolen /\ Outcome /\ Progress(r)
    BY <1>2 DEF OutcomeInv
  <2>2. Progress(r) => /\ WriteOf(r, c, tracking, run[r].copy, run[r].step)
                       /\ \A q \in Runner : run'[q].step = "ended" => q \notin workers[c]
    <3> HIDE DEF c
    <3>1. Batch!Current(r) = c
      BY DEF c
    <3> QED BY <1>1, <1>3, <3>1 DEF Progress, WriteOf
  <2> QED BY <2>1, <2>2
<1>5. ~overlap => \A q \in Runner \ {r} : ~Batch!Live(q)
  BY <1>1, <1>2, Alone
<1>6. \A i \in Batch!Item : workers[i] \subseteq Runner
  BY DEF RunnerType
<1>7. Outcome /\ tracking' = tracking => Outcome'
  BY <1>1, <1>3, <1>6 DEF Outcome
<1> HIDE DEF c
\* A step of a write to another: what is written is as it was.
<1>8. ASSUME UNCHANGED <<tracking, stolen, givenUp>>, run'[r].copy = run[r].copy,
             run[r].step \in Filled, run'[r].step \in Filled
      PROVE  OutcomeInv'
  <2>1. Calm' => WriteOf(r, c, tracking', run'[r].copy, run'[r].step)
    BY <1>1, <1>4, <1>8 DEF WriteOf, Filled, Calm
  <2> QED BY <1>1, <1>4, <1>7, <1>8, <2>1, WriteStays, WriteProgress DEF Writing, Calm, c
<1>9. ASSUME givenUp' PROVE OutcomeInv'
  BY <1>9, WriteStays DEF Calm
<1>10. ASSUME NEW s \in Step, Batch!Goto(r, s)
  PROVE run'[r].step = s /\ run'[r].copy = run[r].copy
  BY <1>10, GotoFacts DEF RunnerType
<1>11. Filled \cup {"release", run[r].then} \subseteq Step
  BY <1>2 DEF Step, Writing
<1> USE DEF Batch!At, Batch!files, Batch!history
<1>12. CASE Batch!Read(r)
  <2> DEFINE copy == IF tracking = Batch!Torn \/ run[r].to = "same" THEN tracking
                     ELSE [tracking EXCEPT ![c] = run[r].to]
  <2>1. run'[r].copy = copy /\ run'[r].step = "lock" /\ UNCHANGED <<tracking, stolen, givenUp>>
    BY <1>12 DEF Batch!Read, RunnerType, Run, c
  <2>2. ~stolen => tracking # Batch!Torn
    BY DEF WholeInv
  <2>3. Calm' => WriteOf(r, c, tracking', run'[r].copy, run'[r].step)
    BY <1>1, <1>4, <2>1, <2>2 DEF WriteOf, Calm
  <2>4. run'[r].step \in Writing
    BY <2>1 DEF Writing, Filled
  <2> QED BY <1>1, <1>4, <1>7, <2>1, <2>3, <2>4, WriteStays, WriteProgress DEF Calm, c
<1>13. CASE Batch!MakeLock(r)
  <2>1. /\ run[r].step = "lock" /\ UNCHANGED <<tracking, stolen, givenUp>>
        /\ Batch!Goto(r, "time") \/ Batch!Goto(r, "held")
    BY <1>13 DEF Batch!MakeLock
  <2> QED BY <1>8, <1>10, <1>11, <2>1 DEF Filled
<1>14. CASE Batch!RemoveStale(r)
  BY <1>8, <1>10, <1>11, <1>14 DEF Filled, Batch!RemoveStale
<1>15. CASE Batch!RemoveLock(r)
  <2>1. /\ run[r].step = "remove" /\ Batch!Goto(r, "again") /\ UNCHANGED <<tracking, givenUp>>
        /\ (stolen' <=> stolen \/ \E l \in lock : Batch!Live(l.by))
    BY <1>15 DEF Batch!RemoveLock
  <2>2. \A l \in lock : l.by \in Runner /\ (l.by = r => ~Batch!Live(l.by))
    BY <2>1 DEF WholeInv, RunnerType, Critical
  <2>3. ~overlap => stolen' = stolen
    BY <1>5, <2>1, <2>2 DEF RunnerType
  <2>4. run'[r].step = "again" /\ run'[r].copy = run[r].copy
    BY <1>10, <1>11, <2>1 DEF Filled
  <2>5. Calm' => WriteOf(r, c, tracking', run'[r].copy, run'[r].step)
    BY <1>1, <1>4, <2>1, <2>4 DEF WriteOf, Filled, Calm
  <2>6. run'[r].step \in Writing
    BY <2>4 DEF Writing, Filled
  <2> QED BY <1>1, <1>4, <1>7, <2>1, <2>3, <2>5, <2>6, WriteStays, WriteProgress DEF Calm, c
<1>16. CASE Batch!MakeAgain(r)
  BY <1>8, <1>10, <1>11, <1>16 DEF Filled, Batch!MakeAgain
<1>17. CASE Batch!GiveUp(r)
  BY <1>9, <1>17 DEF Batch!GiveUp
<1>18. CASE Batch!WriteTime(r)
  <2>1. /\ run[r].step = "time" /\ UNCHANGED <<tracking, stolen>>
        /\ givenUp' \/ (Batch!Goto(r, "truncate") /\ UNCHANGED givenUp)
    BY <1>18 DEF Batch!WriteTime
  <2> QED BY <1>8, <1>9, <1>10, <1>11, <2>1 DEF Filled
<1>19. CASE Batch!Truncate(r)
  BY <1>8, <1>10, <1>11, <1>19 DEF Filled, Batch!Truncate
<1>20. CASE Batch!Write(r)
  BY <1>8, <1>10, <1>11, <1>20 DEF Filled, Batch!Write
<1>21. CASE Batch!Move(r)
  <2>1. /\ run[r].step = "move" /\ Batch!Goto(r, "release") /\ UNCHANGED <<stolen, givenUp>>
        /\ tracking' = IF temp = {} THEN tracking ELSE CHOOSE t \in temp : TRUE
    BY <1>21 DEF Batch!Move
  <2>2. ~stolen => tracking' = run[r].copy /\ tracking # Batch!Torn
    <3>1. ~stolen => temp = {run[r].copy} /\ tracking # Batch!Torn
      BY <2>1 DEF WholeInv
    <3>2. temp = {run[r].copy} => tracking' = run[r].copy
      BY <2>1
    <3> QED BY <3>1, <3>2
  <2>3. run'[r].step = "release"
    BY <1>10, <1>11, <2>1
  <2>4. ASSUME Calm PROVE Outcome' /\ WriteOf(r, c, tracking', run'[r].copy, "release")
    <3>1. tracking \in [Batch!Item -> Status]
      BY <1>4, <2>2, <2>4 DEF RunnerType, Text
    <3>2. tracking' = IF run[r].to = "same" THEN tracking ELSE [tracking EXCEPT ![c] = run[r].to]
      BY <1>4, <2>1, <2>2, <2>4 DEF WriteOf, Filled
    <3>3. \A i \in Batch!Item \ {c} : tracking'[i] = tracking[i]
      BY <3>1, <3>2
    <3>4. tracking'[c] = IF run[r].to = "same" THEN tracking[c] ELSE run[r].to
      BY <1>2, <3>1, <3>2
    <3>5. run[r].left \subseteq Batch!Item
      BY DEF RunnerType, Run
    <3>6. WriteOf(r, c, tracking, run[r].copy, run[r].step)
      BY <1>4, <2>4
    <3>7. "release" \notin Filled
      BY DEF Filled
    <3>8. WriteOf(r, c, tracking', run'[r].copy, "release")
      BY <1>2, <3>3, <3>4, <3>5, <3>6, <3>7 DEF WriteOf
    <3>9. Outcome /\ \A q \in Runner : run'[q].step = "ended" => q \notin workers[c]
      BY <1>4, <2>4
    <3>10. tracking'[c] = "completed" => c \in built
      BY <1>2, <3>4, <3>6, <3>9 DEF WriteOf, Outcome
    <3>11. Outcome'
      BY <1>1, <1>2, <1>3, <1>6, <3>3, <3>4, <3>9, <3>10 DEF Outcome
    <3> QED BY <3>8, <3>11
  <2>5. run'[r].step \in Writing
    BY <2>3 DEF Writing
  <2> QED BY <1>1, <1>4, <2>1, <2>3, <2>4, <2>5, WriteStays, WriteProgress DEF Calm, c
<1>22. CASE Batch!Release(r)
  <2>1. /\ run[r].step = "release" /\ Batch!Goto(r, run[r].then)
             /\ UNCHANGED <<tracking, givenUp>>
        /\ (stolen' <=> stolen \/ \E l \in lock : l.by # r /\ Batch!Live(l.by))
    BY <1>22 DEF Batch!Release
  <2>2. \A l \in lock : l.by \in Runner
    BY DEF RunnerType
  <2>3. ~overlap => stolen' = stolen
    BY <1>5, <2>1, <2>2 DEF RunnerType
  <2>4. run'[r].step = run[r].then
    BY <1>10, <1>11, <2>1
  <2>5. Calm' => Progress(r)'
    <3>1. Batch!Current(r)' = c
      BY <1>1 DEF Batch!Current, c
    <3>2. run[r].then \notin Writing /\ run[r].then \notin Filled
      BY <1>2 DEF Work, Writing, Filled
    <3>3. Calm' => Calm
      BY <1>1, <2>1 DEF Calm
    <3> QED BY <1>1, <1>4, <2>1, <2>4, <3>1, <3>2, <3>3 DEF Progress, WriteOf
  <2> QED BY <1>1, <1>4, <1>7, <2>1, <2>3, <2>5, WriteStays DEF Calm
<1> QED
  BY <1>12, <1>13, <1>14, <1>15, <1>16, <1>17, <1>18, <1>19, <1>20, <1>21, <1>22
       DEF Batch!WriteTracking

-----------------------------------------------------------------------------
(* The theorem.                                                            *)

RunnerInv == RunnerType /\ WholeInv /\ BranchInv /\ OutcomeInv

LEMMA RunnerInit == Batch!Init => RunnerInv
<1> SUFFICES ASSUME Batch!Init PROVE RunnerInv
  OBVIOUS
<1>1. /\ tracking \in [Batch!Item -> {"queued", "ideated"}] /\ temp = {} /\ lock = {}
           /\ branches = {}
      /\ run = [r \in Runner |-> Batch!Unborn] /\ workers = [i \in Batch!Item |-> {}]
           /\ built = {}
      /\ overlap = FALSE /\ stolen = FALSE /\ givenUp = FALSE
  BY DEF Batch!Init
<1>2. Batch!Unborn \in Run /\ Batch!Unborn.step = "off"
  BY DEF Batch!Unborn, Run, Step, Text, Status
<1>3. \A r \in Runner : run[r] \in Run /\ run[r].step = "off"
  BY <1>1, <1>2
<1>4. tracking \in [Batch!Item -> Status]
  BY <1>1 DEF Status
<1>5. "off" \notin Work \cup Writing \cup Critical
  BY DEF Work, Writing, Filled, Critical
<1>6. run \in [Runner -> Run]
  BY <1>1, <1>2
<1>7. RunnerType
  BY <1>1, <1>3, <1>4, <1>5, <1>6 DEF RunnerType, Text
<1>8. WholeInv
  <2>1. tracking # Batch!Torn
    BY <1>4, TornIsNoText
  <2> QED BY <1>1, <1>3, <1>5, <2>1 DEF WholeInv, Writing, Filled
<1>9. BranchInv
  BY <1>1 DEF BranchInv
<1>10. OutcomeInv
  <2>1. Outcome
    BY <1>1, <1>3 DEF Outcome
  <2>2. \A r \in Runner : ~Batch!Live(r)
    BY <1>3 DEF Batch!Live
  <2> QED BY <1>1, <2>1, <2>2 DEF OutcomeInv
<1> QED BY <1>7, <1>8, <1>9, <1>10 DEF RunnerInv

LEMMA RunnerStep ==
  ASSUME RunnerInv, [Batch!Next]_batchVars
  PROVE  RunnerInv'
<1>1. RunnerType' /\ WholeInv' /\ BranchInv'
  BY RunnerTypeStep, WholeStep, BranchStep DEF RunnerInv
<1>2. CASE UNCHANGED batchVars
  <2>1. \A r \in Runner : Batch!Current(r)' = Batch!Current(r)
          /\ (Batch!Live(r)' <=> Batch!Live(r))
    BY <1>2 DEF batchVars, Batch!Current, Batch!Live
  <2>2. \A r \in Runner : Progress(r) => Progress(r)'
    BY <1>2, <2>1 DEF batchVars, Progress
  <2>3. (Calm' <=> Calm) /\ (Outcome => Outcome')
    BY <1>2 DEF batchVars, Calm, Outcome
  <2> QED BY <1>1, <1>2, <2>1, <2>2, <2>3 DEF RunnerInv, OutcomeInv, batchVars
<1>3. ASSUME NEW r \in Runner, ItemStep(r) PROVE OutcomeInv'
  <2>1. CASE Batch!Start(r)
    BY <1>1, <2>1, StartKeeps DEF RunnerInv
  <2>2. CASE Batch!NextItem(r)
    BY <1>1, <2>2, NextItemKeeps DEF RunnerInv
  <2>3. CASE ~Batch!Start(r) /\ ~Batch!NextItem(r) /\ ~BuildsOn(r)
    BY <1>1, <1>3, <2>3, ItemUpdateKeeps DEF RunnerInv
  <2>4. CASE ~Batch!Start(r) /\ ~Batch!NextItem(r) /\ BuildsOn(r)
    <3>1. run'[r].step \in {"build", "attempt"} /\ run[r].step \in {"build", "attempt"}
      BY <2>4, BuildsOnFacts DEF RunnerInv, RunnerType
    <3>2. \A to, then : ~Batch!Update(r, to, then)
      <4> SUFFICES ASSUME NEW to, NEW then, Batch!Update(r, to, then) PROVE FALSE
        OBVIOUS
      <4>1. run'[r].step = "read"
        BY DEF Batch!Update, RunnerInv, RunnerType, Run
      <4> QED BY <3>1, <4>1
    <3>3. Batch!RetryBuild(r) \/ Batch!Build(r)
      BY <1>3, <2>4, <3>2 DEF ItemStep, Batch!Branch, Batch!Phase, Batch!SetStatus,
           Batch!ResolveConflicts
    <3>4. UNCHANGED <<tracking, workers, built, overlap, stolen, givenUp>>
      BY <3>2, <3>3 DEF Batch!RetryBuild, Batch!Build, Batch!files, Batch!history
    <3> QED BY <2>4, <3>4, RetryKeeps DEF RunnerInv
  <2> QED BY <2>1, <2>2, <2>3, <2>4
<1>4. ASSUME NEW r \in Runner, Batch!WriteTracking(r) PROVE OutcomeInv'
  BY <1>1, <1>4, WriteKeeps DEF RunnerInv
<1>5. ASSUME NEW r \in Runner, Batch!Kill(r) PROVE OutcomeInv'
  BY <1>1, <1>5, KillKeeps DEF RunnerInv
<1> QED BY <1>1, <1>2, <1>3, <1>4, <1>5, NextIs DEF RunnerInv

LEMMA RunnerTells == RunnerInv => Batch!OneRunPerItem /\ Batch!FileWhole /\ Batch!OutcomeTold
<1>1. BranchInv => Batch!OneRunPerItem
  <2> SUFFICES ASSUME BranchInv, NEW i \in Batch!Item PROVE Batch!Cardinality(workers[i]) <= 1
    BY DEF Batch!OneRunPerItem
  <2>1. Cardinality(workers[i]) \in {0, 1}
    <3>1. CASE workers[i] = {}
      BY <3>1, FS_EmptySet
    <3>2. ASSUME NEW r \in Runner, workers[i] = {r} PROVE Cardinality(workers[i]) \in {0, 1}
      BY <3>2, FS_Singleton
    <3> QED BY <3>1, <3>2 DEF BranchInv
  <2> QED BY <2>1, BatchCardinality
<1>2. WholeInv => Batch!FileWhole
  BY DEF WholeInv, Batch!FileWhole
<1>3. OutcomeInv => Batch!OutcomeTold
  BY DEF OutcomeInv, Batch!OutcomeTold, Outcome, Calm, Final, Batch!At
<1> QED BY <1>1, <1>2, <1>3 DEF RunnerInv

\* scripts/queue-runner.sh: whatever the runs, their number, the items and the steps at
\* which a run is killed, an item is worked on by one run, tracking.json is whole, and it
\* tells what became of every item, as ItemsAreTracked says.
THEOREM ItemsTracked == SystemSpec => []ItemsAreTracked
<1>1. SystemInit => RunnerInv
  BY PartSteps, RunnerInit
<1>2. RunnerInv /\ [SystemNext]_allVars => RunnerInv'
  BY PartSteps, RunnerStep
<1>3. RunnerInv => ItemsAreTracked
  BY RunnerTells DEF ItemsAreTracked
<1> QED BY <1>1, <1>2, <1>3, PTL DEF SystemSpec
=============================================================================
