------------------------------ MODULE Supervisor ------------------------------
(***************************************************************************)
(* The supervisor of watcher/src/supervisor/watcher-supervisor.ts: it tails *)
(* workflow.log (logger/log-reader.ts), analyzes all entries it has seen   *)
(* (module WorkflowAnalyzer) whenever one arrives, and turns each new issue *)
(* into a notification and a task.  The iron law monitor and the health    *)
(* checks run on timers and end in the same loop over issues.              *)
(*                                                                         *)
(* The reader calls the handler of every new entry of a poll one after the *)
(* other and awaits none: a handler runs up to its first addTask, and what *)
(* follows that await interleaves with the other handlers and checks.  A   *)
(* handler or check under way is a job; queueing a task is one step here   *)
(* (module TaskQueue has its parts).                                       *)
(***************************************************************************)
EXTENDS WorkflowAnalyzer

CONSTANTS
  Entry,      \* the entries that the commands log, without their time
  MaxLog,     \* bound on the entries
  Delay,      \* the amounts of time that pass, in seconds
  MaxTime,    \* bound on the time
  Check,      \* the timers: the iron law monitor, the health check
  Violation,  \* what a check may find
  Unactionable, \* those of them that come without an action, and so get no task
  MaxChecks,  \* bound on the runs of the checks
  MaxFaults,  \* bound on the tasks that cannot be queued
  MaxStarts   \* bound on the starts of the process

VARIABLES
  log,        \* workflow.log
  broken,     \* the logger's chain of writes is rejected
  now,        \* the time
  running,    \* running
  position,   \* lastReadPosition, in entries
  entries,    \* entries
  processed,  \* processedIssueSignatures and notifiedHealthcheckIssues
  state,      \* state: what getState returns and saveState writes
  saved,      \* the states in workflow-state.json: one, or none without the file
  job,        \* what each job does: off, check (it awaits the results) or add
  todo,       \* the issues a job still has to look at
  adding,     \* the issue a job is queueing a task for
  queued,     \* issues whose task was queued since the process began, with 1, and again, with 2
  checks, faults, starts

count == <<checks, faults, starts>>
vars == <<log, broken, now, running, position, entries, processed, state, saved, job, todo,
          adding, queued, count>>

\* Jobs are the handler of the n-th entry of the log, and the n-th of all checks.
EntryJob == {"entry"} \X (1..MaxLog)
CheckJob == Check \X (1..MaxChecks)
Job == EntryJob \cup CheckJob

NoIssue == Issue("none", 0, <<>>, 0)
Signature(i) == <<i.type, i.about, i.num>>
HasTask(i) == ResponseType(i) # "notify_only"

\* What updateState keeps of an analysis.
Summary(es) ==
  LET s == BuildState(es)
  IN [command |-> s.currentCommand, phase |-> s.currentPhase, last |-> s.lastActivity,
      chain |-> s.chain, milestones |-> s.milestones]

FreshState == Summary(<<>>)

\* updateState: a command, phase or time that the analysis lacks is left as it was,
\* the chain and the milestones are those of the analysis.
UpdateState(old, new) ==
  [new EXCEPT !.command = IF @ = None THEN old.command ELSE @,
              !.phase = IF @ = None THEN old.phase ELSE @]

Quiet == \A j \in Job : job[j] = "off"

\* A process begins: no entry seen, no issue processed, no job under way.
NewProcess ==
  /\ entries' = <<>> /\ processed' = {} /\ queued' = {} /\ state' = FreshState
  /\ job' = [j \in Job |-> "off"]
  /\ todo' = [j \in Job |-> {}]
  /\ adding' = [j \in Job |-> NoIssue]

Init ==
  /\ log = <<>> /\ broken = FALSE /\ now = 0 /\ running = FALSE /\ position = 0 /\ entries = <<>>
  /\ processed = {} /\ state = FreshState /\ saved = {}
  /\ job = [j \in Job |-> "off"]
  /\ todo = [j \in Job |-> {}]
  /\ adding = [j \in Job |-> NoIssue]
  /\ queued = {}
  /\ checks = 0 /\ faults = 0 /\ starts = 0

-----------------------------------------------------------------------------
(* The world.                                                              *)

\* Time passes.
Tick(d) ==
  /\ now + d <= MaxTime
  /\ now' = now + d
  /\ UNCHANGED <<log, broken, running, position, entries, processed, state, saved, job, todo, adding,
                 queued, count>>

\* A command logs an entry and its summary: one append, if those before succeeded.
LogEntry(e) ==
  /\ Len(log) < MaxLog /\ ~broken
  /\ \/ /\ log' = Append(log, [event |-> e.event, cmd |-> e.cmd, phase |-> e.phase,
                                arg |-> e.arg, good |-> e.good, agent |-> e.agent, ts |-> now])
        /\ UNCHANGED <<broken, faults>>
     \/ /\ faults < MaxFaults
        /\ broken' = TRUE /\ faults' = faults + 1
        /\ UNCHANGED log
  /\ UNCHANGED <<now, running, position, entries, processed, state, saved, job, todo, adding,
                 queued, checks, starts>>

-----------------------------------------------------------------------------
(* Start and stop.                                                         *)

\* A saved state is taken as it is, and the log is not read; without one it is
\* rebuilt from the log.  Only entries written from now on are handled.
Start ==
  /\ ~running /\ starts < MaxStarts
  /\ running' = TRUE /\ position' = Len(log)
  /\ starts' = starts + 1
  /\ IF saved # {} THEN state' \in saved /\ UNCHANGED entries
     ELSE IF log # <<>> THEN entries' = log /\ state' = UpdateState(state, Summary(log))
     ELSE UNCHANGED <<state, entries>>
  /\ UNCHANGED <<log, broken, now, processed, saved, job, todo, adding, queued, checks, faults>>

\* The timers and the reader stop, the state is saved; jobs under way go on.
Stop ==
  /\ running /\ running' = FALSE
  /\ saved' = {state}
  /\ UNCHANGED <<log, broken, now, position, entries, processed, state, job, todo, adding, queued,
                 count>>

\* The process ends; a later start is one of a new process.
Exit ==
  /\ starts < MaxStarts /\ starts > 0
  /\ running' = FALSE /\ NewProcess
  /\ UNCHANGED <<log, broken, now, position, saved, count>>

-----------------------------------------------------------------------------
(* The loop over the issues, up to the next task or to its end.            *)

Fresh(T) == {i \in T : Signature(i) \notin processed}
First(T) == CHOOSE i \in T : \A k \in T : Rank(i.type) <= Rank(k.type)

\* Mutant: an issue is marked once its task is queued.
MarksAfter(j, T) ==
  LET W == {i \in Fresh(T) : HasTask(i)}
  IN IF W = {}
     THEN /\ processed' = processed \cup {Signature(i) : i \in Fresh(T)}
          /\ job' = [job EXCEPT ![j] = "off"]
          /\ todo' = [todo EXCEPT ![j] = {}]
          /\ adding' = [adding EXCEPT ![j] = NoIssue]
     ELSE LET i == First(W)
          IN /\ processed' = IF adding[j] = NoIssue THEN processed
                             ELSE processed \cup {Signature(adding[j])}
             /\ job' = [job EXCEPT ![j] = "add"]
             /\ adding' = [adding EXCEPT ![j] = i]
             /\ todo' = [todo EXCEPT ![j] = Fresh(T) \ {i}]

\* Mutant: all issues are marked before the loop.
MarksAll(j, T) ==
  LET W == {i \in Fresh(T) : HasTask(i)}
  IN /\ processed' = processed \cup {Signature(i) : i \in T}
     /\ job' = [job EXCEPT ![j] = IF W = {} THEN "off" ELSE "add"]
     /\ adding' = [adding EXCEPT ![j] = IF W = {} THEN NoIssue ELSE First(W)]
     /\ todo' = [todo EXCEPT ![j] = IF W = {} THEN {} ELSE Fresh(T) \ {First(W)}]

\* Mutant: the loop ends with the first task.
StopsAtFirst(j, T) ==
  LET W == {i \in Fresh(T) : HasTask(i)}
  IN /\ processed' = processed \cup {Signature(i) : i \in IF W = {} THEN {} ELSE {First(W)}}
     /\ job' = [job EXCEPT ![j] = IF W = {} THEN "off" ELSE "add"]
     /\ adding' = [adding EXCEPT ![j] = IF W = {} THEN NoIssue ELSE First(W)]
     /\ todo' = [todo EXCEPT ![j] = {}]

\* An issue is marked, then notified, then queued if it has a task.
Loop(j, T) ==
  LET W == {i \in Fresh(T) : HasTask(i)}
  IN IF W = {}
     THEN /\ processed' = processed \cup {Signature(i) : i \in Fresh(T)}
          /\ job' = [job EXCEPT ![j] = "off"]
          /\ todo' = [todo EXCEPT ![j] = {}]
          /\ adding' = [adding EXCEPT ![j] = NoIssue]
     ELSE LET i == First(W)
              told == {k \in Fresh(T) \ W : Rank(k.type) < Rank(i.type)}
          IN /\ processed' = processed \cup {Signature(k) : k \in told \cup {i}}
             /\ job' = [job EXCEPT ![j] = "add"]
             /\ adding' = [adding EXCEPT ![j] = i]
             /\ todo' = [todo EXCEPT ![j] = Fresh(T) \ (told \cup {i})]

\* Mutant: the state is saved with a task only.
SavesAfterTask(j) ==
  saved' = IF j[1] = "entry" /\ job[j] = "add" /\ job'[j] = "off" THEN {state'} ELSE saved

\* The handler of an entry saves the state after its loop.
SavesAfterLoop(j) ==
  saved' = IF j[1] = "entry" /\ job'[j] = "off" THEN {state'} ELSE saved

\* checkForNewEntries: the reader steps on to an entry it has not read.
NextEntry ==
  /\ running /\ position < Len(log)
  /\ position' = position + 1

\* One entry of a poll: all entries are analyzed, up to the first task.  (A poll
\* that finds several handles them in one go, as polls in close succession do.)
HandleEntry ==
  /\ NextEntry
  /\ LET j == <<"entry", position + 1>>
         es == Append(entries, log[position + 1])
     IN /\ entries' = es
        /\ \E new \in {Summary(es)} : state' = UpdateState(state, new)
        /\ \E issues \in {Analyze(es, now)} : Loop(j, issues)
        /\ SavesAfterLoop(j)
  /\ UNCHANGED <<log, broken, now, running, queued, count>>

\* A timer fires and its check begins, whatever earlier ones do.
CheckStarts(c) ==
  /\ running /\ checks < MaxChecks /\ c[2] = checks + 1
  /\ job' = [job EXCEPT ![c] = "check"]
  /\ checks' = checks + 1
  /\ UNCHANGED <<log, broken, now, running, position, entries, processed, state, saved, todo, adding,
                 queued, faults, starts>>

\* The check ends with what it found, also after a stop.
CheckEnds(c) ==
  /\ job[c] = "check"
  /\ \E V \in SUBSET Violation :
       Loop(c, {Issue(c[1], IF v \in Unactionable THEN 0 ELSE 95, <<v>>, 0) : v \in V})
  /\ UNCHANGED <<log, broken, now, running, position, entries, state, saved, queued, count>>

\* The task is in the queue; the job goes on with the issues that are left.
AddTask(j) ==
  /\ job[j] = "add"
  /\ queued' = queued \cup {<<Signature(adding[j]),
                              IF \E q \in queued : q[1] = Signature(adding[j]) THEN 2 ELSE 1>>}
  /\ Loop(j, todo[j])
  /\ UNCHANGED <<log, broken, now, running, position, entries, state, count>>
  /\ SavesAfterLoop(j)

\* The task cannot be queued.  A check gives up; a handler's promise is rejected
\* with nobody to catch it, which ends the process.
AddTaskFails(j) ==
  /\ job[j] = "add" /\ faults < MaxFaults
  /\ faults' = faults + 1
  /\ IF j \in CheckJob
     THEN /\ job' = [job EXCEPT ![j] = "off"]
          /\ todo' = [todo EXCEPT ![j] = {}]
          /\ adding' = [adding EXCEPT ![j] = NoIssue]
          /\ UNCHANGED <<running, entries, processed, queued, state>>
     ELSE running' = FALSE /\ NewProcess
  /\ UNCHANGED <<log, broken, now, position, saved, checks, starts>>

Next ==
  \/ \E d \in Delay : Tick(d)
  \/ \E e \in Entry : LogEntry(e)
  \/ Start \/ Stop \/ Exit
  \/ HandleEntry
  \/ \E c \in CheckJob : CheckStarts(c) \/ CheckEnds(c)
  \/ \E j \in Job : AddTask(j) \/ AddTaskFails(j)

Spec == Init /\ [][Next]_vars
\* The reader polls, which is to say that HandleEntry is weakly fair, and the queue
\* answers.
Fairness == WF_position(NextEntry) /\ \A j \in Job : WF_vars(AddTask(j))
FairSpec == Spec /\ Fairness

-----------------------------------------------------------------------------
(* Properties.                                                             *)

\* However handlers and checks interleave, one process queues the task of an issue
\* at most once.
QueuedOnce == \A q \in queued : q[2] = 1

\* An issue of the log that is marked as processed, and so never looked at again,
\* has its task in the queue or on its way there, unless it has none.
MarkedIsQueued ==
  \A s \in processed :
    \/ s[1] \in {"chain_broken", "declining_velocity"}
    \/ s[1] \in Check /\ \E v \in Unactionable : s[2] = <<v>>
    \/ <<s, 1>> \in queued
    \/ \E j \in Job : Signature(adding[j]) = s
    \/ s[1] \in Check /\ faults > 0

\* When no entry is being handled, workflow-state.json holds what the supervisor
\* knows: nothing an interrupted or overtaken handler left behind.
SavedIsCurrent ==
  running /\ saved # {} /\ (\A j \in EntryJob : job[j] = "off") => saved = {state}

\* Once a command is complete, time turns nothing of it into an issue but what was
\* left open: a phase that was not completed, an agent that has not answered.
FinishedIsQuiet ==
  LET s == BuildState(log)
      openAgent == \E i \in At(log, "AGENT_SPAWN") : ~AgentCompleted(log, i)
  IN s.commandComplete =>
       \A d \in Delay : \A i \in Analyze(log, now + d) \ Analyze(log, now) :
          \/ i.type = "phase_stuck" /\ s.currentPhase # None /\ ~s.phaseComplete
          \/ i.type \in {"agent_silence", "abandoned_agent"} /\ openAgent

\* A failure that is logged while the supervisor runs gets its task, whatever
\* issues come before it, unless the supervisor is stopped.
FailureIsQueued ==
  (running /\ \E i \in position + 1..Len(log) : log[i].event = "FAILED")
    ~> (~running \/ \E q \in queued : q[1][1] = "explicit_failure")

\* A workflow that falls silent is reported.
SilenceIsReported ==
  (running /\ now - BuildState(entries).lastActivity > SILENCE_WARNING /\ entries # <<>>
     /\ ~BuildState(entries).commandComplete)
    ~> (~running \/ position < Len(log) \/ \E s \in processed : s[1] = "silence")
=============================================================================
