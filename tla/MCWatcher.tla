------------------------------- MODULE MCWatcher -------------------------------
(***************************************************************************)
(* The watcher and the daemon for TLC.  Their parts share no state that    *)
(* these specifications follow, so each behaviour is one of a single part: *)
(* `part` is chosen at the start, and the others keep an initial state.    *)
(* QueueFile is extended, the others are instantiated beside it.           *)
(***************************************************************************)
EXTENDS QueueFile, Naturals

LOCAL INSTANCE TLC

CONSTANTS
  Part,                                              \* the parts a run is about
  LastProcess,                                       \* "lifecycle"
  Pid, Timeout, Minute, Day, Interval, CheckTime, LastTick,           \* "services"
  Line, LoopThreshold, MaxBuffer, MaxHistory, StuckTimeout, MaxOutput, \* "monitors"
  File, Law, MaxRecent, MaxRecords, MaxEvents,       \* "laws"
  Entry, MaxLog, Delay, MaxTime, Check, Violation, Unactionable, MaxChecks, MaxStarts,
  MaxFaults,                                         \* "supervisor"
  Logged, MaxEntries, LogDelay, LogTime            \* "analysis"

\* The timeouts of the killer and the intervals of the scheduler are numbers.
ASSUME ServicesAssumption ==
  /\ \A t \in DOMAIN Timeout : Timeout[t] \in Nat
  /\ Minute \in Nat \ {0} /\ Day \in Nat \ {0}
  /\ Interval # {} /\ Interval \subseteq Nat \ {0} /\ CheckTime \in Nat

\* One line is no loop (the default threshold is 5), and something is remembered.
ASSUME MonitorsAssumption ==
  /\ LoopThreshold \in Nat /\ LoopThreshold > 1
  /\ MaxBuffer \in Nat \ {0} /\ MaxHistory \in Nat \ {0}

ASSUME LawsAssumption == MaxRecent \in Nat \ {0} /\ MaxRecords \in Nat \ {0}

\* Time is counted in seconds, and the entries that can be logged in numbers.
ASSUME SupervisorAssumption ==
  Delay \subseteq Nat /\ MaxLog \in Nat /\ MaxChecks \in Nat /\ "entry" \notin Check

VARIABLE part

\* Which of the files the disk has room for is taken makes no difference, and no
\* liveness is asked of the part that takes them.
Inodes == Permutations(Inode)

VARIABLES kind, pidFile, stage, port, webhooks, plist, foreign, overlap, stray
Life == INSTANCE ProcessLifecycle

VARIABLES service, clock, system, proc, listed, grace, signals, interval, timer, healthChecks, last,
          shown
Services == INSTANCE DaemonServices
  WITH MaxTime <- LastTick, now <- clock, checks <- healthChecks

VARIABLES logBuffer, quiet, stuckReported, testHistory, tasks, output, runs, stuckTasks
Rules == INSTANCE Monitors
  WITH MaxSteps <- MaxOutput, lines <- output

VARIABLES subject, branch, feature, progress, pending, recent, violations, disk, found, order,
          forgotten, counts, task, lines, steps
Laws == INSTANCE IronLaws
  WITH MaxSteps <- MaxEvents

VARIABLES log, broken, now, running, position, entries, processed, state, saved, job, todo,
          adding, queued, checks, faults, starts
Build == INSTANCE Supervisor

\* The log alone, as it is written over time, with other bounds.
Analysis == INSTANCE Supervisor
  WITH Entry <- Logged, MaxLog <- MaxEntries, Delay <- LogDelay, MaxTime <- LogTime

\* What the configurations give for the constants.
Timeouts == [vitest |-> 3, node |-> 5]
Lines == {[tool |-> {"Bash"}, hits |-> {}], [tool |-> {"Edit"}, hits |-> {}],
          [tool |-> {}, hits |-> {"test_failure", "exception"}]}
BuildEntry(event, phase, arg, good) ==
  [event |-> event, cmd |-> "build", phase |-> phase, arg |-> arg, good |-> good, agent |-> "-"]
BuildEntries == {BuildEntry("START", "-", "-", TRUE), BuildEntry("PHASE_START", "GREEN", "-", TRUE),
                 BuildEntry("FAILED", "-", "e", TRUE)}
AgentEntry(event) ==
  [event |-> event, cmd |-> "build", phase |-> "-", arg |-> "a", good |-> TRUE, agent |-> "-"]
AnalysisEntries == BuildEntries \cup
  {BuildEntry("PHASE_COMPLETE", "GREEN", "-", TRUE), BuildEntry("MILESTONE", "-", "m", TRUE),
   BuildEntry("COMPLETE", "-", "-", FALSE), AgentEntry("AGENT_SPAWN"), AgentEntry("AGENT_COMPLETE")}

lifecycleVars == <<kind, pidFile, stage, port, webhooks, plist, foreign, overlap, stray>>
servicesVars == <<service, clock, system, proc, listed, grace, signals, interval, timer,
                  healthChecks, last, shown>>
monitorsVars == <<logBuffer, quiet, stuckReported, testHistory, tasks, output, runs, stuckTasks>>
lawsVars == <<subject, branch, feature, progress, pending, recent, violations, disk, found, order,
              forgotten, counts, task, lines, steps>>
supervisorVars == <<log, broken, now, running, position, entries, processed, state, saved, job,
                    todo, adding, queued, checks, faults, starts>>
allVars == <<part, vars, lifecycleVars, servicesVars, monitorsVars, lawsVars, supervisorVars>>

\* The state that a part keeps in the behaviours of another one.
Idle ==
  /\ part # "lifecycle" => kind = "watcher" /\ ~webhooks
  /\ part # "services" => service = "killer" /\ system = "mac"
  /\ part # "laws" => subject = "monitor"

SystemInit ==
  /\ part \in Part
  /\ Init /\ Life!Init /\ Services!Init /\ Rules!Init /\ Laws!Init /\ Build!Init
  /\ Idle

SystemNext ==
  /\ \/ part = "file" /\ Next
     \/ part = "lifecycle" /\ Life!Next
     \/ part = "services" /\ Services!Next
     \/ part = "monitors" /\ Rules!Next
     \/ part = "laws" /\ Laws!Next
     \/ part = "supervisor" /\ Build!Next
     \/ /\ part = "analysis"
        /\ (\E e \in Logged : Analysis!LogEntry(e)) \/ \E d \in LogDelay : Analysis!Tick(d)
  /\ part = "file" \/ UNCHANGED vars
  /\ part = "lifecycle" \/ UNCHANGED lifecycleVars
  /\ part = "services" \/ UNCHANGED servicesVars
  /\ part = "monitors" \/ UNCHANGED monitorsVars
  /\ part = "laws" \/ UNCHANGED lawsVars
  /\ part \in {"supervisor", "analysis"} \/ UNCHANGED supervisorVars
  /\ UNCHANGED part

\* The supervisor's reader polls, and the queue answers it.
SystemSpec ==
  /\ SystemInit /\ [][SystemNext]_allVars
  /\ WF_position(Build!NextEntry) /\ \A j \in Build!Job : WF_supervisorVars(Build!AddTask(j))

--------------------------------------------------------------------------------
(* Properties.                                                                  *)

\* Process life cycle: where starts do not overlap and no refused watcher is
\* stopped, at most one process runs and the pid file names it.
RunnerIsListed == Life!RunnerIsListed

\* Of the processes listed only those that ran for longer than their timeout, or on
\* Linux since before midnight, are killed; health checks start an interval apart;
\* the issue shown is the first of the worst.
ServicesOnTime == Services!KillsOnlyHung /\ Services!ChecksInOrder /\ Services!WorstIsShown

\* Silence is reported once, a loop or a flaky test only where the lines and runs
\* still remembered show one.
ReportedIsRecent == Rules!StuckOnce /\ Rules!ReportedIsRecent

\* What the checks and the log leave pending, open or escalated follows what was done.
LawsAreFollowed == Laws!LawsAreFollowed

\* However handlers and checks interleave, one process queues the task of an issue
\* at most once, an issue is marked only with its task queued or on its way, and
\* between two entries workflow-state.json holds what the supervisor knows.
IssuesAreQueued == Build!QueuedOnce /\ Build!MarkedIsQueued /\ Build!SavedIsCurrent

\* Of a command that is complete, time turns only an open phase or agent into an issue.
FinishedIsQuiet == Analysis!FinishedIsQuiet

\* A failure logged while the supervisor runs gets its task.
FailureIsQueued == Build!FailureIsQueued

\* A workflow that falls silent is reported.
SilenceIsReported == Build!SilenceIsReported
================================================================================
