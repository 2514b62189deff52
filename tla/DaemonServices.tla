---------------------------- MODULE DaemonServices ----------------------------
(***************************************************************************)
(* The services of daemon/src a supervisor calls: ProcessMonitor lists     *)
(* processes with the start times `ps` shows, HungProcessKiller ends those *)
(* older than the timeout of their type, HealthCheckScheduler runs a check *)
(* at every interval, and the monitors of git, TDD, memory and CPU raise   *)
(* issues of which the daemon shows one.                                   *)
(*                                                                         *)
(* Time is counted in ticks; `ps` shows a clock time to the minute, which  *)
(* starts again every day, and for older processes only a date.            *)
(***************************************************************************)
EXTENDS Integers, Sequences

CONSTANTS
  Pid,
  Timeout,    \* getTimeoutConfig: from the types of processes to ticks
  Minute, Day, \* in ticks
  Interval,   \* the intervals of the health checks that a scheduler may be given
  CheckTime,  \* the longest a health check takes: the timeout given to exec
  MaxTime     \* bound on the clock

\* Minute > 0, and Day is a multiple of 2 * Minute.

VARIABLES
  service,  \* the one that works: they share nothing but the clock
  now,
  system,   \* "mac" shows a clock time for the last day, "linux" for today only
  proc,     \* the running processes: born and type, {} for a pid not in use
  listed,   \* what findProcesses returned, as parsed, with what the process really is
  grace,    \* processes sent SIGTERM a moment ago
  signals,  \* history: who was signalled by the last step, and because of which line
  interval, \* of this scheduler
  timer,    \* when the scheduler fires next, {} when it is stopped
  checks,   \* health checks that run, by their start
  last,     \* start of the check that gave the last result
  shown     \* the issues raised together and the one shown

processes == <<system, proc, listed, grace, signals>>
scheduler == <<interval, timer, checks, last>>
vars == <<service, now, processes, scheduler, shown>>

Type == DOMAIN Timeout
Severity == {"info", "warning", "error"}

Init ==
  /\ service \in {"killer", "scheduler", "monitors"}
  /\ now = 0 /\ system \in {"mac", "linux"}
  /\ proc = [p \in Pid |-> {}] /\ listed = {} /\ grace = {} /\ signals = {}
  /\ interval \in (IF service = "scheduler" THEN Interval ELSE {CHOOSE i \in Interval : TRUE})
  /\ timer = {} /\ checks = {} /\ last = -1
  /\ shown = [issues |-> <<>>, first |-> {}]

Midnight(t) == t - (t % Day)
ToMinute(t) == t - (t % Minute)

\* Mutant: AM and PM are not told apart.
ClockStartAM(born) ==
  LET clock == Midnight(now) + ToMinute(born % (Day \div 2))
  IN IF clock > now THEN clock - Day ELSE clock

\* parseStartTime of a clock time: today, or yesterday where that is in the future.
ClockStart(born) ==
  LET clock == Midnight(now) + ToMinute(born % Day)
  IN IF clock > now THEN clock - Day ELSE clock

ShowsClock(born) ==
  IF system = "mac" THEN now - born < Day ELSE Midnight(born) = Midnight(now)

\* parseProcessLine: a start shown as a date counts as a day ago.
StartTime(born) == IF ShowsClock(born) THEN ClockStart(born) ELSE now - Day

-----------------------------------------------------------------------------
(* Processes and the killer.                                               *)

Others == UNCHANGED <<now, system, scheduler, shown>>

Spawn(p, t) ==
  /\ proc[p] = {}
  /\ proc' = [proc EXCEPT ![p] = {[born |-> now, type |-> t]}]
  /\ signals' = {} /\ UNCHANGED <<listed, grace>> /\ Others

Exit(p) ==
  /\ proc[p] # {}
  /\ proc' = [proc EXCEPT ![p] = {}]
  /\ signals' = {} /\ UNCHANGED <<listed, grace>> /\ Others

\* findProcesses, with getProcessType, by a caller that awaits each of its kills.
FindProcesses ==
  /\ grace = {} /\ listed = {}
  /\ listed' = UNION {{[pid |-> p, start |-> StartTime(i.born), info |-> i, at |-> now] :
                          i \in proc[p]} : p \in Pid}
  /\ signals' = {}
  /\ UNCHANGED <<proc, grace>> /\ Others

\* shouldKillProcess.
IsHung(l) == now - l.start > Timeout[l.info.type]

\* What a signal to the process listed as l hits: whoever has its pid now.
Hits(l) == {[hit |-> i, line |-> l, age |-> now - l.info.born] : i \in proc[l.pid]}

\* killProcess sends SIGTERM, which the process may ignore or be gone to miss.
Terminate(l) ==
  /\ l \in listed /\ IsHung(l) /\ grace = {}
  /\ signals' = Hits(l)
  /\ \/ proc' = [proc EXCEPT ![l.pid] = {}]
     \/ UNCHANGED proc
  /\ listed' = listed \ {l}
  /\ grace' = IF proc[l.pid] = {} THEN grace ELSE grace \cup {l}
  /\ Others

Spare(l) ==
  /\ l \in listed /\ ~IsHung(l)
  /\ listed' = listed \ {l}
  /\ signals' = {} /\ UNCHANGED <<proc, grace>> /\ Others

\* A second later whoever has the pid is killed.
Escalate(l) ==
  /\ l \in grace
  /\ signals' = Hits(l)
  /\ proc' = [proc EXCEPT ![l.pid] = {}]
  /\ grace' = grace \ {l}
  /\ UNCHANGED listed /\ Others

-----------------------------------------------------------------------------
(* The scheduler.                                                          *)

SchedulerStart == timer = {} /\ timer' = {now + interval} /\ UNCHANGED <<checks, last>>
SchedulerStop == timer # {} /\ timer' = {} /\ UNCHANGED <<checks, last>>

\* Mutant: the timer fires again while a check is as long as the interval.
FireEarly ==
  /\ now \in timer
  /\ timer' = {now + 1}
  /\ checks' = checks \cup {now}
  /\ UNCHANGED last

\* setInterval fires, and runHealthCheck starts its command, whatever still runs.
Fire ==
  /\ now \in timer
  /\ timer' = {now + interval}
  /\ checks' = checks \cup {now}
  /\ UNCHANGED last

\* The command ends, or is ended by its timeout; stop does not end it.
CheckEnds(c) ==
  /\ c \in checks
  /\ checks' = checks \ {c} /\ last' = c
  /\ UNCHANGED timer

Scheduler ==
  /\ SchedulerStart \/ SchedulerStop \/ Fire \/ \E c \in checks : CheckEnds(c)
  /\ UNCHANGED <<now, processes, interval, shown>>

\* Time passes; a timer fires when it is due and exec ends a check in time.
Tick ==
  /\ now < MaxTime /\ now \notin timer /\ \A c \in checks : now - c < CheckTime
  /\ now' = now + 1 /\ signals' = {}
  /\ UNCHANGED <<system, proc, listed, grace, scheduler, shown>>

-----------------------------------------------------------------------------
(* The issues of the monitors.                                             *)

\* checkBranch, checkStaleTddPhase and the alerts of checkThresholds.
Issues(protected, stale, high) ==
  (IF protected THEN <<[type |-> "branch_violation", severity |-> "error"]>> ELSE <<>>)
    \o (IF stale THEN <<[type |-> "stale_tdd_phase", severity |-> "warning"]>> ELSE <<>>)
    \o (IF high THEN <<[type |-> "memory", severity |-> "warning"]>> ELSE <<>>)

Priority(i) == CASE i.severity = "error" -> 3 [] i.severity = "warning" -> 2 [] OTHER -> 1

\* prioritizeIssues: a later issue replaces an earlier one only if it is worse.
Prioritize(s) ==
  LET highest[i \in 1..Len(s)] ==
        IF i = 1 \/ Priority(s[i]) > Priority(highest[i-1]) THEN s[i] ELSE highest[i-1]
  IN IF s = <<>> THEN {} ELSE {highest[Len(s)]}

Raise ==
  /\ \E protected, stale, high \in BOOLEAN :
       \E s \in {Issues(protected, stale, high)} :
          \E given \in {s, [i \in 1..Len(s) |-> s[Len(s) + 1 - i]]} :
             shown' = [issues |-> given, first |-> Prioritize(given)]
  /\ UNCHANGED <<now, processes, scheduler>>

Killer ==
  \/ \E p \in Pid : Exit(p) \/ \E t \in Type : Spawn(p, t)
  \/ FindProcesses
  \/ \E l \in listed : Terminate(l) \/ Spare(l)
  \/ \E l \in grace : Escalate(l)

Next ==
  /\ \/ service = "killer" /\ (Killer \/ Tick)
     \/ service = "scheduler" /\ (Scheduler \/ Tick)
     \/ service = "monitors" /\ Raise
  /\ UNCHANGED service

Spec == Init /\ [][Next]_vars

-----------------------------------------------------------------------------
(* Properties.                                                             *)

\* A signal goes to a process that was there when the list was made only if it has
\* run for longer than its timeout, but for the part of a minute that `ps` does not
\* show; or, on Linux, if it was started before midnight.  Others can be hit only
\* because they have got the pid of one of these since.
KillsOnlyHung ==
  \A s \in signals :
     /\ \/ s.age + Minute > Timeout[s.line.info.type]
        \/ system = "linux" /\ Midnight(s.line.info.born) < Midnight(s.line.at)
     /\ s.hit # s.line.info => s.hit.born >= s.line.at

\* Over all stops and starts two health checks start an interval apart or more, which
\* bounds how many run at once; and where the interval is longer than a check, as it is
\* by default, none overlap and the last result is that of the check started last.
ChecksInOrder ==
  /\ \A c, d \in checks : c < d => c + interval <= d
  /\ interval > CheckTime => \A c, d \in checks : c = d /\ c > last

\* The issue shown is the first of the worst.
WorstIsShown ==
  \A i \in shown.first :
     \E n \in 1..Len(shown.issues) :
        /\ shown.issues[n] = i
        /\ \A m \in 1..Len(shown.issues) :
              Priority(shown.issues[m]) <= Priority(i)
                /\ (m < n => Priority(shown.issues[m]) < Priority(i))
=============================================================================
