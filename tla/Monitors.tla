------------------------------- MODULE Monitors -------------------------------
(***************************************************************************)
(* The monitors a running watcher owns (watcher/src/monitors, detectors):  *)
(* lines of an agent's output, results of tests and of git are turned into *)
(* calls of addTask, which TaskQueue models.  A line of output is the set  *)
(* of the anomalies its text matches, and the tool it says was called.     *)
(***************************************************************************)
EXTENDS Naturals, Sequences, FiniteSets, SequencesExt

CONSTANTS
  Line,           \* lines of output: records of `tool` and `hits`
  LoopThreshold,  \* loop_detection_threshold
  MaxBuffer,      \* maxBufferSize of the log monitor
  MaxHistory,     \* maxHistoryPerTest of the test monitor
  StuckTimeout,
  MaxSteps        \* bound on the lines and test runs

VARIABLES
  logBuffer, quiet, stuckReported,  \* of the log monitor; quiet is the time without a line
  testHistory,    \* of one test: TRUE for a run that passed
  tasks,          \* the last call of addTask, if the last operation made one
  lines, runs,    \* history: every line and every run since the last reset
  stuckTasks      \* history: stuck tasks since the last line

logs == <<logBuffer, quiet, stuckReported, lines, stuckTasks>>
tests == <<testHistory, runs>>
vars == <<logs, tests, tasks>>

Init ==
  /\ logBuffer = <<>> /\ quiet = 0 /\ stuckReported = FALSE
  /\ testHistory = <<>> /\ tasks = {}
  /\ lines = <<>> /\ runs = <<>> /\ stuckTasks = 0

Task(anomaly, priority, agent) == [anomaly |-> anomaly, priority |-> priority, agent |-> agent]
Newest(s, n) == SubSeq(s, IF Len(s) > n THEN Len(s) - n + 1 ELSE 1, Len(s))

-----------------------------------------------------------------------------
(* RuleEngine.                                                             *)

\* RULES: the anomalies in the order their patterns are tried, with their tasks.
Rules ==
  <<Task("test_failure", "high", "debugger"), Task("agent_stuck", "high", "debugger"),
    Task("ci_failure", "high", "deployment-engineer"),
    Task("pr_check_failed", "high", "deployment-engineer"),
    Task("push_failed", "high", "deployment-engineer"), Task("exception", "medium", "debugger")>>

Calls(text, tool) == Cardinality({i \in 1..Len(text) : text[i].tool = {tool}})

\* Mutant: every call counts, whichever the tool.
LoopsOnAny(text) == Cardinality({i \in 1..Len(text) : text[i].tool # {}}) >= LoopThreshold

\* detectLoop: some tool is called often enough.
DetectLoop(text) == \E i \in 1..Len(text) : \E t \in text[i].tool : Calls(text, t) >= LoopThreshold

\* analyze: a loop first, then the first rule that matches anywhere in the text.
Analyze(text) ==
  LET hits == UNION {text[i].hits : i \in 1..Len(text)}
      matching == {r \in 1..Len(Rules) : Rules[r].anomaly \in hits}
  IN IF DetectLoop(text) THEN {Task("agent_loop", "high", "debugger")}
     ELSE {Rules[r] : r \in {m \in matching : \A n \in matching : m <= n}}

-----------------------------------------------------------------------------
(* LogMonitor.                                                             *)

\* processLine: blank lines never get here.
ProcessLine(l) ==
  /\ Len(lines) + Len(runs) < MaxSteps
  /\ quiet' = 0 /\ stuckReported' = FALSE /\ stuckTasks' = 0
  /\ logBuffer' = Newest(Append(logBuffer, l), MaxBuffer)
  /\ lines' = Append(lines, l)
  /\ tasks' = Analyze(<<l>>)
  /\ UNCHANGED tests

\* Mutant: the silence is reported at every check.
CheckStuckAgain ==
  /\ quiet >= StuckTimeout /\ stuckTasks < MaxSteps
  /\ tasks' = {Task("agent_stuck", "high", "debugger")} /\ stuckTasks' = stuckTasks + 1
  /\ UNCHANGED <<logBuffer, quiet, stuckReported, lines, tests>>

\* checkAndReportStuck.
CheckAndReportStuck ==
  /\ ~stuckReported /\ quiet >= StuckTimeout
  /\ stuckReported' = TRUE
  /\ tasks' = {Task("agent_stuck", "high", "debugger")} /\ stuckTasks' = stuckTasks + 1
  /\ UNCHANGED <<logBuffer, quiet, lines, tests>>

AnalyzeAggregated ==
  /\ logBuffer # <<>>
  /\ tasks' = Analyze(logBuffer)
  /\ UNCHANGED <<logs, tests>>

ResetLog ==
  /\ logBuffer' = <<>> /\ quiet' = 0 /\ stuckReported' = FALSE
  /\ lines' = <<>> /\ stuckTasks' = 0 /\ tasks' = {}
  /\ UNCHANGED tests

Wait ==
  /\ quiet < StuckTimeout + 1
  /\ quiet' = quiet + 1 /\ tasks' = {}
  /\ UNCHANGED <<logBuffer, stuckReported, lines, stuckTasks, tests>>

-----------------------------------------------------------------------------
(* TestMonitor.                                                            *)

\* analyzeTestOutput: what it makes of FAIL lines, of marked tests, and of the
\* counts of the summary, which are sets of at most one number.
HasFailures(failLine, crosses, failed, passed) ==
  LET seen == failLine \/ crosses > 0 \/ \E n \in failed : n > 0
  IN seen /\ ~(failed = {} /\ \E n \in passed : n > 0)

FailedTests(crosses, failed, passed) ==
  IF failed = {} /\ \E n \in passed : n > 0 THEN 0 ELSE crosses

\* reportFailure: no task without the name of a failed test.
ReportFailure ==
  /\ tasks' \in {IF HasFailures(failLine, crosses, failed, passed)
                      /\ FailedTests(crosses, failed, passed) > 0
                  THEN {Task("test_failure", "high", "debugger")} ELSE {} :
                    failLine \in BOOLEAN, crosses \in 0..1, failed, passed \in {{}, {0}, {1}}}
  /\ UNCHANGED <<logs, tests>>

\* Mutant: the oldest run stays.
RecordTestRunKeeps(passed) ==
  /\ Len(lines) + Len(runs) < MaxSteps
  /\ testHistory' = Append(testHistory, passed)
  /\ runs' = Append(runs, passed) /\ tasks' = {}
  /\ UNCHANGED logs

\* recordTestRun.
RecordTestRun(passed) ==
  /\ Len(lines) + Len(runs) < MaxSteps
  /\ testHistory' = Newest(Append(testHistory, passed), MaxHistory)
  /\ runs' = Append(runs, passed) /\ tasks' = {}
  /\ UNCHANGED logs

\* isTestFlaky.
IsTestFlaky == Len(testHistory) >= 3 /\ TRUE \in ToSet(testHistory) /\ FALSE \in ToSet(testHistory)

ReportFlakyTests ==
  /\ tasks' = IF IsTestFlaky THEN {Task("test_flaky", "medium", "debugger")} ELSE {}
  /\ UNCHANGED <<logs, tests>>

\* checkCoverage and reportCoverageDrop; no baseline counts as 0.
ReportCoverage ==
  /\ tasks' \in {IF current < baseline THEN {Task("coverage_drop", "medium", "test-engineer")} ELSE {} :
                    baseline, current \in 0..1}
  /\ UNCHANGED <<logs, tests>>

ResetTests == testHistory' = <<>> /\ runs' = <<>> /\ tasks' = {} /\ UNCHANGED logs

-----------------------------------------------------------------------------
(* GitMonitor and LLMAnalyzer.                                             *)

\* parseGHStatus and analyzeCIStatus, analyzePRCheck.
ReportStatus ==
  /\ tasks' \in {IF status = "failure" THEN {Task(check, "high", "deployment-engineer")} ELSE {} :
                    status \in {"success", "failure", "pending", "unknown"},
                    check \in {"ci_failure", "pr_check_failed"}}
  /\ UNCHANGED <<logs, tests>>

\* analyzePushOutput: the words of the output, in the order they are looked for.
PushFailure(words) ==
  CASE "->" \in words /\ words \cap {"error", "failed"} = {} -> {}
    [] "rejected" \in words -> {"rejected"}
    [] "Permission denied" \in words -> {"permission"}
    [] "Could not resolve host" \in words -> {"network"}
    [] words \cap {"error", "fatal"} # {} -> {"unknown"}
    [] OTHER -> {}

ReportPushFailure ==
  /\ tasks' \in {{Task("push_failed", "high", "deployment-engineer") : f \in PushFailure(words)} :
                    words \in SUBSET {"->", "failed", "rejected", "Permission denied", "fatal"}}
  /\ UNCHANGED <<logs, tests>>

\* analyzeLLM: an answer counts when it is complete and confident enough.
AnalyzeLLM(text) ==
  tasks' \in {IF Analyze(text) # {} THEN Analyze(text)
              ELSE IF detected /\ complete /\ confident THEN {Task("unusual_pattern", "low", "debugger")}
              ELSE {} : detected, complete, confident \in BOOLEAN}

AnalyzeAndReport == (\E l \in Line : AnalyzeLLM(<<l>>)) /\ UNCHANGED <<logs, tests>>

Next ==
  \/ \E l \in Line : ProcessLine(l)
  \/ CheckAndReportStuck \/ AnalyzeAggregated \/ ResetLog \/ Wait
  \/ ReportFailure \/ (\E passed \in BOOLEAN : RecordTestRun(passed)) \/ ReportFlakyTests
  \/ ReportCoverage \/ ResetTests \/ ReportStatus \/ ReportPushFailure \/ AnalyzeAndReport

Spec == Init /\ [][Next]_vars

-----------------------------------------------------------------------------
(* Properties.                                                             *)

\* A stretch of silence is reported once.
StuckOnce == stuckTasks <= 1

\* A loop is reported only when one tool was called that often in the last lines,
\* and a flaky test only when both results are among the last runs.
ReportedIsRecent ==
  \A t \in tasks :
     /\ t.anomaly = "agent_loop" => \E l \in Line : \E tool \in l.tool :
          Cardinality({i \in 1..Len(lines) : i + MaxBuffer > Len(lines) /\ lines[i].tool = {tool}})
             >= LoopThreshold
     /\ t.anomaly = "test_flaky" => \E i, j \in 1..Len(runs) :
          i + MaxHistory > Len(runs) /\ j + MaxHistory > Len(runs) /\ runs[i] /\ ~runs[j]
=============================================================================
