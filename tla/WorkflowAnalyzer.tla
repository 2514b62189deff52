--------------------------- MODULE WorkflowAnalyzer ---------------------------
(***************************************************************************)
(* What the supervisor reads out of the workflow log: the detectors of     *)
(* watcher/src/analyzer/workflow-analyzer.ts and the interventions of      *)
(* watcher/src/intervention/generator.ts, as functions of the entries and  *)
(* the time.                                                               *)
(*                                                                         *)
(* An entry is a record [event, cmd, phase, arg, good, agent, ts].  arg is *)
(* what the event is about (the data of a milestone, the id of an agent,   *)
(* the error, the violated law); good is FALSE for an agent that failed    *)
(* and for a command without outputs; times are seconds.  An issue is a    *)
(* record [type, conf, about, num]: conf is the confidence in percent,    *)
(* about and num are the names and the number its message is made of.      *)
(***************************************************************************)
EXTENDS Integers, Sequences, FiniteSets

None == "-"

SILENCE_WARNING == 90
PHASE_STUCK     == 240
ABRUPT_STOP     == 150
AGENT_SILENCE   == 50
AGENT_ABANDONED == 90

PHASE_ORDER   == <<"RED", "GREEN", "REFACTOR">>
COMMAND_CHAIN == {"ideate", "plan", "build", "ship"}

\* The commands one of which must be complete before cmd starts.
CHAIN_PREREQUISITES(cmd) ==
  CASE cmd = "build" -> {"plan", "ideate"} [] cmd = "ship" -> {"build"} [] OTHER -> {}

Issue(type, conf, about, num) == [type |-> type, conf |-> conf, about |-> about, num |-> num]

Least(a, b) == IF a <= b THEN a ELSE b
MaxOf(S) == IF S = {} THEN 0 ELSE CHOOSE i \in S : \A j \in S : j <= i

\* Math.round(elapsed / 60000)
Minutes(elapsed) == (elapsed + 30) \div 60

At(log, event) == {i \in DOMAIN log : log[i].event = event}
PhaseStarts(log) == {i \in At(log, "PHASE_START") : log[i].phase # None}

-----------------------------------------------------------------------------
(* The state of the workflow: one pass over the entries.                   *)

\* The spawns of agents; an id that is spawned again keeps its first record, the
\* only one that `find` returns.
FirstSpawn(log, i) == \A k \in At(log, "AGENT_SPAWN") : log[k].arg = log[i].arg => i <= k
AgentStarted(log, i) ==
  FirstSpawn(log, i) /\ \E k \in At(log, "START") : k > i /\ log[k].agent = log[i].arg
AgentCompleted(log, i) ==
  FirstSpawn(log, i) /\ \E k \in At(log, "AGENT_COMPLETE") : k > i /\ log[k].arg = log[i].arg

\* The status of a command of the chain: its latest start, end or failure.
ChainStatus(log, cmd) ==
  LET i == MaxOf({k \in DOMAIN log : /\ log[k].event \in {"START", "COMPLETE", "FAILED"}
                                     /\ log[k].cmd = cmd})
  IN IF i = 0 THEN "pending"
     ELSE CASE log[i].event = "START" -> "in_progress"
            [] log[i].event = "COMPLETE" -> "complete"
            [] log[i].event = "FAILED" -> "failed"

BuildState(log) ==
  LET start == MaxOf(At(log, "START"))
      phase == MaxOf(PhaseStarts(log))
      done  == At(log, "PHASE_COMPLETE")
  IN [currentCommand  |-> IF start > 0 THEN log[start].cmd
                          ELSE IF log = <<>> THEN None ELSE log[1].cmd,
      currentPhase    |-> IF phase > 0 THEN log[phase].phase ELSE None,
      phaseStart      |-> IF phase > 0 THEN log[phase].ts ELSE 0,
      lastActivity    |-> IF log = <<>> THEN 0 ELSE log[Len(log)].ts,
      commandComplete |-> MaxOf(At(log, "COMPLETE")) > start,
      phaseComplete   |-> MaxOf(done) > start /\ MaxOf(done) > phase,
      completedPhases |-> {log[i].phase : i \in done} \ {None},
      milestones      |-> Cardinality(At(log, "MILESTONE")),
      chain           |-> [cmd \in COMMAND_CHAIN |-> ChainStatus(log, cmd)]]

-----------------------------------------------------------------------------
(* Signs of something wrong.                                               *)

\* The milestones of the last ten entries.
Recent(log) == {i \in At(log, "MILESTONE") : i > Len(log) - 10}

\* The stretches of equal ones among them, and the length of the longest.
Stretches(log) ==
  {r \in {{k \in Recent(log) : i <= k /\ k <= j} : i, j \in Recent(log)} :
     \A k, l \in r : log[k].arg = log[l].arg}
Repeats(log) == MaxOf({Cardinality(r) : r \in Stretches(log)})

DetectLoops(log) ==
  LET n == Repeats(log)
  IN IF n >= 3 THEN {Issue("loop_detected", Least(98, 85 + 3 * (n - 3)), <<>>, n)} ELSE {}

DetectStuckPhase(state, now) ==
  LET elapsed == now - state.phaseStart
  IN IF state.currentPhase # None /\ ~state.phaseComplete /\ elapsed > PHASE_STUCK
     THEN {Issue("phase_stuck", 85, <<state.currentPhase>>, Minutes(elapsed))} ELSE {}

DetectRegression(log) ==
  LET before(i) == {k \in At(log, "PHASE_COMPLETE") : k < i}
  IN {Issue("regression", 90, <<log[MaxOf(before(i))].phase>>, 0) :
        i \in {k \in At(log, "FAILED") : before(k) # {}}}

PhaseIndex(p) == IF \E i \in DOMAIN PHASE_ORDER : PHASE_ORDER[i] = p
                 THEN CHOOSE i \in DOMAIN PHASE_ORDER : PHASE_ORDER[i] = p ELSE 0

\* A phase before the one that was new last, or whose predecessor never started.
DetectOutOfOrder(log) ==
  LET S == PhaseStarts(log)
      p(i) == log[i].phase
      new(i) == {k \in S : k < i /\ \A l \in S : l < k => p(l) # p(k)}
      last(i) == p(MaxOf(new(i)))
      back == {i \in S : /\ new(i) # {} /\ PhaseIndex(p(i)) > 0
                         /\ PhaseIndex(p(i)) < PhaseIndex(last(i))}
      skip == {i \in S : /\ PhaseIndex(p(i)) > 1
                         /\ \A k \in S : k < i => p(k) # PHASE_ORDER[PhaseIndex(p(i)) - 1]}
  IN {Issue("out_of_order", 85, <<p(i), last(i)>>, 0) : i \in back}
     \cup {Issue("out_of_order", 90, <<p(i)>>, 0) : i \in skip}

\* The first command started, without any of its prerequisites complete.
DetectChainViolation(log) ==
  LET S == At(log, "START")
      first == log[CHOOSE i \in S : \A k \in S : i <= k].cmd
      pre == CHAIN_PREREQUISITES(first)
  IN IF S # {} /\ pre # {} /\ \A i \in At(log, "COMPLETE") : log[i].cmd \notin pre
     THEN {Issue("chain_broken", 60, <<first>>, 0)} ELSE {}

\* GREEN without RED since the build started.
DetectTddViolation(log) ==
  LET builds(i) == {k \in At(log, "START") : k < i /\ log[k].cmd = "build"}
  IN {Issue("tdd_violation", 95, <<>>, 0) :
        i \in {k \in At(log, "PHASE_START") :
                 /\ log[k].phase = "GREEN" /\ builds(k) # {}
                 /\ \A l \in At(log, "PHASE_START") :
                      log[l].phase = "RED" => ~(l < k /\ l > MaxOf(builds(k)))}}

DetectExplicitFailures(log) ==
  {Issue("explicit_failure", 95, <<log[i].cmd, log[i].arg>>, 0) : i \in At(log, "FAILED")}

DetectAgentFailures(log) ==
  {Issue("agent_failed", 90, <<log[i].arg>>, 0) :
     i \in {k \in At(log, "AGENT_COMPLETE") : ~log[k].good}}

\* The first violation of a law, and each further one under its number.
DetectIronLawViolations(log) ==
  LET S == {i \in At(log, "IRON_LAW_CHECK") : log[i].arg # None}
      count(i) == Cardinality({k \in S : k <= i /\ log[k].arg = log[i].arg})
  IN {Issue(IF count(i) >= 2 THEN "iron_law_repeated" ELSE "iron_law_violation", 95,
            <<log[i].arg>>, count(i)) : i \in S}

-----------------------------------------------------------------------------
(* Signs of something missing.                                             *)

\* Mutant: a command that is complete may fall silent.
SilentAfterComplete(state, now) ==
  IF state.currentCommand # None /\ now - state.lastActivity > SILENCE_WARNING
  THEN {Issue("silence", 70, <<state.currentCommand>>, 0)} ELSE {}

DetectSilence(state, now) ==
  LET elapsed == now - state.lastActivity
  IN IF /\ ~state.commandComplete /\ state.currentCommand # None
        /\ elapsed > SILENCE_WARNING
     THEN {Issue("silence", Least(90, 70 + ((elapsed - SILENCE_WARNING) * 10) \div SILENCE_WARNING),
                 <<state.currentCommand>>, Minutes(elapsed))} ELSE {}

\* RED and GREEN are expected to reach a milestone before they complete.
DetectMissingMilestones(log) ==
  LET start(i) == MaxOf({k \in PhaseStarts(log) : k < i})
  IN {Issue("missing_milestones", 80, <<log[start(i)].phase>>, 0) :
        i \in {k \in At(log, "PHASE_COMPLETE") :
                 /\ start(k) > 0 /\ log[start(k)].phase \in {"RED", "GREEN"}
                 /\ \A l \in At(log, "MILESTONE") : ~(start(k) < l /\ l < k)}}

DetectDecliningVelocity(log) ==
  LET s == SelectSeq(log, LAMBDA e : e.event = "MILESTONE")
      gap(i) == s[i + 1].ts - s[i].ts
      more == {i \in 2..Len(s) - 1 : gap(i) > gap(i - 1)}
  IN IF Len(s) >= 4 /\ more # {}
     THEN {Issue("declining_velocity", Least(60, 40 + 10 * Cardinality(more)), <<>>, 0)} ELSE {}

DetectIncompleteOutputs(log) ==
  {Issue("incomplete_outputs", 75, <<log[i].cmd>>, 0) :
     i \in {k \in At(log, "COMPLETE") : log[k].cmd \in {"ideate", "plan", "build"} /\ ~log[k].good}}

DetectAgentSilence(log, now) ==
  {Issue("agent_silence", 80, <<log[i].arg>>, 0) :
     i \in {k \in At(log, "AGENT_SPAWN") : /\ ~AgentStarted(log, k) /\ ~AgentCompleted(log, k)
                                           /\ now - log[k].ts > AGENT_SILENCE}}

-----------------------------------------------------------------------------
(* Signs of a hard stop.                                                   *)

DetectAbruptStop(state, now) ==
  LET elapsed == now - state.lastActivity
  IN IF ~state.commandComplete /\ state.milestones > 0 /\ elapsed > ABRUPT_STOP
     THEN {Issue("abrupt_stop", 85, <<>>, Minutes(elapsed))} ELSE {}

DetectPartialCompletion(state, now) ==
  IF /\ ~state.commandComplete /\ state.completedPhases # {}
     /\ state.currentPhase # None /\ ~state.phaseComplete
     /\ now - state.phaseStart > PHASE_STUCK
  THEN {Issue("partial_completion", 80, <<state.currentPhase, "after", state.completedPhases>>, 0)} ELSE {}

DetectAbandonedAgent(log, now) ==
  {Issue("abandoned_agent", 80, <<log[i].arg>>, 0) :
     i \in {k \in At(log, "AGENT_SPAWN") : /\ AgentStarted(log, k) /\ ~AgentCompleted(log, k)
                                           /\ now - log[k].ts > AGENT_ABANDONED}}

-----------------------------------------------------------------------------
(* The analysis, its health and what is done about an issue.               *)

Analyze(log, now) ==
  LET state == BuildState(log)
  IN UNION {DetectLoops(log), DetectStuckPhase(state, now), DetectRegression(log),
            DetectOutOfOrder(log), DetectChainViolation(log), DetectTddViolation(log),
            DetectExplicitFailures(log), DetectAgentFailures(log),
            DetectIronLawViolations(log), DetectSilence(state, now),
            DetectMissingMilestones(log), DetectDecliningVelocity(log),
            DetectIncompleteOutputs(log), DetectAgentSilence(log, now),
            DetectAbruptStop(state, now), DetectPartialCompletion(state, now),
            DetectAbandonedAgent(log, now)}

\* The order in which the detectors run, and so that of the issues.
Rank(type) ==
  LET order == <<"loop_detected", "phase_stuck", "regression", "out_of_order", "chain_broken",
                 "tdd_violation", "explicit_failure", "agent_failed", "iron_law_violation",
                 "iron_law_repeated", "silence", "missing_milestones", "declining_velocity",
                 "incomplete_outputs", "agent_silence", "abrupt_stop", "partial_completion",
                 "abandoned_agent">>
  IN IF \E i \in DOMAIN order : order[i] = type
     THEN CHOOSE i \in DOMAIN order : order[i] = type ELSE 0

Health(issues) ==
  IF \E i \in issues : /\ i.conf > 90
                       /\ i.type \in {"explicit_failure", "agent_failed", "regression",
                                      "tdd_violation", "loop_detected", "iron_law_violation",
                                      "iron_law_repeated"}
  THEN "critical"
  ELSE IF \E i \in issues : i.conf >= 70 THEN "warning" ELSE "healthy"

\* generate: above 90 the task runs by itself, from 70 on it is suggested, below
\* that the user is only told.
ResponseType(issue) ==
  IF issue.conf > 90 THEN "auto_remediate"
  ELSE IF issue.conf >= 70 THEN "notify_suggest" ELSE "notify_only"

\* createQueueTask: what is queued for an issue, without the text of the prompt.
QueueTask(issue) ==
  [priority |-> IF ResponseType(issue) = "auto_remediate" THEN "high" ELSE "medium",
   auto     |-> ResponseType(issue) = "auto_remediate",
   agent    |-> CASE issue.type \in {"regression", "out_of_order", "tdd_violation",
                                     "missing_milestones"} -> "test-engineer"
                  [] issue.type = "declining_velocity" -> "performance-engineer"
                  [] OTHER -> "debugger"]
=============================================================================
