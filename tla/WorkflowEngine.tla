---------------------------- MODULE WorkflowEngine ----------------------------
(***************************************************************************)
(* What follows a workflow command: the configuration a process fetches and*)
(* keeps (watcher/src/api/workflow-config.ts), from which chain-trigger.ts *)
(* prints the chain; the executors of a chain (engine/executor.ts, and     *)
(* engine/workflow-chain-executor.ts with custom-command-executor.ts) and  *)
(* the agents spawned beside it (engine/agents.ts).  A command is one that *)
(* this plugin has or one of the team; the words by which conditions.ts    *)
(* finds out whether there is work of a kind are abstracted to whether     *)
(* they are there.                                                         *)
(***************************************************************************)
EXTENDS Naturals, Sequences, SequencesExt, FiniteSets

CONSTANTS
  Caller,     \* parts of a process that ask for the configuration
  MaxVersion, \* bound on the configurations of the server
  MaxSteps,   \* steps of a chain
  MaxPrinted, \* MAX_CHAIN_COMMANDS (10)
  MaxAsked    \* bound on the answers given

VARIABLES
  part,                    \* what is at work: "config", an executor, or "agents"
  server, cache, pending,  \* versions: the server's, the cached one if any; fetches under way
  answers, met, asked,     \* history: what was answered since the cache was empty, and fetches overlapped
  printed,                 \* of chain-trigger: how many commands were printed of the last chain
  chain, context, pos,     \* the steps, whether there is work of the kind, the next step
  ran, failed, warned,     \* positions that ran, failed and were warned about
  status,
  results                  \* of each agent, {} while it runs

config == <<server, cache, pending, answers, met, asked, printed>>
execution == <<pos, ran, failed, warned, status>>
input == <<part, chain, context>>
vars == <<input, config, execution, results>>

Default == 0
Gate == {"always", "has_work", "none"}
Step == [team : BOOLEAN, gate : Gate, blocking : BOOLEAN]
Chain == UNION {[1..n -> {s \in Step : s.team \/ ~s.blocking}] : n \in 0..MaxSteps}
Executor == {"executeChain", "WorkflowChainExecutor"}

Init ==
  /\ part \in {"config", "agents"} \cup Executor
  /\ chain \in IF part = "config" THEN {<<>>} ELSE Chain
  /\ context \in IF part = "config" THEN {FALSE} ELSE BOOLEAN
  /\ server = 1 /\ cache = {} /\ pending = {} /\ answers = {} /\ met = FALSE /\ asked = 0 /\ printed = 0
  /\ pos = 1 /\ ran = <<>> /\ failed = {} /\ warned = {} /\ status = "running"
  /\ results = [i \in DOMAIN chain |-> {}]

-----------------------------------------------------------------------------
(* The configuration, of one workflow.                                     *)

\* executeChainForWorkflow: a configuration of version v has v + 1 steps.
Printed(v) == IF v + 1 > MaxPrinted THEN MaxPrinted ELSE v + 1

Answer(v) ==
  /\ answers' = answers \cup {v} /\ asked' = asked + 1 /\ printed' = Printed(v)

\* getCachedOrFetch: the cached one, the default where there is no key, or a fetch.
GetCachedOrFetch(c, key) ==
  /\ asked < MaxAsked /\ c \notin pending
  /\ IF cache # {} THEN (\E v \in cache : Answer(v)) /\ UNCHANGED <<cache, pending, met>>
     ELSE IF ~key THEN cache' = {Default} /\ Answer(Default) /\ UNCHANGED pending /\ met' = (met \/ pending # {})
     ELSE pending' = pending \cup {c} /\ met' = (met \/ pending # {}) /\ UNCHANGED <<cache, answers, asked, printed>>
  /\ UNCHANGED server

\* Mutant: the default is not kept after a fetch that failed.
FetchedRetry(c, fails) ==
  LET v == IF fails THEN Default ELSE server
  IN /\ c \in pending /\ pending' = pending \ {c}
     /\ cache' = IF fails THEN {} ELSE {v}
     /\ Answer(v) /\ UNCHANGED <<server, met>>

\* fetchWorkflowConfig and decryptWorkflowConfig: without an answer, credentials
\* or a text that can be decrypted it is the default.
Fetched(c, fails) ==
  LET v == IF fails THEN Default ELSE server
  IN /\ c \in pending /\ pending' = pending \ {c}
     /\ cache' = {v}
     /\ Answer(v) /\ UNCHANGED <<server, met>>

ClearWorkflowConfigCache ==
  /\ cache # {} /\ cache' = {} /\ answers' = {} /\ met' = (pending # {})
  /\ UNCHANGED <<server, pending, asked, printed>>

Publish == server < MaxVersion /\ server' = server + 1 /\ UNCHANGED <<cache, pending, answers, met, asked, printed>>

-----------------------------------------------------------------------------
(* The executors.                                                          *)

EvaluateCondition(condition) == condition = "has_work" /\ context

\* shouldExecute of the one, and shouldExecuteStep of the other, which also leaves
\* the commands of the plugin to the first.
ShouldExecute(step) == step.gate = "always" \/ EvaluateCondition(step.gate)
ShouldExecuteStep(step) == step.team /\ (step.gate = "has_work" => EvaluateCondition(step.gate))
Due(step) == IF part = "executeChain" THEN ShouldExecute(step) ELSE ShouldExecuteStep(step)

\* execute of CustomCommandExecutor: where the command cannot be fetched, nothing
\* is known of it.
Execute(step, fails) == [success |-> ~fails, isBlocking |-> ~fails /\ step.blocking]
ShouldStopWorkflow(result) == ~result.success /\ result.isBlocking

Skip == pos <= Len(chain) /\ ~Due(chain[pos]) /\ pos' = pos + 1 /\ UNCHANGED <<ran, failed, warned, status>>

\* Mutant: the chain goes on after a command that failed.
RunOn(fails) ==
  /\ pos <= Len(chain) /\ Due(chain[pos])
  /\ ran' = Append(ran, pos) /\ pos' = pos + 1
  /\ failed' = IF fails THEN failed \cup {pos} ELSE failed
  /\ UNCHANGED <<warned, status>>

\* A step, whose command is awaited.
Run(fails) ==
  LET result == Execute(chain[pos], fails)
      stops == fails /\ (part = "executeChain" \/ ShouldStopWorkflow(result))
  IN /\ pos <= Len(chain) /\ Due(chain[pos])
     /\ ran' = Append(ran, pos) /\ pos' = pos + 1
     /\ failed' = IF fails THEN failed \cup {pos} ELSE failed
     /\ warned' = IF fails /\ ~stops /\ ~result.isBlocking THEN warned \cup {pos} ELSE warned
     /\ status' = IF stops THEN "error" ELSE status

\* The end, with a checkpoint if the configuration has one.
End(checkpoint) ==
  /\ pos > Len(chain)
  /\ status' = IF checkpoint THEN "checkpoint" ELSE "completed"
  /\ UNCHANGED <<pos, ran, failed, warned>>

-----------------------------------------------------------------------------
(* Agents: spawned at once, awaited together.                              *)

\* spawnAgent: one that is not due succeeds at once, one that throws has failed.
SpawnAgent(i, fails) ==
  /\ results[i] = {} /\ (fails => ShouldExecute(chain[i]))
  /\ results' = [results EXCEPT ![i] = {~fails}]
  /\ failed' = IF fails THEN failed \cup {i} ELSE failed
  /\ UNCHANGED <<pos, ran, warned, status>>

SpawnParallelAgents ==
  /\ \A i \in DOMAIN chain : results[i] # {}
  /\ status' = "completed" /\ UNCHANGED <<pos, ran, failed, warned, results>>

Next ==
  \/ /\ part = "config"
     /\ \/ \E c \in Caller : \E b \in BOOLEAN : GetCachedOrFetch(c, b) \/ Fetched(c, b)
        \/ ClearWorkflowConfigCache \/ Publish
     /\ UNCHANGED <<input, execution, results>>
  \/ /\ part \in Executor /\ status = "running"
     /\ \/ Skip
        \/ \E fails \in BOOLEAN : Run(fails)
        \/ \E checkpoint \in {FALSE, part = "executeChain"} : End(checkpoint)
     /\ UNCHANGED <<input, config, results>>
  \/ /\ part = "agents" /\ status = "running"
     /\ SpawnParallelAgents \/ \E i \in DOMAIN chain, fails \in BOOLEAN : SpawnAgent(i, fails)
     /\ UNCHANGED <<input, config>>

Spec == Init /\ [][Next]_vars

-----------------------------------------------------------------------------
(* Properties.                                                             *)

\* All callers of a process work from one configuration, that of the server or the
\* default, until the cache is cleared; only fetches that overlap may differ.
OneConfig == ~met => Cardinality(answers) <= 1 /\ (cache # {} => answers \subseteq cache)

\* Every step up to the one that is next has run if it was due, once and in order;
\* nothing runs after a failure, or every failure was warned about; a chain that
\* has completed, or waits at its checkpoint, has left nothing out.
ChainInOrder ==
  part \in Executor =>
    /\ ToSet(ran) = {i \in 1..(pos - 1) : Due(chain[i])} /\ \A i, j \in DOMAIN ran : i < j => ran[i] < ran[j]
    /\ failed \subseteq ToSet(ran)
    /\ IF part = "executeChain" THEN failed # {} => failed = {Last(ran)} /\ status = "error" ELSE warned = failed
    /\ status \in {"completed", "checkpoint"} => pos = Len(chain) + 1

\* "If isBlocking: true and the command fails, stop the workflow chain".
BlockingFailureStops ==
  part = "WorkflowChainExecutor" => \A i \in failed : chain[i].blocking => status = "error" /\ i = Last(ran)
=============================================================================
