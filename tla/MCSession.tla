------------------------------- MODULE MCSession -------------------------------
(***************************************************************************)
(* A session of Claude Code for TLC: what its hooks write, the chain of    *)
(* steps they follow, the engine that goes from step to step and the       *)
(* command that decrypts the prompts.  The parts share no state that these *)
(* specifications follow, so each behaviour is one of a single part: `part`*)
(* is chosen at the start, and the others keep an initial state.  The      *)
(* hooks that write one file (part "hooks") are MCWorkflowStateFile        *)
(* itself, the others are instantiated beside it.                          *)
(***************************************************************************)
EXTENDS MCWorkflowStateFile

CONSTANTS
  Part,                                               \* the parts a run is about
  Command, Phase, MaxHookFaults,                      \* "chain"
  Caller, MaxFetched, MaxSteps, MaxPrinted, MaxAsked, \* "engine"
  Process, Prompt, MaxVersion, MaxIssue, MaxRuns      \* "prompts"

\* The server has prompts.
ASSUME PromptAssumption == Prompt # {}

VARIABLE part

VARIABLES state, script, cmd, stage, finished, faults, lost
Chain == INSTANCE WorkflowState
  WITH MaxFaults <- MaxHookFaults

\* "-" stands for no command, and a build logs the phases of its loop.
ASSUME HookAssumption == Chain!None \notin Command /\ Phase \subseteq {"red", "green", "refactor"}

VARIABLES executor, server, cache, pending, answers, met, asked, shown, chain, context, pos, ran,
          failed, warned, status, results
Engine == INSTANCE WorkflowEngine
  WITH MaxVersion <- MaxFetched, part <- executor, printed <- shown

VARIABLES content, manifest, issue, revoked, credentials, cached, sigs, command, printed, noticed, overlap, runs
Prompts == INSTANCE DecryptCLI
  WITH cmd <- command, stored <- credentials

chainVars == <<state, script, cmd, stage, finished, faults, lost>>
engineVars == <<executor, server, cache, pending, answers, met, asked, shown, chain, context, pos,
                ran, failed, warned, status, results>>
promptVars == <<content, manifest, issue, revoked, credentials, cached, sigs, command,
                printed, noticed, overlap, runs>>
allVars == <<part, vars, chainVars, engineVars, promptVars>>

\* The state that a part keeps in the behaviours of another one.
Idle ==
  /\ part # "engine" => executor = "config"
  /\ part # "prompts" => credentials = 0 /\ cached = {} /\ manifest = [k \in Prompt |-> 0]

SystemInit ==
  /\ part \in Part
  /\ Init /\ Chain!Init /\ Engine!Init /\ Prompts!Init
  /\ Idle

\* Scripts, chains and runs of a command come to an end.
Stop == part \in {"engine", "prompts"} /\ UNCHANGED <<vars, chainVars, engineVars, promptVars>>

SystemNext ==
  /\ \/ part = "hooks" /\ Next
     \/ part = "chain" /\ Chain!Next
     \/ part = "engine" /\ Engine!Next
     \/ part = "prompts" /\ Prompts!Next
     \/ Stop
  /\ part = "hooks" \/ UNCHANGED vars
  /\ part = "chain" \/ UNCHANGED chainVars
  /\ part = "engine" \/ UNCHANGED engineVars
  /\ part = "prompts" \/ UNCHANGED promptVars
  /\ UNCHANGED part

\* A hook that runs goes on.
SystemSpec ==
  /\ SystemInit /\ [][SystemNext]_allVars
  /\ \A j \in Job : WF_vars(part = "hooks" /\ Step(j))

--------------------------------------------------------------------------------
(* Properties.                                                                  *)

\* Every hook ends, and whatever it read no command of a hook has found a state
\* without a chainState: hooks overlap and are killed anywhere, the daemon is off.
EveryHookEnds == (part = "hooks" => HooksEnd) /\ []ChainSurvives

\* The command recommended next follows the one called last, unless the last start or
\* completion failed to say so itself.
NextFollowsLast == Chain!NextFollowsLast

\* The status line shows the command Claude works on, a phase of its build, and
\* afterwards its result; DONE only after a ship with nothing to follow.
LineFollowsWork == Chain!LineShowsCommand /\ Chain!LineShowsResult /\ Chain!DoneMeansShipped

\* While the command of a chain step runs, the chain is done up to that step; at most
\* one step is active at any time.
ChainFollowsStep == Chain!ChainFollowsStep /\ Chain!OneStepActive

\* All callers of a process work from one configuration, and the steps of a chain run
\* in order, each that is due, none after a failure that was not warned about.
ChainInOrder == Engine!OneConfig /\ Engine!ChainInOrder

\* What is printed is what the signed manifest lists, and a new version is noticed
\* once, while commands neither overlap nor are killed.
PrintedIsListed == Prompts!PrintedIsListed /\ Prompts!NoticedOnce
================================================================================
