----------------------------- MODULE WorkflowState -----------------------------
(***************************************************************************)
(* The workflow state of one session: what the setters of                  *)
(* WorkflowStateService (watcher/src/services/workflow-state.ts) do to the *)
(* state, which of them the hooks call for each event of a command, and    *)
(* what the status line makes of the result (hooks/oss-statusline.sh).     *)
(*                                                                         *)
(* A hook is a sequence of calls, each of which may fail unnoticed; the     *)
(* status line may look between two.                                        *)
(* Hooks of one session are taken one after the other here: how they       *)
(* overlap on the file is the subject of WorkflowStateFile.                *)
(***************************************************************************)
EXTENDS Naturals, Sequences, FiniteSets

CONSTANTS
  Command,   \* commands the user types, by their names
  Phase,     \* TDD phases the build logs: some of red, green, refactor
  MaxFaults  \* bound on hooks killed and calls that fail

ChainOrder ==
  <<"ideate", "requirements", "apiDesign", "dataModel", "adr", "plan", "acceptance",
    "red", "mock", "green", "refactor", "integration", "contract", "ship">>
BuildPhases == <<"acceptance", "red", "mock", "green", "refactor", "integration", "contract">>

None == "-"
ChainStep == {ChainOrder[i] : i \in DOMAIN ChainOrder}
BuildPhase == {BuildPhases[i] : i \in DOMAIN BuildPhases}
MainCommand == {"ideate", "plan", "build", "ship"}

\* The names the chain state may be given: completeStep and setActiveStep take
\* any name for a key.
Key == ChainStep \cup Command

VARIABLES
  state,     \* the workflow state
  script,    \* the calls the running hook has still to make
  cmd,       \* the command Claude is working on, or None
  stage,     \* "idle", "prompted", "running" or "merged"
  finished,  \* history: the command completed last, if nothing else was asked since
  faults,    \* hooks killed and calls failed
  lost       \* history: what the last start or completion did not get done of Recommends

vars == <<state, script, cmd, stage, finished, faults, lost>>

\* The calls of a hook that the recommendation hangs on.
Recommends == {"completeStep", "setLastCommand", "setNextCommand"}

\* What the calls are given that is no name of a step.
Argument == {None, "build", "watching", "intervening", "idle", "true", "false"} \cup MainCommand

Position(seq, x) == CHOOSE i \in DOMAIN seq : seq[i] = x
Before(seq, x) == {seq[i] : i \in 1..(Position(seq, x) - 1)}
After(seq, x) == {seq[i] : i \in (Position(seq, x) + 1)..Len(seq)}

DefaultState ==
  [supervisor |-> "idle", activeStep |-> None, current |-> None, next |-> None,
   last |-> None, tddPhase |-> None, complete |-> FALSE,
   chain |-> [k \in Key |-> IF k \in ChainStep THEN "pending" ELSE None]]

-----------------------------------------------------------------------------
(* The setters.                                                            *)

\* The chain with some steps done, one active and some pending.
Marked(chain, done, active, pending) ==
  [k \in Key |-> IF k \in done THEN "done"
                 ELSE IF k = active THEN "active"
                 ELSE IF k \in pending THEN "pending" ELSE chain[k]]

\* Mutant: the steps after the active one keep their status.
SetActiveStepForward(s, step) ==
  [s EXCEPT !.complete = FALSE, !.activeStep = step,
            !.chain = IF step \in ChainStep
                      THEN Marked(@, Before(ChainOrder, step), step, {})
                      ELSE Marked(@, {}, step, {})]

\* Mutant: the flag of the finished workflow stays.
SetActiveStepStays(s, step) ==
  [s EXCEPT !.activeStep = step,
            !.chain = IF step \in ChainStep
                      THEN Marked(@, Before(ChainOrder, step), step, After(ChainOrder, step))
                      ELSE Marked(@, {}, step, ChainStep)]

\* setActiveStep: "build" stands for its first phase; a name that is no chain
\* step has index -1 in the loop, which makes every step pending.
SetActiveStep(s, step) ==
  [s EXCEPT !.complete = FALSE, !.activeStep = step,
            !.chain =
              IF step = "build"
              THEN Marked(@, {"ideate", "plan"}, "acceptance",
                          (BuildPhase \ {"acceptance"}) \cup {"ship"})
              ELSE IF step \in ChainStep
              THEN Marked(@, Before(ChainOrder, step), step, After(ChainOrder, step))
              ELSE Marked(@, {}, step, ChainStep)]

\* Mutant: the phase before is left as it is.
SetTddPhaseOnly(s, phase) ==
  [s EXCEPT !.chain = Marked(@, {"ideate", "plan"}, phase, After(BuildPhases, phase)),
            !.tddPhase = phase]

SetTddPhase(s, phase) ==
  [s EXCEPT !.chain = Marked(@, {"ideate", "plan"} \cup Before(BuildPhases, phase), phase,
                             After(BuildPhases, phase)),
            !.tddPhase = phase]

CommandAfter(c) ==
  CASE c = "ideate" -> "plan" [] c = "plan" -> "build" [] c = "build" -> "ship" [] OTHER -> None

\* completeStep: the key "build" is added to the chain, its phases stay.
CompleteStep(s, step) ==
  [s EXCEPT !.chain[step] = "done", !.activeStep = None,
            !.next = IF step \in MainCommand THEN CommandAfter(step) ELSE @]

PrepareForNewSession(s) ==
  [s EXCEPT !.tddPhase = None, !.current = None, !.activeStep = None,
            !.supervisor = "watching"]

\* One call of the command line tool.
Applied(s, call) ==
  CASE call.op = "setActiveStep" -> SetActiveStep(s, call.arg)
    [] call.op = "setTddPhase" -> SetTddPhase(s, call.arg)
    [] call.op = "clearTddPhase" -> [s EXCEPT !.tddPhase = None]
    [] call.op = "completeStep" -> CompleteStep(s, call.arg)
    [] call.op = "setSupervisor" -> [s EXCEPT !.supervisor = call.arg]
    [] call.op = "setCurrentCommand" -> [s EXCEPT !.current = call.arg]
    [] call.op = "setNextCommand" -> [s EXCEPT !.next = call.arg]
    [] call.op = "setLastCommand" -> [s EXCEPT !.last = call.arg]
    [] call.op = "setWorkflowComplete" -> [s EXCEPT !.complete = call.arg = "true"]
    [] call.op = "prepareForNewSession" -> PrepareForNewSession(s)
    [] call.op = "reset" -> DefaultState

-----------------------------------------------------------------------------
(* The hooks: the calls each event makes.  A clear... call is the set...    *)
(* call with None.                                                         *)

C(op, arg) == <<[op |-> op, arg |-> arg]>>

\* The step oss-precommand.sh sets for a command, if any.
StepOf(c) ==
  CASE c = "api-design" -> "apiDesign"
    [] c = "data-model" -> "dataModel"
    [] c \in ChainStep \cup {"build"} -> c
    [] OTHER -> None

PromptCalls(c) ==
  (IF StepOf(c) # None
   THEN C("setActiveStep", StepOf(c)) \o C("setSupervisor", "watching") ELSE <<>>)
  \o C("setCurrentCommand", c) \o C("setSupervisor", "watching")

NextCalls(c) == IF c \in MainCommand THEN C("setNextCommand", CommandAfter(c)) ELSE <<>>

\* Mutant: the phase of the build before stays.
StartCallsKeepPhase(c) ==
  C("setActiveStep", c) \o C("setCurrentCommand", c) \o C("setSupervisor", "watching")
  \o C("setLastCommand", None) \o C("setWorkflowComplete", "false") \o NextCalls(c)

\* Mutant: the command completed last stays beside the new one.
StartCallsKeepLast(c) ==
  C("setActiveStep", c) \o C("setCurrentCommand", c) \o C("setSupervisor", "watching")
  \o C("clearTddPhase", None) \o C("setWorkflowComplete", "false") \o NextCalls(c)

StartCalls(c) ==
  C("setActiveStep", c) \o C("setCurrentCommand", c) \o C("setSupervisor", "watching")
  \o C("clearTddPhase", None) \o C("setLastCommand", None)
  \o C("setWorkflowComplete", "false") \o NextCalls(c)

\* Mutant: the TDD phase stays.
CompleteCallsKeepPhase(c) ==
  C("completeStep", c) \o C("setCurrentCommand", None) \o C("setLastCommand", c) \o NextCalls(c)
  \o (IF c = "ship" THEN C("setWorkflowComplete", "true") ELSE <<>>)

CompleteCalls(c) ==
  C("completeStep", c) \o C("setCurrentCommand", None) \o C("clearTddPhase", None)
  \o C("setLastCommand", c) \o NextCalls(c)
  \o (IF c = "ship" THEN C("setWorkflowComplete", "true") ELSE <<>>)

-----------------------------------------------------------------------------
(* The session.                                                            *)

Init ==
  /\ state = DefaultState
  /\ script = <<>>
  /\ cmd = None
  /\ stage = "idle"
  /\ finished = None
  /\ faults = 0
  /\ lost = {}

Call ==
  /\ script # <<>>
  /\ state' = Applied(state, Head(script))
  /\ script' = Tail(script)
  /\ UNCHANGED <<cmd, stage, finished, faults, lost>>

\* Some of the calls left are not made.
Misses(calls) ==
  /\ script # <<>> /\ faults < MaxFaults
  /\ faults' = faults + 1
  /\ lost' = lost \cup ({calls[i].op : i \in DOMAIN calls} \cap Recommends)
  /\ UNCHANGED <<state, cmd, stage, finished>>

\* A call fails: "|| true", and the hook goes on with the next one.
CallFails == Misses(<<Head(script)>>) /\ script' = Tail(script)

\* The hook is killed after some of its calls.
Kill == Misses(script) /\ script' = <<>>

Runs(calls) == script = <<>> /\ script' = calls /\ UNCHANGED <<state, faults>>

SessionStart ==
  /\ Runs(C("prepareForNewSession", None))
  /\ cmd' = None /\ stage' = "idle"
  /\ UNCHANGED <<finished, lost>>

SessionEnd ==
  /\ Runs(C("setSupervisor", "idle"))
  /\ UNCHANGED <<cmd, stage, finished, lost>>

\* The user types a command, whatever Claude was doing.
PromptHook(c) ==
  /\ Runs(PromptCalls(c))
  /\ cmd' = c /\ stage' = "prompted" /\ finished' = None
  /\ UNCHANGED lost

\* Claude begins the command with oss-notify.sh --workflow c start.
NotifyStart ==
  /\ stage = "prompted"
  /\ Runs(StartCalls(cmd))
  /\ stage' = "running" /\ lost' = {}
  /\ UNCHANGED <<cmd, finished>>

\* oss-log.sh phase build p start.
LogPhase(p) ==
  /\ stage = "running" /\ cmd = "build"
  /\ Runs(C("setTddPhase", p))
  /\ UNCHANGED <<cmd, stage, finished, lost>>

NotifyComplete ==
  /\ stage \in {"running", "merged"}
  /\ Runs(CompleteCalls(cmd))
  /\ cmd' = None /\ stage' = "idle" /\ finished' = cmd /\ lost' = {}

NotifyFailed ==
  /\ stage = "running"
  /\ Runs(C("setSupervisor", "intervening"))
  /\ cmd' = None /\ stage' = "idle"
  /\ UNCHANGED <<finished, lost>>

NotifyMerged ==
  /\ stage = "running" /\ cmd = "ship"
  /\ Runs(C("reset", None))
  /\ stage' = "merged"
  /\ UNCHANGED <<cmd, finished, lost>>

Next ==
  \/ Call \/ CallFails \/ Kill
  \/ SessionStart \/ SessionEnd
  \/ \E c \in Command : PromptHook(c)
  \/ NotifyStart
  \/ \E p \in Phase : LogPhase(p)
  \/ NotifyComplete \/ NotifyFailed \/ NotifyMerged

Spec == Init /\ [][Next]_vars

-----------------------------------------------------------------------------
(* The status line.                                                        *)

\* compute_workflow: the first thing there is to show.
Line ==
  LET command == IF state.current # None THEN state.current ELSE state.activeStep
  IN CASE state.complete -> <<"DONE">>
       [] ~state.complete /\ state.tddPhase # None -> <<"TDD", state.tddPhase>>
       [] ~state.complete /\ state.tddPhase = None /\ command # None ->
            IF state.next \notin {None, command} THEN <<command, "to", state.next>> ELSE <<command>>
       [] ~state.complete /\ state.tddPhase = None /\ command = None /\ state.last # None ->
            IF state.next # None THEN <<state.last, "to", state.next>> ELSE <<state.last, "ok">>
       [] OTHER -> IF state.next # None THEN <<"to", state.next>> ELSE <<>>

-----------------------------------------------------------------------------
(* Properties.  What the line and the chain show at once is asked of hooks  *)
(* that were not killed and whose calls did not fail.                      *)

\* The command recommended next follows the one called last, whatever failed or was
\* killed in all the hooks before: it takes the last start or completion itself to
\* miss the call that sets the last command, or both that recommend, for "last -> next"
\* to be an arrow of two different workflows, and the next one that gets through
\* makes it right again.
NextFollowsLast ==
  /\ script = <<>> /\ state.last \in MainCommand
  /\ "setLastCommand" \notin lost /\ ~({"completeStep", "setNextCommand"} \subseteq lost)
  => state.next = CommandAfter(state.last)

\* The flag that makes the line show DONE is only up while the last command is a
\* completed ship with nothing to follow.
DoneMeansShipped == state.complete /\ faults = 0 => state.last = "ship" /\ state.next = None

\* While Claude works on a command, the line shows that command or, in a build, a
\* phase of it; never the flag, the phase or the command of what went before.
LineShowsCommand ==
  stage = "running" /\ script = <<>> /\ faults = 0 =>
     \/ Line[1] = cmd
     \/ cmd = "build" /\ Line[1] = "TDD" /\ state.chain[Line[2]] = "active"

\* When a command of the main chain has completed, the line shows it with its
\* successor, or DONE after ship, until the user asks for something else, over the
\* end of the session too.
LineShowsResult ==
  stage = "idle" /\ script = <<>> /\ faults = 0 /\ finished \in MainCommand =>
     Line = IF finished = "ship" THEN <<"DONE">> ELSE <<finished, "to", CommandAfter(finished)>>

\* "Sets active step, marks previous steps as done, future steps as pending":
\* while a command named as its chain step runs, the chain is done up to that step.
\* (api-design and data-model start under names that are no step, and build under
\* the name of several.)
ChainFollowsStep ==
  stage = "running" /\ script = <<>> /\ faults = 0 /\ cmd \in ChainStep =>
     /\ state.chain[cmd] = "active"
     /\ \A k \in Before(ChainOrder, cmd) : state.chain[k] = "done"
     /\ \A k \in After(ChainOrder, cmd) : state.chain[k] = "pending"

\* The steps that neither build nor its phases touch.
Design == {"requirements", "apiDesign", "dataModel", "adr"}

\* At most one step outside of the design is active at any time, phases included,
\* even if a hook is killed or a call of it fails, for the prompt and the start of
\* a command both set its step; and at most one design step, whatever failed.
OneStepActive ==
  LET active == {k \in ChainStep : state.chain[k] = "active"}
  IN /\ faults <= 1 => Cardinality(active \ Design) <= 1
     /\ Cardinality(active \cap Design) <= 1
=============================================================================
