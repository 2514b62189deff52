-------------------------- MODULE MCWorkflowStateFile --------------------------
(***************************************************************************)
(* The hooks of WorkflowStateFile as they are in hooks/: what each one     *)
(* runs, and which one starts after another.                               *)
(***************************************************************************)
EXTENDS WorkflowStateFile

CONSTANTS precommand, agentStart, sessionEnd, daemon

Fields == {"activeStep", "supervisor", "activeAgent", "heartbeat"}
Values == {"-", "plan", "watching", "intervening", "idle", "a1", "now"}

C(f, v) == [field |-> f, value |-> v]

Scripts == [j \in Job |->
  CASE j = precommand -> <<C("activeStep", "plan"), C("supervisor", "watching")>>
    [] j = agentStart -> <<C("supervisor", "intervening"), C("activeAgent", "a1")>>
    [] j = sessionEnd -> <<C("supervisor", "idle")>>
    [] j = daemon -> <<C("heartbeat", "now")>>]

\* The agent that a session ends with was started in it, after the prompt.
Order == [j \in Job |-> CASE j = agentStart -> {precommand} \cap Job
                         [] j = sessionEnd -> {agentStart} \cap Job
                         [] OTHER -> {}]
DaemonJobs == {daemon} \cap Job
=============================================================================
