SPECIFICATION Spec
CONSTANTS
  precommand = precommand
  agentStart = agentStart
  sessionEnd = sessionEnd
  daemon = daemon
  Job = {daemon, precommand}
  Script <- Scripts
  Heartbeats <- DaemonJobs
  Follows <- Order
  Field <- Fields
  FieldValue <- Values
  Unset = "-"
  MaxKills = 0
INVARIANT ChainSurvives
