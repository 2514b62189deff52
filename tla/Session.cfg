SPECIFICATION SystemSpec
CONSTANTS
  precommand = precommand
  agentStart = agentStart
  sessionEnd = sessionEnd
  daemon = daemon
  Job = {precommand, agentStart, sessionEnd}
  Script <- Scripts
  Heartbeats <- DaemonJobs
  Follows <- Order
  Field <- Fields
  FieldValue <- Values
  Unset = "-"
  MaxKills = 2
  Command = {"adr", "build", "ship", "review"}
  Phase = {"red", "green"}
  MaxHookFaults = 2
  Caller = {"c1", "c2"}
  MaxFetched = 2
  MaxSteps = 2
  MaxPrinted = 2
  MaxAsked = 4
  Process = {"p1", "p2"}
  Prompt = {"k1"}
  MaxVersion = 2
  MaxIssue = 2
  MaxRuns = 4
  Part = {"hooks", "chain", "engine", "prompts"}
INVARIANTS NoChangeUndone NextFollowsLast LineFollowsWork ChainFollowsStep ChainInOrder PrintedIsListed
PROPERTIES ImplementsStore EveryHookEnds
