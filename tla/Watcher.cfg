SPECIFICATION SystemSpec
CONSTANTS
  Part = {"file", "lifecycle", "services", "monitors", "laws", "supervisor", "analysis"}
  Writer = {w1, w2}
  Reader = {r1}
  Inode = {i1, i2, i3}
  Value = {v1, v2}
  NoFile = NoFile
  Empty = Empty
  Torn = Torn
  LastProcess = 3
  Pid = {1}
  Timeout <- Timeouts
  Minute = 2
  Day = 8
  Interval = {1, 3}
  CheckTime = 2
  LastTick = 10
  Line <- Lines
  LoopThreshold = 2
  MaxBuffer = 3
  MaxHistory = 3
  StuckTimeout = 1
  MaxOutput = 4
  File = {"a", "b"}
  Law = {1, 4}
  MaxRecent = 2
  MaxRecords = 2
  MaxEvents = 4
  Entry <- BuildEntries
  MaxLog = 2
  Delay = {100}
  MaxTime = 100
  Check = {"iron_law"}
  Violation = {"tdd", "branch"}
  Unactionable = {"branch"}
  MaxChecks = 2
  MaxStarts = 2
  MaxFaults = 1
  Logged <- AnalysisEntries
  MaxEntries = 4
  LogDelay = {100}
  LogTime = 200
INVARIANTS LoadsCompleteText RunnerIsListed ServicesOnTime ReportedIsRecent LawsAreFollowed IssuesAreQueued FinishedIsQuiet
PROPERTIES ImplementsRegister FailureIsQueued
CHECK_DEADLOCK FALSE
SYMMETRY Inodes
