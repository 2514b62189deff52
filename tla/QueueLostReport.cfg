SPECIFICATION Spec
CONSTANTS
  HealthCheck = {h1}
  Drain = {d1}
  MaxTask = 3
  Backlog = 1
  Priority = {0, 1, 3}
  MaxQueueSize = 2
  MaxCrashes = 0
INVARIANT ReportedIsKept
CHECK_DEADLOCK FALSE
