SPECIFICATION SystemSpec
CONSTANTS
  HealthCheck = {h1, h2}
  Drain = {d1}
  MaxTask = 3
  Backlog = 1
  Priority = {0, 1, 3}
  MaxQueueSize = 2
  MaxCrashes = 1
  Hook = "d1"
  MaxBacklog = 4
  MaxPending = 4
  Runner = {"r1", "r2"}
  LastItem = 2
  MaxRetries = 2
  MaxShared = 1
INVARIANTS CompletedWasPrinted ItemsAreTracked
PROPERTIES PrintedOnceInOrder BacklogIsPrinted
CHECK_DEADLOCK FALSE
