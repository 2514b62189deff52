SPECIFICATION SystemSpec
CONSTANTS
  Call = {c1, c2, c3}
  MaxTask = 4
  MaxQueueSize = 2
  Status = {"pending", "completed"}
  Priority = {0, 3}
  Operations = {"add"}
  WritesMayFail = FALSE
  MaxCrashes = 0
  Caller = {c1, c2}
  Operation = {"add", "update", "remove", "clear", "fail"}
  MaxTried = 2
  MaxHeld = 1
  MaxEnds = 1
INVARIANTS QueueCapped NothingUnsaved AcceptedTaskIsKept
PROPERTIES DropsLeastImportant AddResolves DroppedLeavesFile
CHECK_DEADLOCK FALSE
