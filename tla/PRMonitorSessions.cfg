SPECIFICATION Spec
CONSTANTS
  Comment = {1}
  MaxTimers = 2
  MaxQueue = 1
  MaxFailures = 0
  MaxExits = 1
INVARIANTS HandledOnceWhileRunning
CHECK_DEADLOCK FALSE
