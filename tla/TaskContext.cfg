SPECIFICATION Spec
CONSTANTS
  MaxRetries = 2
  MaxFailures = 0
  MaxTask = 1
INVARIANT ContextPreserved
CHECK_DEADLOCK FALSE
