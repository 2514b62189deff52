SPECIFICATION Spec
CONSTANTS
  Caller = {"c1"}
  MaxVersion = 1
  MaxSteps = 2
  MaxPrinted = 2
  MaxAsked = 1
INVARIANT BlockingFailureStops
CHECK_DEADLOCK FALSE
