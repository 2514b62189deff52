SPECIFICATION Spec
CONSTANTS
  Command = {"c1"}
  Service = {"s1"}
  MaxChange = 2
INVARIANT UserBeforeProject
CHECK_DEADLOCK FALSE
