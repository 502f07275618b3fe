SPECIFICATION Spec
CONSTANTS
  NumAsync = 2
  NumComp = 1
  Threshold = 3
  QueueSize = 1
INVARIANTS
  CmdReleasedIdle
CHECK_DEADLOCK FALSE
