SPECIFICATION Spec
CONSTANTS
  NumAsync = 2
  NumComp = 1
  Threshold = 3
  QueueSize = 1
INVARIANTS
  PublicationFailsClosed
CHECK_DEADLOCK FALSE
