SPECIFICATION FairSpec
CONSTANTS
  QueueSize = 2
  MaxEvents = 4
PROPERTY
  StopEnds
CHECK_DEADLOCK FALSE
