SPECIFICATION FairSpec
CONSTANTS
  NumAsync = 2
  NumComp = 1
  Threshold = 3
  QueueSize = 1
INVARIANTS
  TypeOK
  RingsReleasedSafely
  ReleasedAfterDrain
  QuarantineRetains
PROPERTIES
  CleanupEndsOrStrands
  HangDetected
CHECK_DEADLOCK FALSE
