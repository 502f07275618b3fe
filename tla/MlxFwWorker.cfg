SPECIFICATION FairSpec
CONSTANTS
  QueueSize = 2
  MaxEvents = 4
INVARIANTS
  TypeOK
  QueueInOrder
  StoppedIsQuiet
PROPERTIES
  FatalQuarantines
  QueueServed
CHECK_DEADLOCK FALSE
