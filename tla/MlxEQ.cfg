SPECIFICATION FairSpec
CONSTANTS
  NumAsync = 2
  NumComp = 1
  Size = 2
  CiEvery = 1
  Notifiers = {n1, n2}
  EqOf <- MCEqOf
  MaxNotifiers = 2
  MaxEvents <- MCMaxEvents
INVARIANTS
  TypeOK
  OwnerBitTells
  EqeStable
  QuietAfterSync
PROPERTIES
  EventsServed
  SyncReturns
CHECK_DEADLOCK FALSE
