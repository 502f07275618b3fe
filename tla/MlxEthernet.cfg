SPECIFICATION FairSpec
CONSTANTS
  Pkts = {p1, p2, p3}
  NetThreads = {net}
  Term = term
  Traffics <- MCTraffics
  Undisturbed <- MCBothWays
  None = None
  RingSize <- MCRingSize
  Wrap <- MCWrap
INVARIANTS
  OnlyLateCreatesLose
  NothingOverwritten
  HandlerSafe
  RxInOrder
  OnlyRxPollOverruns
PROPERTIES
  ImplementsTxQueue
  TxReturnedUnlessFlooded
CHECK_DEADLOCK FALSE
