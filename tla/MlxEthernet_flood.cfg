SPECIFICATION FairSpec
CONSTANTS
  Pkts = {p1, p2, p3}
  NetThreads = {net}
  Term = term
  Traffics <- MCBothWays
  Undisturbed <- MCBothWays
  None = None
  RingSize <- MCRingSize
  Wrap <- MCWrap
PROPERTIES
  TxReturned
CHECK_DEADLOCK FALSE
