SPECIFICATION FairSpec
CONSTANTS
  Pages = {p1, p2, p3}
  Functions = {f1, f2}
  Batch = 1
  MaxTracked = 3
  MaxRequest = 2
  MaxWaits = 1
INVARIANTS
  NoDmaIntoReleased
  ViewsAgree
  BoundaryIsSafe
PROPERTIES
  AmbiguousForever
  OperationEnds
CHECK_DEADLOCK FALSE
