SPECIFICATION Spec
CONSTANTS
  a1 = a1
  a2 = a2
  b1 = b1
  Threads = {a1, a2, b1}
  ClientOf <- MCClientOf
  MaxObjs = 3
  NSlots = 8
  EthSlots <- MCEthSlots
  Worlds <- MCWorlds
SYMMETRY MCSymmetry
INVARIANTS
  KeptUnlessAbandoned
  ApartUnlessAbandoned
  
CHECK_DEADLOCK FALSE
