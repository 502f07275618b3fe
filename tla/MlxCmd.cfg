SPECIFICATION FairSpec
CONSTANTS
  Threads = {t1, t2}
  Ents = {e1, e2, e3}
  NumReg = 1
  Replies <- MCReplies
  None = None
INVARIANTS
  TypeOK
  SlotExclusion
  NoLateDma
  NoSlotLeak
  SuccessMeansAnswered
  EntArrValid
PROPERTIES
  ExecReturns
  ImplementsContract
