SPECIFICATION Spec
CONSTANTS
  Threads = {t1, t2}
  Ents = {e1, e2, e3}
  NumReg = 1
  Replies <- MCReplies
  None = None
INVARIANT
  DescriptorHasMailbox
