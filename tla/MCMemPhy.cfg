SPECIFICATION FairSpec
CONSTANTS
  Procs = {p1, p2, p3}
  NumFrames = 4
  NumSwap = 2
  Requests = {1, 3}
  CodeSize = 2
  Nobody = Nobody
INVARIANTS
  TypeOK
  RamExclusive
  NobodyStuck
PROPERTIES
  PoolRefined
  CallsAdvance
  EveryCallReturns
