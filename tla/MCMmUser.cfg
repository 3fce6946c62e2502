SPECIFICATION UserSpec
CONSTANTS
  Procs = {1, 2}
  Rgids = {0, 1}
  PageSz = 2
  NumFrames = 3
  NumSwap = 2
  MaxPgn = 3
  FpnRange = 8192
  SwpUnit = 32
  Values = {0}
  Sizes = {1, 3}
  Offsets = {3, 5}
  CodeSize <- MCLongCodeSize
  Nobody = Nobody
INVARIANTS
  TypeOK
  RegionsDisjoint
  AreaMapped
CHECK_DEADLOCK FALSE
