SPECIFICATION Spec
CONSTANTS
  Procs = {1, 2}
  Rgids = {0, 1}
  PageSz = 2
  NumFrames = 3
  NumSwap = 2
  MaxPgn = 3
  FpnRange = 8192
  SwpUnit = 32
  Values = {0, 1}
  Sizes = {1, 3}
  Offsets = {0, 3}
  CodeSize <- MCCodeSize
  Nobody = Nobody
INVARIANTS
  NoRegionLeak
CHECK_DEADLOCK FALSE
