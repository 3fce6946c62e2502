SPECIFICATION FairSpec
CONSTANTS
  CPUs = {cpu0, cpu1}
  Loader = ld
  Devices = {cpu0, cpu1, ld}
  NumProcs = 3
  Jobs <- MCJobs
  MaxPrio = 2
  MaxQueue = 1
  TimeSlot = 2
  TimeCap = 1
  NoProc = NoProc
INVARIANTS
  NoneLost
