SPECIFICATION FairTurnsSpec
CONSTANTS
  CPUs = {cpu0, cpu1}
  Loader = ld
  Devices = {cpu0, cpu1, ld}
  NumProcs = 3
  Jobs <- MCJobs
  MaxPrio = 2
  MaxQueue = 3
  TimeSlot = 2
  TimeCap = 8
  NoProc = NoProc
INVARIANTS
  TypeOK
  OnePlace
  NoneLost
  NoneStranded
  WorkConserving
PROPERTIES
  AllFinish
  LifecycleRefined
  NoOvertaking
  OnePerSlot
  WholeQuantum
