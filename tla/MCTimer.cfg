SPECIFICATION FairSpec
CONSTANTS
  Devices = {cpu0, cpu1, ld}
  TimeCap = 2
INVARIANTS
  TypeOK
  SlotBarrier
  NoLostWakeup
  SomeoneAwake
  NoEarlyExit
  NoUseAfterFree
PROPERTIES
  NextSlotReturns
  TimerEnds
  ClockRefined
