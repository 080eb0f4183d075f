SPECIFICATION FairUserSpec
CONSTANTS
  MAXIMUM_NUMBER_OF_PROCESS = 5
  TickModulus = 2
  SleepTicks <- MCNoSleeps
  WaitPids <- MCWaitPids
  MaxPid = 6
  Commands <- MCNested
  MemoryShortage = FALSE
PROPERTIES
  KilledAreCleanedUp
