SPECIFICATION FairUserSpec
CONSTANTS
  MAXIMUM_NUMBER_OF_PROCESS = 5
  TickModulus = 2
  SleepTicks <- MCNoSleeps
  WaitPids <- MCWaitPids
  MaxPid = 5
  Commands <- MCAll
  MemoryShortage = TRUE
INVARIANTS
  WaitedChildExists
PROPERTIES
  PromptIsClean
  CommandEnds
