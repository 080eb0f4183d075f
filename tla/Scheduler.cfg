SPECIFICATION FairSpec
CONSTANTS
  MAXIMUM_NUMBER_OF_PROCESS = 4
  TickModulus = 6
  SleepTicks <- MCSleepTicks
  WaitPids <- MCWaitPids
  MaxPid = 4
INVARIANTS
  TypeOK
  ListsMatchStates
  PidsDistinct
  CallsMatchStates
  NoReaperSleeps
  NoOverdueSleeper
PROPERTIES
  RoundRobin
  KilledIsFinal
  ReadyRuns
  SleepReturns
