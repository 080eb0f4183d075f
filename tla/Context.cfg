SPECIFICATION ContextSpec
CONSTANTS
  MAXIMUM_NUMBER_OF_PROCESS = 3
  TickModulus = 2
  SleepTicks <- MCSleepTicks
  WaitPids <- MCWaitPids
  MaxPid = 4
  Calls <- MCCalls
  Results <- MCResults
INVARIANTS
  UserStateSurvives
  KernelStateSurvives
  HandlerGetsCall
