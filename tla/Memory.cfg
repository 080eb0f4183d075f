SPECIFICATION MemSpec
CONSTANTS
  MAXIMUM_NUMBER_OF_PROCESS = 4
  TickModulus = 1
  SleepTicks <- MCNoSleeps
  WaitPids <- MCWaitPids
  MaxPid = 7
  PAGE_SIZE = 2
  l_kernel_end = 3
  PHYSICAL_MEMORY_SIZE = 60
  MEMORY_MAX_FREE_REGIONS = 4
  BiosMaps <- MCBiosMaps
INVARIANTS
  Isolated
  AddressSpaceComplete
  PagesAccountedFor
  HeapIsFreeMemory
  EnoughPages
