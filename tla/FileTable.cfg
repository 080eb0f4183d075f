SPECIFICATION FileSpec
CONSTANTS
  MAXIMUM_NUMBER_OF_PROCESS = 3
  TickModulus = 1
  SleepTicks <- MCNoSleeps
  WaitPids <- MCWaitPids
  MaxPid = 4
  Fds <- MCFds
  FDEntries <- MCFDEntries
  Files <- MCFiles
  FileSizes <- MCFileSizes
  ReadSizes <- MCReadSizes
INVARIANTS
  EntriesCounted
  FilesCounted
  PositionInFile
PROPERTIES
  DescriptorStable
