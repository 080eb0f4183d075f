SPECIFICATION FairKeySpec
CONSTANTS
  MAXIMUM_NUMBER_OF_PROCESS = 4
  TickModulus = 3
  SleepTicks <- MCSleepTicks
  WaitPids <- MCWaitPids
  MaxPid = 4
  BufferSize = 3
  ReadLengths <- MCLengths
  Readers <- MCOneReader
  MaxKeys = 5
INVARIANTS
  NoKeyWhileReaderSleeps
PROPERTIES
  IsKeyQueue
  KeysAreRead
