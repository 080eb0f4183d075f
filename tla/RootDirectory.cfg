SPECIFICATION DirSpec
CONSTANTS
  bytes_per_sector = 2
  sectors_per_cluster = 2
  reserved_sectors = 1
  fat_copies = 2
  sectors_per_fat = 1
  root_dir_entries = 4
  DirEntrySize = 1
  CountModulus = 4
  ReadSizes <- MCReadSize
  ReadsAtEnd = FALSE
  Entries <- MCEntries
  MaxOpen = 2
  Names <- MCNames
  LowerCase <- MCLowerCase
INVARIANTS
  ReadsLoadedClusters
  DriveIdleBetweenReads
PROPERTIES
  OpensNamedFile
  ListsDirectory
  CallsEnd
