SPECIFICATION DirSpec
CONSTANTS
  bytes_per_sector = 2
  sectors_per_cluster = 2
  reserved_sectors = 1
  fat_copies = 2
  sectors_per_fat = 1
  root_dir_entries = 2
  DirEntrySize = 2
  CountModulus = 6
  ReadSizes <- MCReadSizes
  ReadsAtEnd = FALSE
  Entries <- MCInOnePiece
  MaxOpen = 2
  Names <- MCName
  LowerCase <- MCLowerCase
INVARIANT ReadsTheFile
