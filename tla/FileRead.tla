------------------------------ MODULE FileRead -------------------------------
(***************************************************************************)
(* What read() returns: Read, ReadRawData and ReadFileData of              *)
(* kernel/file.c down to the sectors DiskReadSectors (kernel/disk.c) takes *)
(* from the drive, for one descriptor on a file of a FAT16 image.  Module  *)
(* RootDirectory opens the file, has other descriptors on it and uses the  *)
(* same drive.                                                             *)
(*                                                                         *)
(* A byte on the disk is its address, so that it can be told which byte    *)
(* reached the user's buffer; STALE is a byte of the kernel's page that no *)
(* sector was read into.                                                   *)
(***************************************************************************)
EXTENDS Integers, Sequences

CONSTANTS
  bytes_per_sector, sectors_per_cluster, reserved_sectors, fat_copies,
  sectors_per_fat, root_dir_entries,      \* the BPB
  DirEntrySize,      \* sizeof(DirEntry), 32 in the code
  CountModulus,      \* values of the drive's sector count register, 256
  ReadSizes,         \* the sizes user code gives to read()
  ReadsAtEnd         \* whether user code reads on at the end of the file

STALE == -1
START_CLUSTER_INDEX == 2
BytesPerCluster == sectors_per_cluster * bytes_per_sector

ASSUME ReadAssumption ==
  /\ {bytes_per_sector, sectors_per_cluster, CountModulus} \subseteq Nat \ {0}
  /\ {reserved_sectors, fat_copies, sectors_per_fat, root_dir_entries,
      DirEntrySize} \subseteq Nat
  /\ ReadSizes \subseteq Nat \ {0}
  /\ ReadsAtEnd \in BOOLEAN

Slots  == 0 .. root_dir_entries - 1
NOFILE == -1

VARIABLES
  fcb,                       \* s_fcb_table, per slot of the root directory; of the
                             \* clusters the FAT gave the file the block has the first
  file,                      \* the slot our descriptor is on, or NOFILE
  position,                  \* of the descriptor
  pc,                        \* "user", "disk" in DiskReadSectors for the data,
                             \* "root" for the directory, "panic"
  size, sectors,             \* of the current read: bytes and sectors wanted
  page,                      \* what has been read into the kernel's page
  drive,                     \* the next sector of the command and how many are left
  ready,                     \* the drive's ready bit
  out                        \* the last read: position and bytes delivered

fileVars == <<fcb, file>>
readVars == <<fileVars, position, pc, size, sectors, page, drive, ready, out>>

chain     == fcb[file].chain
file_size == fcb[file].file_size

NoBytes == [position |-> 0, bytes |-> <<>>]

ReadInit ==
  /\ fcb = [k \in Slots |-> [open_count |-> 0, chain |-> <<>>, file_size |-> 0]]
  /\ file = NOFILE
  /\ position = 0 /\ pc = "user" /\ size = 0 /\ sectors = 0 /\ page = <<>>
  /\ drive = [next |-> 0, left |-> 0] /\ ready = FALSE
  /\ out = NoBytes

-----------------------------------------------------------------------------
(* Where things are on the disk.                                           *)

GetRootDirectoryStartSector == fat_copies * sectors_per_fat + reserved_sectors
GetRootDirectorySectorSize == (root_dir_entries * DirEntrySize) \div bytes_per_sector
GetDataRegionStartSector == GetRootDirectoryStartSector + GetRootDirectorySectorSize

GetNumberOfClustersStoringFileData(n) ==
  (n \div BytesPerCluster) + (IF n % BytesPerCluster # 0 THEN 1 ELSE 0)

\* The first sector of a cluster.
MutClustersFromZero(cluster) ==
  cluster * sectors_per_cluster + GetDataRegionStartSector

SectorOfCluster(cluster) ==
  (cluster - START_CLUSTER_INDEX) * sectors_per_cluster + GetDataRegionStartSector

-----------------------------------------------------------------------------
(* The drive.  A count of 0 in its register stands for CountModulus        *)
(* sectors.  While it still has sectors to hand out, a new command is      *)
(* ignored or replaces the old one.                                        *)

DriveTakes(lba, count) ==
  LET command == [next |-> lba, left |-> IF count = 0 THEN CountModulus ELSE count]
  IN  /\ drive' \in {command} \cup (IF drive.left > 0 THEN {drive} ELSE {})
      /\ ready' = (ready /\ drive' = drive)

DriveReady ==
  /\ drive.left > 0 /\ ~ ready
  /\ ready' = TRUE
  /\ UNCHANGED <<fileVars, position, pc, size, sectors, page, drive, out>>

-----------------------------------------------------------------------------
(* Reading.                                                                *)

\* At most the rest of the file.
ReadSize(n) == IF position + n > file_size THEN file_size - position ELSE n

\* Read, ReadRawData and ReadFileData up to the command to the drive.
SectorsOfClusters(clusters) == clusters * sectors_per_cluster

\* DiskReadSectors: what it writes to the register of 8 bits.
MutOneMore(n)  == (n + 1) % CountModulus
MutOneLess(n)  == (n - 1) % CountModulus
SectorCount(n) == n % CountModulus

ReadStarts(n) ==
  LET clusters == GetNumberOfClustersStoringFileData(ReadSize(n))
      first    == chain[1] + position \div BytesPerCluster
  IN  /\ pc = "user" /\ file # NOFILE /\ (position < file_size \/ ReadsAtEnd)
      /\ size' = ReadSize(n)
      /\ sectors' = SectorsOfClusters(clusters)
      /\ page' = <<>>
      /\ IF first < START_CLUSTER_INDEX          \* ASSERT
         THEN pc' = "panic" /\ UNCHANGED <<drive, ready>>
         ELSE /\ pc' = "disk"
              /\ DriveTakes(SectorOfCluster(first), SectorCount(sectors'))
      /\ UNCHANGED <<fileVars, position, out>>

\* DiskReadSectors: the next sector, when the drive is ready.
ReadSector ==
  /\ pc \in {"disk", "root"} /\ sectors > 0 /\ ready
  /\ page' = page \o [i \in 1 .. bytes_per_sector |->
                        drive.next * bytes_per_sector + i - 1]
  /\ sectors' = sectors - 1
  /\ drive' = [next |-> drive.next + 1, left |-> drive.left - 1]
  /\ ready' = FALSE
  /\ UNCHANGED <<fileVars, position, pc, size, out>>

\* DiskReadSectors looks at the ready bit again.
WaitForDrive ==
  /\ pc \in {"disk", "root"} /\ sectors > 0 /\ ~ ready
  /\ UNCHANGED readVars

\* The copy to the user's buffer and the end of Read.
Copied ==
  [i \in 1 .. size |->
     LET j == (position % BytesPerCluster) + i
     IN  IF j <= Len(page) THEN page[j] ELSE STALE]

ReadReturns ==
  /\ pc = "disk" /\ sectors = 0
  /\ out' = [position |-> position, bytes |-> Copied]
  /\ position' = position + size
  /\ pc' = "user"
  /\ UNCHANGED <<fileVars, size, sectors, page, drive, ready>>

\* Close.  The control block is not cleared.
Close ==
  /\ pc = "user" /\ file # NOFILE
  /\ fcb' = [fcb EXCEPT ![file].open_count = @ - 1]
  /\ file' = NOFILE /\ position' = 0 /\ out' = NoBytes
  /\ UNCHANGED <<pc, size, sectors, page, drive, ready>>

-----------------------------------------------------------------------------
(* Properties.                                                             *)

\* Where byte k of the file is: in the cluster the FAT's chain gives.
FileByte(k) ==
  GetDataRegionStartSector * bytes_per_sector
    + (chain[k \div BytesPerCluster + 1] - 2) * BytesPerCluster
    + (k % BytesPerCluster)

Delivers(i) == out.bytes[i] = FileByte(out.position + i - 1)

\* read() delivers the bytes of the file, also of a file whose clusters are not
\* consecutive (docs/os_concepts.md:1876: "If the data is large than 2KB we need to
\* check next cluster using FAT table.") and of one that is read in small pieces
\* (file.c: "Read the rest of file").  The code does not keep this: the first needs
\* the FAT, which ReadRawData does not use, and the second all clusters that a read
\* touches, of which it may load one too few.
ReadsTheFile == \A i \in 1 .. Len(out.bytes) : Delivers(i)

\* Byte k of the file is in the cluster in which the code looks for it.
InPlace(k) ==
  chain[k \div BytesPerCluster + 1] = chain[1] + k \div BytesPerCluster

\* What is left of it, for any file, sizes of reads and position between them: of the
\* bytes that read() delivers, those are the bytes of the file that lie in the clusters
\* ReadRawData has loaded, as many as the size makes up, and in a cluster that is as
\* far behind the first as in a file in one piece.  Of them no sector is skipped, read
\* twice or put in the wrong place.
ReadsLoadedClusters ==
  \A i \in 1 .. Len(out.bytes) :
    /\ InPlace(out.position + i - 1)
    /\ (out.position % BytesPerCluster) + i
         <= GetNumberOfClustersStoringFileData(Len(out.bytes)) * BytesPerCluster
    => Delivers(i)

\* Between two calls the drive has nothing left to hand out, wherever in the
\* directory a search ended: the number of sectors in its 8-bit register is the
\* number DiskReadSectors takes.  The next command would find it busy.
DriveIdleBetweenReads == pc = "user" => drive.left = 0

=============================================================================
