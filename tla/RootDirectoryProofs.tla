------------------------ MODULE RootDirectoryProofs -------------------------
(***************************************************************************)
(* Theorems about FileRead and RootDirectory, for any geometry of the      *)
(* disk, any directory and any sequence of calls, of changes by the host   *)
(* and of steps of the drive.                                              *)
(***************************************************************************)
EXTENDS RootDirectory, WellFoundedInduction, NaturalsInduction, FiniteSetTheorems,
        SequenceTheorems, TLAPS

-----------------------------------------------------------------------------
(* What the code relies on, as far as the assumptions do not say it.       *)

Clusters(n) == GetNumberOfClustersStoringFileData(n)
Smaller(m, n) == IF m < n THEN m ELSE n

\* What the host may give a file.
Contents == UNION {Entries[k].contents : k \in Slots}

\* No read has more sectors than the 8-bit register can ask for, or none at all.
RegisterHolds ==
  /\ ~ ReadsAtEnd
  /\ \A n \in ReadSizes, data \in Contents :
       SectorsOfClusters(Clusters(Smaller(n, data.size))) <= CountModulus

\* Name and extension of a file are padded with blanks and have none inside, and
\* ls shows them in lower case with a dot between.
BLANK == " "
Padded(field, text) ==
  /\ Len(text) <= Len(field)
  /\ \A i \in 1 .. Len(text) : field[i] = text[i] /\ text[i] # BLANK
  /\ \A i \in Len(text) + 1 .. Len(field) : field[i] = BLANK
InLowerCase(s) == [i \in 1 .. Len(s) |-> tolower(s[i])]
PaddedNames ==
  \A k \in Slots : Entries[k].attributes # LONG_NAME =>
    /\ Entries[k].name \in Seq(STRING) /\ Entries[k].ext \in Seq(STRING)
    /\ \E base, ext \in Seq(STRING) :
         /\ Padded(Entries[k].name, base) /\ Padded(Entries[k].ext, ext)
         /\ Entries[k].listed = InLowerCase(base \o <<".">> \o ext)

-----------------------------------------------------------------------------
(* The inductive invariants.                                               *)

\* The host's side: a file that is written has data.
HostInv ==
  /\ dir \in [Slots -> [kind : {"empty", "created", "written", "deleted"},
                        data : Contents \cup {NoData}]]
  /\ \A k \in Slots : dir[k].kind = "written" => dir[k].data \in Contents

\* The control blocks: one that is open has the clusters and the size of a file.
Of(block, data) == block.chain = data.chain /\ block.file_size = data.size
BlocksInv ==
  /\ fcb \in [Slots -> [open_count : Nat, chain : Seq(Nat), file_size : Nat]]
  /\ \A k \in Slots : fcb[k].open_count > 0 => \E data \in Contents : Of(fcb[k], data)
  /\ file \in Slots \cup {NOFILE} /\ (file # NOFILE => fcb[file].open_count > 0)

\* Where the descriptor is, and the call.
FileInv ==
  /\ BlocksInv
  /\ position \in Nat /\ size \in Nat
  /\ IF file = NOFILE THEN position = 0 ELSE position <= file_size
  /\ pc = "disk" => file # NOFILE /\ size \in 1 .. file_size - position
  /\ pc = "root" => call.op \in {"open", "lstat"}
  /\ call \in [op : {"none", "open", "lstat"}, name : Names \cup {<<>>},
               sector : 0 .. GetRootDirectorySectorSize - 1]

\* The transfer: its first sector, its length, and how far it is.
Base == IF pc = "disk" THEN SectorOfCluster(chain[1] + position \div BytesPerCluster)
        ELSE GetRootDirectoryStartSector + call.sector
Total == IF pc = "disk" THEN SectorsOfClusters(Clusters(size)) ELSE 1
Holds(from, n) ==
  /\ page \in Seq(Int) /\ Len(page) = n * bytes_per_sector
  /\ \A i \in 1 .. Len(page) : page[i] = from * bytes_per_sector + i - 1
DriveInv ==
  /\ pc \in {"user", "disk", "root"} /\ sectors \in Nat /\ ready \in BOOLEAN
  /\ drive \in [next : Nat, left : Nat] /\ (ready => drive.left > 0)
  /\ IF pc = "user" THEN drive.left = 0
     ELSE /\ drive.left = sectors
          /\ \E done \in Nat : /\ done + sectors = Total /\ drive.next = Base + done
                               /\ Holds(Base, done)

DiskInv == HostInv /\ FileInv /\ DriveInv

\* What the last read delivered, if it has not been closed and no call came after it.
ReadInv ==
  /\ out.position \in Nat
  /\ file = NOFILE \/ pc = "root" => out.bytes = <<>>
  /\ ReadsLoadedClusters

\* What the sectors before the one that is being read have shown.
Before(k) == k < call.sector * entries_per_sector
OpenInv ==
  /\ steady \subseteq Slots
  /\ pc = "root" /\ call.op = "open" =>
       /\ call.name \in Names
       /\ \A k \in steady : Before(k) => k \notin Called(call.name)

Increasing(s) == \A i, j \in 1 .. Len(s) : i < j => s[i] < s[j]
Lists(s, k) == \E i \in 1 .. Len(s) : s[i] = k
LstatInv ==
  /\ steady \subseteq Slots
  /\ pc = "root" /\ call.op = "lstat" =>
       /\ statbuf \in Seq(Slots) /\ Increasing(statbuf)
       /\ \A i \in 1 .. Len(statbuf) : Before(statbuf[i])
       /\ \A k \in steady : Before(k) => (IsFile(k) <=> Lists(statbuf, k))

-----------------------------------------------------------------------------
(* Arithmetic.                                                             *)

\* A set of natural numbers that is not empty has a least element.
LEMMA LeastNatural ==
  ASSUME NEW T, T \subseteq Nat, T # {}
  PROVE  \E x \in T : \A y \in T : x <= y
<1>1. IsWellFoundedOn(OpToRel(<, Nat), Nat)
  BY NatLessThanWellFounded, Zenon
<1>2. PICK x \in T : \A y \in T : ~ (<<y, x>> \in OpToRel(<, Nat))
  BY <1>1, WFMin, Zenon
<1>3. \A y \in T : ~ (y < x)
  BY <1>2 DEF OpToRel
<1> QED
  BY <1>3

\* Multiples of m.
LEMMA Multiples ==
  ASSUME NEW m \in Nat, NEW a \in Nat, NEW b \in Nat
  PROVE  /\ a * m \in Nat /\ (a + b) * m = a * m + b * m
         /\ (a + 1) * m = a * m + m
         /\ a <= b => a * m <= b * m
         /\ a < b => a * m + m <= b * m
<1>1. a * m \in Nat /\ b * m \in Nat /\ (a + b) * m = a * m + b * m /\ (a + 1) * m = a * m + m
  OBVIOUS
<1>2. ASSUME a <= b PROVE a * m <= b * m
  <2>1. PICK c \in Nat : b = a + c
    <3>1. b - a \in Nat /\ b = a + (b - a)
      BY <1>2
    <3> QED
      BY <3>1
  <2>2. b * m = a * m + c * m /\ c * m \in Nat
    BY <2>1
  <2> QED
    BY <1>1, <2>2
<1>3. ASSUME a < b PROVE a * m + m <= b * m
  <2>1. PICK c \in Nat : b = (a + 1) + c
    <3>1. b - (a + 1) \in Nat /\ b = (a + 1) + (b - (a + 1))
      BY <1>3
    <3> QED
      BY <3>1
  <2>2. b * m = (a + 1) * m + c * m /\ c * m \in Nat
    BY <2>1
  <2> QED
    BY <1>1, <2>2
<1> QED
  BY <1>1, <1>2, <1>3

\* Quotient and remainder.
LEMMA Division ==
  ASSUME NEW m \in Nat \ {0}, NEW a \in Nat
  PROVE  a \div m \in Nat /\ a % m \in 0 .. m - 1 /\ a = (a \div m) * m + (a % m)
OBVIOUS

\* There is one such pair.
LEMMA OneQuotient ==
  ASSUME NEW m \in Nat \ {0}, NEW q \in Nat, NEW r \in 0 .. m - 1
  PROVE  (q * m + r) \div m = q /\ (q * m + r) % m = r
<1>1. PICK a \in Nat : a = q * m + r
  BY Multiples
<1>2. PICK d \in Nat, e \in 0 .. m - 1 : d = a \div m /\ e = a % m /\ a = d * m + e
  BY Division
<1>3. d * m \in Nat /\ q * m \in Nat
  BY Multiples
<1>4. /\ d < q => d * m + m <= q * m
      /\ q < d => q * m + m <= d * m
  BY Multiples
<1>5. d = q
  BY <1>1, <1>2, <1>3, <1>4
<1>6. e = r
  BY <1>1, <1>2, <1>3, <1>5
<1> QED
  BY <1>1, <1>2, <1>5, <1>6

\* The sizes and places on the disk are natural numbers; entries fill the sectors
\* of the directory.
LEMMA Geometry ==
  /\ bytes_per_sector \in Nat \ {0} /\ sectors_per_cluster \in Nat \ {0}
  /\ BytesPerCluster \in Nat \ {0} /\ BytesPerCluster = sectors_per_cluster * bytes_per_sector
  /\ CountModulus \in Nat \ {0} /\ DirEntrySize \in Nat \ {0}
  /\ GetRootDirectoryStartSector \in Nat /\ GetRootDirectorySectorSize \in Nat \ {0}
  /\ GetDataRegionStartSector \in Nat
  /\ entries_per_sector \in Nat \ {0} /\ bytes_per_sector = entries_per_sector * DirEntrySize
  /\ root_dir_entries \in Nat
  /\ root_dir_entries = GetRootDirectorySectorSize * entries_per_sector
<1>1. /\ bytes_per_sector \in Nat \ {0} /\ sectors_per_cluster \in Nat \ {0}
      /\ CountModulus \in Nat \ {0} /\ DirEntrySize \in Nat \ {0}
      /\ reserved_sectors \in Nat /\ fat_copies \in Nat /\ sectors_per_fat \in Nat
      /\ root_dir_entries \in Nat /\ bytes_per_sector % DirEntrySize = 0
  BY ReadAssumption, DirectoryAssumption
<1>2. BytesPerCluster \in Nat \ {0} /\ BytesPerCluster = sectors_per_cluster * bytes_per_sector
  <2>1. \A s, b \in Nat \ {0} : s * b \in Nat \ {0}
    OBVIOUS
  <2> QED
    BY <1>1, <2>1 DEF BytesPerCluster
<1>3. GetRootDirectoryStartSector \in Nat
  <2>1. \A s, b \in Nat : s * b \in Nat
    OBVIOUS
  <2> QED
    BY <1>1, <2>1 DEF GetRootDirectoryStartSector
<1>4. PICK e : e = entries_per_sector
  OBVIOUS
<1>5. e \in Nat /\ bytes_per_sector = e * DirEntrySize
  BY <1>1, <1>4, Division DEF entries_per_sector
<1>6. e # 0
  BY <1>1, <1>5
<1>7. PICK N : N = GetRootDirectorySectorSize
  OBVIOUS
<1>8. N \in Nat \ {0} /\ N * bytes_per_sector = root_dir_entries * DirEntrySize
  <2>1. root_dir_entries * DirEntrySize \in Nat
    BY <1>1, Multiples
  <2>2. N \in Nat
    BY <1>1, <1>7, <2>1, Division DEF GetRootDirectorySectorSize
  <2> QED
    BY <1>7, <2>2, DirectoryAssumption
<1>9. root_dir_entries = N * e
  <2>1. PICK r \in Nat : r = root_dir_entries
    BY <1>1
  <2>2. PICK x \in Nat : x = N * e
    BY <1>5, <1>8, Multiples
  <2>3. x * DirEntrySize = r * DirEntrySize
    BY <1>1, <1>5, <1>8, <2>1, <2>2
  <2>4. x < r => x * DirEntrySize + DirEntrySize <= r * DirEntrySize
    BY <1>1, Multiples
  <2>5. r < x => r * DirEntrySize + DirEntrySize <= x * DirEntrySize
    BY <1>1, Multiples
  <2>6. r * DirEntrySize \in Nat
    BY <1>1, Multiples
  <2> QED
    BY <1>1, <2>1, <2>2, <2>3, <2>4, <2>5, <2>6
<1>10. GetDataRegionStartSector \in Nat
  BY <1>3, <1>7, <1>8 DEF GetDataRegionStartSector
<1> QED
  BY <1>1, <1>2, <1>3, <1>4, <1>5, <1>6, <1>7, <1>8, <1>9, <1>10

\* The clusters of n bytes hold n bytes, and fewer do not.
LEMMA EnoughClusters ==
  ASSUME NEW n \in Nat
  PROVE  /\ Clusters(n) \in Nat /\ n <= Clusters(n) * BytesPerCluster
         /\ \A c \in Nat : n <= c * BytesPerCluster => Clusters(n) <= c
         /\ n > 0 => Clusters(n) > 0
<1>1. PICK m \in Nat \ {0} : m = BytesPerCluster
  BY Geometry
<1>2. PICK q \in Nat, r \in 0 .. m - 1 : q = n \div m /\ r = n % m /\ n = q * m + r
  BY Division
<1>3. PICK k \in Nat : k = Clusters(n) /\ k = q + (IF r # 0 THEN 1 ELSE 0)
  BY <1>1, <1>2 DEF Clusters, GetNumberOfClustersStoringFileData
<1>4. q * m \in Nat /\ (q + 1) * m = q * m + m
  BY Multiples
<1>5. n <= k * m
  BY <1>2, <1>3, <1>4
<1>6. ASSUME NEW c \in Nat, n <= c * m PROVE k <= c
  <2>1. c < q => c * m + m <= q * m
    BY Multiples
  <2>2. c * m \in Nat
    BY Multiples
  <2>3. ~ (c < q)
    BY <1>2, <1>4, <1>6, <2>1, <2>2
  <2>4. r # 0 => c # q
    BY <1>2, <1>4, <1>6
  <2> QED
    BY <1>3, <2>3, <2>4
<1>7. n > 0 => k > 0
  <2>1. k = 0 => k * m = 0
    BY <1>3
  <2> QED
    BY <1>3, <1>5, <2>1
<1> QED
  BY <1>1, <1>3, <1>5, <1>6, <1>7

\* The register gives back a number of sectors that it can hold.
LEMMA RegisterIsExact ==
  ASSUME NEW s \in 1 .. CountModulus
  PROVE  (IF SectorCount(s) = 0 THEN CountModulus ELSE SectorCount(s)) = s
<1>1. PICK M \in Nat \ {0} : M = CountModulus
  BY Geometry
<1>2. CASE s = M
  <2>1. M = 1 * M + 0 /\ 0 \in 0 .. M - 1
    OBVIOUS
  <2>2. M % M = 0
    BY <2>1, OneQuotient
  <2> QED
    BY <1>1, <1>2, <2>2 DEF SectorCount
<1>3. CASE s # M
  <2>1. s = 0 * M + s /\ s \in 0 .. M - 1
    BY <1>1, <1>3
  <2>2. s % M = s
    BY <2>1, OneQuotient
  <2> QED
    BY <1>1, <2>2 DEF SectorCount
<1> QED
  BY <1>2, <1>3

-----------------------------------------------------------------------------
(* The drive and the files: DiskInv is preserved.                          *)

\* A set of natural numbers has a first one, which First takes.
LEMMA FirstIsLeast ==
  ASSUME NEW S, S \subseteq Nat, S # {}
  PROVE  First(S) \in S /\ \A y \in S : First(S) <= y
<1>1. \E x \in S : \A y \in S : x <= y
  BY LeastNatural
<1> QED
  BY <1>1 DEF First

\* An idle drive takes the command, and gets the count it is meant to get.
LEMMA IdleDriveTakes ==
  ASSUME drive.left = 0, ready = FALSE, NEW lba, NEW s \in 1 .. CountModulus,
         DriveTakes(lba, SectorCount(s))
  PROVE  drive' = [next |-> lba, left |-> s] /\ ready' = FALSE
<1>1. (IF SectorCount(s) = 0 THEN CountModulus ELSE SectorCount(s)) = s
  BY RegisterIsExact
<1>2. drive' = [next |-> lba, left |-> s]
  BY <1>1 DEF DriveTakes
<1>3. ready' = FALSE
  BY DEF DriveTakes
<1> QED
  BY <1>2, <1>3

\* At the beginning of a transfer nothing has been read.
LEMMA NothingRead ==
  ASSUME page' = <<>>
  PROVE  Holds(Base, 0)'
<1>1. 0 * bytes_per_sector = 0
  BY Geometry
<1> QED
  BY <1>1 DEF Holds

\* A transfer that begins is as far as DriveInv says.
LEMMA TransferBegins ==
  ASSUME pc' \in {"disk", "root"}, sectors' \in Nat, ready' = FALSE, Holds(Base, 0)',
         drive' = [next |-> Base', left |-> sectors'], Base' \in Nat, sectors' = Total'
  PROVE  DriveInv'
<1> DEFINE B == Base'
           T == Total'
<1>0. B \in Nat /\ T \in Nat /\ sectors' = T /\ drive' = [next |-> B, left |-> T]
  OBVIOUS
<1> HIDE DEF B, T
<1>1. /\ drive' \in [next : Nat, left : Nat] /\ drive'.left = sectors'
      /\ drive'.next = B + 0 /\ 0 + sectors' = T /\ ready' \in BOOLEAN
  <2>1. drive'.left = T /\ drive'.next = B /\ B + 0 = B /\ 0 + T = T
    BY <1>0
  <2>2. drive' \in [next : Nat, left : Nat]
    BY <1>0
  <2>3. ready' \in BOOLEAN
    OBVIOUS
  <2> QED
    BY <1>0, <2>1, <2>2, <2>3
<1>2. \E done \in Nat : done + sectors' = Total' /\ drive'.next = Base' + done
                        /\ Holds(Base, done)'
  BY <1>1 DEF B, T
<1> QED
  BY <1>1, <1>2 DEF DriveInv

\* What FileInv depends on.
LEMMA FileFrame ==
  ASSUME FileInv, UNCHANGED <<fcb, file, position, size, pc, call>>
  PROVE  FileInv'
BY DEF FileInv, BlocksInv, Of, file_size

\* What DriveInv depends on.
LEMMA DriveFrame ==
  ASSUME DriveInv,
         UNCHANGED <<fcb, file, position, size, pc, call, sectors, ready, drive, page>>
  PROVE  DriveInv'
BY DEF DriveInv, Base, Total, Holds, chain

\* NOFILE is not a slot.
LEMMA SlotsAreNatural == Slots \subseteq Nat /\ NOFILE \notin Slots
BY Geometry DEF Slots, NOFILE

\* What the host may write has clusters that are on the disk, and enough of them.
LEMMA ContentsAreData ==
  ASSUME NEW data \in Contents
  PROVE  /\ data.chain \in Seq({c \in Nat : c >= START_CLUSTER_INDEX})
         /\ data.chain \in Seq(Nat) /\ data.size \in Nat \ {0}
         /\ data.size <= Len(data.chain) * BytesPerCluster
<1>1. PICK k \in Slots : data \in Entries[k].contents
  BY DEF Contents
<1>2. /\ data.chain \in Seq({c \in Nat : c >= START_CLUSTER_INDEX})
      /\ data.size \in 1 .. Len(data.chain) * BytesPerCluster
  BY <1>1, DirectoryAssumption
<1>3. data.chain \in Seq(Nat) /\ Len(data.chain) \in Nat
  BY <1>2
<1>4. Len(data.chain) * BytesPerCluster \in Nat
  BY <1>3, Geometry, Multiples
<1> QED
  BY <1>2, <1>3, <1>4

\* DiskInv holds at the start.
LEMMA DiskInit == DirInit => DiskInv
<1> SUFFICES ASSUME DirInit PROVE DiskInv
  OBVIOUS
<1>1. HostInv
  BY DEF DirInit, HostInv
<1>2. FileInv
  <2>1. 0 \in 0 .. GetRootDirectorySectorSize - 1
    BY Geometry
  <2> QED
    BY <2>1, SlotsAreNatural DEF DirInit, ReadInit, FileInv, BlocksInv, NoCall, NOFILE
<1>3. DriveInv
  BY DEF DirInit, ReadInit, DriveInv
<1> QED
  BY <1>1, <1>2, <1>3 DEF DiskInv

\* What the host does to a slot.
LEMMA HostPreservesDisk ==
  ASSUME DiskInv, Host
  PROVE  DiskInv'
<1>1. PICK k \in Slots, kind \in {"created", "written", "deleted"},
           data \in Contents \cup {NoData} :
        /\ HostTouches(k, kind, data)
        /\ kind = "written" => data \in Contents
  <2>1. PICK k \in Slots : \/ HostCreates(k) \/ HostDeletes(k)
                           \/ \E data \in Entries[k].contents : HostWrites(k, data)
    BY DEF Host
  <2>2. CASE HostCreates(k)
    <3>1. HostTouches(k, "created", NoData)
      BY <2>2 DEF HostCreates
    <3> QED
      BY <3>1
  <2>3. CASE HostDeletes(k)
    <3>1. HostTouches(k, "deleted", NoData)
      BY <2>3 DEF HostDeletes
    <3> QED
      BY <3>1
  <2>4. CASE \E data \in Entries[k].contents : HostWrites(k, data)
    <3>1. PICK data \in Entries[k].contents : HostWrites(k, data)
      BY <2>4
    <3>2. HostTouches(k, "written", data) /\ data \in Contents
      BY <3>1 DEF HostWrites, Contents
    <3> QED
      BY <3>2
  <2> QED
    BY <2>1, <2>2, <2>3, <2>4
<1>2. /\ dir' = [dir EXCEPT ![k] = [kind |-> kind, data |-> data]]
      /\ UNCHANGED <<readVars, call>>
  BY <1>1 DEF HostTouches
<1>3. HostInv'
  BY <1>1, <1>2 DEF DiskInv, HostInv
<1>4. FileInv'
  BY <1>2, FileFrame DEF DiskInv, readVars, fileVars
<1>5. DriveInv'
  BY <1>2, DriveFrame DEF DiskInv, readVars, fileVars
<1> QED
  BY <1>3, <1>4, <1>5 DEF DiskInv

\* A sector of the directory is asked for.
LEMMA DirectorySectorPreservesDisk ==
  ASSUME DiskInv, drive.left = 0, NEW s \in 0 .. GetRootDirectorySectorSize - 1,
         ReadDirectorySector(s), call'.sector = s,
         call' \in [op : {"open", "lstat"}, name : Names \cup {<<>>},
                    sector : 0 .. GetRootDirectorySectorSize - 1]
  PROVE  DiskInv'
<1>1. /\ pc' = "root" /\ sectors' = 1 /\ page' = <<>>
      /\ UNCHANGED <<fileVars, position, size, dir>>
      /\ DriveTakes(GetRootDirectoryStartSector + s, SectorCount(1))
  BY DEF ReadDirectorySector
<1>2. GetRootDirectoryStartSector \in Nat /\ 1 \in 1 .. CountModulus
  BY Geometry
<1>3. ready = FALSE
  BY DEF DiskInv, DriveInv
<1>4. drive' = [next |-> GetRootDirectoryStartSector + s, left |-> 1] /\ ready' = FALSE
  BY <1>1, <1>2, <1>3, IdleDriveTakes
<1>5. HostInv'
  BY <1>1 DEF DiskInv, HostInv
<1>6. FileInv'
  BY <1>1 DEF DiskInv, FileInv, BlocksInv, Of, file_size, fileVars
<1>7. DriveInv'
  <2>1. Base' = GetRootDirectoryStartSector + s /\ Total' = 1
    BY <1>1 DEF Base, Total
  <2>2. Holds(Base, 0)'
    BY <1>1, NothingRead
  <2>3. /\ sectors' = Total' /\ sectors' \in Nat /\ Base' \in Nat
        /\ drive' = [next |-> Base', left |-> sectors']
    BY <1>1, <1>2, <1>4, <2>1
  <2> QED
    BY <1>1, <1>4, <2>2, <2>3, TransferBegins
<1> QED
  BY <1>5, <1>6, <1>7 DEF DiskInv

\* A call begins.
LEMMA CallStartsPreservesDisk ==
  ASSUME DiskInv, NEW op \in {"open", "lstat"}, NEW name \in Names \cup {<<>>},
         CallStarts(op, name)
  PROVE  DiskInv'
<1>1. /\ pc = "user" /\ ReadDirectorySector(0)
      /\ call' = [op |-> op, name |-> name, sector |-> 0]
  BY DEF CallStarts
<1>2. drive.left = 0 /\ 0 \in 0 .. GetRootDirectorySectorSize - 1
  BY <1>1, Geometry DEF DiskInv, DriveInv
<1>3. /\ call'.sector = 0
      /\ call' \in [op : {"open", "lstat"}, name : Names \cup {<<>>},
                    sector : 0 .. GetRootDirectorySectorSize - 1]
  BY <1>1, <1>2
<1> QED
  BY <1>1, <1>2, <1>3, DirectorySectorPreservesDisk

\* The sector that is searched is one of the directory.
LEMMA SectorOfDirectory ==
  ASSUME DiskInv
  PROVE  call.sector \in Nat /\ call.sector < GetRootDirectorySectorSize
<1>1. call.sector \in 0 .. GetRootDirectorySectorSize - 1
  BY DEF DiskInv, FileInv
<1> QED
  BY <1>1, Geometry

\* The search goes on in the next sector.
LEMMA NextSectorPreservesDisk ==
  ASSUME DiskInv, SearchedSector, NextSector
  PROVE  DiskInv'
<1>1. /\ pc = "root" /\ sectors = 0 /\ ~ LastSector
      /\ call' = [call EXCEPT !.sector = @ + 1] /\ ReadDirectorySector(call.sector + 1)
      /\ call.op \in {"open", "lstat"}
  BY DEF SearchedSector, NextSector, DiskInv, FileInv
<1>2. drive.left = 0
  BY <1>1 DEF DiskInv, DriveInv
<1>3. /\ call \in [op : {"none", "open", "lstat"}, name : Names \cup {<<>>},
                   sector : 0 .. GetRootDirectorySectorSize - 1]
  BY DEF DiskInv, FileInv
<1>4. call.sector + 1 \in 0 .. GetRootDirectorySectorSize - 1
  <2>1. PICK s, N \in Nat : s = call.sector /\ N = GetRootDirectorySectorSize /\ s < N
    BY SectorOfDirectory, Geometry
  <2>2. s # N - 1
    BY <1>1, <2>1 DEF LastSector
  <2> QED
    BY <2>1, <2>2
<1>5. /\ call'.sector = call.sector + 1
      /\ call' \in [op : {"open", "lstat"}, name : Names \cup {<<>>},
                    sector : 0 .. GetRootDirectorySectorSize - 1]
  BY <1>1, <1>3, <1>4
<1> QED
  BY <1>1, <1>2, <1>4, <1>5, DirectorySectorPreservesDisk

\* A descriptor more on a control block: it has the data of the entry, or keeps its own.
LEMMA LinkedIsBlock ==
  ASSUME NEW block \in [open_count : Nat, chain : Seq(Nat), file_size : Nat],
         NEW data \in Contents
  PROVE  /\ Linked(block, data) \in [open_count : Nat, chain : Seq(Nat), file_size : Nat]
         /\ Linked(block, data).open_count = block.open_count + 1
         /\ block.open_count = 0 => Of(Linked(block, data), data)
         /\ block.open_count > 0 => /\ Linked(block, data).chain = block.chain
                                    /\ Linked(block, data).file_size = block.file_size
<1>1. data.chain \in Seq(Nat) /\ data.size \in Nat
  BY ContentsAreData
<1>2. CASE block.open_count = 0
  <2>1. Linked(block, data)
          = [open_count |-> 1, chain |-> data.chain, file_size |-> data.size]
    BY <1>2 DEF Linked
  <2> QED
    BY <1>1, <1>2, <2>1 DEF Of
<1>3. CASE block.open_count # 0
  <2>1. Linked(block, data) = [block EXCEPT !.open_count = @ + 1]
    BY <1>3 DEF Linked
  <2> QED
    BY <1>3, <2>1
<1> QED
  BY <1>2, <1>3

\* The control blocks after an open().
FileLinked(k, data) ==
  /\ fcb' = [fcb EXCEPT ![k] = Linked(@, data)]
  /\ IF file = NOFILE THEN file' = k /\ position' = 0 ELSE UNCHANGED <<file, position>>
LEMMA LinkingPreservesBlocks ==
  ASSUME BlocksInv, NEW k \in Slots, NEW data \in Contents, FileLinked(k, data)
  PROVE  /\ BlocksInv' /\ file' # NOFILE
         /\ \A l \in Slots : fcb[l].open_count > 0 =>
              fcb'[l].chain = fcb[l].chain /\ fcb'[l].file_size = fcb[l].file_size
         /\ fcb'[k].open_count = fcb[k].open_count + 1
         /\ fcb[k].open_count = 0 => Of(fcb'[k], data)
<1>1. PICK new : new = Linked(fcb[k], data)
  OBVIOUS
<1>2. fcb' = [fcb EXCEPT ![k] = new]
  BY <1>1 DEF FileLinked
<1>3. fcb \in [Slots -> [open_count : Nat, chain : Seq(Nat), file_size : Nat]]
  BY DEF BlocksInv
<1>4. fcb[k] \in [open_count : Nat, chain : Seq(Nat), file_size : Nat]
  BY <1>3
<1>5. /\ new \in [open_count : Nat, chain : Seq(Nat), file_size : Nat]
      /\ new.open_count = fcb[k].open_count + 1
      /\ fcb[k].open_count = 0 => Of(new, data)
      /\ fcb[k].open_count > 0 => /\ new.chain = fcb[k].chain
                                  /\ new.file_size = fcb[k].file_size
  BY <1>1, <1>4, LinkedIsBlock
<1>6. fcb' \in [Slots -> [open_count : Nat, chain : Seq(Nat), file_size : Nat]]
  BY <1>2, <1>3, <1>5
<1>7. fcb'[k] = new /\ \A l \in Slots \ {k} : fcb'[l] = fcb[l]
  BY <1>2, <1>3
<1>8. ASSUME NEW l \in Slots, fcb'[l].open_count > 0
      PROVE  \E d \in Contents : Of(fcb'[l], d)
  <2>1. CASE l # k
    BY <1>7, <1>8, <2>1 DEF BlocksInv
  <2>2. CASE l = k /\ fcb[k].open_count = 0
    BY <1>5, <1>7, <2>2
  <2>3. CASE l = k /\ fcb[k].open_count # 0
    <3>1. fcb[k].open_count > 0
      BY <1>4, <2>3
    <3>2. PICK d \in Contents : Of(fcb[k], d)
      BY <3>1 DEF BlocksInv
    <3> QED
      BY <1>5, <1>7, <2>3, <3>1, <3>2 DEF Of
  <2> QED
    BY <2>1, <2>2, <2>3
<1>9. file' \in Slots /\ fcb'[file'].open_count > 0
  <2>1. new.open_count > 0
    BY <1>4, <1>5
  <2>2. CASE file = NOFILE
    BY <1>7, <2>1, <2>2 DEF FileLinked
  <2>3. CASE file # NOFILE
    BY <1>7, <2>1, <2>3 DEF FileLinked, BlocksInv
  <2> QED
    BY <2>2, <2>3
<1>10. BlocksInv' /\ file' # NOFILE
  BY <1>6, <1>8, <1>9, SlotsAreNatural DEF BlocksInv
<1> QED
  BY <1>5, <1>7, <1>10

\* A call returns: with the file it found, or without one.
LEMMA CallReturnsPreservesDisk ==
  ASSUME DiskInv, SearchedSector, CallReturns,
         \/ UNCHANGED <<fileVars, position>>
         \/ \E k \in Slots, data \in Contents : FileLinked(k, data)
  PROVE  DiskInv'
<1>1. /\ pc = "root" /\ sectors = 0 /\ pc' = "user" /\ call' = NoCall
      /\ UNCHANGED <<size, sectors, page, drive, ready, out, dir>>
  BY DEF SearchedSector, CallReturns
<1>2. HostInv'
  BY <1>1 DEF DiskInv, HostInv
<1>3. DriveInv'
  BY <1>1 DEF DiskInv, DriveInv
<1>4. NoCall \in [op : {"none", "open", "lstat"}, name : Names \cup {<<>>},
                  sector : 0 .. GetRootDirectorySectorSize - 1]
  BY Geometry DEF NoCall
<1>5. FileInv'
  <2>1. CASE UNCHANGED <<fileVars, position>>
    BY <1>1, <1>4, <2>1 DEF DiskInv, FileInv, BlocksInv, Of, file_size, fileVars
  <2>2. CASE \E k \in Slots, data \in Contents : FileLinked(k, data)
    <3>1. PICK k \in Slots, data \in Contents : FileLinked(k, data)
      BY <2>2
    <3>2. /\ BlocksInv /\ position \in Nat /\ size \in Nat
          /\ file # NOFILE => position <= file_size
      BY DEF DiskInv, FileInv
    <3>3. /\ BlocksInv' /\ file' # NOFILE
          /\ \A l \in Slots : fcb[l].open_count > 0 => fcb'[l].file_size = fcb[l].file_size
      BY <3>1, <3>2, LinkingPreservesBlocks
    <3>4. position' \in Nat /\ position' <= file_size'
      <4>1. CASE file = NOFILE
        <5>1. position' = 0
          BY <3>1, <4>1 DEF FileLinked
        <5>2. file_size' \in Nat
          BY <3>3 DEF BlocksInv, file_size
        <5> QED
          BY <5>1, <5>2
      <4>2. CASE file # NOFILE
        <5>1. file' = file /\ position' = position
          BY <3>1, <4>2 DEF FileLinked
        <5>2. file_size' = file_size
          BY <3>2, <3>3, <4>2, <5>1 DEF BlocksInv, file_size
        <5> QED
          BY <3>2, <4>2, <5>1, <5>2
      <4> QED
        BY <4>1, <4>2
    <3> QED
      BY <1>1, <1>4, <3>2, <3>3, <3>4 DEF FileInv
  <2> QED
    BY <2>1, <2>2
<1> QED
  BY <1>2, <1>3, <1>5 DEF DiskInv

\* The page holds the entries of the sector that was asked for.
LEMMA SlotOfEntry ==
  ASSUME DiskInv, SearchedSector, NEW j \in 0 .. entries_per_sector - 1
  PROVE  /\ SlotInPage(j) = EntryIndex(call.sector, j) /\ SlotInPage(j) \in Slots
         /\ SlotInPage(j) = call.sector * entries_per_sector + j
<1>1. pc = "root" /\ sectors = 0
  BY DEF SearchedSector
<1>2. PICK R, N, e, d, b, s \in Nat :
        /\ R = GetRootDirectoryStartSector /\ N = GetRootDirectorySectorSize
        /\ e = entries_per_sector /\ d = DirEntrySize /\ d # 0 /\ b = bytes_per_sector
        /\ b = e * d /\ root_dir_entries = N * e /\ s = call.sector /\ s < N
  BY Geometry, SectorOfDirectory
<1>3. page \in Seq(Int) /\ Len(page) = b /\ \A i \in 1 .. b : page[i] = (R + s) * b + i - 1
  <2>1. \E done \in Nat : done + 0 = 1 /\ Holds(R + s, done)
    BY <1>1, <1>2 DEF DiskInv, DriveInv, Base, Total
  <2>2. Holds(R + s, 1) /\ 1 * b = b
    BY <2>1
  <2> QED
    BY <1>2, <2>2 DEF Holds
<1>4. PICK o \in Nat : o = j * d /\ o + d <= b
  BY <1>2, Multiples
<1>5. o + 1 \in 1 .. b
  BY <1>2, <1>4
<1>6. page[o + 1] = (R + s) * b + o
  <2>1. page[o + 1] = (R + s) * b + (o + 1) - 1
    BY <1>3, <1>5
  <2>2. (R + s) * b \in Nat
    BY Multiples
  <2> QED
    BY <2>1, <2>2
<1>7. PICK x \in Nat : x = s * e + j
  BY Multiples, <1>2
<1>8. page[o + 1] - R * b = x * d + 0
  <2>1. (R + s) * b = R * b + s * b /\ R * b \in Nat /\ s * b \in Nat
    BY Multiples
  <2>2. s * b = (s * e) * d
    BY <1>2
  <2>3. PICK y \in Nat : y = s * e
    BY Multiples
  <2>4. j \in Nat
    BY <1>2
  <2>5. (y + j) * d = y * d + j * d
    BY <2>4, Multiples
  <2>6. x * d = s * b + o /\ x * d \in Nat
    BY <1>4, <1>7, <2>2, <2>3, <2>5, Multiples
  <2> QED
    BY <1>6, <2>1, <2>6
<1>9. SlotInPage(j) = x
  <2>1. 0 \in 0 .. d - 1 /\ d \in Nat \ {0}
    BY <1>2
  <2>2. (x * d + 0) \div d = x
    BY <2>1, OneQuotient
  <2> QED
    BY <1>2, <1>4, <1>8, <2>2 DEF SlotInPage
<1>10. x \in Slots
  <2>1. s * e + e <= N * e /\ s * e \in Nat /\ N * e \in Nat
    BY <1>2, Multiples
  <2> QED
    BY <1>2, <1>7, <2>1 DEF Slots
<1> QED
  BY <1>2, <1>7, <1>9, <1>10 DEF EntryIndex

\* What open() finds is a slot in use, and the entry is not one without data.
LEMMA FoundIsFile ==
  ASSUME DiskInv, NEW j \in Found
  PROVE  /\ j \in 0 .. entries_per_sector - 1 /\ SlotInPage(j) \in Slots
         /\ IsFile(SlotInPage(j))
         /\ SameIgnoringCase(call.name, GetRelativeFileName(SlotInPage(j)))
<1>1. /\ j \in 0 .. entries_per_sector - 1 /\ SlotInPage(j) \in Slots
      /\ dir[SlotInPage(j)].kind \notin {"empty", "deleted"}
      /\ Entries[SlotInPage(j)].attributes # LONG_NAME
      /\ SameIgnoringCase(call.name, GetRelativeFileName(SlotInPage(j)))
  BY DEF Found, Listed
<1>2. dir[SlotInPage(j)].kind \in {"empty", "created", "written", "deleted"}
  BY <1>1 DEF DiskInv, HostInv
<1> QED
  BY <1>1, <1>2 DEF IsFile, InUse

\* The search of the directory.
LEMMA SearchPreservesDisk ==
  ASSUME DiskInv, Search
  PROVE  DiskInv'
<1>1. CASE OpenFindsFile
  <2>1. SearchedSector /\ CallReturns /\ Found # {} /\ OpenEntry(First(Found))
    BY <1>1 DEF OpenFindsFile
  <2>2. Found \subseteq Nat
    BY Geometry DEF Found, Listed
  <2>3. PICK j \in Found : j = First(Found)
    BY <2>1, <2>2, FirstIsLeast
  <2>4. SlotInPage(j) \in Slots /\ IsFile(SlotInPage(j))
    BY FoundIsFile
  <2>5. CASE dir[SlotInPage(j)].kind = "created"
    BY <2>1, <2>3, <2>5, CallReturnsPreservesDisk DEF OpenEntry
  <2>6. CASE dir[SlotInPage(j)].kind # "created"
    <3>1. PICK k \in Slots : k = EntryIndex(call.sector, j) /\ k = SlotInPage(j)
      BY <2>1, <2>3, FoundIsFile, SlotOfEntry
    <3>2. dir[k].kind = "written" /\ dir[k].data \in Contents
      BY <2>4, <2>6, <3>1 DEF IsFile, InUse, DiskInv, HostInv
    <3>3. FileLinked(k, dir[k].data)
      BY <2>1, <2>3, <2>6, <3>1 DEF OpenEntry, FileLinked
    <3> QED
      BY <2>1, <3>2, <3>3, CallReturnsPreservesDisk
  <2> QED
    BY <2>5, <2>6
<1>2. CASE OpenGoesOn
  BY <1>2, NextSectorPreservesDisk DEF OpenGoesOn
<1>3. CASE OpenFindsNothing
  BY <1>3, CallReturnsPreservesDisk DEF OpenFindsNothing
<1>4. CASE LstatGoesOn
  BY <1>4, NextSectorPreservesDisk DEF LstatGoesOn
<1>5. CASE LstatReturns
  BY <1>5, CallReturnsPreservesDisk DEF LstatReturns
<1> QED
  BY <1>1, <1>2, <1>3, <1>4, <1>5 DEF Search

\* The open file: its first cluster has a sector, and it is as long as its size says.
LEMMA OpenFile ==
  ASSUME FileInv, file # NOFILE
  PROVE  /\ chain \in Seq(Nat) /\ Len(chain) \in Nat \ {0}
         /\ chain[1] \in Nat /\ chain[1] >= START_CLUSTER_INDEX
         /\ \E data \in Contents : chain = data.chain /\ file_size = data.size
         /\ file_size \in Nat \ {0}
         /\ file_size <= Len(chain) * BytesPerCluster
<1>1. PICK data \in Contents : chain = data.chain /\ file_size = data.size
  BY DEF FileInv, BlocksInv, Of, chain, file_size
<1>2. /\ chain \in Seq({c \in Nat : c >= START_CLUSTER_INDEX}) /\ chain \in Seq(Nat)
      /\ file_size \in Nat \ {0} /\ file_size <= Len(chain) * BytesPerCluster
  BY <1>1, ContentsAreData
<1>3. Len(chain) # 0
  <2> SUFFICES ASSUME Len(chain) = 0 PROVE FALSE
    OBVIOUS
  <2>1. Len(chain) * BytesPerCluster = 0
    BY Geometry
  <2> QED
    BY <1>2, <2>1
<1>4. Len(chain) \in Nat \ {0}
  BY <1>2, <1>3
<1>5. chain[1] \in {c \in Nat : c >= START_CLUSTER_INDEX}
  BY <1>2, <1>4, ElementOfSeq
<1> QED
  BY <1>1, <1>2, <1>4, <1>5

\* Where a cluster begins.
LEMMA ClusterPlace ==
  ASSUME NEW c \in Nat, c >= START_CLUSTER_INDEX
  PROVE  /\ SectorOfCluster(c) \in Nat
         /\ SectorOfCluster(c) * bytes_per_sector
              = GetDataRegionStartSector * bytes_per_sector
                  + (c - START_CLUSTER_INDEX) * BytesPerCluster
<1>1. PICK d \in Nat : d = c - START_CLUSTER_INDEX
  BY DEF START_CLUSTER_INDEX
<1>2. PICK s, b, D \in Nat : /\ s = sectors_per_cluster /\ b = bytes_per_sector
                             /\ D = GetDataRegionStartSector /\ BytesPerCluster = s * b
  BY Geometry
<1>3. SectorOfCluster(c) = d * s + D
  BY <1>1, <1>2 DEF SectorOfCluster
<1>4. PICK x \in Nat : x = d * s
  BY Multiples
<1>5. (x + D) * b = x * b + D * b
  BY Multiples
<1>6. x * b = d * (s * b)
  BY <1>4
<1>7. x * b \in Nat /\ D * b \in Nat
  BY Multiples
<1> QED
  BY <1>1, <1>2, <1>3, <1>4, <1>5, <1>6, <1>7

\* read() begins.  It asks for at most what the register holds, and its clusters
\* are on the disk, so the ASSERT does not fail.
LEMMA ReadStartsPreservesDisk ==
  ASSUME RegisterHolds, DiskInv, NEW n \in ReadSizes, ReadStarts(n),
         UNCHANGED <<dir, searchVars>>
  PROVE  DiskInv' /\ size' = ReadSize(n)
<1>1. /\ pc = "user" /\ file # NOFILE /\ position < file_size
      /\ size' = ReadSize(n) /\ page' = <<>> /\ UNCHANGED <<fileVars, position, out>>
  BY DEF ReadStarts, RegisterHolds
<1>2. HostInv /\ FileInv /\ DriveInv
  BY DEF DiskInv
<1>3. /\ chain[1] \in Nat /\ chain[1] >= START_CLUSTER_INDEX
      /\ file_size \in Nat \ {0}
      /\ \E data \in Contents : file_size = data.size
  BY <1>1, <1>2, OpenFile
<1>4. position \in Nat /\ n \in Nat \ {0} /\ position \div BytesPerCluster \in Nat
  <2>1. position \in Nat
    BY <1>2, <1>3 DEF FileInv
  <2>2. BytesPerCluster \in Nat \ {0}
    BY Geometry
  <2>3. position \div BytesPerCluster \in Nat
    BY <2>1, <2>2, Division
  <2> QED
    BY <2>1, <2>3, ReadAssumption
<1>5. PICK first \in Nat : /\ first = chain[1] + position \div BytesPerCluster
                           /\ first >= START_CLUSTER_INDEX
  BY <1>3, <1>4 DEF START_CLUSTER_INDEX
<1>6. PICK m \in Nat \ {0} :
        m = size' /\ m <= file_size - position /\ m <= Smaller(n, file_size)
  <2>1. PICK p, f \in Nat : p = position /\ f = file_size /\ p < f
    BY <1>1, <1>3, <1>4
  <2>2. size' = IF p + n > f THEN f - p ELSE n
    BY <1>1, <2>1 DEF ReadSize
  <2>3. CASE p + n > f
    <3>1. f - p \in Nat \ {0} /\ f - p <= n /\ f - p <= f
      BY <1>4, <2>1, <2>3
    <3> QED
      BY <2>1, <2>2, <2>3, <3>1 DEF Smaller
  <2>4. CASE ~ (p + n > f)
    <3>1. n <= f - p /\ n <= f
      BY <1>4, <2>1, <2>4
    <3> QED
      BY <1>4, <2>1, <2>2, <2>4, <3>1 DEF Smaller
  <2> QED
    BY <2>3, <2>4
<1>7. PICK s : s = sectors'
  OBVIOUS
<1>8. s = SectorsOfClusters(Clusters(m))
  BY <1>6, <1>7, <1>1 DEF ReadStarts, Clusters
<1>9. pc' = "disk" /\ DriveTakes(SectorOfCluster(first), SectorCount(s))
  BY <1>3, <1>4, <1>5, <1>7 DEF ReadStarts, START_CLUSTER_INDEX
<1>10. s \in 1 .. CountModulus
  <2>1. PICK a, b \in Nat : a = Clusters(m) /\ b = Clusters(Smaller(n, file_size))
    BY <1>3, <1>4, EnoughClusters DEF Smaller
  <2>2. a > 0 /\ a <= b
    <3>1. Smaller(n, file_size) \in Nat
      BY <1>3, <1>4 DEF Smaller
    <3>2. Smaller(n, file_size) <= b * BytesPerCluster
      BY <2>1, <3>1, EnoughClusters
    <3>3. b * BytesPerCluster \in Nat
      BY Geometry, Multiples
    <3>4. m <= b * BytesPerCluster
      BY <1>6, <3>1, <3>2, <3>3
    <3> QED
      BY <2>1, <3>4, EnoughClusters
  <2>3. PICK c \in Nat \ {0} : c = sectors_per_cluster
    BY Geometry
  <2>4. b * c <= CountModulus
    BY <1>3, <2>1, <2>3 DEF RegisterHolds, SectorsOfClusters
  <2>5. a * c <= b * c /\ a * c \in Nat /\ b * c \in Nat
    BY <2>2, Multiples
  <2>6. 0 * c + c <= a * c /\ 0 * c = 0
    BY <2>2, Multiples
  <2>7. s = a * c
    BY <1>8, <2>1, <2>3 DEF SectorsOfClusters
  <2> QED
    BY <2>3, <2>4, <2>5, <2>6, <2>7, Geometry
<1>11. drive.left = 0 /\ ready = FALSE
  BY <1>1, <1>2 DEF DriveInv
<1>12. drive' = [next |-> SectorOfCluster(first), left |-> s] /\ ready' = FALSE
  BY <1>9, <1>10, <1>11, IdleDriveTakes
<1>13. HostInv'
  BY <1>2 DEF HostInv
<1>14. FileInv'
  <2>1. m \in 1 .. file_size - position
    BY <1>3, <1>4, <1>6
  <2> QED
    BY <1>1, <1>2, <1>6, <1>9, <2>1
       DEF FileInv, BlocksInv, Of, file_size, fileVars, searchVars
<1>15. DriveInv'
  <2>1. Base' = SectorOfCluster(first) /\ Total' = s
    BY <1>1, <1>5, <1>6, <1>8, <1>9 DEF Base, Total, fileVars, chain
  <2>2. SectorOfCluster(first) \in Nat
    BY <1>5, ClusterPlace
  <2>3. Holds(Base, 0)'
    BY <1>1, NothingRead
  <2>4. s \in Nat
    BY <1>10
  <2> QED
    BY <1>7, <1>9, <1>12, <2>1, <2>2, <2>3, <2>4, TransferBegins
<1> QED
  BY <1>1, <1>13, <1>14, <1>15 DEF DiskInv

\* The first sector of a transfer is a sector.
LEMMA BaseIsSector ==
  ASSUME DiskInv, pc \in {"disk", "root"}
  PROVE  Base \in Nat
<1>1. CASE pc = "root"
  BY <1>1, Geometry DEF DiskInv, FileInv, Base
<1>2. CASE pc = "disk"
  <2>1. file # NOFILE /\ FileInv
    BY <1>2 DEF DiskInv, FileInv
  <2>2. chain[1] \in Nat /\ chain[1] >= START_CLUSTER_INDEX /\ file_size \in Nat
    BY <2>1, OpenFile
  <2>3. position \div BytesPerCluster \in Nat
    <3>1. position \in Nat
      BY <2>1, <2>2 DEF FileInv
    <3>2. BytesPerCluster \in Nat \ {0}
      BY Geometry
    <3> QED
      BY <3>1, <3>2, Division
  <2>4. PICK c \in Nat : /\ c = chain[1] + position \div BytesPerCluster
                         /\ c >= START_CLUSTER_INDEX
    BY <2>2, <2>3 DEF START_CLUSTER_INDEX
  <2> QED
    BY <1>2, <2>4, ClusterPlace DEF Base
<1> QED
  BY <1>1, <1>2

\* A sector is read: it goes behind the others.
LEMMA ReadSectorPreservesDisk ==
  ASSUME DiskInv, ReadSector, UNCHANGED <<dir, searchVars>>
  PROVE  DiskInv'
<1>1. /\ pc \in {"disk", "root"} /\ sectors > 0 /\ ready
      /\ sectors' = sectors - 1 /\ ready' = FALSE
      /\ drive' = [next |-> drive.next + 1, left |-> drive.left - 1]
      /\ UNCHANGED <<fileVars, position, pc, size, out>>
  BY DEF ReadSector
<1>2. HostInv' /\ FileInv'
  BY <1>1, FileFrame DEF DiskInv, HostInv, fileVars, searchVars
<1>3. Base' = Base /\ Total' = Total
  BY <1>1 DEF Base, Total, fileVars, searchVars, chain
<1>4. PICK B, T : B = Base /\ T = Total
  OBVIOUS
<1>5. /\ sectors \in Nat /\ drive \in [next : Nat, left : Nat] /\ drive.left = sectors
      /\ drive.left > 0
  BY <1>1 DEF DiskInv, DriveInv
<1>6. PICK done \in Nat : done + sectors = T /\ drive.next = B + done /\ Holds(B, done)
  BY <1>1, <1>4 DEF DiskInv, DriveInv
<1>7. B \in Nat
  BY <1>1, <1>4, BaseIsSector
<1>8. PICK b \in Nat \ {0} : b = bytes_per_sector
  BY Geometry
<1>9. PICK new : new = [i \in 1 .. b |-> drive.next * b + i - 1]
  OBVIOUS
<1>10. page' = page \o new
  BY <1>8, <1>9 DEF ReadSector
<1>11. PICK l \in Nat : l = done * b /\ (done + 1) * b = l + b /\ B * b \in Nat
                        /\ drive.next * b = B * b + l
  <2>1. (B + done) * b = B * b + done * b /\ B * b \in Nat
    BY <1>7, Multiples
  <2>2. done * b \in Nat /\ (done + 1) * b = done * b + b
    BY Multiples
  <2> QED
    BY <1>6, <2>1, <2>2
<1>12. new \in Seq(Int) /\ Len(new) = b /\ \A i \in 1 .. b : new[i] = B * b + (l + i) - 1
  BY <1>9, <1>11
<1>13. page \in Seq(Int) /\ Len(page) = l /\ \A i \in 1 .. l : page[i] = B * b + i - 1
  BY <1>6, <1>8, <1>11 DEF Holds
<1>14. PICK whole : whole = page \o new
  OBVIOUS
<1>15. whole \in Seq(Int) /\ Len(whole) = l + b
  BY <1>12, <1>13, <1>14, ConcatProperties
<1>16. \A i \in 1 .. l + b : whole[i] = B * b + i - 1
  <2> TAKE i \in 1 .. l + b
  <2>1. CASE i <= l
    <3>1. i \in 1 .. l /\ whole[i] = page[i]
      BY <1>12, <1>13, <1>14, <2>1, ConcatProperties
    <3> QED
      BY <1>13, <3>1
  <2>2. CASE ~ (i <= l)
    <3>1. PICK j \in 1 .. b : i = l + j
      <4>1. i - l \in 1 .. b /\ i = l + (i - l)
        BY <2>2
      <4> QED
        BY <4>1
    <3>2. whole[i] = new[i - l] /\ i - l = j
      BY SMTT(40), <1>12, <1>13, <1>14, <2>2, <3>1, ConcatProperties
    <3> QED
      BY <1>12, <3>1, <3>2
  <2> QED
    BY <2>1, <2>2
<1>17. Holds(B, done + 1)'
  BY <1>8, <1>10, <1>11, <1>14, <1>15, <1>16 DEF Holds
<1>18. /\ drive' \in [next : Nat, left : Nat] /\ drive'.left = sectors' /\ sectors' \in Nat
       /\ drive'.next = B + (done + 1) /\ done + 1 \in Nat /\ (done + 1) + sectors' = T
  BY <1>1, <1>5, <1>6, <1>7
<1>19. \E d \in Nat : d + sectors' = Total' /\ drive'.next = Base' + d /\ Holds(Base, d)'
  <2>1. Holds(Base, done + 1)'
    BY <1>3, <1>4, <1>17 DEF Holds
  <2> QED
    BY <1>3, <1>4, <1>18, <2>1
<1>20. DriveInv'
  BY <1>1, <1>18, <1>19 DEF DriveInv
<1> QED
  BY <1>2, <1>20 DEF DiskInv

\* A descriptor is closed, and if it is the one that reads, it is gone.
LEMMA ClosingPreservesBlocks ==
  ASSUME BlocksInv, NEW k \in Slots,
         fcb' = [fcb EXCEPT ![k].open_count = @ - 1],
         \/ file' = NOFILE /\ fcb[k].open_count > 0
         \/ file' = file /\ fcb[k].open_count > (IF file = k THEN 1 ELSE 0)
  PROVE  /\ BlocksInv'
         /\ \A l \in Slots : /\ fcb'[l].chain = fcb[l].chain
                            /\ fcb'[l].file_size = fcb[l].file_size
<1>1. fcb \in [Slots -> [open_count : Nat, chain : Seq(Nat), file_size : Nat]]
  BY DEF BlocksInv
<1>2. PICK n \in Nat : n = fcb[k].open_count - 1 /\ (file' = k => n > 0)
  <2>1. fcb[k].open_count \in Nat
    BY <1>1
  <2> QED
    BY <2>1, SlotsAreNatural
<1>3. PICK new : new = [fcb[k] EXCEPT !.open_count = n]
  OBVIOUS
<1>4. fcb' = [fcb EXCEPT ![k] = new]
  BY <1>2, <1>3
<1>5. /\ new \in [open_count : Nat, chain : Seq(Nat), file_size : Nat]
      /\ new.open_count = n
      /\ new.chain = fcb[k].chain /\ new.file_size = fcb[k].file_size
  <2>1. fcb[k] \in [open_count : Nat, chain : Seq(Nat), file_size : Nat]
    BY <1>1
  <2> QED
    BY <1>3, <2>1
<1>6. fcb'[k] = new /\ \A l \in Slots \ {k} : fcb'[l] = fcb[l]
  BY <1>1, <1>4
<1>7. fcb' \in [Slots -> [open_count : Nat, chain : Seq(Nat), file_size : Nat]]
  BY <1>1, <1>4, <1>5
<1>8. /\ fcb' \in [Slots -> [open_count : Nat, chain : Seq(Nat), file_size : Nat]]
      /\ fcb'[k].open_count = n /\ \A l \in Slots \ {k} : fcb'[l] = fcb[l]
      /\ fcb'[k].chain = fcb[k].chain /\ fcb'[k].file_size = fcb[k].file_size
  BY <1>5, <1>6, <1>7
<1>9. ASSUME NEW l \in Slots, fcb'[l].open_count > 0
      PROVE  \E d \in Contents : Of(fcb'[l], d)
  <2>1. fcb[l].open_count > 0
    BY <1>1, <1>8, <1>9, SlotsAreNatural
  <2>2. PICK d \in Contents : Of(fcb[l], d)
    BY <2>1 DEF BlocksInv
  <2> QED
    BY <1>8, <2>2 DEF Of
<1>10. /\ file' \in Slots \cup {NOFILE}
      /\ file' # NOFILE => fcb'[file'].open_count > 0
  <2>1. CASE file' = NOFILE
    BY <2>1
  <2>2. CASE file' # NOFILE
    <3>1. file' = file /\ file \in Slots /\ fcb[file].open_count > 0
      BY <2>2 DEF BlocksInv
    <3> QED
      BY <1>2, <1>8, <3>1
  <2> QED
    BY <2>1, <2>2
<1> QED
  BY <1>8, <1>9, <1>10 DEF BlocksInv

\* Another descriptor is closed.
LEMMA OtherClosesPreservesDisk ==
  ASSUME DiskInv, NEW k \in Slots, OtherCloses(k)
  PROVE  /\ DiskInv' /\ UNCHANGED <<file, position, pc, out>>
         /\ file # NOFILE => chain' = chain /\ file_size' = file_size
<1>1. /\ pc = "user" /\ fcb[k].open_count > (IF file = k THEN 1 ELSE 0)
      /\ fcb' = [fcb EXCEPT ![k].open_count = @ - 1]
      /\ UNCHANGED <<file, position, pc, size, sectors, page, drive, ready, out, dir, call>>
  BY DEF OtherCloses, searchVars
<1>2. HostInv' /\ DriveInv'
  BY <1>1 DEF DiskInv, HostInv, DriveInv
<1>3. /\ BlocksInv'
      /\ \A l \in Slots : /\ fcb'[l].chain = fcb[l].chain
                         /\ fcb'[l].file_size = fcb[l].file_size
  BY <1>1, ClosingPreservesBlocks DEF DiskInv, FileInv
<1>4. file # NOFILE => chain' = chain /\ file_size' = file_size
  BY <1>1, <1>3 DEF DiskInv, FileInv, BlocksInv, chain, file_size
<1>5. FileInv'
  BY <1>1, <1>3, <1>4 DEF DiskInv, FileInv
<1> QED
  BY <1>1, <1>2, <1>4, <1>5 DEF DiskInv

\* The rest of reading.
LEMMA ReadingPreservesDisk ==
  ASSUME RegisterHolds, DiskInv, Reading, UNCHANGED <<dir, searchVars>>
  PROVE  DiskInv'
<1>1. HostInv'
  BY DEF DiskInv, HostInv
<1>2. HostInv /\ FileInv /\ DriveInv /\ call' = call
  BY DEF DiskInv, searchVars
<1>3. ASSUME NEW n \in ReadSizes, ReadStarts(n) PROVE DiskInv'
  BY <1>3, ReadStartsPreservesDisk
<1>4. CASE ReadSector
  BY <1>4, ReadSectorPreservesDisk
<1>5. CASE WaitForDrive
  <2>1. UNCHANGED readVars
    BY <1>5 DEF WaitForDrive
  <2>2. FileInv'
    BY <1>2, <2>1, FileFrame DEF readVars, fileVars
  <2>3. DriveInv'
    BY <1>2, <2>1, DriveFrame DEF readVars, fileVars
  <2> QED
    BY <1>1, <2>2, <2>3 DEF DiskInv
<1>6. CASE ReadReturns
  <2>1. /\ pc = "disk" /\ sectors = 0 /\ position' = position + size /\ pc' = "user"
        /\ UNCHANGED <<fileVars, size, sectors, page, drive, ready>>
    BY <1>6 DEF ReadReturns
  <2>2. file_size \in Nat /\ file # NOFILE
    BY <1>2, <2>1, OpenFile DEF FileInv
  <2>3. position + size \in Nat /\ position + size <= file_size
    BY <1>2, <2>1, <2>2 DEF FileInv
  <2>4. BlocksInv' /\ file_size' = file_size
    BY <1>2, <2>1 DEF FileInv, BlocksInv, Of, file_size, fileVars
  <2>5. FileInv'
    BY <1>2, <2>1, <2>2, <2>3, <2>4 DEF FileInv, fileVars
  <2>6. DriveInv'
    BY <1>2, <2>1 DEF DriveInv
  <2> QED
    BY <1>1, <2>5, <2>6 DEF DiskInv
<1>7. CASE Close
  <2>1. /\ pc = "user" /\ file # NOFILE /\ file' = NOFILE /\ position' = 0
        /\ fcb' = [fcb EXCEPT ![file].open_count = @ - 1]
        /\ UNCHANGED <<pc, size, sectors, page, drive, ready>>
    BY <1>7 DEF Close
  <2>2. BlocksInv'
    <3>1. BlocksInv /\ file \in Slots /\ fcb[file].open_count > 0
      BY <1>2, <2>1 DEF FileInv, BlocksInv
    <3> QED
      BY <2>1, <3>1, ClosingPreservesBlocks
  <2>3. FileInv'
    BY <1>2, <2>1, <2>2 DEF FileInv
  <2>4. DriveInv'
    BY <1>2, <2>1 DEF DriveInv
  <2> QED
    BY <1>1, <2>3, <2>4 DEF DiskInv
<1>8. CASE DriveReady
  <2>1. /\ drive.left > 0 /\ ready' = TRUE
        /\ UNCHANGED <<fileVars, position, pc, size, sectors, page, drive, out>>
    BY <1>8 DEF DriveReady
  <2>2. FileInv'
    BY <1>2, <2>1, FileFrame DEF fileVars
  <2>3. DriveInv'
    BY <1>2, <2>1 DEF DriveInv, Base, Total, Holds, fileVars, chain
  <2> QED
    BY <1>1, <2>2, <2>3 DEF DiskInv
<1> QED
  BY <1>3, <1>4, <1>5, <1>6, <1>7, <1>8 DEF Reading

\* DiskInv is inductive.
LEMMA DiskStep ==
  ASSUME RegisterHolds, DiskInv, [DirNext]_dirVars
  PROVE  DiskInv'
<1>1. CASE Host
  BY <1>1, HostPreservesDisk
<1>2. ASSUME NEW name \in Names, CallStarts("open", name) PROVE DiskInv'
  BY <1>2, CallStartsPreservesDisk
<1>3. CASE CallStarts("lstat", <<>>)
  BY <1>3, CallStartsPreservesDisk
<1>4. CASE Search
  BY <1>4, SearchPreservesDisk
<1>5. CASE Reading /\ UNCHANGED <<dir, searchVars>>
  BY <1>5, ReadingPreservesDisk
<1>6. ASSUME NEW k \in Slots, OtherCloses(k) PROVE DiskInv'
  BY <1>6, OtherClosesPreservesDisk
<1>7. CASE UNCHANGED dirVars
  <2>1. UNCHANGED <<fcb, file, position, size, pc, call, sectors, ready, drive,
                    page, dir>>
    BY <1>7 DEF dirVars, readVars, fileVars, searchVars
  <2> QED
    BY <2>1, FileFrame, DriveFrame DEF DiskInv, HostInv
<1> QED
  BY <1>1, <1>2, <1>3, <1>4, <1>5, <1>6, <1>7 DEF DirNext

\* The directory's side of every theorem: DiskInv always holds.
THEOREM DiskInvHolds == RegisterHolds => (DirSpec => []DiskInv)
<1> SUFFICES ASSUME RegisterHolds PROVE DirSpec => []DiskInv
  OBVIOUS
<1>1. DiskInv /\ [DirNext]_dirVars => DiskInv'
  BY DiskStep
<1> QED
  BY <1>1, DiskInit, PTL DEF DirSpec

\* Between two calls the drive is idle: every transfer takes exactly the sectors it
\* asked for, wherever a search ended and whatever the host did (DiskReadSectors).
\* And the ASSERT of ReadFileData does not stop the machine.
THEOREM DriveAlwaysIdleBetweenReads ==
  RegisterHolds => (DirSpec => [](DriveIdleBetweenReads /\ pc # "panic"))
<1> SUFFICES ASSUME RegisterHolds PROVE DirSpec => [](DriveIdleBetweenReads /\ pc # "panic")
  OBVIOUS
<1>1. DiskInv => DriveIdleBetweenReads /\ pc # "panic"
  BY DEF DiskInv, DriveInv, DriveIdleBetweenReads
<1> QED
  BY <1>1, DiskInvHolds, PTL

-----------------------------------------------------------------------------
(* What read() delivers: ReadInv is preserved.                             *)

\* No bytes are the bytes of any file.
LEMMA NothingDelivered ==
  ASSUME out'.bytes = <<>>, out'.position \in Nat
  PROVE  ReadInv'
<1>1. Len(out'.bytes) = 0
  OBVIOUS
<1>2. ReadsLoadedClusters'
  BY <1>1 DEF ReadsLoadedClusters
<1> QED
  BY <1>2 DEF ReadInv

\* What ReadInv depends on.
LEMMA ReadFrame ==
  ASSUME ReadInv, UNCHANGED <<file, out>>, pc' = "root" => pc = "root",
         file # NOFILE => chain' = chain
  PROVE  ReadInv'
<1>1. CASE file # NOFILE
  <2>1. \A k : FileByte(k)' = FileByte(k)
    BY <1>1 DEF FileByte
  <2>2. \A i : Delivers(i)' <=> Delivers(i)
    BY <2>1 DEF Delivers
  <2>3. \A k : InPlace(k)' <=> InPlace(k)
    BY <1>1 DEF InPlace
  <2>4. ReadsLoadedClusters'
    BY <2>2, <2>3 DEF ReadInv, ReadsLoadedClusters
  <2> QED
    BY <1>1, <2>4 DEF ReadInv
<1>2. CASE file = NOFILE
  BY <1>2, NothingDelivered DEF ReadInv
<1> QED
  BY <1>1, <1>2

\* Byte x of what is read from cluster p of the file on is byte x of the file, counted
\* from there, if the file has it in place.
LEMMA PageHoldsFile ==
  ASSUME FileInv, file # NOFILE, NEW p \in Nat, NEW x \in Nat,
         p * BytesPerCluster + x < file_size, InPlace(p * BytesPerCluster + x)
  PROVE  FileByte(p * BytesPerCluster + x)
           = SectorOfCluster(chain[1] + p) * bytes_per_sector + x
<1>1. /\ chain \in Seq(Nat) /\ Len(chain) \in Nat /\ chain[1] \in Nat
      /\ chain[1] >= START_CLUSTER_INDEX /\ file_size \in Nat
      /\ file_size <= Len(chain) * BytesPerCluster
  BY OpenFile
<1>2. PICK m \in Nat \ {0} : m = BytesPerCluster
  BY Geometry
<1>3. PICK y, q \in Nat, r \in 0 .. m - 1 :
        /\ y = p * m + x /\ q = y \div m /\ r = y % m /\ y = q * m + r
  <2>1. p * m \in Nat
    BY Multiples
  <2>2. PICK y \in Nat : y = p * m + x
    BY <2>1
  <2>3. y \div m \in Nat /\ y % m \in 0 .. m - 1 /\ y = (y \div m) * m + (y % m)
    BY Division
  <2> QED
    BY <2>2, <2>3
<1>4. q + 1 \in 1 .. Len(chain)
  <2>1. Len(chain) <= q => Len(chain) * m <= q * m
    BY <1>1, Multiples
  <2>2. q * m \in Nat /\ Len(chain) * m \in Nat
    BY <1>1, Multiples
  <2>3. ~ (Len(chain) <= q)
    BY <1>1, <1>2, <1>3, <2>1, <2>2
  <2> QED
    BY <1>1, <2>3
<1>5. PICK c \in Nat : c = chain[1] - START_CLUSTER_INDEX /\ chain[1] = c + START_CLUSTER_INDEX
  BY <1>1 DEF START_CLUSTER_INDEX
<1>6. chain[q + 1] = chain[1] + q
  BY <1>2, <1>3 DEF InPlace
<1>7. PICK D \in Nat : D = GetDataRegionStartSector * bytes_per_sector
  BY Geometry, Multiples
<1>8. FileByte(y) = D + (c + q) * m + r
  <2>1. chain[q + 1] - 2 = c + q
    <3>1. PICK h \in Nat : h = chain[1] /\ h = c + 2
      BY <1>1, <1>5 DEF START_CLUSTER_INDEX
    <3>2. (h + q) - 2 = c + q
      BY <3>1
    <3> QED
      BY <1>6, <3>1, <3>2
  <2> QED
    BY <1>2, <1>3, <1>7, <2>1 DEF FileByte
<1>9. SectorOfCluster(chain[1] + p) * bytes_per_sector = D + (c + p) * m
  <2>1. /\ chain[1] + p \in Nat /\ chain[1] + p >= START_CLUSTER_INDEX
        /\ (chain[1] + p) - START_CLUSTER_INDEX = c + p
    <3>1. PICK h \in Nat : h = chain[1] /\ h = c + 2
      BY <1>1, <1>5 DEF START_CLUSTER_INDEX
    <3>2. h + p \in Nat /\ h + p >= 2 /\ (h + p) - 2 = c + p
      BY <3>1
    <3> QED
      BY <3>1, <3>2 DEF START_CLUSTER_INDEX
  <2> QED
    BY <1>2, <1>7, <2>1, ClusterPlace
<1>10. /\ (c + q) * m = c * m + q * m /\ (c + p) * m = c * m + p * m
       /\ c * m \in Nat /\ q * m \in Nat /\ p * m \in Nat
  BY Multiples
<1>11. D + (c + q) * m + r = D + (c + p) * m + x
  BY <1>3, <1>10
<1> QED
  BY <1>2, <1>3, <1>8, <1>9, <1>11

\* The bytes that are copied are those of the file at the position, as far as the
\* clusters go that have been read.
LEMMA CopiedIsFile ==
  ASSUME DiskInv, pc = "disk", sectors = 0, NEW i \in 1 .. size,
         InPlace(position + i - 1),
         (position % BytesPerCluster) + i <= Clusters(size) * BytesPerCluster
  PROVE  Copied[i] = FileByte(position + i - 1)
<1>1. /\ file # NOFILE /\ size \in 1 .. file_size - position /\ size \in Nat
      /\ position \in Nat /\ file_size \in Nat /\ FileInv
  BY OpenFile DEF DiskInv, FileInv
<1>2. PICK m \in Nat \ {0} : m = BytesPerCluster
  BY Geometry
<1>3. PICK p \in Nat, r \in 0 .. m - 1 :
        p = position \div m /\ r = position % m /\ position = p * m + r
  BY <1>1, Division
<1>4. PICK B \in Nat : B = SectorOfCluster(chain[1] + p) /\ B = Base
  BY <1>2, <1>3, BaseIsSector DEF Base
<1>5. PICK t \in Nat : t = SectorsOfClusters(Clusters(size)) /\ Holds(B, t)
  <2>1. PICK t \in Nat : t + 0 = Total /\ Holds(B, t)
    BY <1>4 DEF DiskInv, DriveInv
  <2> QED
    BY <2>1 DEF Total
<1>6. PICK b, s, c \in Nat : /\ b = bytes_per_sector /\ s = sectors_per_cluster
                             /\ c = Clusters(size) /\ m = s * b
  BY <1>1, <1>2, Geometry, EnoughClusters
<1>7. t * b = c * m /\ t * b \in Nat
  <2>1. t = c * s
    BY <1>5, <1>6 DEF SectorsOfClusters
  <2>2. (c * s) * b = c * (s * b)
    OBVIOUS
  <2> QED
    BY <1>6, <2>1, <2>2, Multiples
<1>8. /\ Len(page) = t * b
      /\ \A j \in 1 .. Len(page) : page[j] = B * b + j - 1
  BY <1>5, <1>6 DEF Holds
<1>9. PICK x \in Nat : x = r + i - 1 /\ r + i = x + 1 /\ x + 1 \in 1 .. Len(page)
  <2>1. r + i <= c * m
    BY <1>2, <1>3, <1>6
  <2> QED
    BY <1>7, <1>8, <2>1
<1>10. Copied[i] = B * b + x
  <2>1. Copied[i] = page[x + 1]
    <3>1. (position % BytesPerCluster) + i = x + 1
      BY <1>2, <1>3, <1>9
    <3>2. x + 1 <= Len(page)
      BY <1>9
    <3>3. Copied[i] = LET j == (position % BytesPerCluster) + i
                      IN  IF j <= Len(page) THEN page[j] ELSE STALE
      BY Zenon DEF Copied
    <3> QED
      BY <3>1, <3>2, <3>3
  <2>2. page[x + 1] = B * b + (x + 1) - 1 /\ B * b \in Nat
    BY <1>8, <1>9, Multiples
  <2> QED
    BY <2>1, <2>2
<1>11. FileByte(position + i - 1) = B * b + x
  <2>1. PICK y \in Nat : y = p * m
    BY Multiples
  <2>2. position = y + r
    BY <1>3, <2>1
  <2>3. position + i - 1 = y + x /\ y + x < file_size
    BY <1>1, <1>9, <2>2
  <2>4. InPlace(y + x)
    BY <2>3
  <2>5. FileByte(y + x) = B * b + x
    BY <1>1, <1>2, <1>4, <1>6, <2>1, <2>3, <2>4, PageHoldsFile
  <2> QED
    BY <2>3, <2>5
<1> QED
  BY <1>10, <1>11

\* read() returns.
LEMMA ReadReturnsPreservesRead ==
  ASSUME DiskInv, ReadReturns
  PROVE  ReadInv'
<1>1. /\ pc = "disk" /\ sectors = 0 /\ out' = [position |-> position, bytes |-> Copied]
      /\ pc' = "user" /\ UNCHANGED fileVars
  BY DEF ReadReturns
<1>2. file # NOFILE /\ size \in Nat /\ position \in Nat
  BY <1>1 DEF DiskInv, FileInv
<1>3. PICK bytes : bytes = Copied
  OBVIOUS
<1>4. out'.bytes = bytes /\ out'.position = position
  BY <1>1, <1>3
<1>5. Len(bytes) = size
  BY <1>2, <1>3 DEF Copied
<1>6. \A k : FileByte(k)' = FileByte(k)
  BY <1>1 DEF FileByte, chain, fileVars
<1>7. ASSUME NEW i \in 1 .. size, InPlace(position + i - 1),
             (position % BytesPerCluster) + i <= Clusters(size) * BytesPerCluster
      PROVE  bytes[i] = FileByte(position + i - 1)
  BY <1>1, <1>3, <1>7, CopiedIsFile
<1>8. \A k : InPlace(k)' <=> InPlace(k)
  BY <1>1 DEF InPlace, chain, fileVars
<1>9. ReadsLoadedClusters'
  BY <1>4, <1>5, <1>6, <1>7, <1>8 DEF ReadsLoadedClusters, Delivers, Clusters
<1> QED
  BY <1>1, <1>2, <1>4, <1>9 DEF ReadInv, fileVars

\* ReadInv is inductive relative to DiskInv.
LEMMA ReadStep ==
  ASSUME RegisterHolds, DiskInv, ReadInv, [DirNext]_dirVars
  PROVE  ReadInv'
<1>1. CASE Host
  <2>1. UNCHANGED readVars
    BY <1>1 DEF Host, HostCreates, HostDeletes, HostWrites, HostTouches
  <2> QED
    BY <2>1, ReadFrame DEF readVars, fileVars, chain
<1>2. ASSUME NEW op, NEW name, CallStarts(op, name) PROVE ReadInv'
  <2>1. out' = NoBytes
    BY <1>2 DEF CallStarts
  <2> QED
    BY <2>1, NothingDelivered DEF NoBytes
<1>3. CASE Search
  <2>1. pc = "root" /\ out' = out
    BY <1>3 DEF Search, OpenFindsFile, OpenGoesOn, OpenFindsNothing, LstatGoesOn,
                LstatReturns, SearchedSector, CallReturns, NextSector
  <2> QED
    BY <2>1, NothingDelivered DEF ReadInv
<1>4. ASSUME NEW k \in Slots, OtherCloses(k) PROVE ReadInv'
  BY <1>4, OtherClosesPreservesDisk, ReadFrame
<1>5. ASSUME NEW n \in ReadSizes, ReadStarts(n) PROVE ReadInv'
  BY <1>5, ReadFrame DEF ReadStarts, fileVars, chain
<1>6. CASE ReadSector \/ WaitForDrive \/ DriveReady
  BY <1>6, ReadFrame DEF ReadSector, WaitForDrive, DriveReady, readVars, fileVars, chain
<1>7. CASE ReadReturns
  BY <1>7, ReadReturnsPreservesRead
<1>8. CASE Close
  <2>1. out' = NoBytes
    BY <1>8 DEF Close
  <2> QED
    BY <2>1, NothingDelivered DEF NoBytes
<1>9. CASE UNCHANGED dirVars
  BY <1>9, ReadFrame DEF dirVars, readVars, fileVars, chain
<1> QED
  BY <1>1, <1>2, <1>3, <1>4, <1>5, <1>6, <1>7, <1>8, <1>9 DEF DirNext, Reading

\* Of what read() delivers, the bytes that lie in the clusters it has read, and in a
\* cluster where the code looks for it, are those of the file at the descriptor's
\* position, for reads of any size at any position, after any calls, whatever other
\* descriptors are on the file and whatever the host does to the directory meanwhile
\* (Read, ReadFileData, DiskReadSectors).
THEOREM LoadedClustersAlwaysRead ==
  RegisterHolds => (DirSpec => []ReadsLoadedClusters)
<1> SUFFICES ASSUME RegisterHolds
             PROVE  DirSpec => []ReadsLoadedClusters
  OBVIOUS
<1>1. DirInit => ReadInv
  <2> SUFFICES ASSUME DirInit PROVE ReadInv
    OBVIOUS
  <2>1. out.bytes = <<>> /\ out.position = 0 /\ Len(out.bytes) = 0
    BY DEF DirInit, ReadInit, NoBytes
  <2>2. ReadsLoadedClusters
    BY <2>1 DEF ReadsLoadedClusters
  <2> QED
    BY <2>1, <2>2 DEF ReadInv
<1>2. DiskInv /\ ReadInv /\ [DirNext]_dirVars => ReadInv'
  BY ReadStep
<1>3. ReadInv => ReadsLoadedClusters
  BY DEF ReadInv
<1> QED
  BY <1>1, <1>2, <1>3, DiskInvHolds, PTL DEF DirSpec

-----------------------------------------------------------------------------
(* The search of the directory: what a sector shows.                       *)

\* A slot that is not in an earlier sector is in this one or in a later one.
LEMMA SlotInSector ==
  ASSUME DiskInv, SearchedSector, NEW k \in Slots, ~ Before(k),
         k < (call.sector + 1) * entries_per_sector
  PROVE  \E j \in 0 .. entries_per_sector - 1 : SlotInPage(j) = k
<1>1. PICK e, s \in Nat : e = entries_per_sector /\ s = call.sector
  BY Geometry, SectorOfDirectory
<1>2. PICK y \in Nat : y = s * e /\ (s + 1) * e = y + e
  BY Multiples
<1>3. k \in Nat /\ k >= y /\ k < y + e
  BY <1>1, <1>2, Geometry DEF Before, Slots
<1>4. PICK j \in 0 .. e - 1 : k = y + j
  <2>1. k - y \in 0 .. e - 1 /\ k = y + (k - y)
    BY <1>3
  <2> QED
    BY <2>1
<1>5. SlotInPage(j) = y + j
  BY <1>1, <1>2, SlotOfEntry
<1> QED
  BY <1>1, <1>4, <1>5

\* Slots of the page and slots of earlier sectors.
LEMMA PageIsBehind ==
  ASSUME DiskInv, SearchedSector, NEW j \in 0 .. entries_per_sector - 1
  PROVE  /\ ~ Before(SlotInPage(j))
         /\ SlotInPage(j) < (call.sector + 1) * entries_per_sector
         /\ \A k \in Slots : Before(k) => k < SlotInPage(j)
<1>1. PICK e, s \in Nat : e = entries_per_sector /\ s = call.sector
  BY Geometry, SectorOfDirectory
<1>2. PICK y \in Nat : y = s * e /\ (s + 1) * e = y + e
  BY Multiples
<1>3. SlotInPage(j) = y + j
  BY <1>1, <1>2, SlotOfEntry
<1>4. \A k \in Slots : k \in Nat
  BY Geometry DEF Slots
<1> QED
  BY <1>1, <1>2, <1>3, <1>4 DEF Before

\* Behind the last sector there are no slots.
LEMMA LastIsLast ==
  ASSUME DiskInv, LastSector, NEW k \in Slots
  PROVE  k < (call.sector + 1) * entries_per_sector
<1>1. /\ call.sector + 1 = GetRootDirectorySectorSize /\ root_dir_entries \in Nat
      /\ root_dir_entries = GetRootDirectorySectorSize * entries_per_sector
  BY Geometry, SectorOfDirectory DEF LastSector
<1> QED
  BY <1>1 DEF Slots

\* The entries of the page that are listed are the files.
LEMMA ListedIsFile ==
  ASSUME DiskInv, SearchedSector, NEW j \in 0 .. entries_per_sector - 1
  PROVE  j \in Listed <=> IsFile(SlotInPage(j))
<1>1. SlotInPage(j) \in Slots
  BY SlotOfEntry
<1>2. dir[SlotInPage(j)].kind \in {"empty", "created", "written", "deleted"}
  BY <1>1 DEF DiskInv, HostInv
<1> QED
  BY <1>1, <1>2 DEF Listed, IsFile, InUse

-----------------------------------------------------------------------------
(* Names.                                                                  *)

\* Taking the blanks off gives back what was padded.
LEMMA UnpaddedIsText ==
  ASSUME NEW A, NEW field \in Seq(A), NEW text \in Seq(A), Padded(field, text)
  PROVE  Unpadded(field) = text
<1>1. PICK n, l \in Nat : n = Len(text) /\ l = Len(field) /\ n <= l
  BY DEF Padded
<1>2. DOMAIN field = 1 .. l
  BY <1>1
<1>3. /\ \A i \in 1 .. n : field[i] = text[i] /\ field[i] # BLANK
      /\ \A i \in n + 1 .. l : field[i] = BLANK
  BY <1>1 DEF Padded
<1>4. PICK S : S = {i \in DOMAIN field : \A j \in 1 .. i : field[j] # BLANK}
  OBVIOUS
<1>5. S = 1 .. n
  <2>1. ASSUME NEW i \in S PROVE i \in 1 .. n
    <3>1. i \in 1 .. l /\ field[i] # BLANK
      BY <1>2, <1>4
    <3> QED
      BY <1>1, <1>3, <3>1
  <2>2. ASSUME NEW i \in 1 .. n PROVE i \in S
    <3>1. i \in 1 .. l /\ \A j \in 1 .. i : j \in 1 .. n
      BY <1>1
    <3> QED
      BY <1>2, <1>3, <1>4, <3>1
  <2> QED
    BY <2>1, <2>2
<1>6. Cardinality(1 .. n) = n
  <2>1. 1 .. n = 1 .. n /\ 1 \in Int /\ n \in Int
    OBVIOUS
  <2>2. Cardinality(1 .. n) = IF 1 > n THEN 0 ELSE n - 1 + 1
    BY <2>1, FS_Interval
  <2> QED
    BY <2>2
<1>7. Unpadded(field) = SubSeq(field, 1, n)
  <2>1. Unpadded(field) = SubSeq(field, 1, Cardinality(S))
    BY <1>4, Zenon DEF Unpadded, BLANK
  <2> QED
    BY <1>5, <1>6, <2>1
<1>8. SubSeq(field, 1, n) = [i \in 1 .. n |-> field[i]]
  BY <1>1
<1>9. text = [i \in 1 .. n |-> text[i]]
  BY <1>1
<1> QED
  BY <1>3, <1>7, <1>8, <1>9

\* Two names are the same to strcasecmp when they are equal in lower case.
LEMMA SameInLowerCase ==
  ASSUME NEW A, NEW B, NEW s \in Seq(A), NEW t \in Seq(B)
  PROVE  SameIgnoringCase(s, t) <=> InLowerCase(s) = InLowerCase(t)
<1>1. PICK m, n \in Nat : m = Len(s) /\ n = Len(t)
  OBVIOUS
<1>2. PICK f, g : /\ f = [i \in 1 .. m |-> tolower(s[i])]
                  /\ g = [i \in 1 .. n |-> tolower(t[i])]
  OBVIOUS
<1>3. f = InLowerCase(s) /\ g = InLowerCase(t)
  BY <1>1, <1>2 DEF InLowerCase
<1>4. ASSUME f = g PROVE m = n /\ \A i \in 1 .. m : tolower(s[i]) = tolower(t[i])
  <2>1. DOMAIN f = 1 .. m /\ DOMAIN g = 1 .. n
    BY <1>2
  <2>2. 1 .. m = 1 .. n
    BY <1>4, <2>1
  <2>3. m = n
    <3>1. m > 0 => m \in 1 .. n
      BY <2>2
    <3>2. n > 0 => n \in 1 .. m
      BY <2>2
    <3> QED
      BY <3>1, <3>2
  <2>4. \A i \in 1 .. m : f[i] = tolower(s[i]) /\ g[i] = tolower(t[i])
    BY <1>2, <2>3
  <2> QED
    BY <1>4, <2>3, <2>4
<1>5. ASSUME m = n, \A i \in 1 .. m : tolower(s[i]) = tolower(t[i]) PROVE f = g
  BY <1>2, <1>5
<1> QED
  BY <1>1, <1>3, <1>4, <1>5 DEF SameIgnoringCase

\* open() compares a name with what ls shows of the entry.
LEMMA MatchesListed ==
  ASSUME PaddedNames, NEW name \in Seq(STRING), NEW k \in Slots,
         Entries[k].attributes # LONG_NAME
  PROVE  SameIgnoringCase(name, GetRelativeFileName(k))
           <=> InLowerCase(name) = Entries[k].listed
<1>1. Entries[k].name \in Seq(STRING) /\ Entries[k].ext \in Seq(STRING)
  BY DEF PaddedNames
<1>2. PICK base \in Seq(STRING), ext \in Seq(STRING) :
        /\ Padded(Entries[k].name, base) /\ Padded(Entries[k].ext, ext)
        /\ Entries[k].listed = InLowerCase(base \o <<".">> \o ext)
  BY DEF PaddedNames
<1>3. Unpadded(Entries[k].name) = base /\ Unpadded(Entries[k].ext) = ext
  BY <1>1, <1>2, UnpaddedIsText
<1>4. PICK r : r = base \o <<".">> \o ext
  OBVIOUS
<1>5. GetRelativeFileName(k) = r
  BY <1>3, <1>4 DEF GetRelativeFileName
<1>6. PICK B : B = STRING \cup {"."}
  OBVIOUS
<1>7. base \in Seq(B) /\ ext \in Seq(B) /\ <<".">> \in Seq(B)
  BY <1>6
<1>8. base \o <<".">> \in Seq(B)
  BY <1>7, ConcatProperties
<1>9. r \in Seq(B)
  BY <1>4, <1>7, <1>8, ConcatProperties
<1>10. PICK listed : listed = Entries[k].listed /\ listed = InLowerCase(r)
  BY <1>2, <1>4
<1>11. SameIgnoringCase(name, r) <=> InLowerCase(name) = InLowerCase(r)
  BY <1>9, SameInLowerCase
<1> QED
  BY <1>5, <1>10, <1>11

-----------------------------------------------------------------------------
(* open(): OpenInv is preserved, and OpensNamedFile follows.               *)

\* What the search finds in a sector are the files of the name.
LEMMA FoundIsCalled ==
  ASSUME PaddedNames, DiskInv, SearchedSector, call.name \in Names,
         NEW j \in 0 .. entries_per_sector - 1
  PROVE  j \in Found <=> SlotInPage(j) \in Called(call.name)
<1>1. SlotInPage(j) \in Slots
  BY SlotOfEntry
<1>2. j \in Listed <=> IsFile(SlotInPage(j))
  BY ListedIsFile
<1>3. call.name \in Seq(STRING)
  BY DirectoryAssumption
<1>4. IsFile(SlotInPage(j)) =>
        (SameIgnoringCase(call.name, GetRelativeFileName(SlotInPage(j)))
           <=> InLowerCase(call.name) = Entries[SlotInPage(j)].listed)
  BY <1>1, <1>3, MatchesListed DEF IsFile
<1> QED
  BY <1>1, <1>2, <1>4 DEF Found, Called, InLowerCase

\* After a sector without the name, the name is in no sector up to this one.
LEMMA SectorSearched ==
  ASSUME PaddedNames, DiskInv, OpenInv, SearchedSector, call.op = "open", Found = {},
         NEW k \in steady, k < (call.sector + 1) * entries_per_sector
  PROVE  k \notin Called(call.name)
<1>1. /\ call.name \in Names /\ k \in Slots
      /\ Before(k) => k \notin Called(call.name)
  BY DEF OpenInv, SearchedSector
<1>2. CASE ~ Before(k)
  <2>1. PICK j \in 0 .. entries_per_sector - 1 : SlotInPage(j) = k
    BY <1>1, <1>2, SlotInSector
  <2> QED
    BY <1>1, <2>1, FoundIsCalled
<1> QED
  BY <1>1, <1>2

\* What the search knows depends on.
LEMMA OpenFrame ==
  ASSUME OpenInv, UNCHANGED <<dir, call, steady>>, pc' = "root" => pc = "root"
  PROVE  OpenInv'
BY DEF OpenInv, Before, Called, IsFile, InUse

\* Steps of the descriptors, and a system that stands still, leave a search alone.
LEMMA ReadingLeavesSearch ==
  ASSUME \/ Reading /\ UNCHANGED <<dir, searchVars>>
         \/ \E k \in Slots : OtherCloses(k)
         \/ UNCHANGED dirVars
  PROVE  UNCHANGED <<dir, call, steady, statbuf>> /\ (pc' = "root" => pc = "root")
<1>1. CASE Reading /\ UNCHANGED <<dir, searchVars>>
  <2>1. UNCHANGED <<dir, call, steady, statbuf>>
    BY <1>1 DEF searchVars
  <2>2. pc' = "root" => pc = "root"
    BY <1>1 DEF Reading, ReadStarts, ReadSector, WaitForDrive, ReadReturns, Close,
                DriveReady, readVars
  <2> QED
    BY <2>1, <2>2
<1>2. CASE UNCHANGED dirVars
  BY <1>2 DEF dirVars, readVars, searchVars
<1>3. CASE \E k \in Slots : OtherCloses(k)
  BY <1>3 DEF OtherCloses, searchVars
<1> QED
  BY <1>1, <1>2, <1>3

\* The host may touch a slot; the others are as they were.
LEMMA HostLeavesSteady ==
  ASSUME Host, DiskInv
  PROVE  /\ UNCHANGED <<pc, call, statbuf>> /\ steady' \subseteq steady
         /\ pc = "root" => \A k \in steady' \cap Slots : IsFile(k)' <=> IsFile(k)
<1>1. PICK k \in Slots : \E kind, data : HostTouches(k, kind, data)
  BY DEF Host, HostCreates, HostDeletes, HostWrites
<1>2. PICK kind, data : HostTouches(k, kind, data)
  BY <1>1
<1>3. /\ dir' = [dir EXCEPT ![k] = [kind |-> kind, data |-> data]]
      /\ steady' = (IF pc = "root" THEN steady \ {k} ELSE steady)
      /\ UNCHANGED <<readVars, call, result, statbuf>>
  BY <1>2 DEF HostTouches
<1>4. UNCHANGED <<pc, call, statbuf>> /\ steady' \subseteq steady
  BY <1>3 DEF readVars
<1>5. ASSUME pc = "root", NEW l \in steady' \cap Slots PROVE IsFile(l)' <=> IsFile(l)
  <2>1. l # k /\ dir'[l] = dir[l]
    BY <1>3, <1>5 DEF DiskInv, HostInv
  <2> QED
    BY <2>1 DEF IsFile, InUse
<1> QED
  BY <1>4, <1>5

\* A call returns by a step of the search.
LEMMA SearchReturns ==
  ASSUME DiskInv, [DirNext]_dirVars, pc = "root", pc' = "user"
  PROVE  Search
<1>1. ~ Host
  BY HostLeavesSteady
<1>2. \A op, name : ~ CallStarts(op, name)
  BY DEF CallStarts
<1>3. ~ (Reading /\ UNCHANGED <<dir, searchVars>>)
  BY DEF Reading, ReadStarts, ReadSector, WaitForDrive, ReadReturns, Close, DriveReady,
         readVars
<1>4. \A k : ~ OtherCloses(k)
  BY DEF OtherCloses
<1>5. ~ UNCHANGED dirVars
  BY DEF dirVars, readVars
<1> QED
  BY <1>1, <1>2, <1>3, <1>4, <1>5 DEF DirNext

\* OpenInv is inductive relative to DiskInv.
LEMMA OpenStep ==
  ASSUME PaddedNames, DiskInv, OpenInv, [DirNext]_dirVars
  PROVE  OpenInv'
<1>1. CASE Host
  <2>1. /\ UNCHANGED <<pc, call>> /\ steady' \subseteq steady /\ steady \subseteq Slots
        /\ pc = "root" => \A k \in steady' \cap Slots : IsFile(k)' <=> IsFile(k)
    BY <1>1, HostLeavesSteady DEF OpenInv
  <2>2. ASSUME pc = "root", call.op = "open", NEW k \in steady', Before(k)'
        PROVE  k \notin Called(call.name)'
    <3>1. k \in steady /\ k \in Slots /\ Before(k) /\ (IsFile(k)' <=> IsFile(k))
      BY <2>1, <2>2 DEF Before
    <3>2. k \notin Called(call.name)
      BY <2>2, <3>1 DEF OpenInv
    <3> QED
      BY <2>1, <3>1, <3>2 DEF Called
  <2> QED
    BY <2>1, <2>2 DEF OpenInv
<1>2. ASSUME NEW op, NEW name, op = "open" => name \in Names, CallStarts(op, name)
      PROVE  OpenInv'
  <2>1. steady' = Slots /\ call' = [op |-> op, name |-> name, sector |-> 0]
    BY <1>2 DEF CallStarts
  <2>2. \A k \in Slots : ~ Before(k)'
    BY <2>1, Geometry DEF Before, Slots
  <2> QED
    BY <1>2, <2>1, <2>2 DEF OpenInv
<1>3. CASE Search /\ pc' = "user"
  <2>1. steady' = Slots
    BY <1>3 DEF Search, OpenFindsFile, OpenFindsNothing, LstatReturns, CallReturns,
                OpenGoesOn, LstatGoesOn, NextSector, ReadDirectorySector
  <2> QED
    BY <1>3, <2>1 DEF OpenInv
<1>4. CASE Search /\ pc' # "user"
  <2>1. /\ SearchedSector /\ NextSector
        /\ call.op = "open" => Found = {}
    BY <1>4 DEF Search, OpenFindsFile, OpenFindsNothing, LstatReturns, CallReturns,
                OpenGoesOn, LstatGoesOn
  <2>2. /\ call' = [call EXCEPT !.sector = @ + 1] /\ steady' = steady /\ dir' = dir
        /\ pc = "root"
    BY <2>1 DEF NextSector, ReadDirectorySector, SearchedSector
  <2>3. call'.sector = call.sector + 1 /\ call'.name = call.name /\ call'.op = call.op
    BY <2>2 DEF DiskInv, FileInv
  <2>4. ASSUME call.op = "open", NEW k \in steady, Before(k)' PROVE k \notin Called(call.name)'
    <3>1. k < (call.sector + 1) * entries_per_sector
      BY <2>3, <2>4 DEF Before
    <3>2. k \notin Called(call.name)
      BY <2>1, <2>4, <3>1, SectorSearched
    <3> QED
      BY <2>2, <2>3, <3>2 DEF Called, IsFile, InUse
  <2> QED
    BY <2>2, <2>3, <2>4 DEF OpenInv
<1>5. CASE \/ Reading /\ UNCHANGED <<dir, searchVars>>
           \/ \E k \in Slots : OtherCloses(k)
           \/ UNCHANGED dirVars
  BY <1>5, ReadingLeavesSearch, OpenFrame
<1> QED
  BY <1>1, <1>2, <1>3, <1>4, <1>5 DEF DirNext

\* What OpensNamedFile says of a step.
OpensThat(slot) ==
  /\ slot \in Called(call.name)
  /\ \A k \in Called(call.name) \cap steady : slot <= k
  /\ fcb'[slot].open_count = fcb[slot].open_count + 1
  /\ fcb[slot].open_count = 0 =>
       /\ fcb'[slot].chain = dir[slot].data.chain
       /\ fcb'[slot].file_size = dir[slot].data.size
OpensRight ==
  Returns("open") =>
    /\ OthersKeepTheirFile
    /\ CASE result' \in Slots -> OpensThat(result')
         [] result' = EAGAIN ->
              \E k \in Called(call.name) : dir[k].kind = "created"
         [] OTHER -> result' = ENOENT /\ Called(call.name) \cap steady = {}

\* The file that is found is the first of the name.
LEMMA FoundIsFirst ==
  ASSUME PaddedNames, DiskInv, OpenInv, SearchedSector, call.op = "open", Found # {}
  PROVE  /\ First(Found) \in 0 .. entries_per_sector - 1
         /\ SlotInPage(First(Found)) \in Called(call.name)
         /\ \A k \in Called(call.name) \cap steady : SlotInPage(First(Found)) <= k
<1>1. Found \subseteq 0 .. entries_per_sector - 1
  BY DEF Found, Listed
<1>2. PICK j \in 0 .. entries_per_sector - 1 :
        j = First(Found) /\ j \in Found /\ \A i \in Found : j <= i
  <2>1. Found \subseteq Nat
    BY <1>1, Geometry
  <2> QED
    BY <1>1, <2>1, FirstIsLeast
<1>3. call.name \in Names /\ \A k \in steady : Before(k) => k \notin Called(call.name)
  BY DEF OpenInv, SearchedSector
<1>4. SlotInPage(j) \in Called(call.name)
  BY <1>2, <1>3, FoundIsCalled
<1>5. ASSUME NEW k \in Called(call.name) \cap steady PROVE SlotInPage(j) <= k
  <2>1. k \in Slots /\ ~ Before(k) /\ k \in Nat
    BY <1>3, <1>5, Geometry DEF Called, Slots
  <2>2. PICK e, y \in Nat : e = entries_per_sector /\ y = call.sector * e
                            /\ (call.sector + 1) * e = y + e
    <3>1. PICK d, s \in Nat : d = entries_per_sector /\ s = call.sector
      BY Geometry, SectorOfDirectory
    <3>2. s * d \in Nat /\ (s + 1) * d = s * d + d
      BY Multiples
    <3> QED
      BY <3>1, <3>2
  <2>3. SlotInPage(j) = y + j /\ j \in 0 .. e - 1
    BY <2>2, SlotOfEntry
  <2>4. CASE k < (call.sector + 1) * entries_per_sector
    <3>1. PICK i \in 0 .. entries_per_sector - 1 : SlotInPage(i) = k
      BY <2>1, <2>4, SlotInSector
    <3>2. i \in Found /\ k = y + i
      BY <1>3, <1>5, <2>2, <3>1, FoundIsCalled, SlotOfEntry
    <3>3. j <= i
      BY <1>2, <3>2
    <3> QED
      BY <2>2, <2>3, <3>2, <3>3
  <2>5. CASE ~ (k < (call.sector + 1) * entries_per_sector)
    BY <2>1, <2>2, <2>3, <2>5
  <2> QED
    BY <2>4, <2>5
<1> QED
  BY <1>2, <1>4, <1>5

\* Every step opens right.
LEMMA OpenStepIsRight ==
  ASSUME PaddedNames, DiskInv, OpenInv, [DirNext]_dirVars
  PROVE  OpensRight
<1> SUFFICES ASSUME call.op = "open", pc = "root", pc' = "user"
             PROVE  /\ OthersKeepTheirFile
                    /\ CASE result' \in Slots -> OpensThat(result')
                         [] result' = EAGAIN ->
                              \E k \in Called(call.name) : dir[k].kind = "created"
                         [] OTHER -> /\ result' = ENOENT
                                     /\ Called(call.name) \cap steady = {}
  BY DEF OpensRight, Returns
<1>1. EAGAIN \notin Slots /\ ENOENT \notin Slots /\ ENOENT # EAGAIN
  BY Geometry DEF EAGAIN, ENOENT, Slots
<1>2. Search
  BY SearchReturns
<1>3. CASE OpenFindsFile
  <2>1. SearchedSector /\ Found # {} /\ OpenEntry(First(Found))
    BY <1>3 DEF OpenFindsFile
  <2>2. PICK j \in 0 .. entries_per_sector - 1 : j = First(Found)
    BY <2>1, FoundIsFirst
  <2>3. PICK l \in Slots : l = SlotInPage(j) /\ l = EntryIndex(call.sector, j)
    BY <2>1, SlotOfEntry
  <2>4. l \in Called(call.name) /\ \A k \in Called(call.name) \cap steady : l <= k
    BY <2>1, <2>2, <2>3, FoundIsFirst
  <2>5. CASE dir[l].kind = "created"
    <3>1. result' = EAGAIN
      BY <2>1, <2>2, <2>3, <2>5 DEF OpenEntry
    <3>2. \E k \in Called(call.name) : dir[k].kind = "created"
      BY <2>4, <2>5
    <3>3. UNCHANGED fcb
      BY <2>1, <2>2, <2>3, <2>5 DEF OpenEntry, fileVars
    <3> QED
      BY <1>1, <3>1, <3>2, <3>3 DEF OthersKeepTheirFile
  <2>6. CASE dir[l].kind # "created"
    <3>1. result' = l /\ FileLinked(l, dir[l].data)
      BY <2>1, <2>2, <2>3, <2>6 DEF OpenEntry, FileLinked
    <3>2. dir[l].data \in Contents
      <4>1. dir[l].kind = "written"
        BY <2>4, <2>6 DEF Called, IsFile, InUse
      <4> QED
        BY <4>1 DEF DiskInv, HostInv
    <3>3. /\ \A k \in Slots : fcb[k].open_count > 0 =>
               fcb'[k].chain = fcb[k].chain /\ fcb'[k].file_size = fcb[k].file_size
          /\ fcb'[l].open_count = fcb[l].open_count + 1
          /\ fcb[l].open_count = 0 => Of(fcb'[l], dir[l].data)
      BY <3>1, <3>2, LinkingPreservesBlocks DEF DiskInv, FileInv
    <3>4. OthersKeepTheirFile
      BY <3>3 DEF OthersKeepTheirFile
    <3>5. OpensThat(l)
      BY <2>4, <3>3 DEF OpensThat, Of
    <3> QED
      BY <1>1, <3>1, <3>4, <3>5
  <2> QED
    BY <2>5, <2>6
<1>4. CASE OpenFindsNothing
  <2>1. SearchedSector /\ Found = {} /\ LastSector /\ result' = ENOENT /\ UNCHANGED fcb
    BY <1>4 DEF OpenFindsNothing, fileVars
  <2>2. ASSUME NEW k \in steady PROVE k \notin Called(call.name)
    <3>1. k \in Slots
      BY DEF OpenInv
    <3>2. k < (call.sector + 1) * entries_per_sector
      BY <2>1, <3>1, LastIsLast
    <3> QED
      BY <2>1, <3>2, SectorSearched
  <2>3. Called(call.name) \cap steady = {}
    BY <2>2
  <2> QED
    BY <1>1, <2>1, <2>3 DEF OthersKeepTheirFile
<1>5. CASE OpenGoesOn \/ LstatGoesOn \/ LstatReturns
  BY <1>5 DEF OpenGoesOn, LstatGoesOn, LstatReturns, NextSector, ReadDirectorySector
<1> QED
  BY <1>2, <1>3, <1>4, <1>5 DEF Search

\* open() takes the first file of the name and no other one, and misses none that was
\* there all the time, for any directory and whatever the host does between the
\* sectors; the first descriptor on it gets the clusters and the size of the entry, and
\* every descriptor that is open keeps its own (Open, FindFileInRootDir,
\* GetRelativeFileName).
THEOREM AlwaysOpensNamedFile ==
  RegisterHolds /\ PaddedNames => (DirSpec => OpensNamedFile)
<1> SUFFICES ASSUME RegisterHolds, PaddedNames PROVE DirSpec => OpensNamedFile
  OBVIOUS
<1>1. DirInit => OpenInv
  BY DEF DirInit, ReadInit, OpenInv
<1>2. DiskInv /\ OpenInv /\ [DirNext]_dirVars => OpenInv'
  BY OpenStep
<1>3. DiskInv /\ OpenInv /\ [DirNext]_dirVars => [OpensRight]_dirVars
  BY OpenStepIsRight
<1>4. DirSpec => [][OpensRight]_dirVars
  BY <1>1, <1>2, <1>3, DiskInvHolds, PTL DEF DirSpec
<1> QED
  BY <1>4 DEF OpensNamedFile, OpensRight, OpensThat

-----------------------------------------------------------------------------
(* lstat(): what is stored of a sector.                                    *)

\* One step of the recursion of WithSector, with the values so far given by f.
StoreStep(f, j) ==
  IF j = 0 THEN statbuf
  ELSE IF j - 1 \in Listed THEN Append(f[j - 1], SlotInPage(j - 1)) ELSE f[j - 1]

\* The recursion has a solution on every prefix of the sector.
LEMMA StoredExists ==
  ASSUME NEW n \in Nat
  PROVE  \E f : f = [j \in 0 .. n |-> StoreStep(f, j)]
<1> DEFINE Solves(f, m) == f = [j \in 0 .. m |-> StoreStep(f, j)]
           T == {m \in Nat : ~ \E f : Solves(f, m)}
<1>1. SUFFICES ASSUME T # {} PROVE FALSE
  OBVIOUS
<1>2. PICK m \in T : \A y \in T : m <= y
  BY <1>1, LeastNatural
<1>3. CASE m = 0
  <2> DEFINE g == [j \in 0 .. 0 |-> statbuf]
  <2>1. Solves(g, 0)
    BY DEF StoreStep
  <2> QED
    BY <1>2, <1>3, <2>1
<1>4. CASE m # 0
  <2>1. m - 1 \in Nat /\ m - 1 \notin T
    BY <1>2, <1>4
  <2>2. PICK f : Solves(f, m - 1)
    BY <2>1
  <2> DEFINE g == [j \in 0 .. m |-> IF j = m THEN StoreStep(f, m) ELSE f[j]]
  <2>3. \A j \in 0 .. m - 1 : g[j] = f[j]
    OBVIOUS
  <2>4. \A j \in 0 .. m - 1 : StoreStep(g, j) = StoreStep(f, j)
    BY <2>3 DEF StoreStep
  <2>5. StoreStep(g, m) = StoreStep(f, m)
    BY <1>4, <2>3 DEF StoreStep
  <2>6. \A j \in 0 .. m - 1 : f[j] = StoreStep(f, j)
    BY <2>2
  <2>7. \A j \in 0 .. m : g[j] = StoreStep(g, j)
    BY <2>3, <2>4, <2>5, <2>6
  <2>8. Solves(g, m)
    BY <2>7
  <2> QED
    BY <1>2, <2>8
<1> QED
  BY <1>3, <1>4

\* WithSector is the last value of that solution.
LEMMA StoredIs ==
  \E f : /\ \A j \in 0 .. entries_per_sector : f[j] = StoreStep(f, j)
         /\ WithSector = f[entries_per_sector]
<1> DEFINE F == CHOOSE f : f = [j \in 0 .. entries_per_sector |-> StoreStep(f, j)]
<1>1. WithSector = F[entries_per_sector]
  BY DEF WithSector, StoreStep
<1>2. entries_per_sector \in Nat
  BY Geometry
<1>3. F = [j \in 0 .. entries_per_sector |-> StoreStep(F, j)]
  BY <1>2, StoredExists, Zenon
<1> HIDE DEF F
<1>4. \A j \in 0 .. entries_per_sector : F[j] = StoreStep(F, j)
  BY <1>3
<1> QED
  BY <1>1, <1>4

\* A slot behind all that are listed goes at the end.
LEMMA ListedLast ==
  ASSUME NEW s \in Seq(Slots), Increasing(s), NEW x \in Slots,
         \A i \in 1 .. Len(s) : s[i] < x
  PROVE  /\ Append(s, x) \in Seq(Slots) /\ Increasing(Append(s, x))
         /\ \A i \in 1 .. Len(Append(s, x)) : Append(s, x)[i] <= x
         /\ \A k : Lists(Append(s, x), k) <=> Lists(s, k) \/ k = x
<1>1. PICK n \in Nat : n = Len(s)
  OBVIOUS
<1>2. PICK t : t = Append(s, x)
  OBVIOUS
<1>3. /\ t \in Seq(Slots) /\ Len(t) = n + 1 /\ t[n + 1] = x
      /\ \A i \in 1 .. n : t[i] = s[i]
  BY <1>1, <1>2, AppendProperties
<1>4. \A i \in 1 .. n : s[i] \in Nat /\ s[i] < x
  <2>1. \A i \in 1 .. n : s[i] \in Slots
    BY <1>1, ElementOfSeq
  <2> QED
    BY <1>1, <2>1, Geometry DEF Slots
<1>5. x \in Nat
  BY Geometry DEF Slots
<1>6. ASSUME NEW i \in 1 .. n + 1, NEW j \in 1 .. n + 1, i < j PROVE t[i] < t[j]
  <2>1. i \in 1 .. n
    BY <1>6
  <2>2. CASE j = n + 1
    BY <1>3, <1>4, <2>1, <2>2
  <2>3. CASE j # n + 1
    <3>1. j \in 1 .. n
      BY <2>3
    <3> QED
      BY <1>1, <1>3, <1>6, <2>1, <3>1 DEF Increasing
  <2> QED
    BY <2>2, <2>3
<1>7. \A i \in 1 .. n + 1 : t[i] <= x
  <2> TAKE i \in 1 .. n + 1
  <2>1. CASE i = n + 1
    BY <1>3, <1>5, <2>1
  <2>2. CASE i # n + 1
    <3>1. i \in 1 .. n
      BY <2>2
    <3> QED
      BY <1>3, <1>4, <1>5, <3>1
  <2> QED
    BY <2>1, <2>2
<1>8. ASSUME NEW k PROVE Lists(t, k) <=> Lists(s, k) \/ k = x
  <2>1. \A i \in 1 .. n + 1 : i \in 1 .. n \/ i = n + 1
    OBVIOUS
  <2>2. n + 1 \in 1 .. n + 1 /\ \A i \in 1 .. n : i \in 1 .. n + 1
    OBVIOUS
  <2> QED
    BY <1>1, <1>3, <2>1, <2>2 DEF Lists
<1>9. Increasing(t)
  BY <1>3, <1>6 DEF Increasing
<1> QED
  BY <1>2, <1>3, <1>7, <1>8, <1>9

\* What lstat has stored after a sector: what it had before, and the files of the
\* sector behind it.
Stores(s, n) ==
  /\ s \in Seq(Slots) /\ Increasing(s)
  /\ \A i \in 1 .. Len(s) : s[i] < call.sector * entries_per_sector + n
  /\ \A k : Lists(s, k) <=>
       Lists(statbuf, k) \/ \E j \in 0 .. n - 1 : j \in Listed /\ SlotInPage(j) = k

\* One more entry.
LEMMA StoresOneMore ==
  ASSUME DiskInv, SearchedSector, NEW n \in 0 .. entries_per_sector - 1, NEW s, Stores(s, n),
         NEW t, t = IF n \in Listed THEN Append(s, SlotInPage(n)) ELSE s
  PROVE  Stores(t, n + 1)
<1>1. PICK e, y \in Nat : e = entries_per_sector /\ y = call.sector * e
  <2>1. PICK d, a \in Nat : d = entries_per_sector /\ a = call.sector
    BY Geometry, SectorOfDirectory
  <2>2. a * d \in Nat
    BY Multiples
  <2> QED
    BY <2>1, <2>2
<1>2. PICK x \in Slots : x = SlotInPage(n) /\ x = y + n
  BY <1>1, SlotOfEntry
<1>3. /\ s \in Seq(Slots) /\ Increasing(s) /\ n \in Nat /\ n - 1 \in Int
      /\ \A i \in 1 .. Len(s) : s[i] < y + n
      /\ \A k : Lists(s, k) <=>
           Lists(statbuf, k) \/ \E j \in 0 .. n - 1 : j \in Listed /\ SlotInPage(j) = k
  BY <1>1 DEF Stores
<1>4. \A j : j \in 0 .. (n + 1) - 1 <=> j \in 0 .. n - 1 \/ j = n
  BY <1>3
<1>5. CASE n \in Listed
  <2>1. \A i \in 1 .. Len(s) : s[i] < x
    BY <1>2, <1>3
  <2>2. t = Append(s, x)
    BY <1>2, <1>5
  <2>3. /\ t \in Seq(Slots) /\ Increasing(t)
        /\ \A i \in 1 .. Len(t) : t[i] <= x
        /\ \A k : Lists(t, k) <=> Lists(s, k) \/ k = x
    BY <1>3, <2>1, <2>2, ListedLast
  <2>4. \A i \in 1 .. Len(t) : t[i] < y + (n + 1)
    <3> TAKE i \in 1 .. Len(t)
    <3>1. t[i] \in Slots /\ t[i] <= x
      BY <2>3, ElementOfSeq
    <3>2. t[i] \in Nat
      BY <3>1, Geometry DEF Slots
    <3> QED
      BY <1>2, <1>3, <3>1, <3>2
  <2>5. \A k : Lists(t, k) <=>
          Lists(statbuf, k) \/ \E j \in 0 .. (n + 1) - 1 : j \in Listed /\ SlotInPage(j) = k
    BY <1>2, <1>3, <1>4, <1>5, <2>3
  <2> QED
    BY <1>1, <2>3, <2>4, <2>5 DEF Stores
<1>6. CASE n \notin Listed
  <2>1. t = s
    BY <1>6
  <2>2. \A i \in 1 .. Len(s) : s[i] < y + (n + 1)
    <3> TAKE i \in 1 .. Len(s)
    <3>1. s[i] \in Slots /\ s[i] < y + n
      BY <1>3, ElementOfSeq
    <3>2. s[i] \in Nat
      BY <3>1, Geometry DEF Slots
    <3> QED
      BY <1>3, <3>1, <3>2
  <2>3. \A k : Lists(s, k) <=>
          Lists(statbuf, k) \/ \E j \in 0 .. (n + 1) - 1 : j \in Listed /\ SlotInPage(j) = k
    BY <1>3, <1>4, <1>6
  <2> QED
    BY <1>1, <1>3, <2>1, <2>2, <2>3 DEF Stores
<1> QED
  BY <1>5, <1>6

\* The whole sector.
LEMMA SectorStored ==
  ASSUME DiskInv, SearchedSector, LstatInv, call.op = "lstat"
  PROVE  Stores(WithSector, entries_per_sector)
<1>1. PICK e \in Nat : e = entries_per_sector
  BY Geometry
<1>2. PICK f : /\ \A j \in 0 .. e : f[j] = StoreStep(f, j)
               /\ WithSector = f[e]
  BY <1>1, StoredIs
<1> DEFINE T == {n \in Nat : n <= e /\ ~ Stores(f[n], n)}
<1>3. T = {}
  <2> SUFFICES ASSUME T # {} PROVE FALSE
    OBVIOUS
  <2>1. PICK m \in T : \A y \in T : m <= y
    BY LeastNatural
  <2>2. CASE m = 0
    <3>1. f[0] = statbuf
      BY <1>2, <2>2 DEF StoreStep
    <3>2. /\ statbuf \in Seq(Slots) /\ Increasing(statbuf)
          /\ \A i \in 1 .. Len(statbuf) : Before(statbuf[i])
      BY DEF LstatInv, SearchedSector
    <3>3. call.sector * entries_per_sector + 0 = call.sector * entries_per_sector
      <4>1. PICK d, a \in Nat : d = entries_per_sector /\ a = call.sector
        BY Geometry, SectorOfDirectory
      <4>2. a * d \in Nat
        BY Multiples
      <4> QED
        BY <4>1, <4>2
    <3>4. \A j : j \notin 0 .. 0 - 1
      OBVIOUS
    <3>5. Stores(statbuf, 0)
      BY <3>2, <3>3, <3>4 DEF Stores, Before
    <3> QED
      BY <2>1, <2>2, <3>1, <3>5
  <2>3. CASE m # 0
    <3>1. PICK n \in 0 .. e - 1 : m = n + 1
      <4>1. m - 1 \in 0 .. e - 1 /\ m = (m - 1) + 1
        BY <2>1, <2>3
      <4> QED
        BY <4>1
    <3>2. Stores(f[n], n)
      <4>1. n \in Nat /\ n <= e /\ n \notin T
        BY <2>1, <3>1
      <4> QED
        BY <4>1
    <3>3. f[m] = IF n \in Listed THEN Append(f[n], SlotInPage(n)) ELSE f[n]
      <4>1. m \in 0 .. e /\ m # 0 /\ m - 1 = n
        BY <2>1, <2>3, <3>1
      <4> QED
        BY <1>2, <4>1 DEF StoreStep
    <3>4. Stores(f[m], n + 1)
      BY <1>1, <3>2, <3>3, StoresOneMore
    <3> QED
      BY <2>1, <3>1, <3>4
  <2> QED
    BY <2>2, <2>3
<1>4. Stores(f[e], e)
  BY <1>3
<1> QED
  BY <1>1, <1>2, <1>4

\* After a sector, the files up to its end are listed.
LEMMA SectorListed ==
  ASSUME DiskInv, SearchedSector, LstatInv, call.op = "lstat"
  PROVE  /\ WithSector \in Seq(Slots) /\ Increasing(WithSector)
         /\ \A i \in 1 .. Len(WithSector) :
              WithSector[i] < (call.sector + 1) * entries_per_sector
         /\ \A k \in steady : k < (call.sector + 1) * entries_per_sector =>
              (IsFile(k) <=> Lists(WithSector, k))
<1>1. PICK s : s = WithSector /\ Stores(s, entries_per_sector)
  BY SectorStored
<1>2. (call.sector + 1) * entries_per_sector
        = call.sector * entries_per_sector + entries_per_sector
  BY Geometry, SectorOfDirectory, Multiples
<1>3. /\ s \in Seq(Slots) /\ Increasing(s)
      /\ \A i \in 1 .. Len(s) : s[i] < (call.sector + 1) * entries_per_sector
  BY <1>1, <1>2 DEF Stores
<1>4. /\ steady \subseteq Slots
      /\ \A i \in 1 .. Len(statbuf) : Before(statbuf[i])
      /\ \A k \in steady : Before(k) => (IsFile(k) <=> Lists(statbuf, k))
  BY DEF LstatInv, SearchedSector
<1>5. ASSUME NEW k \in steady, k < (call.sector + 1) * entries_per_sector
      PROVE  IsFile(k) <=> Lists(s, k)
  <2>1. k \in Slots
    BY <1>4
  <2>2. Lists(s, k) <=> Lists(statbuf, k)
          \/ \E j \in 0 .. entries_per_sector - 1 : j \in Listed /\ SlotInPage(j) = k
    BY <1>1 DEF Stores
  <2>3. CASE Before(k)
    <3>1. \A j \in 0 .. entries_per_sector - 1 : SlotInPage(j) # k
      BY <2>3, PageIsBehind
    <3> QED
      BY <1>4, <2>2, <2>3, <3>1
  <2>4. CASE ~ Before(k)
    <3>1. ~ Lists(statbuf, k)
      BY <1>4, <2>4 DEF Lists
    <3>2. PICK j \in 0 .. entries_per_sector - 1 : SlotInPage(j) = k
      BY <1>5, <2>1, <2>4, SlotInSector
    <3>3. \A i \in 0 .. entries_per_sector - 1 : i \in Listed <=> IsFile(SlotInPage(i))
      BY ListedIsFile
    <3> QED
      BY <2>2, <3>1, <3>2, <3>3
  <2> QED
    BY <2>3, <2>4
<1> QED
  BY <1>1, <1>3, <1>5

\* What lstat knows depends on.
LEMMA LstatFrame ==
  ASSUME LstatInv, UNCHANGED <<dir, call, steady, statbuf>>, pc' = "root" => pc = "root"
  PROVE  LstatInv'
BY DEF LstatInv, Before, IsFile, InUse, Lists, Increasing

\* LstatInv is inductive relative to DiskInv.
LEMMA LstatStep ==
  ASSUME DiskInv, LstatInv, [DirNext]_dirVars
  PROVE  LstatInv'
<1>1. CASE Host
  <2>1. /\ UNCHANGED <<pc, call, statbuf>> /\ steady' \subseteq steady /\ steady \subseteq Slots
        /\ pc = "root" => \A k \in steady' \cap Slots : IsFile(k)' <=> IsFile(k)
    BY <1>1, HostLeavesSteady DEF LstatInv
  <2>2. ASSUME pc = "root", call.op = "lstat", NEW k \in steady', Before(k)'
        PROVE  IsFile(k)' <=> Lists(statbuf, k)'
    <3>1. k \in steady /\ k \in Slots /\ Before(k) /\ (IsFile(k)' <=> IsFile(k))
      BY <2>1, <2>2 DEF Before
    <3>2. IsFile(k) <=> Lists(statbuf, k)
      BY <2>2, <3>1 DEF LstatInv
    <3> QED
      BY <2>1, <3>1, <3>2 DEF Lists
  <2>3. ASSUME pc = "root", call.op = "lstat"
        PROVE  /\ statbuf' \in Seq(Slots) /\ Increasing(statbuf)'
               /\ \A i \in 1 .. Len(statbuf') : Before(statbuf[i])'
    BY <2>1, <2>3 DEF LstatInv, Increasing, Before
  <2> QED
    BY <2>1, <2>2, <2>3 DEF LstatInv
<1>2. ASSUME NEW op, NEW name, CallStarts(op, name)
      PROVE  LstatInv'
  <2>1. /\ steady' = Slots /\ call' = [op |-> op, name |-> name, sector |-> 0]
        /\ statbuf' = <<>>
    BY <1>2 DEF CallStarts
  <2>2. \A k \in Slots : ~ Before(k)'
    BY <2>1, Geometry DEF Before, Slots
  <2>3. /\ statbuf' \in Seq(Slots) /\ Increasing(statbuf)' /\ Len(statbuf') = 0
    BY <2>1 DEF Increasing
  <2> QED
    BY <2>1, <2>2, <2>3 DEF LstatInv
<1>3. CASE Search /\ pc' = "user"
  <2>1. steady' = Slots
    BY <1>3 DEF Search, OpenFindsFile, OpenFindsNothing, LstatReturns, CallReturns,
                OpenGoesOn, LstatGoesOn, NextSector, ReadDirectorySector
  <2> QED
    BY <1>3, <2>1 DEF LstatInv
<1>4. CASE Search /\ pc' # "user"
  <2>1. /\ SearchedSector /\ NextSector
        /\ call.op = "lstat" => statbuf' = WithSector
    BY <1>4 DEF Search, OpenFindsFile, OpenFindsNothing, LstatReturns, CallReturns,
                OpenGoesOn, LstatGoesOn
  <2>2. /\ call' = [call EXCEPT !.sector = @ + 1] /\ steady' = steady /\ dir' = dir
        /\ pc = "root"
    BY <2>1 DEF NextSector, ReadDirectorySector, SearchedSector
  <2>3. call'.sector = call.sector + 1 /\ call'.op = call.op
    BY <2>2 DEF DiskInv, FileInv
  <2>4. ASSUME call.op = "lstat"
        PROVE  /\ statbuf' \in Seq(Slots) /\ Increasing(statbuf)'
               /\ \A i \in 1 .. Len(statbuf') : Before(statbuf[i])'
               /\ \A k \in steady' : Before(k)' => (IsFile(k)' <=> Lists(statbuf, k)')
    <3>1. PICK s : s = WithSector
      OBVIOUS
    <3>2. /\ s \in Seq(Slots) /\ Increasing(s)
          /\ \A i \in 1 .. Len(s) : s[i] < (call.sector + 1) * entries_per_sector
          /\ \A k \in steady : k < (call.sector + 1) * entries_per_sector =>
               (IsFile(k) <=> Lists(s, k))
      BY <2>1, <2>4, <3>1, SectorListed
    <3>3. statbuf' = s
      BY <2>1, <2>4, <3>1
    <3>4. \A k : (IsFile(k)' <=> IsFile(k)) /\ (Lists(statbuf, k)' <=> Lists(s, k))
      BY <2>2, <3>3 DEF IsFile, InUse, Lists
    <3>5. \A k : Before(k)' <=> k < (call.sector + 1) * entries_per_sector
      BY <2>3 DEF Before
    <3>6. statbuf' \in Seq(Slots) /\ Increasing(statbuf)'
      BY <3>2, <3>3 DEF Increasing
    <3>7. \A i \in 1 .. Len(statbuf') : Before(statbuf[i])'
      BY <2>3, <3>2, <3>3 DEF Before
    <3> QED
      BY <2>2, <3>2, <3>4, <3>5, <3>6, <3>7
  <2>5. steady' \subseteq Slots
    BY <2>2 DEF LstatInv
  <2> QED
    BY <2>3, <2>4, <2>5 DEF LstatInv
<1>5. CASE \/ Reading /\ UNCHANGED <<dir, searchVars>>
           \/ \E k \in Slots : OtherCloses(k)
           \/ UNCHANGED dirVars
  BY <1>5, ReadingLeavesSearch, LstatFrame
<1> QED
  BY <1>1, <1>2, <1>3, <1>4, <1>5 DEF DirNext

\* What ListsDirectory says of a step.
ListsRight ==
  Returns("lstat") =>
    /\ \A i, j \in 1 .. Len(statbuf') : i < j => statbuf'[i] < statbuf'[j]
    /\ \A k \in steady : IsFile(k) <=> \E i \in 1 .. Len(statbuf') : statbuf'[i] = k

\* Every step lists right.
LEMMA LstatStepIsRight ==
  ASSUME DiskInv, LstatInv, [DirNext]_dirVars
  PROVE  ListsRight
<1> SUFFICES ASSUME call.op = "lstat", pc = "root", pc' = "user"
             PROVE  /\ \A i, j \in 1 .. Len(statbuf') : i < j => statbuf'[i] < statbuf'[j]
                    /\ \A k \in steady :
                         IsFile(k) <=> \E i \in 1 .. Len(statbuf') : statbuf'[i] = k
  BY DEF ListsRight, Returns
<1>1. Search
  BY SearchReturns
<1>2. SearchedSector /\ LastSector /\ statbuf' = WithSector
  BY <1>1 DEF Search, OpenFindsFile, OpenGoesOn, OpenFindsNothing, LstatGoesOn, LstatReturns,
              NextSector, ReadDirectorySector
<1>3. PICK s : s = WithSector
  OBVIOUS
<1>4. /\ Increasing(s)
      /\ \A k \in steady : k < (call.sector + 1) * entries_per_sector =>
           (IsFile(k) <=> Lists(s, k))
  BY <1>2, <1>3, SectorListed
<1>5. \A k \in steady : k < (call.sector + 1) * entries_per_sector
  BY <1>2, LastIsLast DEF LstatInv
<1> QED
  BY <1>2, <1>3, <1>4, <1>5 DEF Increasing, Lists

\* lstat() lists the files in the order of their slots, none twice, and of those the
\* host leaves alone exactly the ones that exist, for any directory and whatever it does
\* between the sectors (Lstat).
THEOREM AlwaysListsDirectory == RegisterHolds => (DirSpec => ListsDirectory)
<1> SUFFICES ASSUME RegisterHolds PROVE DirSpec => ListsDirectory
  OBVIOUS
<1>1. DirInit => LstatInv
  BY DEF DirInit, ReadInit, LstatInv
<1>2. DiskInv /\ LstatInv /\ [DirNext]_dirVars => LstatInv'
  BY LstatStep
<1>3. DiskInv /\ LstatInv /\ [DirNext]_dirVars => [ListsRight]_dirVars
  BY LstatStepIsRight
<1>4. DirSpec => [][ListsRight]_dirVars
  BY <1>1, <1>2, <1>3, DiskInvHolds, PTL DEF DirSpec
<1> QED
  BY <1>4 DEF ListsDirectory, ListsRight

=============================================================================
