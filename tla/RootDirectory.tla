---------------------------- MODULE RootDirectory ----------------------------
(***************************************************************************)
(* open() and lstat() of kernel/file.c: the search of the root directory,  *)
(* one sector at a time through the drive of FileRead, while the host may  *)
(* write to the image (README.md, section 5).  One call at a time; of the  *)
(* descriptors one reads, and the others are counted in the control blocks *)
(* (module FileTable has all of them).                                     *)
(*                                                                         *)
(* dir is what the directory holds: per slot the kind of its entry, and    *)
(* clusters and size of its file.  The rest of the entry is what the host  *)
(* would put there, Entries[slot].                                         *)
(***************************************************************************)
EXTENDS FileRead, FiniteSets

CONSTANTS
  Entries,       \* per slot: name, ext, attributes, the name ls shows, and contents,
                 \* the clusters and sizes that the host may give the file
  MaxOpen,       \* bound: descriptors that are open at the same time
  Names,         \* the names user code opens
  LowerCase      \* of each capital letter

entries_per_sector == bytes_per_sector \div DirEntrySize

ASSUME DirectoryAssumption ==
  /\ DOMAIN Entries = Slots
  /\ DirEntrySize \in Nat \ {0} /\ bytes_per_sector % DirEntrySize = 0
  /\ GetRootDirectorySectorSize * bytes_per_sector = root_dir_entries * DirEntrySize
  /\ GetRootDirectorySectorSize > 0
  /\ \A k \in Slots : \A data \in Entries[k].contents :
       /\ data.chain \in Seq({c \in Nat : c >= START_CLUSTER_INDEX})
       /\ data.size \in 1 .. Len(data.chain) * BytesPerCluster
  /\ MaxOpen \in Nat \ {0}
  /\ Names \subseteq Seq(STRING)

ENOENT == -2
EAGAIN == -11
LONG_NAME == 15      \* attributes of an entry that holds a part of a long name

VARIABLES
  dir,
  call,        \* "open" or "lstat" while pc = "root", the name, the sector
  result,      \* what the last open() returned: a slot or an error
  statbuf,     \* what lstat() has stored: slots
  steady       \* history: the slots the host has not touched since the call began

searchVars == <<call, result, statbuf, steady>>
dirVars    == <<readVars, dir, searchVars>>

NoData == [chain |-> <<>>, size |-> 0]
NoCall == [op |-> "none", name |-> <<>>, sector |-> 0]

DirInit ==
  /\ ReadInit
  /\ dir = [k \in Slots |-> [kind |-> "empty", data |-> NoData]]
  /\ call = NoCall /\ result = 0 /\ statbuf = <<>> /\ steady = Slots

-----------------------------------------------------------------------------
(* The host.  It keeps the names distinct, gives a file its clusters when  *)
(* it writes data, some time after the entry, and takes a slot out of use  *)
(* by its first byte.                                                      *)

InUse(k)  == dir[k].kind \in {"created", "written"}
IsFile(k) == InUse(k) /\ Entries[k].attributes # LONG_NAME

HostTouches(k, kind, data) ==
  /\ dir' = [dir EXCEPT ![k] = [kind |-> kind, data |-> data]]
  /\ steady' = IF pc = "root" THEN steady \ {k} ELSE steady
  /\ UNCHANGED <<readVars, call, result, statbuf>>

HostCreates(k) ==
  /\ ~ InUse(k)
  /\ \A j \in Slots \ {k} : IsFile(j) => Entries[j].listed # Entries[k].listed
  /\ HostTouches(k, "created", NoData)

HostWrites(k, data) == IsFile(k) /\ HostTouches(k, "written", data)

HostDeletes(k) == InUse(k) /\ HostTouches(k, "deleted", NoData)

Host == \E k \in Slots : \/ HostCreates(k) \/ HostDeletes(k)
                         \/ \E data \in Entries[k].contents : HostWrites(k, data)

-----------------------------------------------------------------------------
(* Names.  name and ext are padded with blanks; a name without extension   *)
(* still gets the dot.                                                     *)

Unpadded(field) ==
  SubSeq(field, 1, Cardinality({i \in DOMAIN field :
                                  \A j \in 1 .. i : field[j] # " "}))

GetRelativeFileName(k) ==
  Unpadded(Entries[k].name) \o <<".">> \o Unpadded(Entries[k].ext)

tolower(c) == IF c \in DOMAIN LowerCase THEN LowerCase[c] ELSE c

\* strcasecmp(s, t) = 0
SameIgnoringCase(s, t) ==
  Len(s) = Len(t) /\ \A i \in 1 .. Len(s) : tolower(s[i]) = tolower(t[i])

-----------------------------------------------------------------------------
(* A sector of the directory in the page.  The entries are looked at as    *)
(* they are after the transfer: a change by the host between the transfer  *)
(* and the look could as well have come before or after both.              *)

\* Entry j of the page, counted from 0.
SlotInPage(j) == (page[j * DirEntrySize + 1]
                    - GetRootDirectoryStartSector * bytes_per_sector) \div DirEntrySize

\* The entries of the page that are not skipped.
MutListedWithDeleted ==
  {j \in 0 .. entries_per_sector - 1 :
     /\ SlotInPage(j) \in Slots
     /\ dir[SlotInPage(j)].kind # "empty"
     /\ Entries[SlotInPage(j)].attributes # LONG_NAME}

Listed ==
  {j \in 0 .. entries_per_sector - 1 :
     /\ SlotInPage(j) \in Slots
     /\ dir[SlotInPage(j)].kind \notin {"empty", "deleted"}
     /\ Entries[SlotInPage(j)].attributes # LONG_NAME}

Found ==
  {j \in Listed :
     SameIgnoringCase(call.name, GetRelativeFileName(SlotInPage(j)))}

First(S) == CHOOSE x \in S : \A y \in S : x <= y

\* The index FindFileInRootDir returns.
MutIndexInSector(sector, j) == j
EntryIndex(sector, j) == sector * entries_per_sector + j

\* DiskReadSectors of one sector of the directory into the cleared page.
ReadDirectorySector(sector) ==
  /\ pc' = "root" /\ sectors' = 1 /\ page' = <<>>
  /\ DriveTakes(GetRootDirectoryStartSector + sector, SectorCount(1))
  /\ UNCHANGED <<fileVars, position, size, dir>>

Descriptors == {d \in Slots \X (1 .. MaxOpen) : d[2] <= fcb[d[1]].open_count}

CallStarts(op, name) ==
  /\ pc = "user" /\ (op = "open" => Cardinality(Descriptors) < MaxOpen)
  /\ call' = [op |-> op, name |-> name, sector |-> 0]
  /\ result' = 0 /\ statbuf' = <<>> /\ steady' = Slots /\ out' = NoBytes
  /\ ReadDirectorySector(0)

SearchedSector == pc = "root" /\ sectors = 0
LastSector     == call.sector = GetRootDirectorySectorSize - 1

CallReturns == /\ pc' = "user" /\ call' = NoCall /\ steady' = Slots
               /\ UNCHANGED <<size, sectors, page, drive, ready, out, dir>>

NextSector == /\ ~ LastSector
              /\ call' = [call EXCEPT !.sector = @ + 1]
              /\ ReadDirectorySector(call.sector + 1)
              /\ UNCHANGED <<result, steady, out>>

\* One descriptor more on the control block; it is set up from the entry only if
\* the file is not open yet.
MutSetUpAlways(block, data) ==
  [open_count |-> block.open_count + 1, chain |-> data.chain, file_size |-> data.size]

Linked(block, data) ==
  IF block.open_count = 0
  THEN [open_count |-> 1, chain |-> data.chain, file_size |-> data.size]
  ELSE [block EXCEPT !.open_count = @ + 1]

\* Open with what was found, unless the host has not given it a cluster.  The new
\* descriptor is the one that reads, if that is not in use.
OpenEntry(j) ==
  LET k     == SlotInPage(j)
      index == EntryIndex(call.sector, j)
  IN  IF dir[k].kind = "created"
      THEN result' = EAGAIN /\ UNCHANGED <<fileVars, position>>
      ELSE /\ result' = index
           /\ fcb' = [fcb EXCEPT ![index] = Linked(@, dir[k].data)]
           /\ IF file = NOFILE THEN file' = index /\ position' = 0
              ELSE UNCHANGED <<file, position>>

OpenFindsFile ==
  /\ SearchedSector /\ call.op = "open" /\ Found # {}
  /\ OpenEntry(First(Found))
  /\ CallReturns /\ UNCHANGED statbuf

OpenGoesOn ==
  /\ SearchedSector /\ call.op = "open" /\ Found = {}
  /\ NextSector /\ UNCHANGED statbuf

OpenFindsNothing ==
  /\ SearchedSector /\ call.op = "open" /\ Found = {}
  /\ LastSector
  /\ result' = ENOENT
  /\ CallReturns /\ UNCHANGED <<fileVars, position, statbuf>>

\* Lstat: the entries of the sector are stored behind the others.
WithSector ==
  LET stored[j \in 0 .. entries_per_sector] ==
        IF j = 0 THEN statbuf
        ELSE IF j - 1 \in Listed
             THEN Append(stored[j - 1], SlotInPage(j - 1)) ELSE stored[j - 1]
  IN  stored[entries_per_sector]

LstatGoesOn == /\ SearchedSector /\ call.op = "lstat"
               /\ statbuf' = WithSector
               /\ NextSector

LstatReturns == /\ SearchedSector /\ call.op = "lstat" /\ LastSector
                /\ statbuf' = WithSector
                /\ CallReturns
                /\ UNCHANGED <<fileVars, position, result>>

\* Close, of a descriptor that is not the one that reads.
OtherCloses(k) ==
  /\ pc = "user" /\ fcb[k].open_count > (IF file = k THEN 1 ELSE 0)
  /\ fcb' = [fcb EXCEPT ![k].open_count = @ - 1]
  /\ UNCHANGED <<file, position, pc, size, sectors, page, drive, ready, out, dir, searchVars>>

Search == OpenFindsFile \/ OpenGoesOn \/ OpenFindsNothing
            \/ LstatGoesOn \/ LstatReturns

Reading == \/ \E n \in ReadSizes : ReadStarts(n)
           \/ ReadSector \/ WaitForDrive \/ ReadReturns \/ Close \/ DriveReady

DirNext == \/ Host
           \/ \E name \in Names : CallStarts("open", name)
           \/ CallStarts("lstat", <<>>)
           \/ Search
           \/ \E k \in Slots : OtherCloses(k)
           \/ Reading /\ UNCHANGED <<dir, searchVars>>

\* The kernel, which is one thread, goes on whenever it can, and the drive delivers.
DirSpec == /\ DirInit /\ [][DirNext]_dirVars
           /\ WF_dirVars(\/ Search
                         \/ (ReadSector \/ ReadReturns) /\ UNCHANGED <<dir, searchVars>>)
           /\ WF_dirVars(DriveReady /\ UNCHANGED <<dir, searchVars>>)

-----------------------------------------------------------------------------
(* Properties.                                                             *)

Returns(op) == call.op = op /\ pc = "root" /\ pc' = "user"

\* The slots of files that ls would show under a name.
Called(name) ==
  {k \in Slots : IsFile(k) /\ [i \in 1 .. Len(name) |-> tolower(name[i])]
                                = Entries[k].listed}

\* No descriptor that is open gets another file, or another size of it.
OthersKeepTheirFile ==
  \A k \in Slots : fcb[k].open_count > 0 =>
    fcb'[k].chain = fcb[k].chain /\ fcb'[k].file_size = fcb[k].file_size

\* open() takes the file that ls shows under the name, in upper or lower case,
\* and returns its index; it fails only if that file has no data, or if there was no
\* such file all the time.  Deleted entries, parts of long names and what the host
\* does meanwhile do not lead it to another file (file.c: "Found the file").  The
\* first descriptor on the file gets the clusters and the size of the entry, and the
\* ones that follow share them, also if the host has rewritten the file, so that no
\* position is taken for one in another file.
OpensNamedFile ==
  [][Returns("open") =>
       /\ OthersKeepTheirFile
       /\ CASE result' \in Slots ->
                 /\ result' \in Called(call.name)
                 /\ \A k \in Called(call.name) \cap steady : result' <= k
                 /\ fcb'[result'].open_count = fcb[result'].open_count + 1
                 /\ fcb[result'].open_count = 0 =>
                      /\ fcb'[result'].chain = dir[result'].data.chain
                      /\ fcb'[result'].file_size = dir[result'].data.size
            [] result' = EAGAIN ->
                 \E k \in Called(call.name) : dir[k].kind = "created"
            [] OTHER -> result' = ENOENT /\ Called(call.name) \cap steady = {}]_dirVars

\* lstat() lists the files in the order of their slots, none twice; of those the
\* host leaves alone it lists exactly the ones that exist.
ListsDirectory ==
  [][Returns("lstat") =>
       /\ \A i, j \in 1 .. Len(statbuf') : i < j => statbuf'[i] < statbuf'[j]
       /\ \A k \in steady : IsFile(k) <=> \E i \in 1 .. Len(statbuf') : statbuf'[i] = k
    ]_dirVars

\* Every call that was started returns, whatever the host does to the directory
\* and to a file that is open: the drive becomes ready as often as the loop in
\* DiskReadSectors, which has no time limit, waits for it, and the ASSERT on the
\* cluster in ReadFileData does not stop the machine.
CallsEnd == pc # "user" ~> pc = "user"

=============================================================================
