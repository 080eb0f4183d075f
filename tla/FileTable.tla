------------------------------ MODULE FileTable ------------------------------
(***************************************************************************)
(* Open files (kernel/file.c): the descriptors of each process, the table  *)
(* of file descriptor entries they point to, and the table of file control *)
(* blocks those point to.  Fork makes the child share the parent's entries *)
(* and Wait gives up those of a killed process (kernel/process.c), so the  *)
(* two tables count their users.  On top of Scheduler.                     *)
(*                                                                         *)
(* A file is its index in the root directory, which is its index in the    *)
(* table of control blocks.  The kernel only reads the disk, but the host  *)
(* may write to the image it has mounted (README.md, section 5), so a size *)
(* in a control block is that of the moment it was filled in.              *)
(***************************************************************************)
EXTENDS Scheduler, FiniteSets

CONSTANTS
  Fds,          \* USER_START_FD .. PROCESS_MAXIMUM_FILE_DESCRIPTOR - 1
  FDEntries,    \* indices of s_fd_table
  Files,        \* root directory entries that can be opened
  FileSizes,    \* the sizes they may have
  ReadSizes     \* the sizes user code gives to read()

ASSUME FileAssumption ==
  /\ Fds \subseteq Nat /\ FDEntries \subseteq Nat
  /\ IsFiniteSet(Fds) /\ IsFiniteSet(FDEntries)
  /\ FileSizes \subseteq Nat /\ ReadSizes \subseteq Nat

NULL == -1
ASSUME NullAssumption == NULL \notin Files \cup FDEntries

VARIABLES
  file,         \* per slot and descriptor: an entry of s_fd_table or NULL
  fcb, position, open_count,   \* fields of each entry of s_fd_table
  fcb_open_count, file_size,   \* fields of each entry of s_fcb_table
  disk_size                    \* the size in each directory entry

fdVars   == <<fcb, position, open_count>>
fcbVars  == <<fcb_open_count, file_size>>
fileVars == <<file, fdVars, fcbVars, disk_size>>
allVars  == <<vars, fileVars>>

FileInit ==
  /\ Init
  /\ file = [p \in Slots |-> [d \in Fds |-> NULL]]
  /\ fcb = [e \in FDEntries |-> NULL]
  /\ position = [e \in FDEntries |-> 0]
  /\ open_count = [e \in FDEntries |-> 0]
  /\ fcb_open_count = [f \in Files |-> 0]
  /\ file_size = [f \in Files |-> 0]
  /\ disk_size \in [Files -> FileSizes]

\* The host rewrites a file on the image.
HostWrites(f, n) == /\ disk_size' = [disk_size EXCEPT ![f] = n]
                    /\ UNCHANGED <<vars, file, fdVars, fcbVars>>

Least(S) == CHOOSE x \in S : \A y \in S : x <= y

-----------------------------------------------------------------------------
(* Open, Close and Read of the running process.                            *)

FreeFds     == {d \in Fds : file[current_proc][d] = NULL}
FreeEntries == {e \in FDEntries : fcb[e] = NULL}

\* Open fails: EMFILE, ENOMEM, or the file is not there.
OpenFails == UserMode /\ UNCHANGED allVars

\* The control block is filled in for the first user only.
MutFillFCBAlways(f) == file_size' = [file_size EXCEPT ![f] = disk_size[f]]

FillFCB(f) ==
  file_size' = IF fcb_open_count[f] = 0
               THEN [file_size EXCEPT ![f] = disk_size[f]] ELSE file_size

Open(f) ==
  LET e == Least(FreeEntries)
      d == Least(FreeFds)
  IN  /\ UserMode /\ FreeFds # {} /\ FreeEntries # {}
      /\ fcb_open_count' = [fcb_open_count EXCEPT ![f] = @ + 1]
      /\ fcb' = [fcb EXCEPT ![e] = f]
      /\ position' = [position EXCEPT ![e] = 0]
      /\ open_count' = [open_count EXCEPT ![e] = 1]
      /\ file' = [file EXCEPT ![current_proc][d] = e]
      /\ FillFCB(f)
      /\ UNCHANGED <<vars, disk_size>>

\* One user less of entry e, which is given back with its last user.
Users(p, e) == Cardinality({d \in Fds : file[p][d] = e})
DropUsers(p) ==
  /\ open_count' = [e \in FDEntries |-> open_count[e] - Users(p, e)]
  /\ fcb' = [e \in FDEntries |->
               IF Users(p, e) > 0 /\ open_count'[e] = 0 THEN NULL ELSE fcb[e]]
  /\ fcb_open_count' =
       [f \in Files |-> fcb_open_count[f]
          - Cardinality({d \in Fds : /\ file[p][d] # NULL
                                     /\ fcb[file[p][d]] = f})]

MutCloseClearsEntry(d) ==
  LET e == file[current_proc][d]
  IN  /\ UserMode /\ e # NULL
      /\ fcb_open_count' = [fcb_open_count EXCEPT ![fcb[e]] = @ - 1]
      /\ open_count' = [open_count EXCEPT ![e] = @ - 1]
      /\ fcb' = [fcb EXCEPT ![e] = NULL]
      /\ file' = [file EXCEPT ![current_proc][d] = NULL]
      /\ UNCHANGED <<vars, position, file_size, disk_size>>

Close(d) ==
  LET e == file[current_proc][d]
  IN  /\ UserMode /\ e # NULL
      /\ fcb_open_count' = [fcb_open_count EXCEPT ![fcb[e]] = @ - 1]
      /\ open_count' = [open_count EXCEPT ![e] = @ - 1]
      /\ fcb' = [fcb EXCEPT ![e] = IF open_count'[e] = 0 THEN NULL ELSE @]
      /\ file' = [file EXCEPT ![current_proc][d] = NULL]
      /\ UNCHANGED <<vars, position, file_size, disk_size>>

\* Read: at most the rest of the file, and the position moves on.
ReadSize(pos, size, length) ==
  IF pos + size > length THEN length - pos ELSE size

Read(d, size) ==
  LET e == file[current_proc][d]
  IN  /\ UserMode /\ e # NULL
      /\ position' = [position EXCEPT ![e] =
                        @ + ReadSize(@, size, file_size[fcb[e]])]
      /\ UNCHANGED <<vars, file, fcb, open_count, fcbVars, disk_size>>

-----------------------------------------------------------------------------
(* The process manager.                                                    *)

\* Exec: Open, Read all, Close.  The entry is free again, read to its end; a
\* process that can open no more files ends here.
Exec(f) ==
  LET e == Least(FreeEntries)
  IN  /\ UserMode /\ FreeFds # {} /\ FreeEntries # {}
      /\ FillFCB(f)
      /\ position' = [position EXCEPT ![e] = file_size'[f]]
      /\ open_count' = [open_count EXCEPT ![e] = 0]
      /\ UNCHANGED <<vars, file, fcb, fcb_open_count, disk_size>>

ExecFails == UserMode /\ Exit /\ UNCHANGED fileVars

\* Fork: the child's descriptors are the parent's, and every entry counts them.
MutForkForgetsEntries ==
  /\ ForkSucceeds
  /\ file' = [file EXCEPT ![FindFreeProcessSlot] = file[current_proc]]
  /\ fcb_open_count' =
       [f \in Files |-> fcb_open_count[f]
          + Cardinality({d \in Fds : /\ file[current_proc][d] # NULL
                                     /\ fcb[file[current_proc][d]] = f})]
  /\ UNCHANGED <<fdVars, file_size, disk_size>>

ForkSharesFiles ==
  /\ ForkSucceeds
  /\ file' = [file EXCEPT ![FindFreeProcessSlot] = file[current_proc]]
  /\ open_count' = [e \in FDEntries |-> open_count[e] + Users(current_proc, e)]
  /\ fcb_open_count' =
       [f \in Files |-> fcb_open_count[f]
          + Cardinality({d \in Fds : /\ file[current_proc][d] # NULL
                                     /\ fcb[file[current_proc][d]] = f})]
  /\ UNCHANGED <<fcb, position, file_size, disk_size>>

ForkFails == (ForkFailsEarly \/ ForkFailsInSetupKVM \/ ForkFailsInCopyUVM)
               /\ UNCHANGED fileVars

\* Wait: the killed process gives up its entries and its slot is cleared.
MutReapLeavesFiles ==
  /\ WaitReaps
  /\ LET p == CHOOSE q \in Slots : Matches(q) /\ state[q] = "KILLED"
     IN  file' = [file EXCEPT ![p] = [d \in Fds |-> NULL]]
  /\ UNCHANGED <<fdVars, fcbVars, disk_size>>

WaitClosesFiles ==
  /\ WaitReaps
  /\ LET p == CHOOSE q \in Slots : Matches(q) /\ state[q] = "KILLED"
     IN  /\ DropUsers(p)
         /\ file' = [file EXCEPT ![p] = [d \in Fds |-> NULL]]
  /\ UNCHANGED <<position, file_size, disk_size>>

FileNext ==
  \/ \E f \in Files, n \in FileSizes : HostWrites(f, n)
  \/ \E f \in Files : Open(f) \/ Exec(f)
  \/ \E d \in Fds : Close(d) \/ \E n \in ReadSizes : Read(d, n)
  \/ OpenFails \/ ExecFails
  \/ ForkSharesFiles \/ ForkFails \/ WaitClosesFiles
  \/ (TimerInterrupt \/ SysExit \/ WaitSleeps \/ WaitSpins) /\ UNCHANGED fileVars
  \/ \E p \in WaitPids : SysWait(p) /\ UNCHANGED fileVars

FileSpec == FileInit /\ [][FileNext]_allVars

-----------------------------------------------------------------------------
(* Properties.                                                             *)

References(e) == {r \in Slots \X Fds : file[r[1]][r[2]] = e}

\* An entry counts the descriptors that point to it, over all processes, killed
\* ones included until they are cleaned up, and it is free (fcb is NULL)
\* exactly when there are none.
EntriesCounted ==
  \A e \in FDEntries :
    /\ open_count[e] = Cardinality(References(e))
    /\ fcb[e] = NULL <=> References(e) = {}

\* A control block counts the descriptors that reach it through an entry (Close
\* asserts that the count is positive).
FilesCounted ==
  \A f \in Files :
    fcb_open_count[f] =
      Cardinality(UNION {References(e) : e \in {x \in FDEntries : fcb[x] = f}})

\* Nobody reads past the end of a file as its control block has it, however the
\* descriptors that share the position are used and the file changes on disk:
\* Read() computes file_size - position in an unsigned type.
PositionInFile ==
  \A e \in FDEntries : fcb[e] # NULL => position[e] <= file_size[fcb[e]]

\* A descriptor that stays open stays on its file: no other process's open,
\* close, exit or clean-up takes its entry away.
DescriptorStableStep ==
  \A p \in Slots, d \in Fds :
    file[p][d] # NULL /\ file'[p][d] = file[p][d] =>
      fcb'[file[p][d]] = fcb[file[p][d]]
DescriptorStable == [][DescriptorStableStep]_allVars

=============================================================================
