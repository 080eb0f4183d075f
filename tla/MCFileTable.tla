----------------------------- MODULE MCFileTable -----------------------------
(***************************************************************************)
(* An instance of FileTable for TLC: two files, two descriptors for each   *)
(* process and two entries for all.                                        *)
(***************************************************************************)
EXTENDS FileTable

MCFds       == {3, 4}
MCFDEntries == {0, 1}
MCFiles     == {5, 7}
MCFileSizes == {1, 2}
MCReadSizes == {1, 3}
MCWaitPids  == {2, 3}
MCNoSleeps  == {}

=============================================================================
