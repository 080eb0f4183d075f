--------------------------- MODULE MCUserPrograms ---------------------------
(***************************************************************************)
(* Instances of UserPrograms for TLC.                                      *)
(***************************************************************************)
EXTENDS UserPrograms

\* The shell and process1 wait for pids that fork returned, or for -ENOMEM.
MCWaitPids == {-12} \cup 1 .. MaxPid
MCNoSleeps == {}
MCNested   == {"process1"}
MCAll      == {"process1", "process3", "process4"}

=============================================================================
