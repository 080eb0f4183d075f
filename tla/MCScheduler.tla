----------------------------- MODULE MCScheduler -----------------------------
(***************************************************************************)
(* Instances of Scheduler for TLC.  The .cfg files give the constants.     *)
(***************************************************************************)
EXTENDS Scheduler

\* Arguments of wait(): the shell's pid, two of the pids that fork returns, and
\* -ENOMEM, which a failed fork returns.
MCWaitPids == {1, 2, 3, -12}
MCSleepTicks == {0, 2}

=============================================================================
