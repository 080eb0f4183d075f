----------------------------- MODULE MCKeyboard -----------------------------
(***************************************************************************)
(* Instances of Keyboard for TLC.                                          *)
(***************************************************************************)
EXTENDS Keyboard

MCOneReader  == {1}
MCTwoReaders == {1, 2}

\* The reader's pid and that of the first child: a process that waits for the
\* reader spins in Wait() when the child is killed.
MCWaitPids   == {1, 2}
MCSleepTicks == {1}
MCLengths    == {0, 1, 2}

=============================================================================
