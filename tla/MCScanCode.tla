----------------------------- MODULE MCScanCode -----------------------------
(***************************************************************************)
(* Instances of ScanCode for TLC.                                          *)
(***************************************************************************)
EXTENDS ScanCode

\* a, 1, left shift, caps lock; a with both shift keys; 1 with caps lock.
MCPlainKeys  == {30, 2, 42, 58}
MCBothShifts == {30, 42, 54}
MCLockKeys   == {2, 58}

\* Print screen starts with a shift of its own (0xE0 0x2A); 0xE0 0x1E has the
\* second byte of a letter.
MCExtendedKeys == {42, 30}

=============================================================================
