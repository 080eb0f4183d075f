--------------------------- MODULE MCIntrusiveList ---------------------------
(***************************************************************************)
(* An instance of IntrusiveList for TLC.                                   *)
(***************************************************************************)
EXTENDS IntrusiveList

CONSTANTS ready, wait, kill, p1, p2, p3, p4

MCHeads == {ready, wait, kill}
MCItems == {p1, p2, p3, p4}

=============================================================================
