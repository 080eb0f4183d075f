------------------------------ MODULE MCMemory ------------------------------
(***************************************************************************)
(* An instance of Memory for TLC: pages of 2 units, the kernel ends inside *)
(* page 1.  Booting takes 12 pages and a process 7: the sizes leave room   *)
(* for one child and, after it, for every number of pages at which the     *)
(* next fork can fail, or for all slots.                                   *)
(***************************************************************************)
EXTENDS Memory

Region(from, to, type) == [address |-> from, length |-> to - from, type |-> type]

\* Memory below the kernel, a reserved region and the rest of it: n pages.
Simple(n) == <<Region(0, 1, 1), Region(1, 2, 2), Region(2, 4 + 2 * n, 1)>>

\* A hole that is not aligned, and memory behind the limit: 4 + 16 pages.
WithHole == <<Region(2, 13, 1), Region(13, 17, 3), Region(17, 51, 1)>>

\* A region that begins where the kernel ends and goes beyond the limit.
BeyondLimit == <<Region(3, 80, 1)>>

TooMany == Simple(20) \o <<Region(50, 51, 2)>>

MCBiosMaps == {Simple(n) : n \in {2, 4, 8, 11} \cup 19 .. 26}
                \cup {WithHole, BeyondLimit, TooMany, <<>>}
MCWaitPids  == {2, 3, 4, 5}
MCNoSleeps  == {}

=============================================================================
