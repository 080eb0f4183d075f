---------------------------- MODULE ProcessQueue ----------------------------
(***************************************************************************)
(* The scheduler's three process lists (HeadList of libc/list.c), as       *)
(* sequences of process slots.  ListPushBack is Append, ListPopFront is    *)
(* Head and Tail, ListIsEmpty is a comparison with <<>>.  The two removal  *)
(* loops of process.c need an order-preserving filter, which is written    *)
(* here as a recursive function so that it can be reasoned about.          *)
(***************************************************************************)
EXTENDS Integers, Sequences, Functions

\* Select(q, S) is the subsequence of q whose elements are in S, in order.
SelectPrefix(q, S) ==
  LET F[i \in 0..Len(q)] ==
        IF i = 0 THEN <<>>
        ELSE IF q[i] \in S THEN Append(F[i-1], q[i]) ELSE F[i-1]
  IN  F

Select(q, S) == SelectPrefix(q, S)[Len(q)]

\* The rest of q, still in order.
Without(q, S) == Select(q, Range(q) \ S)

\* No process is linked twice into one list.
NoDuplicates(q) == IsInjective(q)

=============================================================================
