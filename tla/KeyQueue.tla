------------------------------ MODULE KeyQueue ------------------------------
(***************************************************************************)
(* What the keyboard driver promises its readers: a bounded first-in       *)
(* first-out queue.  A key that finds the queue full is dropped; every     *)
(* other key is delivered exactly once and in the order of typing.         *)
(***************************************************************************)
EXTENDS Integers, Sequences

CONSTANTS
  Keys,      \* what may be typed
  Capacity   \* how many keys the queue holds

VARIABLES queue, out

QueueInit == queue = <<>> /\ out = <<>>

Put(k) == /\ Len(queue) < Capacity
          /\ queue' = Append(queue, k)
          /\ UNCHANGED out

Get == /\ queue # <<>>
       /\ out' = Append(out, Head(queue))
       /\ queue' = Tail(queue)

QueueNext == Get \/ \E k \in Keys : Put(k)

QueueSpec == QueueInit /\ [][QueueNext]_<<queue, out>>

=============================================================================
