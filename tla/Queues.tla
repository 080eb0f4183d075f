------------------------------- MODULE Queues -------------------------------
(***************************************************************************)
(* What libc/list.h promises the scheduler: each HeadList is a queue.  An  *)
(* item that is in no queue can be pushed to the back of one, the front    *)
(* can be popped, and the first item that matches can be taken out.        *)
(***************************************************************************)
EXTENDS Integers, Sequences

CONSTANTS Heads, Items

VARIABLES queue, held     \* held: the items that are in no queue

QueuesInit == /\ queue = [h \in Heads |-> <<>>]
              /\ held = Items

Push(h, x) == /\ x \in held
              /\ queue' = [queue EXCEPT ![h] = Append(@, x)]
              /\ held' = held \ {x}

\* Take out the k-th item.
Take(h, k) == /\ queue' = [queue EXCEPT ![h] = SubSeq(@, 1, k - 1)
                                               \o SubSeq(@, k + 1, Len(@))]
              /\ held' = held \cup {queue[h][k]}

Pop(h) == queue[h] # <<>> /\ Take(h, 1)

Remove(h, S) == \E k \in 1 .. Len(queue[h]) :
                  /\ queue[h][k] \in S
                  /\ \A j \in 1 .. k - 1 : queue[h][j] \notin S
                  /\ Take(h, k)

QueuesNext == \E h \in Heads : \/ \E x \in Items : Push(h, x)
                               \/ Pop(h)
                               \/ \E S \in SUBSET Items : Remove(h, S)

QueuesSpec == QueuesInit /\ [][QueuesNext]_<<queue, held>>

=============================================================================
