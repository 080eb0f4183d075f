---------------------------- MODULE IntrusiveList ----------------------------
(***************************************************************************)
(* The linked lists of libc/list.c, at the level of their pointers, and    *)
(* the two removal loops of kernel/process.c that work on them.            *)
(*                                                                         *)
(* An item carries one next field, whichever list it is in; a HeadList has *)
(* next and tail, and its next lies where an item's next lies, so that the *)
(* loops treat the head as the item before the first.  An item that leaves *)
(* a list keeps its old next.                                              *)
(***************************************************************************)
EXTENDS Integers, Sequences, FiniteSets

CONSTANTS
  Heads,   \* the HeadLists: ready, wait and kill list of the scheduler
  Items,   \* the processes
  NULL

ASSUME ListAssumption ==
  /\ IsFiniteSet(Items)
  /\ Heads \cap Items = {} /\ NULL \notin Heads \cup Items

VARIABLES
  next,    \* of heads and items
  tail,    \* of heads
  held     \* the items that the caller holds: they are in no list

listVars == <<next, tail, held>>

ListInit == /\ next = [x \in Heads \cup Items |-> NULL]
            /\ tail = [h \in Heads |-> NULL]
            /\ held = Items

ListIsEmpty(h) == next[h] = NULL

MutPushKeepsNext(h, x) ==
  /\ x \in held
  /\ next' = [next EXCEPT ![IF ListIsEmpty(h) THEN h ELSE tail[h]] = x]
  /\ tail' = [tail EXCEPT ![h] = x]
  /\ held' = held \ {x}

ListPushBack(h, x) ==
  /\ x \in held
  /\ next' = [next EXCEPT ![x] = NULL,
                          ![IF ListIsEmpty(h) THEN h ELSE tail[h]] = x]
  /\ tail' = [tail EXCEPT ![h] = x]
  /\ held' = held \ {x}

ListPopFront(h) ==
  /\ ~ ListIsEmpty(h)
  /\ LET item == next[h]
     IN  /\ next' = [next EXCEPT ![h] = next[item]]
         /\ tail' = [tail EXCEPT ![h] = IF next[item] = NULL THEN NULL ELSE @]
         /\ held' = held \cup {item}

-----------------------------------------------------------------------------
(* WaitListRemoveReadyProcess and RemoveProcessWithPID: walk from the head *)
(* to the first item that matches (its wait_id, its pid) and unlink it.    *)

\* The head and the items a walk along next visits.
Walk(h) ==
  LET walk[n \in 0 .. Cardinality(Items)] ==
        IF n = 0 THEN <<h>>
        ELSE LET w == walk[n - 1]
             IN  IF next[w[Len(w)]] = NULL THEN w ELSE Append(w, next[w[Len(w)]])
  IN  walk[Cardinality(Items)]

\* Take current out, which prev leads to.
MutUnlinkForgetsTail(h, prev, current) ==
  /\ next' = [next EXCEPT ![prev] = next[current]]
  /\ tail' = [tail EXCEPT ![h] = IF next'[h] = NULL THEN NULL ELSE @]
  /\ held' = held \cup {current}

Unlink(h, prev, current) ==
  /\ next' = [next EXCEPT ![prev] = next[current]]
  /\ tail' = [tail EXCEPT ![h] = IF next'[h] = NULL THEN NULL
                                 ELSE IF next[current] = NULL THEN prev ELSE @]
  /\ held' = held \cup {current}

RemoveMatching(h, S) ==
  \E k \in 2 .. Len(Walk(h)) :
    /\ Walk(h)[k] \in S
    /\ \A j \in 2 .. k - 1 : Walk(h)[j] \notin S
    /\ Unlink(h, Walk(h)[k - 1], Walk(h)[k])

ListNext == \E h \in Heads : \/ \E x \in Items : ListPushBack(h, x)
                             \/ ListPopFront(h)
                             \/ \E S \in SUBSET Items : RemoveMatching(h, S)

ListSpec == ListInit /\ [][ListNext]_listVars

-----------------------------------------------------------------------------
\* The queue a list stands for: the items of the walk.
Contents(h) == Tail(Walk(h))

Promise == INSTANCE Queues WITH queue <- [h \in Heads |-> Contents(h)]

\* The lists are queues: pushing, popping and unlinking through the shared
\* next field never loses, repeats or reorders an item of this or of another
\* list, whatever stale next the item brings along.
IsQueues == Promise!QueuesSpec

\* tail is the last item, or NULL in an empty list: the next ListPushBack
\* writes through it without looking.
TailIsLast ==
  \A h \in Heads :
    tail[h] = IF Contents(h) = <<>> THEN NULL
              ELSE Contents(h)[Len(Contents(h))]

=============================================================================
