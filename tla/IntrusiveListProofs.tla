------------------------ MODULE IntrusiveListProofs -------------------------
(***************************************************************************)
(* Theorems about IntrusiveList, for any number of lists and items: the    *)
(* pointers always spell out a queue for each list, and every operation on *)
(* the pointers is one on the queues.                                      *)
(***************************************************************************)
EXTENDS IntrusiveList, WellFoundedInduction, NaturalsInduction, FiniteSetTheorems,
        SequenceTheorems, TLAPS

\* A non-empty set of natural numbers has a least element: the form in which
\* induction is used below.
LEMMA LeastNatural ==
  ASSUME NEW T, T \subseteq Nat, T # {}
  PROVE  \E x \in T : \A y \in T : x <= y
<1>1. IsWellFoundedOn(OpToRel(<, Nat), Nat)
  BY NatLessThanWellFounded, Zenon
<1>2. PICK x \in T : \A y \in T : ~ (<<y, x>> \in OpToRel(<, Nat))
  BY <1>1, WFMin, Zenon
<1>3. \A y \in T : ~ (y < x)
  BY <1>2 DEF OpToRel
<1> QED
  BY <1>3

\* The nodes along the list of h when its items are q: the head, then the items.
Node(h, q, k) == IF k = 0 THEN h ELSE q[k]

\* What the fields of list h look like when its items are q.
Spells(nx, tl, h, q) ==
  /\ \A k \in 0 .. Len(q) :
       nx[Node(h, q, k)] = IF k = Len(q) THEN NULL ELSE q[k + 1]
  /\ tl[h] = IF Len(q) = 0 THEN NULL ELSE q[Len(q)]

\* No item is in two places.
Apart(Q) ==
  \A h, g \in Heads : \A j \in 1 .. Len(Q[h]), k \in 1 .. Len(Q[g]) :
    Q[h][j] = Q[g][k] => h = g /\ j = k

\* The items of Q and the ones the caller holds are all there are.
Shared(hd, Q) ==
  /\ hd \subseteq Items
  /\ \A x \in Items : x \in hd <=> \A h \in Heads : \A k \in 1 .. Len(Q[h]) : Q[h][k] # x

\* The pointers stand for the queues Q.
Represents(nx, tl, hd, Q) ==
  /\ nx \in [Heads \cup Items -> Items \cup {NULL}]
  /\ tl \in [Heads -> Items \cup {NULL}]
  /\ Q \in [Heads -> Seq(Items)]
  /\ \A h \in Heads : Spells(nx, tl, h, Q[h])
  /\ Apart(Q) /\ Shared(hd, Q)

\* The inductive invariant.
ListInv == Represents(next, tail, held, [h \in Heads |-> Contents(h)])

-----------------------------------------------------------------------------
(* The walk.                                                               *)

\* One step of a walk along nx from h, with the walks so far given by f.
WalkStep(nx, h, f, n) ==
  IF n = 0 THEN <<h>>
  ELSE LET w == f[n - 1]
       IN  IF nx[w[Len(w)]] = NULL THEN w ELSE Append(w, nx[w[Len(w)]])

\* The walks of up to m steps, as IntrusiveList defines them.
Walks(nx, h, m) == CHOOSE f : f = [n \in 0 .. m |-> WalkStep(nx, h, f, n)]

\* The recursion has a solution for every number of steps.
LEMMA WalkExists ==
  ASSUME NEW nx, NEW h, NEW n \in Nat
  PROVE  \E f : f = [i \in 0 .. n |-> WalkStep(nx, h, f, i)]
<1> DEFINE Solves(f, m) == f = [i \in 0 .. m |-> WalkStep(nx, h, f, i)]
           T == {m \in Nat : ~ \E f : Solves(f, m)}
<1>1. SUFFICES ASSUME T # {} PROVE FALSE
  OBVIOUS
<1>2. PICK m \in T : \A k \in T : m <= k
  BY <1>1, LeastNatural
<1>3. CASE m = 0
  <2> DEFINE g == [i \in 0 .. 0 |-> <<h>>]
  <2>1. Solves(g, 0)
    BY DEF WalkStep
  <2> QED
    BY <2>1, <1>2, <1>3
<1>4. CASE m # 0
  <2>1. m - 1 \in Nat /\ m - 1 \notin T
    BY <1>2, <1>4
  <2>2. PICK f : Solves(f, m - 1)
    BY <2>1
  <2> DEFINE g == [i \in 0 .. m |-> IF i = m THEN WalkStep(nx, h, f, m) ELSE f[i]]
  <2>3. \A i \in 0 .. m - 1 : g[i] = f[i]
    OBVIOUS
  <2>4. ASSUME NEW i \in 0 .. m
        PROVE  WalkStep(nx, h, g, i) = WalkStep(nx, h, f, i)
    <3> HIDE DEF g
    <3>1. CASE i = 0
      BY <3>1 DEF WalkStep
    <3>2. CASE i # 0
      <4>1. g[i - 1] = f[i - 1]
        BY <2>3, <3>2
      <4> QED
        BY <3>2, <4>1 DEF WalkStep
    <3> QED
      BY <3>1, <3>2
  <2>5. \A i \in 0 .. m - 1 : f[i] = WalkStep(nx, h, f, i)
    BY <2>2
  <2>6. \A i \in 0 .. m : g[i] = WalkStep(nx, h, g, i)
    BY <2>3, <2>4, <2>5
  <2>7. Solves(g, m)
    BY <2>6
  <2> QED
    BY <2>7, <1>2
<1> QED
  BY <1>3, <1>4

\* The defining equation of the walks.
LEMMA WalkUnfolds ==
  ASSUME NEW nx, NEW h, NEW m \in Nat, NEW n \in 0 .. m
  PROVE  Walks(nx, h, m)[n] = WalkStep(nx, h, Walks(nx, h, m), n)
<1> DEFINE W == Walks(nx, h, m)
<1>1. W = CHOOSE f : f = [i \in 0 .. m |-> WalkStep(nx, h, f, i)]
  BY DEF Walks
<1>2. W = [i \in 0 .. m |-> WalkStep(nx, h, W, i)]
  BY <1>1, WalkExists, Zenon
<1> HIDE DEF W
<1>3. W[n] = WalkStep(nx, h, W, n)
  BY <1>2
<1> QED
  BY <1>3 DEF W

\* A list has no more items than there are.
LEMMA ListIsBounded ==
  ASSUME NEW Q \in [Heads -> Seq(Items)], Apart(Q), NEW h \in Heads
  PROVE  Cardinality(Items) \in Nat /\ Len(Q[h]) \in 0 .. Cardinality(Items)
<1> DEFINE n == Len(Q[h])
<1>1. n \in Nat /\ Q[h] \in [1 .. n -> Items]
  OBVIOUS
<1>2. \A j, k \in 1 .. n : Q[h][j] = Q[h][k] => j = k
  BY DEF Apart
<1>3. Q[h] \in Injection(1 .. n, Items)
  BY <1>1, <1>2 DEF Injection, IsInjective
<1>4. Cardinality(1 .. n) <= Cardinality(Items)
  BY <1>3, ListAssumption, FS_Injection
<1>5. Cardinality(1 .. n) = n
  BY <1>1, FS_Interval
<1>6. Cardinality(Items) \in Nat
  BY ListAssumption, FS_CardinalityType
<1> QED
  BY <1>1, <1>4, <1>5, <1>6

\* The walk w consists of the head and the first n items.
Visits(w, h, q, n) == /\ w \in Seq(Heads \cup Items) /\ Len(w) = n + 1
                      /\ \A k \in 1 .. Len(w) : w[k] = Node(h, q, k - 1)

\* How far n steps lead.
Steps(q, n) == IF n <= Len(q) THEN n ELSE Len(q)

\* A walk of n steps visits the first n items, or all of them.
LEMMA WalkIsList ==
  ASSUME NEW nx, NEW tl, NEW h \in Heads, NEW q \in Seq(Items),
         Spells(nx, tl, h, q), NEW m \in Nat, NEW n \in 0 .. m
  PROVE  Visits(Walks(nx, h, m)[n], h, q, Steps(q, n))
<1> DEFINE W == Walks(nx, h, m)
           Good(i) == Visits(W[i], h, q, Steps(q, i))
           T == {i \in Nat : i <= m /\ ~ Good(i)}
<1>1. \A i \in 0 .. m : W[i] = WalkStep(nx, h, W, i)
  BY WalkUnfolds
<1> HIDE DEF W
<1>2. T = {}
  <2> SUFFICES ASSUME T # {} PROVE FALSE
    OBVIOUS
  <2>1. PICK i \in T : \A k \in T : i <= k
    BY LeastNatural
  <2>2. CASE i = 0
    <3>1. W[0] = <<h>>
      BY <1>1, <2>1, <2>2 DEF WalkStep
    <3>2. Good(0)
      BY <3>1 DEF Node, Visits, Steps
    <3> QED
      BY <2>1, <2>2, <3>2
  <2>3. CASE i # 0
    <3> DEFINE w == W[i - 1]
               s == Steps(q, i - 1)
    <3>1. i \in 1 .. m /\ i - 1 \in Nat
      BY <2>1, <2>3
    <3>2. Good(i - 1)
      BY <2>1, <3>1
    <3>3. s \in 0 .. Len(q) /\ (s = Len(q) <=> i - 1 >= Len(q)) /\ Len(q) \in Nat
      BY <3>1 DEF Steps
    <3>4. Len(w) = s + 1 /\ w[Len(w)] = Node(h, q, s)
      BY <3>2, <3>3, SMTT(40) DEF Visits
    <3>5. W[i] = IF nx[w[Len(w)]] = NULL THEN w ELSE Append(w, nx[w[Len(w)]])
      BY <1>1, <3>1 DEF WalkStep
    <3>6. nx[Node(h, q, s)] = IF s = Len(q) THEN NULL ELSE q[s + 1]
      BY <3>3 DEF Spells
    <3>7. CASE s = Len(q)
      <4>1. W[i] = w
        BY <3>4, <3>5, <3>6, <3>7
      <4>2. Steps(q, i) = s
        BY <3>1, <3>3, <3>7 DEF Steps
      <4>3. Good(i)
        BY <3>2, <4>1, <4>2
      <4> QED
        BY <2>1, <4>3
    <3>8. CASE s # Len(q)
      <4>1. q[s + 1] \in Items /\ q[s + 1] # NULL
        BY <3>3, <3>8, ListAssumption
      <4>2. W[i] = Append(w, q[s + 1])
        BY <3>4, <3>5, <3>6, <3>8, <4>1
      <4>3. Steps(q, i) = s + 1
        BY <3>1, <3>3, <3>8 DEF Steps
      <4>4. w \in Seq(Heads \cup Items) /\ Len(w) = s + 1
        BY <3>2, <3>4 DEF Visits
      <4>5. \A k \in 1 .. Len(w) : w[k] = Node(h, q, k - 1)
        BY <3>2 DEF Visits
      <4> HIDE DEF w, s
      <4>6. /\ W[i] \in Seq(Heads \cup Items) /\ Len(W[i]) = Steps(q, i) + 1
        BY <4>1, <4>2, <4>3, <4>4
      <4>7. ASSUME NEW k \in 1 .. Len(W[i]) PROVE W[i][k] = Node(h, q, k - 1)
        <5>1. CASE k \in 1 .. Len(w)
          BY <4>1, <4>2, <4>4, <4>5, <5>1
        <5>2. CASE k = s + 2
          BY <3>3, <4>1, <4>2, <4>4, <5>2 DEF Node
        <5> QED
          BY <3>3, <4>3, <4>4, <4>6, <5>1, <5>2
      <4>8. Good(i)
        BY <4>6, <4>7 DEF Visits
      <4> QED
        BY <2>1, <4>8
    <3> QED
      BY <3>7, <3>8
  <2> QED
    BY <2>2, <2>3
<1>3. Good(n)
  <2> HIDE DEF Good
  <2> QED
    BY <1>2
<1> QED
  BY <1>3 DEF W

\* The pointers of list h spell out q, and m steps are enough for a walk; and what
\* such a walk finds.
Walkable(nx, tl, h, q, m) == /\ h \in Heads /\ q \in Seq(Items) /\ Spells(nx, tl, h, q)
                             /\ m \in Nat /\ Len(q) <= m
Finds(nx, h, q, m) == /\ Visits(Walks(nx, h, m)[m], h, q, Len(q))
                      /\ Tail(Walks(nx, h, m)[m]) = q

\* The walk that IntrusiveList defines visits the head, then the items of q.
LEMMA WalkOfList ==
  ASSUME NEW nx, NEW tl, NEW h, NEW q, NEW m, Walkable(nx, tl, h, q, m)
  PROVE  Finds(nx, h, q, m)
<1> USE DEF Walkable
<1>1. PICK w : w = Walks(nx, h, m)[m]
  OBVIOUS
<1>2. Visits(w, h, q, Len(q))
  <2>1. m \in 0 .. m /\ Steps(q, m) = Len(q)
    BY DEF Steps
  <2>2. Visits(Walks(nx, h, m)[m], h, q, Steps(q, m))
    BY <2>1, WalkIsList
  <2> QED
    BY <1>1, <2>1, <2>2, Zenon
<1>3. /\ w \in Seq(Heads \cup Items) /\ w # <<>> /\ Len(q) \in Nat
      /\ Len(w) = Len(q) + 1
      /\ \A k \in 1 .. Len(w) : w[k] = Node(h, q, k - 1)
  BY <1>2 DEF Visits
<1>4. /\ Tail(w) \in Seq(Heads \cup Items) /\ Len(Tail(w)) = Len(q)
      /\ \A i \in 1 .. Len(Tail(w)) : Tail(w)[i] = w[i + 1]
  BY <1>3, HeadTailProperties
<1>5. \A i \in 1 .. Len(Tail(w)) : Tail(w)[i] = q[i]
  BY <1>3, <1>4 DEF Node
<1>6. q \in Seq(Heads \cup Items)
  OBVIOUS
<1>7. Tail(w) = q
  BY <1>4, <1>5, <1>6, SeqEqual
<1> QED
  BY <1>1, <1>2, <1>7 DEF Finds

\* So the queues that the pointers stand for are the contents of the lists.
LEMMA ContentsFound ==
  ASSUME NEW Q, Represents(next, tail, held, Q)
  PROVE  /\ \A h \in Heads : /\ Contents(h) = Q[h]
                             /\ Visits(Walk(h), h, Q[h], Len(Q[h]))
         /\ Q = [h \in Heads |-> Contents(h)]
<1>1. ASSUME NEW h \in Heads
      PROVE  Contents(h) = Q[h] /\ Visits(Walk(h), h, Q[h], Len(Q[h]))
  <2>1. /\ Q[h] \in Seq(Items) /\ Spells(next, tail, h, Q[h])
        /\ Q \in [Heads -> Seq(Items)] /\ Apart(Q)
    BY DEF Represents
  <2>2. PICK m \in Nat : m = Cardinality(Items) /\ Len(Q[h]) <= m
    BY <2>1, ListIsBounded
  <2>3. Walk(h) = Walks(next, h, m)[m]
    BY <2>2 DEF Walk, Walks, WalkStep
  <2>4. PICK q, nx, tl : q = Q[h] /\ nx = next /\ tl = tail
    OBVIOUS
  <2>5. Walkable(nx, tl, h, q, m)
    BY <2>1, <2>2, <2>4 DEF Walkable
  <2>6. Finds(nx, h, q, m)
    BY <2>5, WalkOfList
  <2> QED
    BY <2>3, <2>4, <2>6 DEF Contents, Finds
<1>2. Q = [h \in Heads |-> Contents(h)]
  BY <1>1 DEF Represents
<1> QED
  BY <1>1, <1>2

\* The same after a step.
LEMMA ContentsFoundNext ==
  ASSUME NEW Q, Represents(next', tail', held', Q)
  PROVE  /\ \A h \in Heads : Contents(h)' = Q[h]
         /\ Q = [h \in Heads |-> Contents(h)']
<1>1. ASSUME NEW h \in Heads PROVE Contents(h)' = Q[h]
  <2>1. /\ Q[h] \in Seq(Items) /\ Spells(next', tail', h, Q[h])
        /\ Q \in [Heads -> Seq(Items)] /\ Apart(Q)
    BY DEF Represents
  <2>2. PICK m \in Nat : m = Cardinality(Items) /\ Len(Q[h]) <= m
    BY <2>1, ListIsBounded
  <2>3. Walk(h)' = Walks(next', h, m)[m]
    BY <2>2 DEF Walk, Walks, WalkStep
  <2>4. PICK q, nx, tl : q = Q[h] /\ nx = next' /\ tl = tail'
    OBVIOUS
  <2>5. Walkable(nx, tl, h, q, m)
    BY <2>1, <2>2, <2>4 DEF Walkable
  <2>6. Finds(nx, h, q, m)
    BY <2>5, WalkOfList
  <2> QED
    BY <2>3, <2>4, <2>6 DEF Contents, Finds
<1>2. Q = [h \in Heads |-> Contents(h)']
  BY <1>1 DEF Represents
<1> QED
  BY <1>1, <1>2

-----------------------------------------------------------------------------
(* The operations.                                                         *)

\* Taking the k-th item out of a queue.
TakenOut(q, k) == SubSeq(q, 1, k - 1) \o SubSeq(q, k + 1, Len(q))

\* What is left, position by position.
LEMMA TakenOutProperties ==
  ASSUME NEW S, NEW q \in Seq(S), NEW k \in 1 .. Len(q)
  PROVE  /\ TakenOut(q, k) \in Seq(S) /\ Len(TakenOut(q, k)) = Len(q) - 1
         /\ \A j \in 1 .. Len(q) - 1 :
              TakenOut(q, k)[j] = IF j < k THEN q[j] ELSE q[j + 1]
<1> DEFINE a == SubSeq(q, 1, k - 1)
           b == SubSeq(q, k + 1, Len(q))
<1>1. Len(q) \in Nat /\ k \in Int /\ k >= 1 /\ k <= Len(q)
  OBVIOUS
<1>2. \A i \in 1 .. k - 1 : q[i] \in S
  BY <1>1
<1>3. \A i \in k + 1 .. Len(q) : q[i] \in S
  BY <1>1
<1>4. /\ a \in Seq(S) /\ Len(a) = k - 1
      /\ \A i \in 1 .. k - 1 : a[i] = q[i]
  <2>1. /\ a \in Seq(S) /\ Len(a) = IF 1 <= k - 1 THEN k - 1 - 1 + 1 ELSE 0
        /\ \A i \in 1 .. k - 1 - 1 + 1 : a[i] = q[1 + i - 1]
    BY <1>1, <1>2, SubSeqProperties
  <2> HIDE DEF a
  <2> QED
    BY <1>1, <2>1
<1>5. /\ b \in Seq(S) /\ Len(b) = Len(q) - k
      /\ \A i \in 1 .. Len(q) - k : b[i] = q[k + i]
  <2>1. /\ b \in Seq(S)
        /\ Len(b) = IF k + 1 <= Len(q) THEN Len(q) - (k + 1) + 1 ELSE 0
        /\ \A i \in 1 .. Len(q) - (k + 1) + 1 : b[i] = q[k + 1 + i - 1]
    BY <1>1, <1>3, SubSeqProperties
  <2> HIDE DEF b
  <2> QED
    BY <1>1, <2>1
<1> HIDE DEF a, b
<1>6. /\ a \o b \in Seq(S) /\ Len(a \o b) = Len(a) + Len(b)
      /\ \A i \in 1 .. Len(a) + Len(b) :
           (a \o b)[i] = IF i <= Len(a) THEN a[i] ELSE b[i - Len(a)]
  BY <1>4, <1>5, ConcatProperties
<1>7. /\ Len(a \o b) = Len(q) - 1
      /\ \A j \in 1 .. Len(q) - 1 :
           (a \o b)[j] = IF j < k THEN q[j] ELSE q[j + 1]
  BY <1>1, <1>4, <1>5, <1>6
<1> QED
  BY <1>6, <1>7 DEF TakenOut, a, b

\* The nodes of the lists are all different, and none of them is held.
LEMMA NodesApart ==
  ASSUME NEW nx, NEW tl, NEW hd, NEW Q, Represents(nx, tl, hd, Q),
         NEW h \in Heads, NEW j \in 0 .. Len(Q[h])
  PROVE  /\ Node(h, Q[h], j) \in Heads \cup Items
         /\ Node(h, Q[h], j) \notin hd
         /\ \A g \in Heads : \A k \in 0 .. Len(Q[g]) :
              Node(h, Q[h], j) = Node(g, Q[g], k) => h = g /\ j = k
<1>1. /\ Q \in [Heads -> Seq(Items)] /\ Apart(Q) /\ Shared(hd, Q)
  BY DEF Represents
<1>2. \A g \in Heads : \A k \in 1 .. Len(Q[g]) : Q[g][k] \in Items /\ Q[g][k] \notin Heads
  BY <1>1, ListAssumption
<1>3. hd \subseteq Items /\ Heads \cap Items = {}
  BY <1>1, ListAssumption DEF Shared
<1>4. Node(h, Q[h], j) \in Heads \cup Items
  BY <1>2 DEF Node
<1>5. Node(h, Q[h], j) \notin hd
  <2>1. CASE j = 0
    BY <1>3, <2>1 DEF Node
  <2>2. CASE j # 0
    BY <1>1, <1>2, <2>2 DEF Node, Shared
  <2> QED
    BY <2>1, <2>2
<1>6. ASSUME NEW g \in Heads, NEW k \in 0 .. Len(Q[g]),
             Node(h, Q[h], j) = Node(g, Q[g], k)
      PROVE  h = g /\ j = k
  <2>1. CASE j = 0 \/ k = 0
    BY <1>2, <1>6, <2>1 DEF Node
  <2>2. CASE j # 0 /\ k # 0
    BY <1>1, <1>6, <2>2 DEF Node, Apart
  <2> QED
    BY <2>1, <2>2
<1> QED
  BY <1>4, <1>5, <1>6

\* Apart, for one pair of places.
LEMMA SamePlace ==
  ASSUME NEW Q, Apart(Q), NEW h \in Heads, NEW g \in Heads,
         NEW j \in 1 .. Len(Q[h]), NEW k \in 1 .. Len(Q[g]), Q[h][j] = Q[g][k]
  PROVE  h = g /\ j = k
BY Zenon DEF Apart

\* A push writes through the last node, which may be the head.
LEMMA PushRepresents ==
  ASSUME NEW nx, NEW tl, NEW hd, NEW Q, Represents(nx, tl, hd, Q),
         NEW h \in Heads, NEW x \in hd
  PROVE  Represents([nx EXCEPT ![x] = NULL,
                               ![IF nx[h] = NULL THEN h ELSE tl[h]] = x],
                    [tl EXCEPT ![h] = x], hd \ {x},
                    [Q EXCEPT ![h] = Append(Q[h], x)])
<1> DEFINE q  == Q[h]
           n  == Len(q)
           q2 == Append(q, x)
           Q2 == [Q EXCEPT ![h] = q2]
           last == IF nx[h] = NULL THEN h ELSE tl[h]
           nx2 == [nx EXCEPT ![x] = NULL, ![last] = x]
           tl2 == [tl EXCEPT ![h] = x]
<1>1. /\ nx \in [Heads \cup Items -> Items \cup {NULL}]
      /\ tl \in [Heads -> Items \cup {NULL}]
      /\ Q \in [Heads -> Seq(Items)]
      /\ \A g \in Heads : Spells(nx, tl, g, Q[g])
      /\ Apart(Q) /\ Shared(hd, Q)
  BY DEF Represents
<1>2. x \in Items /\ x # NULL /\ q \in Seq(Items) /\ n \in Nat
  BY <1>1, ListAssumption DEF Shared
<1>3. last = Node(h, q, n)
  <2>1. nx[h] = IF n = 0 THEN NULL ELSE q[1]
    BY <1>1, <1>2 DEF Spells, Node
  <2>2. n # 0 => q[1] \in Items /\ q[1] # NULL
    BY <1>2, ListAssumption
  <2>3. tl[h] = IF n = 0 THEN NULL ELSE q[n]
    BY <1>1 DEF Spells
  <2> QED
    BY <2>1, <2>2, <2>3 DEF Node
<1>4. \A g \in Heads : \A k \in 0 .. Len(Q[g]) :
        /\ Node(g, Q[g], k) \in Heads \cup Items /\ Node(g, Q[g], k) # x
        /\ Node(g, Q[g], k) = last => g = h /\ k = n
  BY <1>2, <1>3, NodesApart
<1>5. last \in Heads \cup Items /\ last # x
  BY <1>2, <1>3, <1>4
<1> HIDE DEF last
<1>6. /\ nx2 \in [Heads \cup Items -> Items \cup {NULL}]
      /\ \A y \in Heads \cup Items :
           nx2[y] = IF y = last THEN x ELSE IF y = x THEN NULL ELSE nx[y]
  BY <1>1, <1>2, <1>5
<1>7. /\ tl2 \in [Heads -> Items \cup {NULL}]
      /\ \A g \in Heads : tl2[g] = IF g = h THEN x ELSE tl[g]
  BY <1>1, <1>2
<1>8. /\ q2 \in Seq(Items) /\ Len(q2) = n + 1
      /\ \A j \in 1 .. n : q2[j] = q[j]
      /\ q2[n + 1] = x
  BY <1>2
<1>9. /\ Q2 \in [Heads -> Seq(Items)]
      /\ \A g \in Heads : Q2[g] = IF g = h THEN q2 ELSE Q[g]
  BY <1>1, <1>8
<1> HIDE DEF nx2, tl2, q2, Q2
<1>10. ASSUME NEW g \in Heads, g # h PROVE Spells(nx2, tl2, g, Q2[g])
  <2>1. Q2[g] = Q[g] /\ tl2[g] = tl[g]
    BY <1>7, <1>9, <1>10
  <2>2. \A k \in 0 .. Len(Q[g]) : nx2[Node(g, Q[g], k)] = nx[Node(g, Q[g], k)]
    BY <1>4, <1>6, <1>10
  <2>3. Spells(nx, tl, g, Q[g])
    BY <1>1
  <2> QED
    BY <2>1, <2>2, <2>3 DEF Spells
<1>11. Spells(nx2, tl2, h, q2)
  <2>1. ASSUME NEW k \in 0 .. n
        PROVE  Node(h, q2, k) = Node(h, q, k)
    BY <1>8 DEF Node
  <2>2. ASSUME NEW k \in 0 .. n + 1
        PROVE  nx2[Node(h, q2, k)] = IF k = n + 1 THEN NULL ELSE q2[k + 1]
    <3>1. CASE k = n + 1
      <4>1. Node(h, q2, k) = x
        BY <1>2, <1>8, <3>1 DEF Node
      <4> QED
        BY <1>2, <1>5, <1>6, <3>1, <4>1
    <3>2. CASE k = n
      BY <1>2, <1>3, <1>5, <1>6, <1>8, <2>1, <3>2
    <3>3. CASE k \in 0 .. n - 1
      <4>1. nx2[Node(h, q2, k)] = nx[Node(h, q, k)]
        BY <1>2, <1>4, <1>6, <2>1, <3>3
      <4>2. nx[Node(h, q, k)] = q[k + 1]
        <5>1. Spells(nx, tl, h, q) /\ k \in 0 .. Len(q) /\ k # Len(q)
          BY <1>1, <1>2, <3>3
        <5> HIDE DEF q
        <5> QED
          BY <5>1 DEF Spells
      <4> QED
        BY <1>2, <1>8, <3>3, <4>1, <4>2
    <3> QED
      BY <1>2, <3>1, <3>2, <3>3
  <2>3. tl2[h] = q2[n + 1]
    BY <1>7, <1>8
  <2> QED
    BY <1>2, <1>8, <2>2, <2>3 DEF Spells
<1>12. \A g \in Heads : \A j \in 1 .. Len(Q2[g]) :
         \/ g = h /\ j = n + 1 /\ Q2[g][j] = x
         \/ j \in 1 .. Len(Q[g]) /\ Q2[g][j] = Q[g][j] /\ Q[g][j] # x
  <2> SUFFICES ASSUME NEW g \in Heads, NEW j \in 1 .. Len(Q2[g])
               PROVE  \/ g = h /\ j = n + 1 /\ Q2[g][j] = x
                      \/ /\ j \in 1 .. Len(Q[g]) /\ Q2[g][j] = Q[g][j]
                         /\ Q[g][j] # x
    OBVIOUS
  <2>1. \A k \in 1 .. Len(Q[g]) : Q[g][k] # x
    BY <1>1 DEF Shared
  <2>2. CASE g # h
    BY <1>9, <2>1, <2>2
  <2>3. CASE g = h
    BY <1>2, <1>8, <1>9, <2>1, <2>3
  <2> QED
    BY <2>2, <2>3
<1>13. Apart(Q2)
  <2> SUFFICES ASSUME NEW g1 \in Heads, NEW g2 \in Heads,
                      NEW j \in 1 .. Len(Q2[g1]), NEW k \in 1 .. Len(Q2[g2]),
                      Q2[g1][j] = Q2[g2][k]
               PROVE  g1 = g2 /\ j = k
    BY DEF Apart
  <2>1. CASE Q2[g1][j] = x
    <3>1. g1 = h /\ j = n + 1
      BY <1>12, <2>1
    <3>2. g2 = h /\ k = n + 1
      BY <1>12, <2>1, ZenonT(40)
    <3> QED
      BY <3>1, <3>2
  <2>2. CASE Q2[g1][j] # x
    <3>1. /\ j \in 1 .. Len(Q[g1]) /\ Q2[g1][j] = Q[g1][j]
          /\ k \in 1 .. Len(Q[g2]) /\ Q2[g2][k] = Q[g2][k]
      BY <1>12, <2>2
    <3>2. Q[g1][j] = Q[g2][k]
      BY <3>1
    <3> QED
      BY <1>1, <3>1, <3>2, SamePlace
  <2> QED
    BY <2>1, <2>2
<1>14. Shared(hd \ {x}, Q2)
  <2>1. ASSUME NEW y \in Items
        PROVE  y \in hd \ {x} <=> \A g \in Heads : \A k \in 1 .. Len(Q2[g]) : Q2[g][k] # y
    <3>1. CASE y = x
      <4>1. n + 1 \in 1 .. Len(Q2[h]) /\ Q2[h][n + 1] = x
        BY <1>2, <1>8, <1>9
      <4> QED
        BY <3>1, <4>1
    <3>2. CASE y # x
      <4>1. ASSUME NEW g \in Heads, NEW k \in 1 .. Len(Q[g]), Q[g][k] = y
            PROVE  k \in 1 .. Len(Q2[g]) /\ Q2[g][k] = y
        BY <1>2, <1>8, <1>9, <4>1
      <4>2. y \in hd <=> \A g \in Heads : \A k \in 1 .. Len(Q[g]) : Q[g][k] # y
        BY <1>1 DEF Shared
      <4> QED
        BY <1>12, <3>2, <4>1, <4>2
    <3> QED
      BY <3>1, <3>2
  <2> QED
    BY <1>1, <2>1 DEF Shared
<1>15. \A g \in Heads : Spells(nx2, tl2, g, Q2[g])
  BY <1>9, <1>10, <1>11
<1>16. Represents(nx2, tl2, hd \ {x}, Q2)
  BY <1>6, <1>7, <1>9, <1>13, <1>14, <1>15 DEF Represents
<1> QED
  BY <1>16 DEF nx2, tl2, Q2, q2, last

\* Unlinking the k-th item writes through the node before it.
LEMMA TakeRepresents ==
  ASSUME NEW nx, NEW tl, NEW hd, NEW Q, Represents(nx, tl, hd, Q),
         NEW h \in Heads, NEW k \in 1 .. Len(Q[h])
  PROVE  Represents([nx EXCEPT ![Node(h, Q[h], k - 1)] = nx[Q[h][k]]],
                    [tl EXCEPT ![h] = IF Len(Q[h]) = 1 THEN NULL
                                      ELSE IF k = Len(Q[h]) THEN Q[h][k - 1]
                                      ELSE @],
                    hd \cup {Q[h][k]}, [Q EXCEPT ![h] = TakenOut(Q[h], k)])
<1> DEFINE q  == Q[h]
           n  == Len(q)
           x  == q[k]
           q2 == TakenOut(q, k)
           Q2 == [Q EXCEPT ![h] = q2]
           prev == Node(h, q, k - 1)
           nx2 == [nx EXCEPT ![prev] = nx[x]]
           tl2 == [tl EXCEPT ![h] = IF n = 1 THEN NULL
                                    ELSE IF k = n THEN q[k - 1] ELSE @]
<1>1. /\ nx \in [Heads \cup Items -> Items \cup {NULL}]
      /\ tl \in [Heads -> Items \cup {NULL}]
      /\ Q \in [Heads -> Seq(Items)]
      /\ \A g \in Heads : Spells(nx, tl, g, Q[g])
      /\ Apart(Q) /\ Shared(hd, Q)
  BY DEF Represents
<1>2. /\ q \in Seq(Items) /\ n \in Nat /\ k \in 1 .. n /\ x \in Items
  BY <1>1
<1>3. x = Node(h, q, k) /\ Spells(nx, tl, h, q) /\ k - 1 \in 0 .. n
  BY <1>1, <1>2 DEF Node
<1>4. \A g \in Heads : \A j \in 0 .. Len(Q[g]) :
        /\ Node(g, Q[g], j) \in Heads \cup Items
        /\ Node(g, Q[g], j) = prev => g = h /\ j = k - 1
  BY <1>3, NodesApart
<1>5. prev \in Heads \cup Items
  BY <1>3, <1>4
<1>6. /\ q2 \in Seq(Items) /\ Len(q2) = n - 1
      /\ \A j \in 1 .. n - 1 : q2[j] = IF j < k THEN q[j] ELSE q[j + 1]
  BY <1>2, TakenOutProperties
<1>7. /\ Q2 \in [Heads -> Seq(Items)]
      /\ \A g \in Heads : Q2[g] = IF g = h THEN q2 ELSE Q[g]
  BY <1>1, <1>6
<1>8. /\ nx2 \in [Heads \cup Items -> Items \cup {NULL}]
      /\ \A y \in Heads \cup Items : nx2[y] = IF y = prev THEN nx[x] ELSE nx[y]
  BY <1>1, <1>2, <1>5
<1>9. /\ tl2 \in [Heads -> Items \cup {NULL}]
      /\ tl2[h] = IF n = 1 THEN NULL ELSE IF k = n THEN q[k - 1] ELSE tl[h]
      /\ \A g \in Heads : g # h => tl2[g] = tl[g]
  <2>1. n # 1 /\ k = n => q[k - 1] \in Items
    <3> SUFFICES ASSUME n # 1, k = n PROVE q[k - 1] \in Items
      OBVIOUS
    <3> HIDE DEF n
    <3>1. k - 1 \in 1 .. n
      BY <1>2
    <3>2. \A j \in 1 .. n : q[j] \in Items
      BY <1>2 DEF n
    <3> QED
      BY <3>1, <3>2
  <2> QED
    BY <1>1, <2>1
<1> HIDE DEF nx2, tl2, q2, Q2, x, prev, n
<1>10. ASSUME NEW g \in Heads, g # h PROVE Spells(nx2, tl2, g, Q2[g])
  <2>1. Q2[g] = Q[g] /\ tl2[g] = tl[g]
    BY <1>7, <1>9, <1>10
  <2>2. \A j \in 0 .. Len(Q[g]) : nx2[Node(g, Q[g], j)] = nx[Node(g, Q[g], j)]
    BY <1>4, <1>8, <1>10
  <2>3. Spells(nx, tl, g, Q[g])
    BY <1>1
  <2> QED
    BY <2>1, <2>2, <2>3 DEF Spells
<1>11. Spells(nx2, tl2, h, q2)
  <2>0. \A j \in 0 .. n : nx[Node(h, q, j)] = IF j = n THEN NULL ELSE q[j + 1]
    BY <1>3 DEF Spells, n
  <2>1. ASSUME NEW j \in 0 .. n - 1
        PROVE  nx2[Node(h, q2, j)] = IF j = n - 1 THEN NULL ELSE q2[j + 1]
    <3>1. CASE j = k - 1
      <4>1. Node(h, q2, j) = prev
        BY <1>2, <1>6, <3>1 DEF Node, prev
      <4>2. nx2[Node(h, q2, j)] = IF k = n THEN NULL ELSE q[k + 1]
        BY <1>2, <1>3, <1>5, <1>8, <2>0, <4>1
      <4> QED
        BY <1>2, <1>6, <3>1, <4>2
    <3>2. CASE j < k - 1
      <4>1. Node(h, q2, j) = Node(h, q, j) /\ Node(h, q, j) # prev
        BY <1>2, <1>4, <1>6, <3>2 DEF Node, n
      <4>2. nx2[Node(h, q2, j)] = q[j + 1]
        BY <1>2, <1>4, <1>8, <2>0, <3>2, <4>1 DEF n
      <4> QED
        BY <1>2, <1>6, <3>2, <4>2
    <3>3. CASE j >= k
      <4>1. Node(h, q2, j) = Node(h, q, j + 1) /\ Node(h, q, j + 1) # prev
        BY <1>2, <1>4, <1>6, <3>3 DEF Node, n
      <4>2. nx2[Node(h, q2, j)] = IF j + 1 = n THEN NULL ELSE q[j + 2]
        BY <1>2, <1>4, <1>8, <2>0, <3>3, <4>1 DEF n
      <4> QED
        BY <1>2, <1>6, <3>3, <4>2
    <3> QED
      BY <1>2, <3>1, <3>2, <3>3
  <2>2. tl2[h] = IF n - 1 = 0 THEN NULL ELSE q2[n - 1]
    <3>1. n # 0 /\ tl[h] = q[n]
      BY <1>2, <1>3 DEF Spells, n
    <3> QED
      BY <1>2, <1>6, <1>9, <3>1
  <2> QED
    BY <1>2, <1>6, <2>1, <2>2 DEF Spells
<1>12. \A g \in Heads : \A j \in 1 .. Len(Q2[g]) :
         \E i \in 1 .. Len(Q[g]) :
           /\ Q2[g][j] = Q[g][i] /\ ~ (g = h /\ i = k)
           /\ i = IF g = h /\ j >= k THEN j + 1 ELSE j
  <2> SUFFICES ASSUME NEW g \in Heads, NEW j \in 1 .. Len(Q2[g])
               PROVE  \E i \in 1 .. Len(Q[g]) :
                        /\ Q2[g][j] = Q[g][i] /\ ~ (g = h /\ i = k)
                        /\ i = IF g = h /\ j >= k THEN j + 1 ELSE j
    OBVIOUS
  <2>1. CASE g # h
    BY <1>7, <2>1
  <2>2. CASE g = h
    <3>1. j \in 1 .. n - 1 /\ Q2[g] = q2 /\ Len(Q[g]) = n /\ Q[g] = q
      BY <1>6, <1>7, <2>2 DEF n
    <3>2. CASE j < k
      BY <1>2, <1>6, <2>2, <3>1, <3>2
    <3>3. CASE j >= k
      <4>1. j + 1 \in 1 .. n /\ q2[j] = q[j + 1]
        BY <1>2, <1>6, <3>1, <3>3
      <4> QED
        BY <1>2, <2>2, <3>1, <3>3, <4>1
    <3> QED
      BY <1>2, <3>1, <3>2, <3>3
  <2> QED
    BY <2>1, <2>2
<1>13. Apart(Q2)
  <2> SUFFICES ASSUME NEW g1 \in Heads, NEW g2 \in Heads,
                      NEW j1 \in 1 .. Len(Q2[g1]), NEW j2 \in 1 .. Len(Q2[g2]),
                      Q2[g1][j1] = Q2[g2][j2]
               PROVE  g1 = g2 /\ j1 = j2
    BY DEF Apart
  <2>1. PICK i1 \in 1 .. Len(Q[g1]) :
          /\ Q2[g1][j1] = Q[g1][i1]
          /\ i1 = IF g1 = h /\ j1 >= k THEN j1 + 1 ELSE j1
    BY <1>12
  <2>2. PICK i2 \in 1 .. Len(Q[g2]) :
          /\ Q2[g2][j2] = Q[g2][i2]
          /\ i2 = IF g2 = h /\ j2 >= k THEN j2 + 1 ELSE j2
    BY <1>12
  <2>3. Q[g1][i1] = Q[g2][i2]
    BY <2>1, <2>2
  <2>4. g1 = g2 /\ i1 = i2
    BY <1>1, <2>3, SamePlace
  <2> QED
    BY <1>2, <2>1, <2>2, <2>4
<1>14. Shared(hd \cup {x}, Q2)
  <2>1. ASSUME NEW y \in Items
        PROVE  y \in hd \cup {x} <=> \A g \in Heads : \A j \in 1 .. Len(Q2[g]) : Q2[g][j] # y
    <3>1. ASSUME NEW g \in Heads, NEW j \in 1 .. Len(Q2[g]), Q2[g][j] = y
          PROVE  y \notin hd /\ y # x
      <4>1. PICK i \in 1 .. Len(Q[g]) : Q2[g][j] = Q[g][i] /\ ~ (g = h /\ i = k)
        BY <1>12
      <4>2. y \notin hd
        BY <1>1, <3>1, <4>1 DEF Shared
      <4>3. y # x
        BY <1>1, <1>2, <3>1, <4>1 DEF Apart, x
      <4> QED
        BY <4>2, <4>3
    <3>2. ASSUME y \notin hd, y # x
          PROVE  \E g \in Heads : \E j \in 1 .. Len(Q2[g]) : Q2[g][j] = y
      <4>0. PICK g \in Heads : \E i \in 1 .. Len(Q[g]) : Q[g][i] = y
        BY <1>1, <3>2 DEF Shared
      <4>1. PICK i \in 1 .. Len(Q[g]) : Q[g][i] = y
        BY <4>0
      <4>2. CASE g # h
        BY <1>7, <4>1, <4>2
      <4>3. CASE g = h
        <5>1. i \in 1 .. n /\ q[i] = y /\ i # k /\ Q2[h] = q2
          BY <1>7, <3>2, <4>1, <4>3 DEF n, x
        <5>2. CASE i < k
          BY <1>2, <1>6, <5>1, <5>2
        <5>3. CASE i > k
          <6>1. i - 1 \in 1 .. n - 1 /\ q2[i - 1] = q[i]
            BY <1>2, <1>6, <5>1, <5>3
          <6> QED
            BY <1>6, <5>1, <6>1
        <5> QED
          BY <1>2, <5>1, <5>2, <5>3
      <4> QED
        BY <4>2, <4>3
    <3> QED
      BY <3>1, <3>2
  <2> QED
    BY <1>1, <1>2, <2>1 DEF Shared
<1>15. \A g \in Heads : Spells(nx2, tl2, g, Q2[g])
  BY <1>7, <1>10, <1>11
<1>16. Represents(nx2, tl2, hd \cup {x}, Q2)
  BY <1>7, <1>8, <1>9, <1>13, <1>14, <1>15 DEF Represents
<1> QED
  BY <1>16 DEF nx2, tl2, Q2, q2, x, prev, n

-----------------------------------------------------------------------------
(* The theorems.                                                           *)

\* At first every list is empty, and so is its queue.
LEMMA ListInvInit == ListInit => ListInv /\ Promise!QueuesInit
<1> SUFFICES ASSUME ListInit PROVE ListInv /\ Promise!QueuesInit
  OBVIOUS
<1> DEFINE Q == [h \in Heads |-> <<>>]
<1>1. /\ next \in [Heads \cup Items -> Items \cup {NULL}]
      /\ tail \in [Heads -> Items \cup {NULL}]
      /\ Q \in [Heads -> Seq(Items)] /\ held = Items
      /\ \A x \in Heads \cup Items : next[x] = NULL
      /\ \A h \in Heads : tail[h] = NULL
  BY DEF ListInit
<1>2. \A h \in Heads : Q[h] = <<>> /\ Len(Q[h]) = 0
  OBVIOUS
<1> HIDE DEF Q
<1>3. \A h \in Heads : Spells(next, tail, h, Q[h])
  BY <1>1, <1>2 DEF Spells, Node
<1>4. Apart(Q) /\ Shared(held, Q)
  BY <1>1, <1>2 DEF Apart, Shared
<1>5. Represents(next, tail, held, Q)
  BY <1>1, <1>3, <1>4 DEF Represents
<1>6. Q = [h \in Heads |-> Contents(h)]
  BY <1>5, ContentsFound
<1>7. ListInv
  BY <1>5, <1>6 DEF ListInv
<1>8. Promise!QueuesInit
  BY <1>1, <1>6 DEF Promise!QueuesInit, Q
<1> QED
  BY <1>7, <1>8

\* Every step keeps the invariant and is a step of the queues.
LEMMA ListStep ==
  ListInv /\ [ListNext]_listVars =>
    ListInv' /\ [Promise!QueuesNext]_<<[h \in Heads |-> Contents(h)], held>>
<1> DEFINE queue == [h \in Heads |-> Contents(h)]
<1> SUFFICES ASSUME ListInv, [ListNext]_listVars
             PROVE  ListInv' /\ [Promise!QueuesNext]_<<queue, held>>
  OBVIOUS
<1>1. PICK Q : Q = queue /\ Represents(next, tail, held, Q)
  BY DEF ListInv
<1>2. /\ next \in [Heads \cup Items -> Items \cup {NULL}]
      /\ tail \in [Heads -> Items \cup {NULL}] /\ held \subseteq Items
      /\ Q \in [Heads -> Seq(Items)]
      /\ \A h \in Heads : Spells(next, tail, h, Q[h])
  BY <1>1 DEF Represents, Shared
<1>3. ASSUME NEW Q2, Represents(next', tail', held', Q2)
      PROVE  ListInv' /\ queue' = Q2
  <2>1. Q2 = [h \in Heads |-> Contents(h)']
    BY <1>3, ContentsFoundNext
  <2> QED
    BY <1>3, <2>1 DEF ListInv
<1>4. ASSUME NEW h \in Heads, NEW x \in Items, ListPushBack(h, x)
      PROVE  ListInv' /\ Promise!QueuesNext
  <2>1. /\ x \in held
        /\ next' = [next EXCEPT ![x] = NULL,
                                ![IF next[h] = NULL THEN h ELSE tail[h]] = x]
        /\ tail' = [tail EXCEPT ![h] = x] /\ held' = held \ {x}
    BY <1>4 DEF ListPushBack, ListIsEmpty
  <2> DEFINE Q2 == [Q EXCEPT ![h] = Append(Q[h], x)]
  <2>2. Represents(next', tail', held', Q2)
    BY <1>1, <2>1, PushRepresents
  <2> HIDE DEF Q2
  <2>3. ListInv' /\ queue' = Q2
    BY <1>3, <2>2
  <2>4. Promise!Push(h, x)
    BY <1>1, <2>1, <2>3 DEF Promise!Push, Q2
  <2> QED
    BY <2>3, <2>4 DEF Promise!QueuesNext
<1>5. ASSUME NEW h \in Heads, NEW k \in 1 .. Len(Q[h]),
             next' = [next EXCEPT ![Node(h, Q[h], k - 1)] = next[Q[h][k]]],
             tail' = [tail EXCEPT ![h] = IF Len(Q[h]) = 1 THEN NULL
                                         ELSE IF k = Len(Q[h]) THEN Q[h][k - 1]
                                         ELSE @],
             held' = held \cup {Q[h][k]}
      PROVE  ListInv' /\ Promise!Take(h, k)
  <2> DEFINE Q2 == [Q EXCEPT ![h] = TakenOut(Q[h], k)]
  <2>1. Represents(next', tail', held', Q2)
    BY <1>1, <1>5, TakeRepresents
  <2> HIDE DEF Q2
  <2>2. ListInv' /\ queue' = Q2
    BY <1>3, <2>1
  <2>3. Promise!Take(h, k)
    BY <1>1, <1>5, <2>2 DEF Promise!Take, Q2, TakenOut
  <2> QED
    BY <2>2, <2>3
<1>6. ASSUME NEW h \in Heads, ListPopFront(h)
      PROVE  ListInv' /\ Promise!QueuesNext
  <2>1. /\ next[h] # NULL
        /\ next' = [next EXCEPT ![h] = next[next[h]]]
        /\ tail' = [tail EXCEPT ![h] = IF next[next[h]] = NULL THEN NULL ELSE @]
        /\ held' = held \cup {next[h]}
    BY <1>6 DEF ListPopFront, ListIsEmpty
  <2>2. /\ Q[h] \in Seq(Items) /\ Len(Q[h]) \in Nat /\ Len(Q[h]) # 0
        /\ next[h] = Q[h][1] /\ tail[h] = Q[h][Len(Q[h])]
    BY <1>2, <2>1, SMTT(40) DEF Spells, Node
  <2>3. next[Q[h][1]] = IF Len(Q[h]) = 1 THEN NULL ELSE Q[h][2]
    <3>1. 1 \in 0 .. Len(Q[h]) /\ Node(h, Q[h], 1) = Q[h][1] /\ 1 + 1 = 2
      BY <2>2 DEF Node
    <3> QED
      BY <1>2, <3>1 DEF Spells
  <2>4. Len(Q[h]) # 1 => Q[h][2] # NULL
    <3>0. \A n \in Nat : n # 0 /\ n # 1 => 2 \in 1 .. n
      OBVIOUS
    <3>1. Len(Q[h]) # 1 => 2 \in 1 .. Len(Q[h])
      BY <2>2, <3>0
    <3>2. \A j \in 1 .. Len(Q[h]) : Q[h][j] # NULL
      BY <2>2, ListAssumption
    <3> QED
      BY <3>1, <3>2
  <2>5. 1 \in 1 .. Len(Q[h]) /\ Node(h, Q[h], 1 - 1) = h /\ Q[h] # <<>>
    BY <2>2 DEF Node
  <2>6. tail' = [tail EXCEPT ![h] = IF Len(Q[h]) = 1 THEN NULL
                                    ELSE IF 1 = Len(Q[h]) THEN Q[h][1 - 1]
                                    ELSE @]
    BY <2>1, <2>2, <2>3, <2>4
  <2>7. ListInv' /\ Promise!Take(h, 1)
    BY <1>5, <2>1, <2>2, <2>5, <2>6
  <2>8. Promise!Pop(h)
    BY <1>1, <2>5, <2>7 DEF Promise!Pop
  <2> QED
    BY <2>7, <2>8 DEF Promise!QueuesNext
<1>7. ASSUME NEW h \in Heads, NEW S \in SUBSET Items, RemoveMatching(h, S)
      PROVE  ListInv' /\ Promise!QueuesNext
  <2>1. PICK k \in 2 .. Len(Walk(h)) :
          /\ Walk(h)[k] \in S /\ \A j \in 2 .. k - 1 : Walk(h)[j] \notin S
          /\ Unlink(h, Walk(h)[k - 1], Walk(h)[k])
    BY <1>7 DEF RemoveMatching
  <2>2. /\ Len(Walk(h)) = Len(Q[h]) + 1 /\ Len(Q[h]) \in Nat
        /\ \A j \in 1 .. Len(Walk(h)) : Walk(h)[j] = Node(h, Q[h], j - 1)
    BY <1>1, <1>2, ContentsFound DEF Visits
  <2>3. PICK i \in 1 .. Len(Q[h]) : k = i + 1
    BY <2>1, <2>2
  <2>4. Walk(h)[k] = Q[h][i] /\ Walk(h)[k - 1] = Node(h, Q[h], i - 1)
    BY <2>2, <2>3 DEF Node
  <2>5. /\ next' = [next EXCEPT ![Node(h, Q[h], i - 1)] = next[Q[h][i]]]
        /\ tail' = [tail EXCEPT ![h] =
                      IF next'[h] = NULL THEN NULL
                      ELSE IF next[Q[h][i]] = NULL THEN Node(h, Q[h], i - 1) ELSE @]
        /\ held' = held \cup {Q[h][i]}
    BY <2>1, <2>4 DEF Unlink
  <2>6. \A j \in 0 .. Len(Q[h]) :
          next[Node(h, Q[h], j)] = IF j = Len(Q[h]) THEN NULL ELSE Q[h][j + 1]
    BY <1>2 DEF Spells
  <2>7. \A j \in 1 .. Len(Q[h]) : Q[h][j] \in Items /\ Q[h][j] # NULL /\ Q[h][j] # h
    BY <1>2, ListAssumption
  <2>8. next[Q[h][i]] = NULL <=> i = Len(Q[h])
    <3>1. next[Q[h][i]] = IF i = Len(Q[h]) THEN NULL ELSE Q[h][i + 1]
      BY <2>2, <2>3, <2>6 DEF Node
    <3> QED
      BY <2>2, <2>3, <2>7, <3>1
  <2>9. next'[h] = NULL <=> Len(Q[h]) = 1
    <3>1. CASE i = 1
      <4>1. next'[h] = next[Q[h][i]]
        BY <1>2, <2>5, <3>1 DEF Node
      <4> QED
        BY <2>8, <3>1, <4>1
    <3>2. CASE i # 1
      <4>1. next'[h] = next[h]
        BY <1>2, <2>3, <2>5, <2>7, <3>2 DEF Node
      <4>2. next[h] = Q[h][1] /\ Len(Q[h]) # 1
        BY <2>2, <2>3, <2>6, <3>2 DEF Node
      <4> QED
        BY <2>2, <2>3, <2>7, <4>1, <4>2
    <3> QED
      BY <3>1, <3>2
  <2>10. Len(Q[h]) # 1 /\ i = Len(Q[h]) => Node(h, Q[h], i - 1) = Q[h][i - 1]
    BY <2>2 DEF Node
  <2>11. tail' = [tail EXCEPT ![h] = IF Len(Q[h]) = 1 THEN NULL
                                     ELSE IF i = Len(Q[h]) THEN Q[h][i - 1]
                                     ELSE @]
    BY <2>5, <2>8, <2>9, <2>10
  <2>12. ListInv' /\ Promise!Take(h, i)
    BY <1>5, <2>5, <2>11
  <2>13. Q[h][i] \in S /\ \A j \in 1 .. i - 1 : Q[h][j] \notin S
    <3>1. ASSUME NEW j \in 1 .. i - 1 PROVE Q[h][j] \notin S
      <4>1. /\ j + 1 \in 2 .. k - 1 /\ j + 1 \in 1 .. Len(Walk(h))
            /\ (j + 1) - 1 = j /\ j # 0
        BY <2>2, <2>3
      <4>2. Walk(h)[j + 1] = Q[h][j]
        BY <2>2, <4>1 DEF Node
      <4> QED
        BY <2>1, <4>1, <4>2
    <3> QED
      BY <2>1, <2>4, <3>1
  <2>14. Promise!Remove(h, S)
    BY <1>1, <2>12, <2>13 DEF Promise!Remove
  <2> QED
    BY <2>12, <2>14 DEF Promise!QueuesNext
<1>8. CASE UNCHANGED listVars
  <2>1. UNCHANGED <<next, tail, held>>
    BY <1>8 DEF listVars
  <2>2. Represents(next', tail', held', Q)
    BY <1>1, <2>1
  <2>3. ListInv' /\ queue' = queue
    BY <1>1, <1>3, <2>2
  <2> QED
    BY <2>1, <2>3
<1> QED
  BY <1>4, <1>6, <1>7, <1>8 DEF ListNext

\* The pointers always spell out queues.
THEOREM ListInvHolds == ListSpec => []ListInv
<1> QED
  BY ListInvInit, ListStep, PTL DEF ListSpec

\* tail is the last item of its list in every reachable state, so ListPushBack
\* (libc/list.c) always links the new item behind it.
THEOREM TailAlwaysLast == ListSpec => []TailIsLast
<1>1. ListInv => TailIsLast
  BY DEF ListInv, Represents, Spells, TailIsLast
<1> QED
  BY <1>1, ListInvHolds, PTL

\* The linked lists of libc/list.c implement queues: every ListPushBack,
\* ListPopFront and removal is the operation on queues that the scheduler's
\* model uses.
THEOREM ListsAreQueues == ListSpec => IsQueues
<1> QED
  BY ListInvInit, ListStep, ListInvHolds, PTL DEF ListSpec, IsQueues, Promise!QueuesSpec

=============================================================================
