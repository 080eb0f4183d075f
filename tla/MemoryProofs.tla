---------------------------- MODULE MemoryProofs ----------------------------
(***************************************************************************)
(* Theorems about Memory, for any number of processes and of pages.        *)
(***************************************************************************)
EXTENDS Memory, SchedulerProofs, FiniteSetTheorems, SequenceTheorems

-----------------------------------------------------------------------------
(* The heap, as its operators take and return it.                          *)

\* A free list without repetitions over the pages that can be tables.
HeapOK(h) == /\ h = [free |-> h.free, table |-> h.table]
             /\ h.table \in [DOMAIN h.table -> [Indices -> Int]]
             /\ DOMAIN h.table \subseteq Nat \ {0}
             /\ h.free \in Seq(DOMAIN h.table)
             /\ NoDuplicates(h.free)

\* From h to k only the pages in X were written.
Writes(h, k, X) == /\ DOMAIN k.table = DOMAIN h.table
                   /\ \A p \in DOMAIN h.table \ X : k.table[p] = h.table[p]

\* The kernel's part of the map m: pointer table a and directory b.
KernelPart(T, m, a, b) ==
  /\ {m, a, b} \subseteq DOMAIN T /\ m # a /\ m # b /\ a # b
  /\ T[m][KERNEL_PML4] = a /\ T[a][0] = b
  /\ T[b][0] = KernelFrames /\ T[b][USER_PD] = NoPage

\* The user's part: pointer table c, directory d and the user page u.
UserPart(T, m, c, d, u) ==
  /\ {m, c, d, u} \subseteq DOMAIN T
  /\ m # c /\ m # d /\ m # u /\ c # d /\ c # u /\ d # u
  /\ T[m][USER_PML4] = c /\ T[c][0] = d /\ T[d][USER_PD] = u

\* The address space of a process with stack s and map m.
Space(T, s, m, a, b, c, d, u) ==
  /\ KernelPart(T, m, a, b) /\ UserPart(T, m, c, d, u)
  /\ s \in DOMAIN T /\ s \notin {m, a, b, c, d, u}
  /\ {a, b} \cap {c, d, u} = {}

-----------------------------------------------------------------------------
(* The invariant.                                                          *)

\* What each stage of the boot has done.
AtBoot == {"loader", "RetrieveMemoryInfo", "InitMemory", "InitFileSystem",
           "InitProcess"}
HeapReady == {"InitMemory", "InitFileSystem", "InitProcess", "running"}
KernelReady == {"InitFileSystem", "InitProcess", "running"}

\* The BIOS's regions are reported in ascending order and do not overlap.
Ordered(map) ==
  \A i, j \in 1 .. Len(map) : i < j => map[i].address + map[i].length <= map[j].address
OrderedMaps == \A map \in BiosMaps : Ordered(map)

LoaderInv ==
  /\ bios \in BiosMaps
  /\ mem_map \in Seq([address : Nat, length : Nat, type : 1 .. 5])
  /\ Len(mem_map) <= Len(bios)
  /\ \A i \in 1 .. Len(mem_map) : mem_map[i] = bios[i]
  /\ boot # "loader" => mem_map = bios

TableInv ==
  /\ boot \in AtBoot \cup {"running", "panic", "halted"}
  /\ boot \in {"loader", "RetrieveMemoryInfo", "halted"} => table = <<>>
  /\ boot \in AtBoot => \A p \in Slots : state[p] = IF p = IDLE THEN "RUNNING"
                                                    ELSE IF p = SHELL THEN "READY"
                                                    ELSE "UNUSED"
  /\ stack \in [Slots -> Nat] /\ page_map \in [Slots -> Nat]
  /\ boot \in HeapReady => HeapOK(Heap)

\* The kernel's own map, without a user part.
KernelSpace(T, m) ==
  LET a == T[m][KERNEL_PML4]
  IN  KernelPart(T, m, a, T[a][0]) /\ T[m][USER_PML4] = NoPage

\* A whole address space, at the pages its tables point to.
ProcessSpace(T, s, m) ==
  LET a == T[m][KERNEL_PML4]
      c == T[m][USER_PML4]
      d == T[c][0]
  IN  Space(T, s, m, a, T[a][0], c, d, T[d][USER_PD])

\* OwnPages, and whether a process is complete, for given values of the variables
\* they depend on.
DirectoryIn(T, m, i) == IF T[m][i] = NoPage THEN NoPage ELSE T[T[m][i]][0]

MapPagesIn(T, m) ==
  LET pdpts == {T[m][i] : i \in {USER_PML4, KERNEL_PML4}}
      pds   == {DirectoryIn(T, m, i) : i \in {USER_PML4, KERNEL_PML4}}
      users == {T[pd][USER_PD] : pd \in pds \cap DOMAIN T}
  IN  ({m} \cup pdpts \cup pds \cup users) \cap DOMAIN T

CompleteIn(st, p) == st[p] \notin {"UNUSED", "INITIALIZED"}

OwnIn(T, kp, st, sk, pm, p) ==
  CASE p = IDLE -> MapPagesIn(T, pm[p]) \cup kp
    [] p # IDLE /\ CompleteIn(st, p) -> {sk[p]} \cup MapPagesIn(T, pm[p])
    [] p # IDLE /\ st[p] = "INITIALIZED" -> {sk[p]}
    [] OTHER -> {}

\* What each slot that is in use has: the idle task the kernel's map, a process a
\* whole address space, a slot that a failed fork left behind a stack.
FurnishedAt(T, st, sk, pm, p) ==
  IF p = IDLE THEN KernelSpace(T, pm[p])
  ELSE /\ CompleteIn(st, p) => ProcessSpace(T, sk[p], pm[p])
       /\ st[p] = "INITIALIZED" => sk[p] \in DOMAIN T
Furnished(T, st, sk, pm) == \A p \in Slots : FurnishedAt(T, st, sk, pm, p)

\* No page has two owners, where the free list, whose pages are F, is one.
Apart(T, F, kp, st, sk, pm) ==
  /\ \A p \in Slots : OwnIn(T, kp, st, sk, pm, p) \cap F = {}
  /\ \A p, q \in Slots : p # q =>
       OwnIn(T, kp, st, sk, pm, p) \cap OwnIn(T, kp, st, sk, pm, q) = {}

\* Every page has an owner.
AllOwned(T, F, kp, st, sk, pm) ==
  (\A p \in Slots : st[p] # "INITIALIZED") =>
    DOMAIN T = F \cup UNION {OwnIn(T, kp, st, sk, pm, p) : p \in Slots}

SpacesIn(T, F, kp, st, sk, pm) ==
  /\ Furnished(T, st, sk, pm) /\ kp \subseteq DOMAIN T
  /\ Apart(T, F, kp, st, sk, pm) /\ AllOwned(T, F, kp, st, sk, pm)

\* Before InitProcess has built the shell's address space only the idle task has
\* pages.
InUse == IF boot = "running" THEN state
         ELSE [p \in Slots |-> IF p = IDLE THEN "RUNNING" ELSE "UNUSED"]

SpacesInv ==
  /\ boot = "InitMemory" => Range(free) = Pages
  /\ boot \in {"loader", "RetrieveMemoryInfo", "InitMemory", "InitFileSystem"} =>
       kernel_pages = {}
  /\ boot \in KernelReady =>
       SpacesIn(table, Range(free), kernel_pages, InUse, stack, page_map)

MemInv == SchedulerInv /\ LoaderInv /\ TableInv /\ SpacesInv

-----------------------------------------------------------------------------
(* What one operation of the allocator does, from h to k.                  *)

\* Table t holds nothing, or at most v at entry i; or what it held before but
\* for v at entry i.
Blank(T, t)          == \A x \in Indices : T[t][x] = NoPage
Single(T, t, i, v)   == \A x \in Indices : T[t][x] = IF x = i THEN v ELSE NoPage
Entry(T, U, t, i, v) == \A x \in Indices : U[t][x] = IF x = i THEN v ELSE T[t][x]

SetEntry(h, t, i, v) == [h EXCEPT !.table[t][i] = v]
Written(h, k, t, i, v) == /\ HeapOK(k) /\ Writes(h, k, {t})
                          /\ k.free = h.free
                          /\ Entry(h.table, k.table, t, i, v)

Allocated(h, k, a) == /\ HeapOK(k) /\ Writes(h, k, {a})
                      /\ a \in DOMAIN h.table /\ a \in Range(h.free)
                      /\ Range(k.free) = Range(h.free) \ {a}
                      /\ Len(h.free) = Len(k.free) + 1
                      /\ Blank(k.table, a)

Freed(h, k, p) == /\ HeapOK(k) /\ Writes(h, k, {p})
                  /\ Range(k.free) = Range(h.free) \cup {p}
                  /\ Len(k.free) = Len(h.free) + 1
                  /\ Entry(h.table, k.table, p, 0, NoPage)

\* The indices that occur, and that 0 is no page.
LEMMA IndexFacts ==
  /\ 0 \in Indices /\ USER_PML4 \in Indices /\ USER_PD \in Indices
  /\ KERNEL_PML4 \in Indices
  /\ USER_PML4 = 0 /\ KERNEL_PML4 # 0 /\ USER_PD # KERNEL_PML4 /\ USER_PD # 0
  /\ NoPage = 0 /\ KernelFrames = -1
BY DEF Indices, USER_PML4, USER_PD, KERNEL_PML4, NoPage, KernelFrames

\* A free list is within the heap.
LEMMA FreeInHeap ==
  ASSUME NEW h, HeapOK(h)
  PROVE  /\ Range(h.free) \subseteq DOMAIN h.table
         /\ NoPage \notin DOMAIN h.table /\ DOMAIN h.table \subseteq Int
         /\ Len(h.free) \in Nat /\ (h.free = <<>> <=> Len(h.free) = 0)
         /\ (h.free = <<>> <=> Range(h.free) = {})
<1>1. h.free \in Seq(DOMAIN h.table)
  BY DEF HeapOK
<1>2. Range(h.free) \subseteq DOMAIN h.table
  BY <1>1 DEF Range
<1>3. Len(h.free) \in Nat /\ (h.free = <<>> <=> Len(h.free) = 0)
  BY <1>1
<1>4. NoPage \notin DOMAIN h.table /\ DOMAIN h.table \subseteq Int
  BY DEF HeapOK, NoPage
<1> QED
  BY <1>1, <1>2, <1>3, <1>4, EmptyQueue

\* One entry of one table is written.
LEMMA EntryWritten ==
  ASSUME NEW h, HeapOK(h), NEW t \in DOMAIN h.table, NEW i \in Indices, NEW v \in Int
  PROVE  Written(h, SetEntry(h, t, i, v), t, i, v)
<1>1. /\ h = [free |-> h.free, table |-> h.table]
      /\ h.table \in [DOMAIN h.table -> [Indices -> Int]]
  BY DEF HeapOK
<1>2. PICK k : k = SetEntry(h, t, i, v)
  OBVIOUS
<1>3. k = [free |-> h.free, table |-> [h.table EXCEPT ![t] = [h.table[t] EXCEPT ![i] = v]]]
  BY <1>1, <1>2 DEF SetEntry
<1>4. /\ k.free = h.free /\ k = [free |-> k.free, table |-> k.table]
      /\ k.table = [h.table EXCEPT ![t] = [h.table[t] EXCEPT ![i] = v]]
  BY <1>3
<1>5. [h.table[t] EXCEPT ![i] = v] \in [Indices -> Int]
  BY <1>1
<1>6. /\ DOMAIN k.table = DOMAIN h.table
      /\ k.table \in [DOMAIN h.table -> [Indices -> Int]]
      /\ k.table[t] = [h.table[t] EXCEPT ![i] = v]
  BY <1>1, <1>4, <1>5
<1>7. HeapOK(k)
  BY <1>4, <1>6 DEF HeapOK
<1>8. Entry(h.table, k.table, t, i, v)
  BY <1>1, <1>6 DEF Entry
<1>9. Writes(h, k, {t})
  BY <1>1, <1>4, <1>6 DEF Writes
<1> QED
  BY <1>2, <1>4, <1>7, <1>8, <1>9 DEF Written

\* kalloc() takes a page out of the free list and clears it.
LEMMA PageAllocated ==
  ASSUME NEW h, HeapOK(h), h.free # <<>>
  PROVE  Allocated(h, kalloc(h), Top(h)) /\ Top(h) # NoPage
<1> DEFINE zero == [i \in Indices |-> NoPage]
<1>1. /\ h.table \in [DOMAIN h.table -> [Indices -> Int]]
      /\ h.free \in Seq(DOMAIN h.table) /\ NoDuplicates(h.free)
      /\ DOMAIN h.table \subseteq Nat \ {0}
  BY DEF HeapOK
<1>2. PICK k, a : k = kalloc(h) /\ a = Top(h)
  OBVIOUS
<1>3. /\ k.free = Tail(h.free) /\ k.table = [h.table EXCEPT ![a] = zero]
      /\ k = [free |-> k.free, table |-> k.table] /\ a = Head(h.free)
  BY <1>2 DEF kalloc, Top
<1>4. /\ a \in Range(h.free) /\ Range(h.free) \subseteq DOMAIN h.table
      /\ Tail(h.free) \in Seq(DOMAIN h.table) /\ NoDuplicates(Tail(h.free))
      /\ Range(Tail(h.free)) = Range(h.free) \ {a}
  BY <1>1, <1>3, PopFront
<1>5. Len(h.free) = Len(Tail(h.free)) + 1
  BY <1>1
<1>6. zero \in [Indices -> Int]
  BY IndexFacts
<1>7. /\ DOMAIN k.table = DOMAIN h.table /\ k.table[a] = zero
      /\ k.table \in [DOMAIN h.table -> [Indices -> Int]]
  BY <1>1, <1>3, <1>4, <1>6
<1>8. HeapOK(k)
  BY <1>1, <1>3, <1>4, <1>7 DEF HeapOK
<1>9. Writes(h, k, {a}) /\ Blank(k.table, a)
  BY <1>1, <1>3, <1>7 DEF Writes, Blank
<1> QED
  BY <1>1, <1>2, <1>3, <1>4, <1>5, <1>8, <1>9 DEF Allocated, NoPage

\* kfree() puts a page in front of the free list and overwrites its first entry.
LEMMA PageFreed ==
  ASSUME NEW h, HeapOK(h), NEW p \in DOMAIN h.table, p \notin Range(h.free)
  PROVE  Freed(h, kfree(h, p), p)
<1>1. /\ h.table \in [DOMAIN h.table -> [Indices -> Int]]
      /\ h.free \in Seq(DOMAIN h.table) /\ NoDuplicates(h.free)
      /\ DOMAIN h.table \subseteq Nat \ {0}
  BY DEF HeapOK
<1>2. PICK k, q, A, f : k = kfree(h, p) /\ q = <<p>> /\ A = DOMAIN h.table /\ f = h.free
  OBVIOUS
<1>3. /\ k.free = q \o f
      /\ k.table = [h.table EXCEPT ![p] = [h.table[p] EXCEPT ![0] = NoPage]]
      /\ k = [free |-> k.free, table |-> k.table]
  BY <1>2 DEF kfree
<1>4. /\ k.free \in Seq(DOMAIN h.table) /\ NoDuplicates(k.free)
      /\ Range(k.free) = Range(h.free) \cup {p} /\ Len(k.free) = Len(h.free) + 1
  <2>1. DOMAIN q = 1 .. 1 /\ q[1] = p /\ Len(q) = 1
    BY <1>2
  <2>2. q \in Seq(A) /\ f \in Seq(A) /\ NoDuplicates(f) /\ p \notin Range(f)
    <3>1. p \in A /\ f \in Seq(A) /\ NoDuplicates(f) /\ p \notin Range(f)
      BY <1>1, <1>2
    <3>2. q = <<p>>
      BY <1>2
    <3>3. <<p>> \in Seq(A)
      BY <3>1
    <3> QED
      BY <3>1, <3>2, <3>3
  <2>3. NoDuplicates(q)
    BY <2>1 DEF NoDuplicates, IsInjective
  <2>4. Range(q) = {p}
    BY <2>1 DEF Range
  <2>5. /\ q \o f \in Seq(A) /\ Range(q \o f) = Range(q) \cup Range(f)
        /\ NoDuplicates(q \o f)
    BY <2>2, <2>3, <2>4, PushAll
  <2>6. Len(q \o f) = Len(f) + 1
    <3>1. Len(q \o f) = Len(q) + Len(f) /\ Len(f) \in Nat
      BY <2>2
    <3> QED
      BY <2>1, <3>1
  <2> QED
    BY <1>2, <1>3, <2>4, <2>5, <2>6
<1>5. [h.table[p] EXCEPT ![0] = NoPage] \in [Indices -> Int]
  BY <1>1, IndexFacts
<1>6. /\ DOMAIN k.table = DOMAIN h.table
      /\ k.table[p] = [h.table[p] EXCEPT ![0] = NoPage]
      /\ k.table \in [DOMAIN h.table -> [Indices -> Int]]
  BY <1>1, <1>3, <1>5
<1>7. HeapOK(k)
  BY <1>1, <1>3, <1>4, <1>6 DEF HeapOK
<1>8. Writes(h, k, {p})
  BY <1>1, <1>3, <1>6 DEF Writes
<1>9. Entry(h.table, k.table, p, 0, NoPage)
  BY <1>1, <1>6 DEF Entry
<1> QED
  BY <1>2, <1>4, <1>7, <1>8, <1>9 DEF Freed

-----------------------------------------------------------------------------
(* Tables.                                                                 *)

\* The new table a is empty, and entry i of table t points to it.
NewTable(h, k, t, i, a) ==
  /\ HeapOK(k) /\ Writes(h, k, {t, a})
  /\ a \in DOMAIN h.table /\ a \in Range(h.free) /\ a # t /\ a # NoPage
  /\ Range(k.free) = Range(h.free) \ {a} /\ Len(h.free) = Len(k.free) + 1
  /\ Blank(k.table, a) /\ Entry(h.table, k.table, t, i, a)

\* FindEntry with a page to allocate.
LEMMA TableAllocated ==
  ASSUME NEW h, HeapOK(h), NEW t \in DOMAIN h.table, t \notin Range(h.free),
         NEW i \in Indices, h.table[t][i] = NoPage, h.free # <<>>
  PROVE  NewTable(h, FindEntry(h, t, i).heap, t, i, FindEntry(h, t, i).page)
<1>1. PICK g, a : g = kalloc(h) /\ a = Top(h)
  OBVIOUS
<1>2. Allocated(h, g, a) /\ a # NoPage
  BY <1>1, PageAllocated
<1>3. PICK k : k = SetEntry(g, t, i, a)
  OBVIOUS
<1>4. FindEntry(h, t, i).page = a /\ FindEntry(h, t, i).heap = k
  BY <1>1, <1>3 DEF FindEntry, SetEntry
<1>5. /\ HeapOK(g) /\ t \in DOMAIN g.table /\ t # a /\ g.table[t] = h.table[t]
      /\ a \in Int
  BY <1>2, FreeInHeap DEF Writes, Allocated
<1>6. Written(g, k, t, i, a)
  BY <1>3, <1>5, EntryWritten
<1>7. /\ HeapOK(k) /\ k.free = g.free /\ DOMAIN k.table = DOMAIN h.table
      /\ k.table[a] = g.table[a]
      /\ \A p \in DOMAIN h.table \ {t, a} : k.table[p] = h.table[p]
  BY <1>2, <1>5, <1>6 DEF Allocated, Written, Writes
<1>8. Entry(h.table, k.table, t, i, a)
  BY <1>5, <1>6 DEF Written, Entry
<1>9. Blank(k.table, a)
  BY <1>2, <1>7 DEF Allocated, Blank
<1> QED
  BY <1>2, <1>4, <1>5, <1>7, <1>8, <1>9 DEF NewTable, Allocated, Writes

\* FindEntry without a page: nothing happens.
LEMMA TableMissing ==
  ASSUME NEW h, NEW t, NEW i, h.table[t][i] = NoPage, h.free = <<>>
  PROVE  FindEntry(h, t, i) = [heap |-> h, page |-> NoPage]
BY DEF FindEntry

\* The tables a and b of the map m lead to page: entry i of the map, entry j of
\* the directory.
Mapped2(h, k, m, i, j, page, a, b) ==
  /\ HeapOK(k) /\ Writes(h, k, {m, a, b})
  /\ {a, b} \subseteq Range(h.free) /\ a # b /\ m # a /\ m # b
  /\ Range(k.free) = Range(h.free) \ {a, b} /\ Len(h.free) = Len(k.free) + 2
  /\ Entry(h.table, k.table, m, i, a)
  /\ Single(k.table, a, 0, b) /\ Single(k.table, b, j, page)

\* MapPages with two pages to allocate.
LEMMA MapPagesDone ==
  ASSUME NEW h, HeapOK(h), NEW m \in DOMAIN h.table, m \notin Range(h.free),
         NEW i \in Indices, h.table[m][i] = NoPage, NEW j \in Indices, NEW page \in Int,
         Len(h.free) >= 2
  PROVE  /\ MapPages(h, m, i, j, page).ok
         /\ \E a, b \in Range(h.free) :
              Mapped2(h, MapPages(h, m, i, j, page).heap, m, i, j, page, a, b)
<1>1. h.free # <<>> /\ Range(h.free) \subseteq DOMAIN h.table /\ Len(h.free) \in Nat
  BY FreeInHeap
<1>2. PICK a, h1 : a = FindEntry(h, m, i).page /\ h1 = FindEntry(h, m, i).heap
  OBVIOUS
<1>3. NewTable(h, h1, m, i, a)
  BY <1>1, <1>2, TableAllocated
<1>4. /\ HeapOK(h1) /\ a \in DOMAIN h1.table /\ a \notin Range(h1.free)
      /\ h1.table[a][0] = NoPage /\ h1.free # <<>> /\ 0 \in Indices
      /\ Len(h1.free) \in Nat
  BY <1>1, <1>3, FreeInHeap, IndexFacts DEF NewTable, Writes, Blank
<1>5. PICK b, h2 : b = FindEntry(h1, a, 0).page /\ h2 = FindEntry(h1, a, 0).heap
  OBVIOUS
<1>6. NewTable(h1, h2, a, 0, b)
  BY <1>4, <1>5, TableAllocated
<1>7. PICK k : k = SetEntry(h2, b, j, page)
  OBVIOUS
<1>8. MapPages(h, m, i, j, page).ok /\ MapPages(h, m, i, j, page).heap = k
  <2>1. a # NoPage /\ b # NoPage
    BY <1>3, <1>6 DEF NewTable
  <2> QED
    BY <1>2, <1>5, <1>7, <2>1 DEF MapPages, SetEntry
<1>9. HeapOK(h2) /\ b \in DOMAIN h2.table /\ Len(h2.free) \in Nat
  BY <1>3, <1>6, FreeInHeap DEF NewTable, Writes
<1>10. Written(h2, k, b, j, page)
  BY <1>7, <1>9, EntryWritten
<1>11. m # b /\ a # b /\ m # a /\ b \in Range(h.free) /\ a \in Range(h.free)
  BY <1>3, <1>6 DEF NewTable
<1>12. Writes(h, k, {m, a, b})
  BY <1>3, <1>6, <1>10 DEF Writes, NewTable, Written
<1>13. k.table[m] = h1.table[m] /\ k.table[a] = h2.table[a]
  BY <1>3, <1>4, <1>6, <1>10, <1>11 DEF Writes, NewTable, Written
<1>14. Len(h.free) = Len(k.free) + 2
  BY <1>1, <1>4, <1>9, <1>3, <1>6, <1>10 DEF NewTable, Written
<1>15. Range(k.free) = Range(h.free) \ {a, b}
  BY <1>3, <1>6, <1>10 DEF NewTable, Written
<1>16. Entry(h.table, k.table, m, i, a)
  BY <1>3, <1>13 DEF NewTable, Entry
<1>17. Single(k.table, a, 0, b)
  BY <1>3, <1>6, <1>13 DEF NewTable, Entry, Single, Blank
<1>18. Single(k.table, b, j, page)
  BY <1>6, <1>10 DEF NewTable, Written, Entry, Single, Blank
<1>19. Mapped2(h, k, m, i, j, page, a, b)
  BY <1>10, <1>11, <1>12, <1>14, <1>15, <1>16, <1>17, <1>18 DEF Mapped2, Written
<1> QED
  BY <1>8, <1>11, <1>19

\* MapPages with one page: the first table is left in the map, empty.
LEMMA MapPagesHalf ==
  ASSUME NEW h, HeapOK(h), NEW m \in DOMAIN h.table, m \notin Range(h.free),
         NEW i \in Indices, h.table[m][i] = NoPage, NEW j, NEW page,
         Len(h.free) = 1
  PROVE  /\ ~ MapPages(h, m, i, j, page).ok
         /\ \E a \in Range(h.free) :
              NewTable(h, MapPages(h, m, i, j, page).heap, m, i, a)
<1>1. h.free # <<>>
  BY FreeInHeap
<1>2. PICK a, h1 : a = FindEntry(h, m, i).page /\ h1 = FindEntry(h, m, i).heap
  OBVIOUS
<1>3. NewTable(h, h1, m, i, a)
  BY <1>1, <1>2, TableAllocated
<1>4. HeapOK(h1) /\ h1.table[a][0] = NoPage /\ a # NoPage
  BY <1>3, IndexFacts DEF NewTable, Blank
<1>5. h1.free = <<>>
  <2>1. Len(h1.free) \in Nat /\ (h1.free = <<>> <=> Len(h1.free) = 0)
    BY <1>4, FreeInHeap
  <2>2. 1 = Len(h1.free) + 1
    BY <1>3 DEF NewTable
  <2> QED
    BY <2>1, <2>2
<1>6. FindEntry(h1, a, 0) = [heap |-> h1, page |-> NoPage]
  BY <1>4, <1>5, TableMissing
<1>7. ~ MapPages(h, m, i, j, page).ok /\ MapPages(h, m, i, j, page).heap = h1
  <2>1. PICK pdpt, pd : pdpt = FindEntry(h, m, i) /\ pd = FindEntry(pdpt.heap, pdpt.page, 0)
    OBVIOUS
  <2>2. pdpt.page # NoPage /\ pd = [heap |-> h1, page |-> NoPage]
    BY <1>2, <1>4, <1>6, <2>1
  <2>3. pd.page = NoPage /\ pd.heap = h1
    BY <2>2
  <2>4. MapPages(h, m, i, j, page) = [heap |-> pd.heap, ok |-> FALSE]
    BY <2>1, <2>2, <2>3, Zenon DEF MapPages
  <2> QED
    BY <2>3, <2>4
<1> QED
  BY <1>3, <1>7 DEF NewTable

\* MapPages without a page: nothing happens.
LEMMA MapPagesMissing ==
  ASSUME NEW h, NEW m, NEW i, h.table[m][i] = NoPage, h.free = <<>>, NEW j, NEW page
  PROVE  ~ MapPages(h, m, i, j, page).ok /\ MapPages(h, m, i, j, page).heap = h
<1>1. FindEntry(h, m, i) = [heap |-> h, page |-> NoPage]
  BY TableMissing
<1> QED
  BY <1>1 DEF MapPages

-----------------------------------------------------------------------------
(* FreeVM.                                                                 *)

\* Page p was freed and entry i of table t, which pointed to it, cleared.
Released(h, k, p, t, i) ==
  /\ HeapOK(k) /\ Writes(h, k, {p, t})
  /\ Range(k.free) = Range(h.free) \cup {p} /\ Len(k.free) = Len(h.free) + 1
  /\ Entry(h.table, k.table, t, i, NoPage)

\* A page is freed and then the entry that led to it cleared.
LEMMA PageReleased ==
  ASSUME NEW h, HeapOK(h), NEW p \in DOMAIN h.table, p \notin Range(h.free),
         NEW t \in DOMAIN h.table, t # p, NEW i \in Indices
  PROVE  Released(h, SetEntry(kfree(h, p), t, i, NoPage), p, t, i)
<1>1. PICK g, k : g = kfree(h, p) /\ k = SetEntry(g, t, i, NoPage)
  OBVIOUS
<1>2. Freed(h, g, p)
  BY <1>1, PageFreed
<1>3. HeapOK(g) /\ t \in DOMAIN g.table /\ g.table[t] = h.table[t] /\ NoPage \in Int
  BY <1>2, IndexFacts DEF Freed, Writes
<1>4. Written(g, k, t, i, NoPage)
  BY <1>1, <1>3, EntryWritten
<1>5. Writes(h, k, {p, t}) /\ Entry(h.table, k.table, t, i, NoPage)
  BY <1>2, <1>3, <1>4 DEF Freed, Written, Writes, Entry
<1> QED
  BY <1>1, <1>2, <1>4, <1>5 DEF Released, Freed, Written

\* FreePages: the user page, if the map leads to one.
LEMMA UserPageFreed ==
  ASSUME NEW h, HeapOK(h), NEW m, NEW c \in DOMAIN h.table, NEW d \in DOMAIN h.table,
         NEW u \in DOMAIN h.table, h.table[m][USER_PML4] = c, h.table[c][0] = d,
         h.table[d][USER_PD] = u, u # d, u \notin Range(h.free)
  PROVE  Released(h, FreePages(h, m), u, d, USER_PD)
<1>1. c # NoPage /\ d # NoPage /\ u # NoPage
  BY FreeInHeap
<1>2. PageDirectory(h, m, USER_PML4) = d
  BY <1>1 DEF PageDirectory
<1>3. FreePages(h, m) = SetEntry(kfree(h, u), d, USER_PD, NoPage)
  BY <1>1, <1>2 DEF FreePages, SetEntry
<1>4. USER_PD \in Indices
  BY IndexFacts
<1> QED
  BY <1>3, <1>4, PageReleased

\* FreePages of a map without a user page does nothing.
LEMMA NoUserPage ==
  ASSUME NEW h, NEW m, PageDirectory(h, m, USER_PML4) = NoPage
  PROVE  FreePages(h, m) = h
BY DEF FreePages

\* FreePDTable, at one entry of the map.
LEMMA DirectoryFreed ==
  ASSUME NEW h, HeapOK(h), NEW m, NEW i, NEW c \in DOMAIN h.table,
         NEW d \in DOMAIN h.table, h.table[m][i] = c, h.table[c][0] = d, c # d,
         d \notin Range(h.free)
  PROVE  Released(h, FreePDTableAt(h, m, i), d, c, 0)
<1>1. c # NoPage /\ d # NoPage
  BY FreeInHeap
<1>2. PageDirectory(h, m, i) = d
  BY <1>1 DEF PageDirectory
<1>3. FreePDTableAt(h, m, i) = SetEntry(kfree(h, d), c, 0, NoPage)
  BY <1>1, <1>2 DEF FreePDTableAt, SetEntry
<1>4. 0 \in Indices
  BY IndexFacts
<1> QED
  BY <1>3, <1>4, PageReleased

\* FreePDTable where the map has no directory does nothing.
LEMMA NoDirectory ==
  ASSUME NEW h, NEW m, NEW i,
         h.table[m][i] = NoPage \/ h.table[h.table[m][i]][0] = NoPage
  PROVE  FreePDTableAt(h, m, i) = h /\ PageDirectory(h, m, i) = NoPage
BY DEF FreePDTableAt, PageDirectory

\* FreePDPTable, at one entry of the map.
LEMMA PointerTableFreed ==
  ASSUME NEW h, HeapOK(h), NEW m \in DOMAIN h.table, NEW i \in Indices,
         NEW c \in DOMAIN h.table, h.table[m][i] = c, c # m, c \notin Range(h.free)
  PROVE  Released(h, FreePDPTableAt(h, m, i), c, m, i)
<1>1. c # NoPage
  BY FreeInHeap
<1>2. FreePDPTableAt(h, m, i) = SetEntry(kfree(h, c), m, i, NoPage)
  BY <1>1 DEF FreePDPTableAt, SetEntry
<1> QED
  BY <1>2, PageReleased

\* FreePDPTable where the map has no pointer table does nothing.
LEMMA NoPointerTable ==
  ASSUME NEW h, NEW m, NEW i, h.table[m][i] = NoPage
  PROVE  FreePDPTableAt(h, m, i) = h
BY DEF FreePDPTableAt

\* The n pages of X went to the free list, and only they were written.
GivenBack(h, k, X, n) ==
  /\ HeapOK(k) /\ Writes(h, k, X)
  /\ Range(k.free) = Range(h.free) \cup X /\ Len(k.free) = Len(h.free) + n

\* FreeVM of a whole address space frees its six pages.
LEMMA SpaceFreed ==
  ASSUME NEW h, HeapOK(h), NEW s, NEW m, NEW a, NEW b, NEW c, NEW d, NEW u,
         Space(h.table, s, m, a, b, c, d, u),
         {m, a, b, c, d, u} \cap Range(h.free) = {}
  PROVE  GivenBack(h, FreeVM(h, m), {m, a, b, c, d, u}, 6)
<1> DEFINE K == KERNEL_PML4
<1>1. /\ m \in DOMAIN h.table /\ a \in DOMAIN h.table /\ b \in DOMAIN h.table
      /\ c \in DOMAIN h.table /\ d \in DOMAIN h.table /\ u \in DOMAIN h.table
      /\ m # a /\ m # b /\ m # c /\ m # d /\ m # u /\ a # b /\ a # c /\ a # d /\ a # u
      /\ b # c /\ b # d /\ b # u /\ c # d /\ c # u /\ d # u
  BY DEF Space, KernelPart, UserPart
<1>2. /\ h.table[m][K] = a /\ h.table[a][0] = b
      /\ h.table[m][USER_PML4] = c /\ h.table[c][0] = d /\ h.table[d][USER_PD] = u
      /\ 0 \in Indices /\ USER_PML4 \in Indices /\ K \in Indices /\ USER_PD \in Indices
      /\ USER_PML4 = 0 /\ K # 0
  BY IndexFacts DEF Space, KernelPart, UserPart
<1> HIDE DEF K
<1>3. PICK h1, h2, h3, h4, h5, h6 :
        /\ h1 = FreePages(h, m) /\ h2 = FreePDTableAt(h1, m, USER_PML4)
        /\ h3 = FreePDTableAt(h2, m, K) /\ h4 = FreePDPTableAt(h3, m, USER_PML4)
        /\ h5 = FreePDPTableAt(h4, m, K) /\ h6 = kfree(h5, m)
  OBVIOUS
<1>4. FreeVM(h, m) = h6
  BY <1>3 DEF FreeVM, FreePDTable, FreePDPTable, FreePML4Table, K
<1>5. Released(h, h1, u, d, USER_PD)
  BY <1>1, <1>2, <1>3, UserPageFreed
<1>6. /\ HeapOK(h1) /\ DOMAIN h1.table = DOMAIN h.table /\ d \notin Range(h1.free)
      /\ h1.table[m] = h.table[m] /\ h1.table[c] = h.table[c] /\ h1.table[a] = h.table[a]
  BY <1>1, <1>5 DEF Released, Writes
<1>7. Released(h1, h2, d, c, 0)
  BY <1>1, <1>2, <1>3, <1>6, DirectoryFreed
<1>8. /\ HeapOK(h2) /\ DOMAIN h2.table = DOMAIN h.table /\ b \notin Range(h2.free)
      /\ h2.table[m] = h.table[m] /\ h2.table[a] = h.table[a]
  BY <1>1, <1>5, <1>6, <1>7 DEF Released, Writes
<1>9. Released(h2, h3, b, a, 0)
  BY <1>1, <1>2, <1>3, <1>8, DirectoryFreed
<1>10. /\ HeapOK(h3) /\ DOMAIN h3.table = DOMAIN h.table /\ c \notin Range(h3.free)
       /\ h3.table[m] = h.table[m]
  BY <1>1, <1>5, <1>7, <1>8, <1>9 DEF Released, Writes
<1>11. Released(h3, h4, c, m, USER_PML4)
  BY <1>1, <1>2, <1>3, <1>10, PointerTableFreed
<1>12. /\ HeapOK(h4) /\ DOMAIN h4.table = DOMAIN h.table /\ a \notin Range(h4.free)
       /\ h4.table[m][K] = a
  BY <1>1, <1>2, <1>5, <1>7, <1>9, <1>10, <1>11 DEF Released, Writes, Entry
<1>13. Released(h4, h5, a, m, K)
  BY <1>1, <1>2, <1>3, <1>12, PointerTableFreed
<1>14. HeapOK(h5) /\ DOMAIN h5.table = DOMAIN h.table /\ m \notin Range(h5.free)
  BY <1>1, <1>5, <1>7, <1>9, <1>11, <1>12, <1>13 DEF Released, Writes
<1>15. Freed(h5, h6, m)
  BY <1>1, <1>3, <1>14, PageFreed
<1>16. Writes(h, h6, {m, a, b, c, d, u})
  BY <1>5, <1>6, <1>7, <1>8, <1>9, <1>10, <1>11, <1>12, <1>13, <1>14, <1>15
  DEF Released, Writes, Freed
<1>17. Range(h6.free) = Range(h.free) \cup {m, a, b, c, d, u}
  BY <1>5, <1>7, <1>9, <1>11, <1>13, <1>15 DEF Released, Freed
<1>18. Len(h6.free) = Len(h.free) + 6
  <2>1. Len(h.free) \in Nat
    BY FreeInHeap
  <2> QED
    BY <2>1, <1>5, <1>7, <1>9, <1>11, <1>13, <1>15 DEF Released, Freed
<1> QED
  BY <1>4, <1>15, <1>16, <1>17, <1>18 DEF GivenBack, Freed

\* FreeVM of a map that SetupUVM or CopyUVM could not complete, with the kernel's
\* part only.
LEMMA KernelSpaceFreed ==
  ASSUME NEW h, HeapOK(h), NEW m, NEW a, NEW b, KernelPart(h.table, m, a, b),
         h.table[m][USER_PML4] = NoPage, {m, a, b} \cap Range(h.free) = {}
  PROVE  GivenBack(h, FreeVM(h, m), {m, a, b}, 3)
<1> DEFINE K == KERNEL_PML4
<1>1. /\ m \in DOMAIN h.table /\ a \in DOMAIN h.table /\ b \in DOMAIN h.table
      /\ m # a /\ m # b /\ a # b
  BY DEF KernelPart
<1>2. /\ h.table[m][K] = a /\ h.table[a][0] = b
      /\ 0 \in Indices /\ USER_PML4 \in Indices /\ K \in Indices
      /\ USER_PML4 = 0 /\ K # 0
  BY IndexFacts DEF KernelPart
<1> HIDE DEF K
<1>3. PICK h3, h4, h5, h6 :
        /\ h3 = FreePDTableAt(h, m, K) /\ h4 = FreePDPTableAt(h3, m, USER_PML4)
        /\ h5 = FreePDPTableAt(h4, m, K) /\ h6 = kfree(h5, m)
  OBVIOUS
<1>4. FreeVM(h, m) = h6
  <2>1. FreePages(h, m) = h /\ FreePDTableAt(h, m, USER_PML4) = h
    BY NoDirectory, NoUserPage
  <2> QED
    BY <1>3, <2>1 DEF FreeVM, FreePDTable, FreePDPTable, FreePML4Table, K
<1>5. Released(h, h3, b, a, 0)
  BY <1>1, <1>2, <1>3, DirectoryFreed
<1>6. /\ HeapOK(h3) /\ DOMAIN h3.table = DOMAIN h.table /\ a \notin Range(h3.free)
      /\ h3.table[m] = h.table[m]
  BY <1>1, <1>5 DEF Released, Writes
<1>7. h4 = h3
  BY <1>3, <1>6, NoPointerTable
<1>8. Released(h3, h5, a, m, K)
  BY <1>1, <1>2, <1>3, <1>6, <1>7, PointerTableFreed
<1>9. HeapOK(h5) /\ DOMAIN h5.table = DOMAIN h.table /\ m \notin Range(h5.free)
  BY <1>1, <1>5, <1>6, <1>8 DEF Released, Writes
<1>10. Freed(h5, h6, m)
  BY <1>1, <1>3, <1>9, PageFreed
<1>11. Writes(h, h6, {m, a, b})
  BY <1>5, <1>6, <1>8, <1>9, <1>10 DEF Released, Writes, Freed
<1>12. Range(h6.free) = Range(h.free) \cup {m, a, b}
  BY <1>5, <1>8, <1>10 DEF Released, Freed
<1>13. Len(h6.free) = Len(h.free) + 3
  <2>1. Len(h.free) \in Nat
    BY FreeInHeap
  <2> QED
    BY <2>1, <1>5, <1>8, <1>10 DEF Released, Freed
<1> QED
  BY <1>4, <1>10, <1>11, <1>12, <1>13 DEF GivenBack, Freed

\* The same with an empty pointer table c in the user's part.
LEMMA HalfUserFreed ==
  ASSUME NEW h, HeapOK(h), NEW m, NEW a, NEW b, KernelPart(h.table, m, a, b),
         NEW c \in DOMAIN h.table, c \notin {m, a, b},
         h.table[m][USER_PML4] = c, h.table[c][0] = NoPage,
         {m, a, b, c} \cap Range(h.free) = {}
  PROVE  GivenBack(h, FreeVM(h, m), {m, a, b, c}, 4)
<1> DEFINE K == KERNEL_PML4
<1>1. /\ m \in DOMAIN h.table /\ a \in DOMAIN h.table /\ b \in DOMAIN h.table
      /\ m # a /\ m # b /\ a # b /\ c # m /\ c # a /\ c # b
  BY DEF KernelPart
<1>2. /\ h.table[m][K] = a /\ h.table[a][0] = b
      /\ 0 \in Indices /\ USER_PML4 \in Indices /\ K \in Indices
      /\ USER_PML4 = 0 /\ K # 0
  BY IndexFacts DEF KernelPart
<1> HIDE DEF K
<1>3. PICK h3, h4, h5, h6 :
        /\ h3 = FreePDTableAt(h, m, K) /\ h4 = FreePDPTableAt(h3, m, USER_PML4)
        /\ h5 = FreePDPTableAt(h4, m, K) /\ h6 = kfree(h5, m)
  OBVIOUS
<1>4. FreeVM(h, m) = h6
  <2>1. FreePages(h, m) = h /\ FreePDTableAt(h, m, USER_PML4) = h
    BY NoDirectory, NoUserPage
  <2> QED
    BY <1>3, <2>1 DEF FreeVM, FreePDTable, FreePDPTable, FreePML4Table, K
<1>5. Released(h, h3, b, a, 0)
  BY <1>1, <1>2, <1>3, DirectoryFreed
<1>6. /\ HeapOK(h3) /\ DOMAIN h3.table = DOMAIN h.table /\ c \notin Range(h3.free)
      /\ h3.table[m] = h.table[m]
  BY <1>1, <1>5 DEF Released, Writes
<1>7. Released(h3, h4, c, m, USER_PML4)
  BY <1>1, <1>2, <1>3, <1>6, PointerTableFreed
<1>8. /\ HeapOK(h4) /\ DOMAIN h4.table = DOMAIN h.table /\ a \notin Range(h4.free)
      /\ h4.table[m][K] = a
  BY <1>1, <1>2, <1>5, <1>6, <1>7 DEF Released, Writes, Entry
<1>9. Released(h4, h5, a, m, K)
  BY <1>1, <1>2, <1>3, <1>8, PointerTableFreed
<1>10. HeapOK(h5) /\ DOMAIN h5.table = DOMAIN h.table /\ m \notin Range(h5.free)
  BY <1>1, <1>5, <1>7, <1>8, <1>9 DEF Released, Writes
<1>11. Freed(h5, h6, m)
  BY <1>1, <1>3, <1>10, PageFreed
<1>12. Writes(h, h6, {m, a, b, c})
  BY <1>5, <1>6, <1>7, <1>8, <1>9, <1>10, <1>11 DEF Released, Writes, Freed
<1>13. Range(h6.free) = Range(h.free) \cup {m, a, b, c}
  BY <1>5, <1>7, <1>9, <1>11 DEF Released, Freed
<1>14. Len(h6.free) = Len(h.free) + 4
  <2>1. Len(h.free) \in Nat
    BY FreeInHeap
  <2> QED
    BY <2>1, <1>5, <1>7, <1>9, <1>11 DEF Released, Freed
<1> QED
  BY <1>4, <1>11, <1>12, <1>13, <1>14 DEF GivenBack, Freed

\* FreeVM of a map that SetupKVM could not complete, with nothing in it.
LEMMA BareMapFreed ==
  ASSUME NEW h, HeapOK(h), NEW m \in DOMAIN h.table, m \notin Range(h.free),
         h.table[m][USER_PML4] = NoPage, h.table[m][KERNEL_PML4] = NoPage
  PROVE  GivenBack(h, FreeVM(h, m), {m}, 1)
<1>1. FreeVM(h, m) = kfree(h, m)
  BY NoDirectory, NoUserPage, NoPointerTable
  DEF FreeVM, FreePDTable, FreePDPTable, FreePML4Table
<1>2. Freed(h, kfree(h, m), m)
  BY PageFreed
<1> QED
  BY <1>1, <1>2 DEF GivenBack, Freed

\* The same with an empty pointer table a in the kernel's part.
LEMMA HalfKernelFreed ==
  ASSUME NEW h, HeapOK(h), NEW m \in DOMAIN h.table, m \notin Range(h.free),
         NEW a \in DOMAIN h.table, a \notin Range(h.free), a # m,
         h.table[m][USER_PML4] = NoPage, h.table[m][KERNEL_PML4] = a,
         h.table[a][0] = NoPage
  PROVE  GivenBack(h, FreeVM(h, m), {m, a}, 2)
<1>1. PICK h5, h6 : h5 = FreePDPTableAt(h, m, KERNEL_PML4) /\ h6 = kfree(h5, m)
  OBVIOUS
<1>2. FreeVM(h, m) = h6
  <2>1. /\ FreePages(h, m) = h /\ FreePDTableAt(h, m, USER_PML4) = h
        /\ FreePDTableAt(h, m, KERNEL_PML4) = h /\ FreePDPTableAt(h, m, USER_PML4) = h
    BY NoDirectory, NoUserPage, NoPointerTable
  <2> QED
    BY <1>1, <2>1 DEF FreeVM, FreePDTable, FreePDPTable, FreePML4Table
<1>3. Released(h, h5, a, m, KERNEL_PML4)
  BY <1>1, PointerTableFreed, IndexFacts
<1>4. HeapOK(h5) /\ m \in DOMAIN h5.table /\ m \notin Range(h5.free)
  BY <1>3 DEF Released, Writes
<1>5. Freed(h5, h6, m)
  BY <1>1, <1>4, PageFreed
<1>6. Writes(h, h6, {m, a})
  BY <1>3, <1>5 DEF Released, Writes, Freed
<1>7. Range(h6.free) = Range(h.free) \cup {m, a}
  BY <1>3, <1>5 DEF Released, Freed
<1>8. Len(h6.free) = Len(h.free) + 2
  <2>1. Len(h.free) \in Nat
    BY FreeInHeap
  <2> QED
    BY <2>1, <1>3, <1>5 DEF Released, Freed
<1> QED
  BY <1>2, <1>5, <1>6, <1>7, <1>8 DEF GivenBack, Freed

-----------------------------------------------------------------------------
(* SetupKVM, SetupUVM and CopyUVM.                                         *)

\* A map with the kernel's part and nothing else was built from free pages.
KernelBuilt(h, k, m, a, b) ==
  /\ HeapOK(k) /\ Writes(h, k, {m, a, b})
  /\ {m, a, b} \subseteq Range(h.free)
  /\ Range(k.free) = Range(h.free) \ {m, a, b} /\ Len(h.free) = Len(k.free) + 3
  /\ KernelPart(k.table, m, a, b) /\ k.table[m][USER_PML4] = NoPage

\* The same pages are free, and only free pages were written.
OnlyFreeWritten(h, k) ==
  /\ HeapOK(k) /\ Writes(h, k, Range(h.free))
  /\ Range(k.free) = Range(h.free) /\ Len(k.free) = Len(h.free)

\* SetupKVM with three pages.
LEMMA KernelMapBuilt ==
  ASSUME NEW h, HeapOK(h), Len(h.free) >= 3
  PROVE  \E m, a, b \in Range(h.free) :
           /\ KernelBuilt(h, SetupKVM(h).heap, m, a, b)
           /\ SetupKVM(h).map = m /\ m # NoPage
<1> DEFINE K == KERNEL_PML4
<1>1. Len(h.free) \in Nat /\ h.free # <<>>
  BY FreeInHeap
<1>2. PICK m, h1 : m = Top(h) /\ h1 = kalloc(h)
  OBVIOUS
<1>3. Allocated(h, h1, m) /\ m # NoPage
  BY <1>1, <1>2, PageAllocated
<1>4. /\ HeapOK(h1) /\ m \in DOMAIN h1.table /\ m \notin Range(h1.free)
      /\ h1.table[m][K] = NoPage /\ K \in Indices /\ 0 \in Indices
      /\ KernelFrames \in Int /\ Len(h1.free) \in Nat
  BY <1>3, IndexFacts, FreeInHeap DEF Allocated, Writes, Blank
<1>5. Len(h1.free) >= 2
  BY <1>1, <1>3, <1>4 DEF Allocated
<1>6. PICK k : k = MapPages(h1, m, K, 0, KernelFrames).heap
  OBVIOUS
<1> HIDE DEF K
<1>7. /\ MapPages(h1, m, K, 0, KernelFrames).ok
      /\ \E a, b \in Range(h1.free) : Mapped2(h1, k, m, K, 0, KernelFrames, a, b)
  BY <1>4, <1>5, <1>6, MapPagesDone
<1>8. PICK a, b \in Range(h1.free) : Mapped2(h1, k, m, K, 0, KernelFrames, a, b)
  BY <1>7
<1>9. SetupKVM(h).heap = k /\ SetupKVM(h).map = m
  BY <1>2, <1>3, <1>6, <1>7 DEF SetupKVM, K
<1>10. /\ {m, a, b} \subseteq Range(h.free)
       /\ Range(k.free) = Range(h.free) \ {m, a, b}
  BY <1>3, <1>8 DEF Allocated, Mapped2
<1>11. Len(h.free) = Len(k.free) + 3
  <2>1. Len(k.free) \in Nat
    BY <1>8, FreeInHeap DEF Mapped2
  <2> QED
    BY <1>3, <1>8, <2>1 DEF Allocated, Mapped2
<1>12. Writes(h, k, {m, a, b})
  BY <1>3, <1>8 DEF Allocated, Mapped2, Writes
<1>13. {m, a, b} \subseteq DOMAIN k.table /\ m # a /\ m # b /\ a # b
  BY <1>8, <1>10, <1>12, FreeInHeap DEF Mapped2, Writes
<1>14. /\ k.table[m][K] = a /\ k.table[m][USER_PML4] = NoPage
       /\ k.table[a][0] = b /\ k.table[b][0] = KernelFrames /\ k.table[b][USER_PD] = NoPage
  BY <1>3, <1>4, <1>8, IndexFacts DEF Allocated, Mapped2, Entry, Single, Blank, K
<1>15. KernelBuilt(h, k, m, a, b)
  BY <1>8, <1>10, <1>11, <1>12, <1>13, <1>14 DEF KernelBuilt, KernelPart, Mapped2, K
<1> QED
  BY <1>3, <1>9, <1>10, <1>15

\* SetupKVM with less: everything is given back.
LEMMA KernelMapMissing ==
  ASSUME NEW h, HeapOK(h), Len(h.free) < 3
  PROVE  SetupKVM(h).map = NoPage /\ OnlyFreeWritten(h, SetupKVM(h).heap)
<1> DEFINE K == KERNEL_PML4
<1>1. Len(h.free) \in Nat /\ Range(h.free) \subseteq DOMAIN h.table
  BY FreeInHeap
<1>2. CASE h.free = <<>>
  <2>1. SetupKVM(h).map = NoPage /\ SetupKVM(h).heap = h
    BY <1>2 DEF SetupKVM, Top
  <2> QED
    BY <2>1 DEF OnlyFreeWritten, Writes
<1>3. CASE h.free # <<>>
  <2>1. PICK m, h1 : m = Top(h) /\ h1 = kalloc(h)
    OBVIOUS
  <2>2. Allocated(h, h1, m) /\ m # NoPage
    BY <1>3, <2>1, PageAllocated
  <2>3. /\ HeapOK(h1) /\ m \in DOMAIN h1.table /\ m \notin Range(h1.free)
        /\ h1.table[m][K] = NoPage /\ h1.table[m][USER_PML4] = NoPage
        /\ K \in Indices /\ 0 \in Indices /\ USER_PML4 \in Indices /\ USER_PML4 # K
        /\ Len(h1.free) \in Nat /\ (h1.free = <<>> <=> Len(h1.free) = 0)
    BY <2>2, IndexFacts, FreeInHeap DEF Allocated, Writes, Blank
  <2>4. Len(h1.free) = 0 \/ Len(h1.free) = 1
    <3>1. Len(h.free) = Len(h1.free) + 1 /\ Len(h.free) < 3 /\ Len(h1.free) \in Nat
      BY <2>2, <2>3 DEF Allocated
    <3>2. \A n, l \in Nat : l = n + 1 /\ l < 3 => n = 0 \/ n = 1
      OBVIOUS
    <3> QED
      BY <1>1, <3>1, <3>2
  <2>5. PICK k, g : k = MapPages(h1, m, K, 0, KernelFrames).heap /\ g = FreeVM(k, m)
    OBVIOUS
  <2> HIDE DEF K
  <2>6. CASE Len(h1.free) = 0
    <3>1. ~ MapPages(h1, m, K, 0, KernelFrames).ok /\ k = h1
      BY <2>3, <2>5, <2>6, MapPagesMissing
    <3>2. SetupKVM(h).map = NoPage /\ SetupKVM(h).heap = g
      BY <2>1, <2>2, <2>5, <3>1 DEF SetupKVM, K
    <3>3. GivenBack(h1, g, {m}, 1)
      BY <2>3, <2>5, <3>1, BareMapFreed DEF K
    <3>4. Writes(h, g, Range(h.free))
      BY <2>2, <3>3 DEF GivenBack, Allocated, Writes
    <3>5. Range(g.free) = Range(h.free) /\ Len(g.free) = Len(h.free)
      BY <2>2, <2>3, <3>3 DEF GivenBack, Allocated
    <3> QED
      BY <3>2, <3>3, <3>4, <3>5 DEF OnlyFreeWritten, GivenBack
  <2>7. CASE Len(h1.free) = 1
    <3>1. /\ ~ MapPages(h1, m, K, 0, KernelFrames).ok
          /\ \E a \in Range(h1.free) : NewTable(h1, k, m, K, a)
      BY <2>3, <2>5, <2>7, MapPagesHalf
    <3>2. PICK a \in Range(h1.free) : NewTable(h1, k, m, K, a)
      BY <3>1
    <3>3. SetupKVM(h).map = NoPage /\ SetupKVM(h).heap = g
      BY <2>1, <2>2, <2>5, <3>1 DEF SetupKVM, K
    <3>4. /\ HeapOK(k) /\ m \in DOMAIN k.table /\ m \notin Range(k.free)
          /\ a \in DOMAIN k.table /\ a \notin Range(k.free) /\ a # m
          /\ k.table[m][USER_PML4] = NoPage /\ k.table[m][K] = a /\ k.table[a][0] = NoPage
      BY <2>3, <3>2 DEF NewTable, Writes, Entry, Blank
    <3>5. GivenBack(k, g, {m, a}, 2)
      BY <2>5, <3>4, HalfKernelFreed DEF K
    <3>6. Writes(h, g, Range(h.free))
      BY <2>2, <3>2, <3>5 DEF GivenBack, Allocated, Writes, NewTable
    <3>7. Range(g.free) = Range(h.free)
      BY <2>2, <3>2, <3>5 DEF GivenBack, Allocated, NewTable
    <3>8. Len(g.free) = Len(h.free)
      <4>1. Len(k.free) \in Nat
        BY <3>4, FreeInHeap
      <4> QED
        BY <2>2, <2>3, <3>2, <3>5, <4>1 DEF GivenBack, Allocated, NewTable
    <3> QED
      BY <3>3, <3>5, <3>6, <3>7, <3>8 DEF OnlyFreeWritten, GivenBack
  <2> QED
    BY <2>4, <2>6, <2>7
<1> QED
  BY <1>2, <1>3

\* The user's part was added to the map m, from free pages.
UserBuilt(h, k, m, c, d, u) ==
  /\ HeapOK(k) /\ Writes(h, k, {m, c, d, u})
  /\ {c, d, u} \subseteq Range(h.free)
  /\ Range(k.free) = Range(h.free) \ {c, d, u} /\ Len(h.free) = Len(k.free) + 3
  /\ Entry(h.table, k.table, m, USER_PML4, c)
  /\ UserPart(k.table, m, c, d, u)

\* The user page and its tables, with three pages.
LEMMA UserPageMapped ==
  ASSUME NEW h, HeapOK(h), NEW m \in DOMAIN h.table, m \notin Range(h.free),
         h.table[m][USER_PML4] = NoPage, Len(h.free) >= 3
  PROVE  LET r == MapPages(kalloc(h), m, USER_PML4, USER_PD, Top(h))
         IN  /\ r.ok /\ Top(h) # NoPage
             /\ \E c, d, u \in Range(h.free) : UserBuilt(h, r.heap, m, c, d, u)
<1>1. Len(h.free) \in Nat /\ h.free # <<>> /\ Range(h.free) \subseteq DOMAIN h.table
      /\ DOMAIN h.table \subseteq Int
  BY FreeInHeap
<1>2. PICK u, h1 : u = Top(h) /\ h1 = kalloc(h)
  OBVIOUS
<1>3. Allocated(h, h1, u) /\ u # NoPage
  BY <1>1, <1>2, PageAllocated
<1>4. /\ HeapOK(h1) /\ m \in DOMAIN h1.table /\ m \notin Range(h1.free) /\ m # u
      /\ h1.table[m] = h.table[m]
      /\ USER_PML4 \in Indices /\ USER_PD \in Indices
      /\ u \in Int /\ Len(h1.free) \in Nat
  BY <1>1, <1>3, IndexFacts, FreeInHeap DEF Allocated, Writes
<1>5. Len(h1.free) >= 2
  BY <1>1, <1>3, <1>4 DEF Allocated
<1>6. PICK k : k = MapPages(h1, m, USER_PML4, USER_PD, u).heap
  OBVIOUS
<1>7. /\ MapPages(h1, m, USER_PML4, USER_PD, u).ok
      /\ \E c, d \in Range(h1.free) : Mapped2(h1, k, m, USER_PML4, USER_PD, u, c, d)
  BY <1>4, <1>5, <1>6, MapPagesDone
<1>8. PICK c, d \in Range(h1.free) : Mapped2(h1, k, m, USER_PML4, USER_PD, u, c, d)
  BY <1>7
<1>9. /\ {c, d, u} \subseteq Range(h.free) /\ c # u /\ d # u
      /\ Range(k.free) = Range(h.free) \ {c, d, u}
  BY <1>3, <1>8 DEF Allocated, Mapped2
<1>10. Len(h.free) = Len(k.free) + 3
  <2>1. Len(k.free) \in Nat
    BY <1>8, FreeInHeap DEF Mapped2
  <2> QED
    BY <1>3, <1>8, <2>1 DEF Allocated, Mapped2
<1>11. Writes(h, k, {m, c, d, u})
  BY <1>3, <1>8 DEF Allocated, Mapped2, Writes
<1>12. Entry(h.table, k.table, m, USER_PML4, c)
  BY <1>4, <1>8 DEF Mapped2, Entry
<1>13. /\ k.table[m][USER_PML4] = c /\ k.table[c][0] = d /\ k.table[d][USER_PD] = u
  BY <1>4, <1>8, IndexFacts DEF Mapped2, Entry, Single
<1>14. /\ {m, c, d, u} \subseteq DOMAIN k.table
       /\ m # c /\ m # d /\ m # u /\ c # d /\ c # u /\ d # u
  BY <1>1, <1>4, <1>8, <1>9, <1>11 DEF Mapped2, Writes
<1>15. UserBuilt(h, k, m, c, d, u)
  BY <1>8, <1>9, <1>10, <1>11, <1>12, <1>13, <1>14 DEF UserBuilt, UserPart, Mapped2
<1> QED
  BY <1>2, <1>3, <1>6, <1>7, <1>9, <1>15

\* SetupUVM with three pages.
LEMMA UserMapBuilt ==
  ASSUME NEW h, HeapOK(h), NEW m \in DOMAIN h.table, m \notin Range(h.free),
         h.table[m][USER_PML4] = NoPage, Len(h.free) >= 3
  PROVE  /\ SetupUVM(h, m).ok
         /\ \E c, d, u \in Range(h.free) : UserBuilt(h, SetupUVM(h, m).heap, m, c, d, u)
<1>1. PICK r : r = MapPages(kalloc(h), m, USER_PML4, USER_PD, Top(h))
  OBVIOUS
<1>2. /\ r.ok /\ Top(h) # NoPage
      /\ \E c, d, u \in Range(h.free) : UserBuilt(h, r.heap, m, c, d, u)
  BY <1>1, UserPageMapped
<1>3. SetupUVM(h, m) = r
  BY <1>1, <1>2 DEF SetupUVM
<1> QED
  BY <1>2, <1>3

\* A map m without user part and three free pages, and the map n of the process
\* that forks.
CopyReady(h, m, n, c0, d0, u0) ==
  /\ HeapOK(h) /\ m \in DOMAIN h.table /\ m \notin Range(h.free)
  /\ h.table[m][USER_PML4] = NoPage /\ Len(h.free) >= 3
  /\ UserPart(h.table, n, c0, d0, u0) /\ {n, c0} \cap (Range(h.free) \cup {m}) = {}

\* CopyUVM with three pages, called by a process whose own user page is there.
LEMMA UserMapCopied ==
  ASSUME NEW h, NEW m, NEW n, NEW c0, NEW d0, NEW u0, CopyReady(h, m, n, c0, d0, u0),
         NEW r, r = CopyUVM(h, m, n)
  PROVE  r.ok /\ \E c, d, u \in Range(h.free) : UserBuilt(h, r.heap, m, c, d, u)
<1> USE DEF CopyReady
<1>1. PICK f : f = MapPages(kalloc(h), m, USER_PML4, USER_PD, Top(h))
  OBVIOUS
<1>2. /\ f.ok /\ Top(h) # NoPage
      /\ \E c, d, u \in Range(h.free) : UserBuilt(h, f.heap, m, c, d, u)
  BY <1>1, UserPageMapped
<1>3. PICK c, d, u \in Range(h.free) : UserBuilt(h, f.heap, m, c, d, u)
  BY <1>2
<1>4. f.heap.table[n] = h.table[n] /\ f.heap.table[c0] = h.table[c0]
  BY <1>3 DEF UserBuilt, Writes, UserPart
<1>5. c0 # NoPage /\ d0 # NoPage
  BY FreeInHeap DEF UserPart
<1>6. PageDirectory(f.heap, n, USER_PML4) = d0
  BY <1>4, <1>5 DEF PageDirectory, UserPart
<1>7. r = f
  BY <1>1, <1>2, <1>5, <1>6 DEF CopyUVM
<1> QED
  BY <1>2, <1>7

\* What a failed CopyUVM may do: the map m with its tables a and b goes back to
\* the free list, or nowhere.
MapDropped(h, k, m, a, b) ==
  /\ HeapOK(k) /\ Writes(h, k, Range(h.free) \cup {m, a, b})
  /\ Range(k.free) \subseteq Range(h.free) \cup {m, a, b}

\* CopyUVM with less than three pages.
LEMMA UserMapMissing ==
  ASSUME NEW h, HeapOK(h), NEW m, NEW a, NEW b, KernelPart(h.table, m, a, b),
         {m, a, b} \cap Range(h.free) = {},
         h.table[m][USER_PML4] = NoPage, Len(h.free) < 3, NEW n
  PROVE  ~ CopyUVM(h, m, n).ok /\ MapDropped(h, CopyUVM(h, m, n).heap, m, a, b)
<1>1. Len(h.free) \in Nat /\ Range(h.free) \subseteq DOMAIN h.table
  BY FreeInHeap
<1>2. CASE h.free = <<>>
  <2>1. ~ CopyUVM(h, m, n).ok /\ CopyUVM(h, m, n).heap = h
    BY <1>2 DEF CopyUVM, Top
  <2> QED
    BY <2>1 DEF MapDropped, Writes
<1>3. CASE h.free # <<>>
  <2>1. PICK u, h1 : u = Top(h) /\ h1 = kalloc(h)
    OBVIOUS
  <2>2. Allocated(h, h1, u) /\ u # NoPage
    BY <1>3, <2>1, PageAllocated
  <2>3. /\ HeapOK(h1) /\ m \in DOMAIN h1.table /\ m \notin Range(h1.free)
        /\ {m, a, b} \subseteq DOMAIN h1.table /\ u \notin {m, a, b}
        /\ DOMAIN h1.table = DOMAIN h.table
        /\ h1.table[m] = h.table[m] /\ h1.table[a] = h.table[a] /\ h1.table[b] = h.table[b]
        /\ Len(h1.free) \in Nat /\ (h1.free = <<>> <=> Len(h1.free) = 0)
    BY <2>2, FreeInHeap DEF Allocated, Writes, KernelPart
  <2>4. KernelPart(h1.table, m, a, b) /\ h1.table[m][USER_PML4] = NoPage
    BY <2>3 DEF KernelPart
  <2>5. Len(h1.free) = 0 \/ Len(h1.free) = 1
    <3>1. Len(h.free) = Len(h1.free) + 1 /\ Len(h.free) < 3 /\ Len(h1.free) \in Nat
      BY <2>2, <2>3 DEF Allocated
    <3>2. \A x, l \in Nat : l = x + 1 /\ l < 3 => x = 0 \/ x = 1
      OBVIOUS
    <3> QED
      BY <1>1, <3>1, <3>2
  <2>6. PICK r : r = MapPages(h1, m, USER_PML4, USER_PD, u)
    OBVIOUS
  <2>7. PICK k, f, g : k = r.heap /\ f = kfree(k, u) /\ g = FreeVM(f, m)
    OBVIOUS
  <2>8. ~ r.ok => ~ CopyUVM(h, m, n).ok /\ CopyUVM(h, m, n).heap = g
    BY <2>1, <2>2, <2>6, <2>7 DEF CopyUVM
  <2>9. CASE Len(h1.free) = 0
    <3>1. ~ r.ok /\ k = h1
      BY <2>3, <2>4, <2>6, <2>7, <2>9, MapPagesMissing
    <3>2. u \in DOMAIN h1.table /\ u \notin Range(h1.free)
      BY <2>2, <2>3 DEF Allocated
    <3>3. Freed(h1, f, u)
      BY <2>3, <2>7, <3>1, <3>2, PageFreed
    <3>4. /\ HeapOK(f) /\ KernelPart(f.table, m, a, b) /\ f.table[m][USER_PML4] = NoPage
          /\ {m, a, b} \cap Range(f.free) = {}
      BY <2>2, <2>3, <2>4, <3>3 DEF Freed, Writes, KernelPart, Allocated
    <3>5. GivenBack(f, g, {m, a, b}, 3)
      BY <2>7, <3>4, KernelSpaceFreed
    <3>6. Writes(h, g, Range(h.free) \cup {m, a, b})
      BY <2>2, <3>3, <3>5 DEF GivenBack, Freed, Allocated, Writes
    <3>7. Range(g.free) \subseteq Range(h.free) \cup {m, a, b}
      BY <2>2, <3>3, <3>5 DEF GivenBack, Freed, Allocated
    <3> QED
      BY <2>8, <3>1, <3>5, <3>6, <3>7 DEF MapDropped, GivenBack
  <2>10. CASE Len(h1.free) = 1
    <3>1. ~ r.ok /\ \E c \in Range(h1.free) : NewTable(h1, k, m, USER_PML4, c)
      BY <2>3, <2>4, <2>6, <2>7, <2>10, MapPagesHalf, IndexFacts
    <3>2. PICK c \in Range(h1.free) : NewTable(h1, k, m, USER_PML4, c)
      BY <3>1
    <3>3. /\ HeapOK(k) /\ u \in DOMAIN k.table /\ u \notin Range(k.free) /\ u # c
          /\ c \notin {m, a, b}
      BY <2>2, <2>3, <3>2 DEF Allocated, NewTable, Writes
    <3>4. Freed(k, f, u)
      BY <2>7, <3>3, PageFreed
    <3>5. /\ HeapOK(f) /\ DOMAIN f.table = DOMAIN h.table
          /\ c \in DOMAIN f.table
          /\ f.table[a] = h.table[a] /\ f.table[b] = h.table[b]
          /\ f.table[c] = k.table[c] /\ f.table[m] = k.table[m]
      BY <2>2, <2>3, <3>2, <3>3, <3>4 DEF Freed, NewTable, Writes, KernelPart
    <3>6. /\ f.table[m][USER_PML4] = c /\ f.table[m][KERNEL_PML4] = a
          /\ f.table[c][0] = NoPage
      BY <2>4, <3>2, <3>5, IndexFacts DEF NewTable, Entry, Blank, KernelPart
    <3>7. KernelPart(f.table, m, a, b)
      BY <2>3, <3>5, <3>6 DEF KernelPart
    <3>8. {m, a, b, c} \cap Range(f.free) = {}
      BY <2>2, <2>3, <3>2, <3>3, <3>4 DEF Freed, NewTable, Allocated
    <3>9. GivenBack(f, g, {m, a, b, c}, 4)
      BY <2>7, <3>3, <3>5, <3>6, <3>7, <3>8, HalfUserFreed
    <3>10. c \in Range(h.free) /\ u \in Range(h.free)
      BY <2>2, <3>2 DEF Allocated
    <3>11. Writes(h, g, Range(h.free) \cup {m, a, b})
      BY <2>2, <3>2, <3>4, <3>9, <3>10 DEF GivenBack, Freed, Allocated, Writes, NewTable
    <3>12. Range(g.free) \subseteq Range(h.free) \cup {m, a, b}
      BY <2>2, <3>2, <3>4, <3>9, <3>10 DEF GivenBack, Freed, Allocated, NewTable
    <3> QED
      BY <2>8, <3>1, <3>9, <3>11, <3>12 DEF MapDropped, GivenBack
  <2> QED
    BY <2>5, <2>9, <2>10
<1> QED
  BY <1>2, <1>3

-----------------------------------------------------------------------------
(* Who owns which page.                                                    *)

\* The pages of the kernel's own map.
LEMMA KernelMapPages ==
  ASSUME NEW T, NoPage \notin DOMAIN T, NEW m, NEW a, NEW b, KernelPart(T, m, a, b),
         T[m][USER_PML4] = NoPage
  PROVE  MapPagesIn(T, m) = {m, a, b} /\ KernelSpace(T, m)
<1>1. /\ T[m][KERNEL_PML4] = a /\ T[a][0] = b /\ T[b][USER_PD] = NoPage
      /\ m \in DOMAIN T /\ a \in DOMAIN T /\ b \in DOMAIN T
  BY DEF KernelPart
<1>2. DirectoryIn(T, m, USER_PML4) = NoPage /\ DirectoryIn(T, m, KERNEL_PML4) = b
  BY <1>1 DEF DirectoryIn
<1>3. /\ {T[m][i] : i \in {USER_PML4, KERNEL_PML4}} = {NoPage, a}
      /\ {DirectoryIn(T, m, i) : i \in {USER_PML4, KERNEL_PML4}} = {NoPage, b}
  BY <1>1, <1>2
<1>4. {T[pd][USER_PD] : pd \in {NoPage, b} \cap DOMAIN T} = {NoPage}
  BY <1>1
<1> QED
  BY <1>1, <1>3, <1>4 DEF MapPagesIn, KernelSpace

\* The pages of the map of a process.
LEMMA ProcessMapPages ==
  ASSUME NEW T, NoPage \notin DOMAIN T, NEW s, NEW m, NEW a, NEW b, NEW c, NEW d, NEW u,
         Space(T, s, m, a, b, c, d, u)
  PROVE  MapPagesIn(T, m) = {m, a, b, c, d, u} /\ ProcessSpace(T, s, m)
<1>1. /\ T[m][KERNEL_PML4] = a /\ T[a][0] = b /\ T[b][USER_PD] = NoPage
      /\ T[m][USER_PML4] = c /\ T[c][0] = d /\ T[d][USER_PD] = u
      /\ m \in DOMAIN T /\ a \in DOMAIN T /\ b \in DOMAIN T
      /\ c \in DOMAIN T /\ d \in DOMAIN T /\ u \in DOMAIN T
  BY DEF Space, KernelPart, UserPart
<1>2. DirectoryIn(T, m, USER_PML4) = d /\ DirectoryIn(T, m, KERNEL_PML4) = b
  BY <1>1 DEF DirectoryIn
<1>3. /\ {T[m][i] : i \in {USER_PML4, KERNEL_PML4}} = {c, a}
      /\ {DirectoryIn(T, m, i) : i \in {USER_PML4, KERNEL_PML4}} = {d, b}
  BY <1>1, <1>2
<1>4. {T[pd][USER_PD] : pd \in {d, b} \cap DOMAIN T} = {u, NoPage}
  BY <1>1
<1> QED
  BY <1>1, <1>3, <1>4 DEF MapPagesIn, ProcessSpace

\* A slot whose pages are not written keeps them, and what they are for.
LEMMA OwnerKept ==
  ASSUME NEW T, NoPage \notin DOMAIN T, NEW kp, NEW st, NEW sk, NEW pm, NEW p \in Slots,
         FurnishedAt(T, st, sk, pm, p),
         NEW T2, NEW kp2, NEW st2, NEW sk2, NEW pm2, DOMAIN T2 = DOMAIN T,
         st2[p] = st[p], sk2[p] = sk[p], pm2[p] = pm[p], p = IDLE => kp2 = kp,
         \A x \in OwnIn(T, kp, st, sk, pm, p) : T2[x] = T[x]
  PROVE  /\ OwnIn(T2, kp2, st2, sk2, pm2, p) = OwnIn(T, kp, st, sk, pm, p)
         /\ FurnishedAt(T2, st2, sk2, pm2, p)
<1>1. CASE p = IDLE
  <2>1. PICK m, a, b : m = pm[p] /\ a = T[m][KERNEL_PML4] /\ b = T[a][0]
    OBVIOUS
  <2>2. KernelPart(T, m, a, b) /\ T[m][USER_PML4] = NoPage
    BY <1>1, <2>1 DEF FurnishedAt, KernelSpace
  <2>3. MapPagesIn(T, m) = {m, a, b}
    BY <2>2, KernelMapPages
  <2>4. OwnIn(T, kp, st, sk, pm, p) = {m, a, b} \cup kp
    BY <1>1, <2>1, <2>3 DEF OwnIn
  <2>5. T2[m] = T[m] /\ T2[a] = T[a] /\ T2[b] = T[b]
    BY <2>4
  <2>6. KernelPart(T2, m, a, b) /\ T2[m][USER_PML4] = NoPage
    BY <2>2, <2>5 DEF KernelPart
  <2>7. MapPagesIn(T2, m) = {m, a, b} /\ KernelSpace(T2, m)
    BY <2>6, KernelMapPages
  <2> QED
    BY <1>1, <2>1, <2>4, <2>7 DEF OwnIn, FurnishedAt
<1>2. CASE p # IDLE /\ CompleteIn(st, p)
  <2>1. PICK s, m, a, b, c, d, u :
          /\ s = sk[p] /\ m = pm[p] /\ a = T[m][KERNEL_PML4] /\ b = T[a][0]
          /\ c = T[m][USER_PML4] /\ d = T[c][0] /\ u = T[d][USER_PD]
    OBVIOUS
  <2>2. Space(T, s, m, a, b, c, d, u)
    BY <1>2, <2>1 DEF FurnishedAt, ProcessSpace
  <2>3. MapPagesIn(T, m) = {m, a, b, c, d, u}
    BY <2>2, ProcessMapPages
  <2>4. OwnIn(T, kp, st, sk, pm, p) = {s} \cup {m, a, b, c, d, u}
    <3>1. OwnIn(T, kp, st, sk, pm, p) = {sk[p]} \cup MapPagesIn(T, pm[p])
      BY <1>2 DEF OwnIn, CompleteIn
    <3> QED
      BY <2>1, <2>3, <3>1
  <2>5. /\ T2[m] = T[m] /\ T2[a] = T[a] /\ T2[b] = T[b] /\ T2[c] = T[c]
        /\ T2[d] = T[d]
    BY <2>4
  <2>6. Space(T2, s, m, a, b, c, d, u)
    BY <2>2, <2>5 DEF Space, KernelPart, UserPart
  <2>7. MapPagesIn(T2, m) = {m, a, b, c, d, u} /\ ProcessSpace(T2, s, m)
    BY <2>6, ProcessMapPages
  <2>8. CompleteIn(st2, p)
    BY <1>2 DEF CompleteIn
  <2> QED
    BY <1>2, <2>1, <2>4, <2>7, <2>8 DEF OwnIn, FurnishedAt, CompleteIn
<1>3. CASE p # IDLE /\ ~ CompleteIn(st, p)
  BY <1>3 DEF OwnIn, FurnishedAt, CompleteIn
<1> QED
  BY <1>1, <1>2, <1>3

\* The pages of a slot are in the heap.
LEMMA OwnInHeap ==
  ASSUME NEW T, NoPage \notin DOMAIN T, NEW kp, kp \subseteq DOMAIN T, NEW st, NEW sk, NEW pm,
         NEW p \in Slots, FurnishedAt(T, st, sk, pm, p)
  PROVE  OwnIn(T, kp, st, sk, pm, p) \subseteq DOMAIN T
<1>1. \A m : MapPagesIn(T, m) \subseteq DOMAIN T
  BY DEF MapPagesIn
<1>2. CompleteIn(st, p) /\ p # IDLE => sk[p] \in DOMAIN T
  BY DEF FurnishedAt, ProcessSpace, Space
<1> QED
  BY <1>1, <1>2 DEF OwnIn, FurnishedAt, CompleteIn

\* No slot but q is changed.
OthersKept(q, st, sk, pm, st2, sk2, pm2) ==
  \A p \in Slots \ {q} : st2[p] = st[p] /\ sk2[p] = sk[p] /\ pm2[p] = pm[p]

\* Slot s gets pages from the free list or gives them back, and no other slot
\* notices.
LEMMA SlotChanges ==
  ASSUME NEW T, NoPage \notin DOMAIN T, NEW F, NEW kp, NEW st, NEW sk, NEW pm,
         SpacesIn(T, F, kp, st, sk, pm),
         NEW T2, NEW F2, NEW st2, NEW sk2, NEW pm2, DOMAIN T2 = DOMAIN T,
         NEW s \in Slots \ {IDLE}, st[s] = "INITIALIZED" => st2[s] = "INITIALIZED",
         OthersKept(s, st, sk, pm, st2, sk2, pm2),
         NEW O, O = OwnIn(T, kp, st, sk, pm, s),
         NEW O2, O2 = OwnIn(T2, kp, st2, sk2, pm2, s),
         \A x \in DOMAIN T \ (F \cup O) : T2[x] = T[x],
         FurnishedAt(T2, st2, sk2, pm2, s),
         F2 \cup O2 \subseteq F \cup O, F2 \cap O2 = {},
         st2[s] # "INITIALIZED" => F2 \cup O2 = F \cup O
  PROVE  SpacesIn(T2, F2, kp, st2, sk2, pm2)
<1> DEFINE Own(p) == OwnIn(T, kp, st, sk, pm, p)
           Own2(p) == OwnIn(T2, kp, st2, sk2, pm2, p)
<1>1. /\ \A p \in Slots : FurnishedAt(T, st, sk, pm, p)
      /\ \A p \in Slots : Own(p) \cap F = {}
      /\ \A p, q \in Slots : p # q => Own(p) \cap Own(q) = {}
      /\ (\A p \in Slots : st[p] # "INITIALIZED") =>
           DOMAIN T = F \cup UNION {Own(p) : p \in Slots}
      /\ kp \subseteq DOMAIN T
  BY DEF SpacesIn, Furnished, Apart, AllOwned
<1>2. ASSUME NEW p \in Slots \ {s}
      PROVE  Own2(p) = Own(p) /\ FurnishedAt(T2, st2, sk2, pm2, p)
  <2>1. Own(p) \subseteq DOMAIN T
    BY <1>1, OwnInHeap
  <2>2. \A x \in Own(p) : T2[x] = T[x]
    BY <1>1, <2>1
  <2> HIDE DEF Own, Own2
  <2>3. FurnishedAt(T, st, sk, pm, p)
    BY <1>1
  <2>4. st2[p] = st[p] /\ sk2[p] = sk[p] /\ pm2[p] = pm[p]
    BY DEF OthersKept
  <2> QED
    BY <2>2, <2>3, <2>4, OwnerKept DEF Own, Own2
<1>3. Own2(s) = O2 /\ Own(s) = O
  OBVIOUS
<1> HIDE DEF Own, Own2
<1>4. Furnished(T2, st2, sk2, pm2)
  BY <1>2 DEF Furnished
<1>5. \A p \in Slots : Own2(p) \cap F2 = {}
  BY <1>1, <1>2, <1>3
<1>6. \A p, q \in Slots : p # q => Own2(p) \cap Own2(q) = {}
  BY <1>1, <1>2, <1>3
<1>7. ASSUME \A p \in Slots : st2[p] # "INITIALIZED"
      PROVE  DOMAIN T2 = F2 \cup UNION {Own2(p) : p \in Slots}
  <2>1. DOMAIN T = F \cup UNION {Own(p) : p \in Slots}
    BY <1>1, <1>7 DEF OthersKept
  <2>2. F2 \cup Own2(s) = F \cup Own(s)
    BY <1>3, <1>7
  <2>3. UNION {Own(p) : p \in Slots} = Own(s) \cup UNION {Own(p) : p \in Slots \ {s}}
    OBVIOUS
  <2>4. UNION {Own2(p) : p \in Slots} = Own2(s) \cup UNION {Own2(p) : p \in Slots \ {s}}
    OBVIOUS
  <2>5. {Own2(p) : p \in Slots \ {s}} = {Own(p) : p \in Slots \ {s}}
    BY <1>2
  <2> QED
    BY <2>1, <2>2, <2>3, <2>4, <2>5
<1> QED
  BY <1>1, <1>4, <1>5, <1>6, <1>7 DEF SpacesIn, Apart, AllOwned, Own2

\* The states matter only as far as slots are free or half built.
LEMMA StatesChange ==
  ASSUME NEW T, NEW F, NEW kp, NEW st, NEW sk, NEW pm, SpacesIn(T, F, kp, st, sk, pm),
         NEW st2, \A p \in Slots : \A x \in {"UNUSED", "INITIALIZED"} :
                    st2[p] = x <=> st[p] = x
  PROVE  SpacesIn(T, F, kp, st2, sk, pm)
<1> DEFINE Own(p) == OwnIn(T, kp, st, sk, pm, p)
           Own2(p) == OwnIn(T, kp, st2, sk, pm, p)
<1>1. \A p \in Slots : /\ CompleteIn(st2, p) <=> CompleteIn(st, p)
                       /\ st2[p] = "INITIALIZED" <=> st[p] = "INITIALIZED"
  BY DEF CompleteIn
<1>2. \A p \in Slots : Own2(p) = Own(p)
  BY <1>1 DEF OwnIn
<1>3. Furnished(T, st2, sk, pm)
  BY <1>1 DEF SpacesIn, Furnished, FurnishedAt
<1> HIDE DEF Own, Own2
<1>4. Apart(T, F, kp, st2, sk, pm)
  BY <1>2 DEF SpacesIn, Apart, Own, Own2
<1>5. {Own2(p) : p \in Slots} = {Own(p) : p \in Slots}
  BY <1>2
<1>6. AllOwned(T, F, kp, st2, sk, pm)
  BY <1>1, <1>5 DEF SpacesIn, AllOwned, Own, Own2
<1> QED
  BY <1>3, <1>4, <1>6 DEF SpacesIn

\* The kernel's map and its pages kp are all that is not free.
KernelOwns(T, F, kp, m) ==
  /\ KernelSpace(T, m) /\ kp \subseteq DOMAIN T
  /\ (MapPagesIn(T, m) \cup kp) \cap F = {}
  /\ DOMAIN T = F \cup (MapPagesIn(T, m) \cup kp)

\* While the system boots, the pages that are not free are the kernel's.
LEMMA OnlyKernelOwns ==
  ASSUME NEW T, NEW F, NEW kp, NEW st, NEW sk, NEW pm,
         \A p \in Slots \ {IDLE} : st[p] = "UNUSED", st[IDLE] # "INITIALIZED"
  PROVE  SpacesIn(T, F, kp, st, sk, pm) <=> KernelOwns(T, F, kp, pm[IDLE])
<1> DEFINE Own(p) == OwnIn(T, kp, st, sk, pm, p)
           K == MapPagesIn(T, pm[IDLE]) \cup kp
<1>1. Own(IDLE) = K
  BY DEF OwnIn
<1>2. \A p \in Slots \ {IDLE} : Own(p) = {}
  BY DEF OwnIn, CompleteIn
<1>3. Furnished(T, st, sk, pm) <=> KernelSpace(T, pm[IDLE])
  BY IdleSlot DEF Furnished, FurnishedAt, CompleteIn
<1> HIDE DEF Own, K
<1>4. UNION {Own(p) : p \in Slots} = K
  BY <1>1, <1>2, IdleSlot
<1>5. AllOwned(T, F, kp, st, sk, pm) <=> DOMAIN T = F \cup K
  BY <1>4 DEF AllOwned, Own
<1>6. Apart(T, F, kp, st, sk, pm) <=> K \cap F = {}
  <2>1. (\A p \in Slots : Own(p) \cap F = {}) <=> K \cap F = {}
    BY <1>1, <1>2, IdleSlot
  <2>2. \A p, q \in Slots : p # q => Own(p) \cap Own(q) = {}
    BY <1>1, <1>2
  <2> QED
    BY <2>1, <2>2 DEF Apart, Own
<1> QED
  BY <1>3, <1>5, <1>6 DEF SpacesIn, K, KernelOwns

-----------------------------------------------------------------------------
(* Boot.                                                                   *)

\* panic() keeps the invariant: nothing is claimed of a kernel that has stopped.
LEMMA PanicInv ==
  ASSUME MemInv, Panic, UNCHANGED vars
  PROVE  TableInv' /\ SpacesInv' /\ DOMAIN table' = DOMAIN table
<1>1. /\ boot' = "panic" /\ UNCHANGED <<free, table, stack, page_map, kernel_pages>>
  BY DEF Panic
<1> QED
  BY <1>1 DEF MemInv, TableInv, SpacesInv, AtBoot, HeapReady, KernelReady

\* The next heap is h.
LEMMA HeapBecomes ==
  ASSUME NEW h, HeapOK(h), Becomes(h)
  PROVE  Heap' = h /\ free' = h.free /\ table' = h.table
BY DEF HeapOK, Becomes, Heap

\* What the slots hold while the system boots.
LEMMA InUseAtBoot ==
  ASSUME boot # "running"
  PROVE  InUse[IDLE] = "RUNNING" /\ \A p \in Slots \ {IDLE} : InUse[p] = "UNUSED"
BY IdleSlot DEF InUse

\* InitMemory: the map of the kernel is made of free pages, and all others stay
\* free.
LEMMA InitMemoryInv ==
  ASSUME MemInv, BootInitMemory, UNCHANGED vars
  PROVE  /\ TableInv' /\ SpacesInv' /\ DOMAIN table' = DOMAIN table
         /\ Len(free) >= 3 => boot' = "InitFileSystem" /\ Len(free) = Len(free') + 3
<1>1. /\ boot = "InitMemory" /\ HeapOK(Heap) /\ Range(free) = DOMAIN table
      /\ stack \in [Slots -> Nat] /\ page_map \in [Slots -> Nat]
  BY DEF BootInitMemory, MemInv, TableInv, SpacesInv, HeapReady, Pages
<1>2. Heap.free = free /\ Heap.table = table
  BY DEF Heap
<1>3. CASE SetupKVM(Heap).map = NoPage
  <2>1. ~ (Len(free) >= 3)
    BY <1>1, <1>2, <1>3, KernelMapBuilt
  <2> QED
    BY <1>3, <2>1, PanicInv DEF BootInitMemory
<1>4. CASE SetupKVM(Heap).map # NoPage
  <2>1. PICK k, n : k = SetupKVM(Heap).heap /\ n = SetupKVM(Heap).map
    OBVIOUS
  <2>2. /\ boot' = "InitFileSystem" /\ Becomes(k)
        /\ page_map' = [page_map EXCEPT ![IDLE] = n]
        /\ UNCHANGED <<stack, kernel_pages>>
    BY <1>4, <2>1 DEF BootInitMemory
  <2>3. Len(free) >= 3
    <3>1. Len(free) \in Nat
      BY <1>1, <1>2, FreeInHeap
    <3>2. Len(free) < 3 => n = NoPage
      BY <1>1, <1>2, <2>1, KernelMapMissing
    <3> QED
      BY <1>4, <2>1, <3>1, <3>2
  <2>4. PICK m, a, b \in Range(free) :
          KernelBuilt(Heap, k, m, a, b) /\ n = m
    BY <1>1, <1>2, <2>1, <2>3, KernelMapBuilt
  <2>5. HeapOK(k) /\ Heap' = k /\ free' = k.free /\ table' = k.table
    BY <2>2, <2>4, HeapBecomes DEF KernelBuilt
  <2>6. /\ DOMAIN k.table = DOMAIN table /\ {m, a, b} \subseteq Range(free)
        /\ Range(k.free) = Range(free) \ {m, a, b}
        /\ KernelPart(k.table, m, a, b) /\ k.table[m][USER_PML4] = NoPage
        /\ NoPage \notin DOMAIN k.table
    BY <1>2, <2>4, <2>5, FreeInHeap DEF KernelBuilt, Writes
  <2>7. MapPagesIn(k.table, m) = {m, a, b} /\ KernelSpace(k.table, m)
    BY <2>6, KernelMapPages
  <2>8. page_map'[IDLE] = m /\ page_map' \in [Slots -> Nat]
    <3>1. m \in Nat
      BY <1>1, <1>2, <2>4 DEF HeapOK
    <3> QED
      BY <1>1, <2>2, <2>4, <3>1, IdleSlot
  <2>9. kernel_pages = {}
    BY <1>1 DEF MemInv, SpacesInv
  <2>10. PICK T, F, kp, st, sk, pm :
          /\ T = table' /\ F = Range(free') /\ kp = kernel_pages' /\ st = InUse'
          /\ sk = stack' /\ pm = page_map'
    OBVIOUS
  <2>11. st[IDLE] = "RUNNING" /\ \A p \in Slots \ {IDLE} : st[p] = "UNUSED"
    BY <2>2, <2>10, IdleSlot DEF InUse
  <2>12. SpacesIn(T, F, kp, st, sk, pm)
    <3>1. KernelOwns(T, F, kp, pm[IDLE])
      BY <1>1, <2>2, <2>5, <2>6, <2>7, <2>8, <2>9, <2>10 DEF KernelOwns
    <3> QED
      BY <2>11, <3>1, OnlyKernelOwns
  <2>13. SpacesInv'
    BY <2>2, <2>9, <2>10, <2>12 DEF SpacesInv
  <2>14. TableInv'
    BY <1>1, <2>2, <2>5, <2>8 DEF TableInv, MemInv, AtBoot, vars, procVars
  <2>15. Len(free) = Len(free') + 3
    BY <1>2, <2>4, <2>5 DEF KernelBuilt
  <2> QED
    BY <2>2, <2>5, <2>6, <2>13, <2>14, <2>15
<1> QED
  BY <1>3, <1>4

\* InitFileSystem: two free pages become the kernel's.
LEMMA InitFileSystemInv ==
  ASSUME MemInv, BootInitFileSystem, UNCHANGED vars
  PROVE  /\ TableInv' /\ SpacesInv' /\ DOMAIN table' = DOMAIN table
         /\ Len(free) >= 2 => boot' = "InitProcess" /\ Len(free) = Len(free') + 2
<1>1. /\ boot = "InitFileSystem" /\ HeapOK(Heap) /\ kernel_pages = {}
      /\ stack \in [Slots -> Nat] /\ page_map \in [Slots -> Nat]
      /\ SpacesIn(table, Range(free), kernel_pages, InUse, stack, page_map)
  BY DEF BootInitFileSystem, MemInv, TableInv, SpacesInv, HeapReady, KernelReady
<1>2. Heap.free = free /\ Heap.table = table
  BY DEF Heap
<1>3. CASE Len(free) < 2
  <2>1. Len(free) \in Nat
    BY <1>1, <1>2, FreeInHeap
  <2> QED
    BY <1>3, <2>1, PanicInv DEF BootInitFileSystem
<1>4. CASE ~ (Len(free) < 2)
  <2>1. PICK g, k, x, y : g = kalloc(Heap) /\ k = kalloc(g) /\ x = Top(Heap) /\ y = Top(g)
    OBVIOUS
  <2>2. /\ boot' = "InitProcess" /\ Becomes(k) /\ kernel_pages' = {x, y}
        /\ UNCHANGED <<stack, page_map>>
    BY <1>4, <2>1 DEF BootInitFileSystem
  <2>3. Allocated(Heap, g, x)
    <3>1. Heap.free # <<>>
      BY <1>1, <1>2, <1>4, FreeInHeap
    <3> QED
      BY <1>1, <2>1, <3>1, PageAllocated
  <2>4. Allocated(g, k, y)
    <3>1. HeapOK(g) /\ Len(free) = Len(g.free) + 1
      BY <1>2, <2>3 DEF Allocated
    <3>2. Len(g.free) \in Nat /\ (g.free = <<>> <=> Len(g.free) = 0)
      BY <3>1, FreeInHeap
    <3>3. g.free # <<>>
      BY <1>4, <3>1, <3>2
    <3> QED
      BY <2>1, <3>1, <3>3, PageAllocated
  <2>5. HeapOK(k) /\ Heap' = k /\ free' = k.free /\ table' = k.table
    BY <2>2, <2>4, HeapBecomes DEF Allocated
  <2>6. /\ DOMAIN k.table = DOMAIN table /\ {x, y} \subseteq Range(free)
        /\ Range(k.free) = Range(free) \ {x, y} /\ NoPage \notin DOMAIN k.table
        /\ \A p \in DOMAIN table \ {x, y} : k.table[p] = table[p]
        /\ {x, y} \subseteq DOMAIN table /\ NoPage \notin DOMAIN table
    BY <1>1, <1>2, <2>3, <2>4, <2>5, FreeInHeap DEF Allocated, Writes
  <2>7. InUse[IDLE] = "RUNNING" /\ \A p \in Slots \ {IDLE} : InUse[p] = "UNUSED"
    BY <1>1, InUseAtBoot
  <2>8. PICK m, a, b : m = page_map[IDLE] /\ a = table[m][KERNEL_PML4] /\ b = table[a][0]
    OBVIOUS
  <2>9. KernelOwns(table, Range(free), {}, m)
    <3>1. InUse[IDLE] # "INITIALIZED"
      BY <2>7
    <3> QED
      BY <1>1, <2>7, <2>8, <3>1, OnlyKernelOwns
  <2>10. KernelPart(table, m, a, b) /\ table[m][USER_PML4] = NoPage
    BY <2>8, <2>9 DEF KernelSpace, KernelOwns
  <2>11. MapPagesIn(table, m) = {m, a, b}
    BY <2>6, <2>10, KernelMapPages
  <2>12. /\ k.table[m] = table[m] /\ k.table[a] = table[a] /\ k.table[b] = table[b]
    BY <2>6, <2>9, <2>10, <2>11 DEF KernelPart, KernelOwns
  <2>13. KernelPart(k.table, m, a, b) /\ k.table[m][USER_PML4] = NoPage
    BY <2>6, <2>10, <2>12 DEF KernelPart
  <2>14. MapPagesIn(k.table, m) = {m, a, b} /\ KernelSpace(k.table, m)
    BY <2>6, <2>13, KernelMapPages
  <2>15. PICK T, F, kp, st, sk, pm :
          /\ T = table' /\ F = Range(free') /\ kp = kernel_pages' /\ st = InUse'
          /\ sk = stack' /\ pm = page_map'
    OBVIOUS
  <2>16. st[IDLE] = "RUNNING" /\ \A p \in Slots \ {IDLE} : st[p] = "UNUSED"
    BY <2>2, <2>15, IdleSlot DEF InUse
  <2>17. SpacesIn(T, F, kp, st, sk, pm)
    <3>1. DOMAIN table = Range(free) \cup {m, a, b} /\ {m, a, b} \cap Range(free) = {}
      BY <2>9, <2>11 DEF KernelOwns
    <3>2. KernelOwns(k.table, Range(k.free), {x, y}, m)
      BY <2>6, <2>14, <3>1 DEF KernelOwns
    <3>3. KernelOwns(T, F, kp, pm[IDLE])
      BY <2>2, <2>5, <2>8, <2>15, <3>2
    <3> QED
      BY <2>16, <3>3, OnlyKernelOwns
  <2>18. SpacesInv'
    BY <2>2, <2>15, <2>17 DEF SpacesInv
  <2>19. TableInv'
    BY <1>1, <2>2, <2>5 DEF TableInv, MemInv, AtBoot, vars, procVars
  <2>20. Len(free) = Len(free') + 2
    <3>1. Len(free) = Len(g.free) + 1 /\ Len(g.free) = Len(free') + 1 /\ Len(free') \in Nat
      BY <1>2, <2>3, <2>4, <2>5, FreeInHeap DEF Allocated
    <3> QED
      BY <3>1
  <2> QED
    BY <2>2, <2>5, <2>6, <2>18, <2>19, <2>20
<1> QED
  BY <1>3, <1>4

-----------------------------------------------------------------------------
(* A new address space.                                                    *)

\* Seven free pages became the address space of a process.
SpaceBuilt(h, k, s, m, a, b, c, d, u) ==
  /\ HeapOK(k) /\ Writes(h, k, {s, m, a, b, c, d, u})
  /\ {s, m, a, b, c, d, u} \subseteq Range(h.free)
  /\ Range(k.free) = Range(h.free) \ {s, m, a, b, c, d, u}
  /\ Len(h.free) = Len(k.free) + 7
  /\ Space(k.table, s, m, a, b, c, d, u)

\* A stack, the kernel's part of a map and the user's part make an address space.
LEMMA SpaceComposed ==
  ASSUME NEW h, HeapOK(h), NEW g, NEW k, NEW l,
         NEW s, NEW m, NEW a, NEW b, NEW c, NEW d, NEW u,
         Allocated(h, g, s), KernelBuilt(g, k, m, a, b), UserBuilt(k, l, m, c, d, u)
  PROVE  SpaceBuilt(h, l, s, m, a, b, c, d, u)
<1>1. /\ Range(g.free) = Range(h.free) \ {s} /\ s \in Range(h.free)
      /\ {m, a, b} \subseteq Range(g.free) /\ Range(k.free) = Range(g.free) \ {m, a, b}
      /\ {c, d, u} \subseteq Range(k.free) /\ Range(l.free) = Range(k.free) \ {c, d, u}
  BY DEF Allocated, KernelBuilt, UserBuilt
<1>2. /\ DOMAIN g.table = DOMAIN h.table /\ DOMAIN k.table = DOMAIN h.table
      /\ DOMAIN l.table = DOMAIN h.table
      /\ \A p \in DOMAIN h.table \ {s} : g.table[p] = h.table[p]
      /\ \A p \in DOMAIN h.table \ {m, a, b} : k.table[p] = g.table[p]
      /\ \A p \in DOMAIN h.table \ {m, c, d, u} : l.table[p] = k.table[p]
  BY DEF Allocated, KernelBuilt, UserBuilt, Writes
<1>3. Writes(h, l, {s, m, a, b, c, d, u})
  BY <1>2 DEF Writes
<1>4. /\ {s, m, a, b, c, d, u} \subseteq Range(h.free)
      /\ Range(l.free) = Range(h.free) \ {s, m, a, b, c, d, u}
  BY <1>1
<1>5. Len(h.free) = Len(l.free) + 7
  <2>1. Len(l.free) \in Nat
    BY FreeInHeap DEF UserBuilt
  <2> QED
    BY <2>1 DEF Allocated, KernelBuilt, UserBuilt
<1>6. s \notin {m, a, b, c, d, u} /\ {a, b} \cap {c, d, u} = {} /\ m \notin {c, d, u}
  BY <1>1
<1>7. s \in DOMAIN l.table
  BY <1>2 DEF Allocated
<1>8. KernelPart(l.table, m, a, b)
  <2>1. KernelPart(k.table, m, a, b)
    BY DEF KernelBuilt
  <2>2. l.table[a] = k.table[a] /\ l.table[b] = k.table[b]
    BY <1>2, <1>6, <2>1 DEF KernelPart
  <2>3. l.table[m][KERNEL_PML4] = k.table[m][KERNEL_PML4]
    BY IndexFacts DEF UserBuilt, Entry
  <2> QED
    BY <1>2, <2>1, <2>2, <2>3 DEF KernelPart
<1>9. UserPart(l.table, m, c, d, u)
  BY DEF UserBuilt
<1>10. Space(l.table, s, m, a, b, c, d, u)
  BY <1>6, <1>7, <1>8, <1>9 DEF Space
<1> QED
  BY <1>3, <1>4, <1>5, <1>10 DEF SpaceBuilt, UserBuilt

\* The user page and its tables with fewer than three pages: MapPages fails.
LEMMA UserPageMissing ==
  ASSUME NEW h, HeapOK(h), NEW m \in DOMAIN h.table, m \notin Range(h.free),
         h.table[m][USER_PML4] = NoPage, Len(h.free) < 3
  PROVE  ~ SetupUVM(h, m).ok
<1>1. Len(h.free) \in Nat
  BY FreeInHeap
<1>2. CASE h.free = <<>>
  BY <1>2 DEF SetupUVM, Top
<1>3. CASE h.free # <<>>
  <2>1. PICK u, h1 : u = Top(h) /\ h1 = kalloc(h)
    OBVIOUS
  <2>2. Allocated(h, h1, u) /\ u # NoPage
    BY <1>3, <2>1, PageAllocated
  <2>3. /\ HeapOK(h1) /\ m \in DOMAIN h1.table /\ m \notin Range(h1.free)
        /\ h1.table[m][USER_PML4] = NoPage
        /\ Len(h1.free) \in Nat /\ (h1.free = <<>> <=> Len(h1.free) = 0)
    BY <2>2, FreeInHeap DEF Allocated, Writes
  <2>4. Len(h1.free) = 0 \/ Len(h1.free) = 1
    <3>1. Len(h.free) = Len(h1.free) + 1 /\ Len(h.free) < 3
      BY <2>2 DEF Allocated
    <3>2. \A x, l \in Nat : l = x + 1 /\ l < 3 => x = 0 \/ x = 1
      OBVIOUS
    <3> QED
      BY <1>1, <2>3, <3>1, <3>2
  <2>5. ~ MapPages(h1, m, USER_PML4, USER_PD, u).ok
    BY <2>3, <2>4, MapPagesMissing, MapPagesHalf, IndexFacts
  <2> QED
    BY <2>1, <2>2, <2>5 DEF SetupUVM
<1> QED
  BY <1>2, <1>3

\* A failed CopyUVM leaves the stack s in the slot; the rest of what was
\* allocated is free again or lost.
StackKept(h, k, s) == /\ HeapOK(k) /\ Writes(h, k, Range(h.free))
                      /\ s \in Range(h.free) /\ Range(k.free) \subseteq Range(h.free) \ {s}

\* Fork as far as the heap goes, once SetupKVM has succeeded: with seven pages it
\* builds an address space, with fewer it keeps the stack.  n is the map of the
\* process that forks.
LEMMA SpaceForked ==
  ASSUME NEW h, HeapOK(h), h.free # <<>>, NEW n, NEW c0, NEW d0, NEW u0,
         UserPart(h.table, n, c0, d0, u0), {n, c0, d0, u0} \cap Range(h.free) = {},
         NEW map, map = SetupKVM(kalloc(h)), map.map # NoPage,
         NEW r, r = CopyUVM(map.heap, map.map, n)
  PROVE  \/ /\ Len(h.free) >= 7 /\ r.ok
            /\ \E a, b, c, d, u : SpaceBuilt(h, r.heap, Top(h), map.map, a, b, c, d, u)
         \/ Len(h.free) < 7 /\ ~ r.ok /\ StackKept(h, r.heap, Top(h))
<1>1. PICK g, s, k, m, l : /\ g = kalloc(h) /\ s = Top(h) /\ k = map.heap /\ m = map.map
                           /\ l = r.heap
  OBVIOUS
<1>2. Allocated(h, g, s)
  BY <1>1, PageAllocated
<1>3. HeapOK(g) /\ Len(g.free) \in Nat /\ Len(h.free) \in Nat
  BY <1>2, FreeInHeap DEF Allocated
<1>4. Len(g.free) >= 3
  BY <1>1, <1>3, KernelMapMissing
<1>5. PICK a, b \in Range(g.free) : KernelBuilt(g, k, m, a, b)
  BY <1>1, <1>3, <1>4, KernelMapBuilt
<1>6. /\ HeapOK(k) /\ m \in DOMAIN k.table /\ m \notin Range(k.free)
      /\ k.table[m][USER_PML4] = NoPage /\ Len(k.free) \in Nat
      /\ KernelPart(k.table, m, a, b) /\ {m, a, b} \cap Range(k.free) = {}
  BY <1>5, FreeInHeap DEF KernelBuilt, KernelPart
<1>7. Len(h.free) = Len(k.free) + 4
  <2>1. Len(h.free) = Len(g.free) + 1 /\ Len(g.free) = Len(k.free) + 3
    BY <1>2, <1>5 DEF Allocated, KernelBuilt
  <2> QED
    BY <1>3, <1>6, <2>1
<1>8. UserPart(k.table, n, c0, d0, u0) /\ {n, c0} \cap (Range(k.free) \cup {m}) = {}
  <2>1. s \in Range(h.free) /\ {m, a, b} \subseteq Range(h.free)
    BY <1>2, <1>5 DEF Allocated, KernelBuilt
  <2>2. /\ \A p \in DOMAIN h.table \ {s, m, a, b} : k.table[p] = h.table[p]
        /\ DOMAIN k.table = DOMAIN h.table
    BY <1>2, <1>5 DEF Allocated, KernelBuilt, Writes
  <2>3. k.table[n] = h.table[n] /\ k.table[c0] = h.table[c0] /\ k.table[d0] = h.table[d0]
    BY <2>1, <2>2 DEF UserPart
  <2>4. Range(k.free) \subseteq Range(h.free)
    BY <1>2, <1>5 DEF Allocated, KernelBuilt
  <2> QED
    BY <2>1, <2>2, <2>3, <2>4 DEF UserPart
<1>9. CASE Len(k.free) >= 3
  <2>1. r.ok /\ \E c, d, u \in Range(k.free) : UserBuilt(k, l, m, c, d, u)
    <3>1. r = CopyUVM(k, m, n) /\ l = r.heap
      BY <1>1
    <3>2. CopyReady(k, m, n, c0, d0, u0)
      BY <1>6, <1>8, <1>9 DEF CopyReady
    <3> QED
      BY <3>1, <3>2, UserMapCopied
  <2>2. PICK c, d, u \in Range(k.free) : UserBuilt(k, l, m, c, d, u)
    BY <2>1
  <2>3. SpaceBuilt(h, l, s, m, a, b, c, d, u)
    BY <1>2, <1>5, <2>2, SpaceComposed
  <2> QED
    BY <1>1, <1>6, <1>7, <1>9, <2>1, <2>3
<1>10. CASE Len(k.free) < 3
  <2>1. ~ r.ok /\ MapDropped(k, l, m, a, b)
    BY <1>1, <1>6, <1>10, UserMapMissing
  <2>2. Writes(h, l, Range(h.free))
    BY <1>2, <1>5, <2>1 DEF Allocated, KernelBuilt, MapDropped, Writes
  <2>3. s \in Range(h.free) /\ Range(l.free) \subseteq Range(h.free) \ {s}
    BY <1>2, <1>5, <2>1 DEF Allocated, KernelBuilt, MapDropped
  <2> QED
    BY <1>1, <1>6, <1>7, <1>10, <2>1, <2>2, <2>3 DEF StackKept, MapDropped
<1> QED
  BY <1>6, <1>9, <1>10

\* A slot that was free gets an address space.
LEMMA SpaceGiven ==
  ASSUME NEW h, HeapOK(h), NEW kp, NEW st, NEW sk, NEW pm,
         SpacesIn(h.table, Range(h.free), kp, st, sk, pm),
         NEW k, NEW st2, NEW sk2, NEW pm2, NEW q \in Slots \ {IDLE}, st[q] = "UNUSED",
         OthersKept(q, st, sk, pm, st2, sk2, pm2),
         CompleteIn(st2, q), NEW a, NEW b, NEW c, NEW d, NEW u,
         SpaceBuilt(h, k, sk2[q], pm2[q], a, b, c, d, u)
  PROVE  SpacesIn(k.table, Range(k.free), kp, st2, sk2, pm2)
<1>1. PICK s, m : s = sk2[q] /\ m = pm2[q]
  OBVIOUS
<1>2. PICK T, F, T2, F2 : T = h.table /\ F = Range(h.free) /\ T2 = k.table /\ F2 = Range(k.free)
  OBVIOUS
<1>3. /\ Space(T2, s, m, a, b, c, d, u) /\ DOMAIN T2 = DOMAIN T
      /\ {s, m, a, b, c, d, u} \subseteq F /\ F2 = F \ {s, m, a, b, c, d, u}
      /\ \A x \in DOMAIN T \ {s, m, a, b, c, d, u} : T2[x] = T[x]
  BY <1>1, <1>2 DEF SpaceBuilt, Writes
<1>4. NoPage \notin DOMAIN T
  BY <1>2, FreeInHeap
<1>5. MapPagesIn(T2, m) = {m, a, b, c, d, u} /\ ProcessSpace(T2, s, m)
  BY <1>3, <1>4, ProcessMapPages
<1>6. OwnIn(T, kp, st, sk, pm, q) = {}
  BY DEF OwnIn, CompleteIn
<1>7. OwnIn(T2, kp, st2, sk2, pm2, q) = {s} \cup {m, a, b, c, d, u}
  <2>1. OwnIn(T2, kp, st2, sk2, pm2, q) = {sk2[q]} \cup MapPagesIn(T2, pm2[q])
    BY DEF OwnIn, CompleteIn
  <2> QED
    BY <1>1, <1>5, <2>1
<1>8. FurnishedAt(T2, st2, sk2, pm2, q)
  BY <1>1, <1>5 DEF FurnishedAt, CompleteIn
<1>9. PICK O, O2 : O = OwnIn(T, kp, st, sk, pm, q) /\ O2 = OwnIn(T2, kp, st2, sk2, pm2, q)
  OBVIOUS
<1>10. F2 \cup O2 = F \cup O /\ F2 \cap O2 = {}
  BY <1>3, <1>6, <1>7, <1>9
<1>11. \A x \in DOMAIN T \ (F \cup O) : T2[x] = T[x]
  BY <1>3
<1>12. SpacesIn(T, F, kp, st, sk, pm)
  BY <1>2
<1>13. SpacesIn(T2, F2, kp, st2, sk2, pm2)
  BY <1>3, <1>4, <1>8, <1>9, <1>10, <1>11, <1>12, SlotChanges
<1> QED
  BY <1>2, <1>13

\* A slot that was free gets a stack and is left behind.
LEMMA StackGiven ==
  ASSUME NEW h, HeapOK(h), NEW kp, NEW st, NEW sk, NEW pm,
         SpacesIn(h.table, Range(h.free), kp, st, sk, pm),
         NEW k, NEW st2, NEW sk2, NEW pm2, NEW q \in Slots \ {IDLE}, st[q] = "UNUSED",
         OthersKept(q, st, sk, pm, st2, sk2, pm2),
         st2[q] = "INITIALIZED", StackKept(h, k, sk2[q])
  PROVE  SpacesIn(k.table, Range(k.free), kp, st2, sk2, pm2)
<1>1. PICK s, T, F, T2, F2 : /\ s = sk2[q] /\ T = h.table /\ F = Range(h.free)
                             /\ T2 = k.table /\ F2 = Range(k.free)
  OBVIOUS
<1>2. /\ DOMAIN T2 = DOMAIN T /\ s \in F /\ F2 \subseteq F \ {s}
      /\ \A x \in DOMAIN T \ F : T2[x] = T[x]
  BY <1>1 DEF StackKept, Writes
<1>3. NoPage \notin DOMAIN T /\ F \subseteq DOMAIN T
  BY <1>1, FreeInHeap
<1>4. OwnIn(T, kp, st, sk, pm, q) = {} /\ OwnIn(T2, kp, st2, sk2, pm2, q) = {s}
  BY <1>1 DEF OwnIn, CompleteIn
<1>5. FurnishedAt(T2, st2, sk2, pm2, q)
  BY <1>1, <1>2, <1>3 DEF FurnishedAt, CompleteIn
<1>6. PICK O, O2 : O = OwnIn(T, kp, st, sk, pm, q) /\ O2 = OwnIn(T2, kp, st2, sk2, pm2, q)
  OBVIOUS
<1>7. F2 \cup O2 \subseteq F \cup O /\ F2 \cap O2 = {}
  BY <1>2, <1>4, <1>6
<1>8. \A x \in DOMAIN T \ (F \cup O) : T2[x] = T[x]
  BY <1>2
<1>9. SpacesIn(T, F, kp, st, sk, pm)
  BY <1>1
<1>10. SpacesIn(T2, F2, kp, st2, sk2, pm2)
  BY <1>2, <1>3, <1>5, <1>6, <1>7, <1>8, <1>9, SlotChanges
<1> QED
  BY <1>1, <1>10

\* Writing to free pages disturbs nobody.
LEMMA FreeWritten ==
  ASSUME NEW h, HeapOK(h), NEW kp, NEW st, NEW sk, NEW pm,
         SpacesIn(h.table, Range(h.free), kp, st, sk, pm), NEW k, OnlyFreeWritten(h, k)
  PROVE  SpacesIn(k.table, Range(k.free), kp, st, sk, pm)
<1>1. PICK T, F, T2 : T = h.table /\ F = Range(h.free) /\ T2 = k.table
  OBVIOUS
<1>2. /\ DOMAIN T2 = DOMAIN T /\ F = Range(k.free)
      /\ \A x \in DOMAIN T \ F : T2[x] = T[x]
  BY <1>1 DEF OnlyFreeWritten, Writes
<1>3. NoPage \notin DOMAIN T
  BY <1>1, FreeInHeap
<1>4. SpacesIn(T, F, kp, st, sk, pm)
  BY <1>1
<1>5. PICK O, O2, s : /\ O = OwnIn(T, kp, st, sk, pm, SHELL) /\ s = SHELL
                      /\ O2 = OwnIn(T2, kp, st, sk, pm, SHELL)
  OBVIOUS
<1>6. O2 = O /\ O \cap F = {} /\ FurnishedAt(T2, st, sk, pm, SHELL)
  <2>1. FurnishedAt(T, st, sk, pm, SHELL) /\ O \cap F = {} /\ kp \subseteq DOMAIN T
    BY <1>4, <1>5, IdleSlot DEF SpacesIn, Furnished, Apart
  <2>2. O \subseteq DOMAIN T
    BY <1>3, <1>5, <2>1, OwnInHeap, IdleSlot
  <2>3. \A x \in O : T2[x] = T[x]
    BY <1>2, <2>1, <2>2
  <2> QED
    BY <1>2, <1>3, <1>5, <2>1, <2>3, OwnerKept, IdleSlot
<1>7. /\ F \cup O2 \subseteq F \cup O /\ F \cap O2 = {} /\ s \in Slots \ {IDLE}
      /\ FurnishedAt(T2, st, sk, pm, s) /\ O = OwnIn(T, kp, st, sk, pm, s)
      /\ O2 = OwnIn(T2, kp, st, sk, pm, s)
      /\ st[s] # "INITIALIZED" => F \cup O2 = F \cup O
      /\ OthersKept(s, st, sk, pm, st, sk, pm)
  BY <1>5, <1>6, IdleSlot DEF OthersKept
<1>8. \A x \in DOMAIN T \ (F \cup O) : T2[x] = T[x]
  BY <1>2
<1>9. SpacesIn(T2, F, kp, st, sk, pm)
  BY <1>2, <1>3, <1>4, <1>7, <1>8, SlotChanges
<1> QED
  BY <1>1, <1>2, <1>9

\* What Wait does with the stack s and the map m.
WaitFrees(h, k, s, m) == k = FreeVM(kfree(h, s), m)
SevenMore(h, k) == /\ HeapOK(k) /\ DOMAIN k.table = DOMAIN h.table
                   /\ Len(k.free) = Len(h.free) + 7

\* A slot gives back its seven pages and is free.
LEMMA SpaceReturned ==
  ASSUME NEW h, HeapOK(h), NEW kp, NEW st, NEW sk, NEW pm,
         SpacesIn(h.table, Range(h.free), kp, st, sk, pm),
         NEW q \in Slots \ {IDLE}, CompleteIn(st, q), NEW st2, NEW sk2, NEW pm2,
         OthersKept(q, st, sk, pm, st2, sk2, pm2),
         st2[q] = "UNUSED", NEW k, WaitFrees(h, k, sk[q], pm[q])
  PROVE  SpacesIn(k.table, Range(k.free), kp, st2, sk2, pm2) /\ SevenMore(h, k)
<1>1. PICK T, F, T2, F2 : T = h.table /\ F = Range(h.free) /\ T2 = k.table /\ F2 = Range(k.free)
  OBVIOUS
<1>2. SpacesIn(T, F, kp, st, sk, pm) /\ NoPage \notin DOMAIN T
  BY <1>1, FreeInHeap
<1>3. PICK s, m, a, b, c, d, u :
        /\ s = sk[q] /\ m = pm[q] /\ a = T[m][KERNEL_PML4] /\ b = T[a][0]
        /\ c = T[m][USER_PML4] /\ d = T[c][0] /\ u = T[d][USER_PD]
  OBVIOUS
<1>4. Space(T, s, m, a, b, c, d, u)
  BY <1>2, <1>3 DEF SpacesIn, Furnished, FurnishedAt, ProcessSpace
<1>5. OwnIn(T, kp, st, sk, pm, q) = {s} \cup {m, a, b, c, d, u}
  <2>1. MapPagesIn(T, m) = {m, a, b, c, d, u}
    BY <1>2, <1>4, ProcessMapPages
  <2>2. OwnIn(T, kp, st, sk, pm, q) = {sk[q]} \cup MapPagesIn(T, pm[q])
    BY DEF OwnIn, CompleteIn
  <2> QED
    BY <1>3, <2>1, <2>2
<1>6. s \notin F /\ {m, a, b, c, d, u} \cap F = {}
  BY <1>2, <1>5 DEF SpacesIn, Apart
<1>7. PICK g : g = kfree(h, s)
  OBVIOUS
<1>8. s \in DOMAIN T /\ s \notin {m, a, b, c, d, u}
  BY <1>4 DEF Space
<1>9. Freed(h, g, s)
  BY <1>1, <1>6, <1>7, <1>8, PageFreed
<1>10. /\ HeapOK(g) /\ {m, a, b, c, d, u} \cap Range(g.free) = {}
       /\ DOMAIN g.table = DOMAIN T /\ \A x \in DOMAIN T \ {s} : g.table[x] = T[x]
  BY <1>1, <1>6, <1>8, <1>9 DEF Freed, Writes
<1>11. Space(g.table, s, m, a, b, c, d, u)
  <2>1. /\ g.table[m] = T[m] /\ g.table[a] = T[a] /\ g.table[b] = T[b]
        /\ g.table[c] = T[c] /\ g.table[d] = T[d]
    BY <1>4, <1>8, <1>10 DEF Space, KernelPart, UserPart
  <2> QED
    BY <1>4, <1>10, <2>1 DEF Space, KernelPart, UserPart
<1>12. GivenBack(g, k, {m, a, b, c, d, u}, 6)
  BY <1>3, <1>7, <1>10, <1>11, SpaceFreed DEF WaitFrees
<1>13. /\ HeapOK(k) /\ DOMAIN T2 = DOMAIN T /\ F2 = F \cup {s, m, a, b, c, d, u}
       /\ \A x \in DOMAIN T \ {s, m, a, b, c, d, u} : T2[x] = T[x]
  BY <1>1, <1>9, <1>10, <1>12 DEF GivenBack, Freed, Writes
<1>14. Len(k.free) = Len(h.free) + 7
  <2>1. Len(h.free) \in Nat
    BY FreeInHeap
  <2> QED
    BY <1>9, <1>12, <2>1 DEF GivenBack, Freed
<1>15. OwnIn(T2, kp, st2, sk2, pm2, q) = {}
  BY DEF OwnIn, CompleteIn
<1>16. FurnishedAt(T2, st2, sk2, pm2, q)
  BY DEF FurnishedAt, CompleteIn
<1>17. PICK O, O2 : O = OwnIn(T, kp, st, sk, pm, q) /\ O2 = OwnIn(T2, kp, st2, sk2, pm2, q)
  OBVIOUS
<1>18. F2 \cup O2 = F \cup O /\ F2 \cap O2 = {}
  BY <1>5, <1>13, <1>15, <1>17
<1>19. \A x \in DOMAIN T \ (F \cup O) : T2[x] = T[x]
  BY <1>5, <1>13, <1>17
<1>20. SpacesIn(T2, F2, kp, st2, sk2, pm2)
  BY <1>2, <1>13, <1>16, <1>17, <1>18, <1>19, SlotChanges DEF CompleteIn
<1> QED
  BY <1>1, <1>13, <1>14, <1>20 DEF SevenMore

-----------------------------------------------------------------------------
(* The steps that build and free address spaces.                           *)

\* The invariant of a running system.
RunningInv ==
  /\ HeapOK(Heap) /\ stack \in [Slots -> Nat] /\ page_map \in [Slots -> Nat]
  /\ SpacesIn(table, Range(free), kernel_pages, state, stack, page_map)

\* When the system runs, that is what the invariant says of the memory.
LEMMA WhenRunning ==
  /\ MemInv /\ boot = "running" => RunningInv
  /\ boot' = "running" /\ RunningInv' => TableInv' /\ SpacesInv'
<1>1. ASSUME MemInv, boot = "running" PROVE RunningInv
  BY <1>1 DEF MemInv, TableInv, SpacesInv, RunningInv, InUse, HeapReady, KernelReady
<1>2. ASSUME boot' = "running", RunningInv' PROVE TableInv' /\ SpacesInv'
  <2>1. InUse' = state'
    BY <1>2 DEF InUse
  <2> QED
    BY <1>2, <2>1 DEF TableInv, SpacesInv, RunningInv, AtBoot
<1> QED
  BY <1>1, <1>2

\* InitProcess: the shell gets its address space.
LEMMA InitProcessInv ==
  ASSUME MemInv, BootInitProcess, UNCHANGED vars
  PROVE  /\ TableInv' /\ SpacesInv' /\ DOMAIN table' = DOMAIN table
         /\ Len(free) >= 7 => boot' = "running" /\ Len(free) = Len(free') + 7
<1>1. /\ boot = "InitProcess" /\ HeapOK(Heap)
      /\ stack \in [Slots -> Nat] /\ page_map \in [Slots -> Nat]
      /\ SpacesIn(table, Range(free), kernel_pages, InUse, stack, page_map)
      /\ \A p \in Slots : state[p] = IF p = IDLE THEN "RUNNING"
                                     ELSE IF p = SHELL THEN "READY" ELSE "UNUSED"
  BY DEF BootInitProcess, MemInv, TableInv, SpacesInv, HeapReady, KernelReady, AtBoot
<1>2. Heap.free = free /\ Heap.table = table
  BY DEF Heap
<1>3. PICK h, g, s, k, m, r, l :
        /\ h = Heap /\ g = kalloc(h) /\ s = Top(h) /\ k = SetupKVM(g).heap
        /\ m = SetupKVM(g).map /\ r = SetupUVM(k, m) /\ l = r.heap
  OBVIOUS
<1>4. CASE free = <<>> \/ m = NoPage \/ ~ r.ok
  <2>1. ASSUME Len(free) >= 7 PROVE FALSE
    <3>1. HeapOK(h) /\ Len(h.free) \in Nat /\ Len(h.free) >= 7 /\ h.free # <<>>
      BY <1>1, <1>2, <1>3, <2>1, FreeInHeap
    <3>2. Allocated(h, g, s)
      BY <1>3, <3>1, PageAllocated
    <3>3. HeapOK(g) /\ Len(g.free) \in Nat
      BY <3>2, FreeInHeap DEF Allocated
    <3>4. Len(g.free) >= 6
      BY <3>1, <3>2, <3>3 DEF Allocated
    <3>5. m # NoPage /\ \E a, b \in Range(g.free) : KernelBuilt(g, k, m, a, b)
      BY <1>3, <3>3, <3>4, KernelMapBuilt
    <3>6. PICK a, b : KernelBuilt(g, k, m, a, b)
      BY <3>5
    <3>7. /\ HeapOK(k) /\ m \in DOMAIN k.table /\ m \notin Range(k.free)
          /\ k.table[m][USER_PML4] = NoPage /\ Len(k.free) \in Nat
      BY <3>6, FreeInHeap DEF KernelBuilt, KernelPart
    <3>8. Len(k.free) >= 3
      BY <3>3, <3>4, <3>6, <3>7 DEF KernelBuilt
    <3>9. r.ok
      BY <1>3, <3>7, <3>8, UserMapBuilt
    <3> QED
      BY <1>2, <1>3, <1>4, <3>1, <3>5, <3>9
  <2> QED
    BY <1>3, <1>4, <2>1, PanicInv DEF BootInitProcess
<1>5. CASE free # <<>> /\ m # NoPage /\ r.ok
  <2>1. /\ boot' = "running" /\ Becomes(l) /\ UNCHANGED kernel_pages
        /\ stack' = [stack EXCEPT ![SHELL] = s]
        /\ page_map' = [page_map EXCEPT ![SHELL] = m]
    BY <1>3, <1>5 DEF BootInitProcess
  <2>2. HeapOK(h) /\ Allocated(h, g, s)
    BY <1>1, <1>2, <1>3, <1>5, PageAllocated
  <2>3. HeapOK(g) /\ Len(g.free) \in Nat
    BY <2>2, FreeInHeap DEF Allocated
  <2>4. Len(g.free) >= 3
    BY <1>3, <1>5, <2>3, KernelMapMissing
  <2>5. PICK a, b \in Range(g.free) : KernelBuilt(g, k, m, a, b)
    BY <1>3, <2>3, <2>4, KernelMapBuilt
  <2>6. /\ HeapOK(k) /\ m \in DOMAIN k.table /\ m \notin Range(k.free)
        /\ k.table[m][USER_PML4] = NoPage /\ Len(k.free) \in Nat
    BY <2>5, FreeInHeap DEF KernelBuilt, KernelPart
  <2>7. Len(k.free) >= 3
    BY <1>3, <1>5, <2>6, UserPageMissing
  <2>8. PICK c, d, u \in Range(k.free) : UserBuilt(k, l, m, c, d, u)
    BY <1>3, <2>6, <2>7, UserMapBuilt
  <2>9. SpaceBuilt(h, l, s, m, a, b, c, d, u)
    BY <2>2, <2>5, <2>8, SpaceComposed
  <2>10. HeapOK(l) /\ Heap' = l /\ free' = l.free /\ table' = l.table
    BY <2>1, <2>9, HeapBecomes DEF SpaceBuilt
  <2>11. s \in Nat /\ m \in Nat
    <3>1. s \in DOMAIN h.table /\ m \in DOMAIN k.table
      BY <2>2, <2>6 DEF Allocated
    <3> QED
      BY <2>2, <2>6, <3>1 DEF HeapOK
  <2>12. stack' \in [Slots -> Nat] /\ page_map' \in [Slots -> Nat]
    BY <1>1, <2>1, <2>11
  <2>13. PICK kp, st, sk, pm, st2, sk2, pm2 :
           /\ kp = kernel_pages /\ st = InUse /\ sk = stack /\ pm = page_map
           /\ st2 = state /\ sk2 = stack' /\ pm2 = page_map'
    OBVIOUS
  <2>14. /\ sk2[SHELL] = s /\ pm2[SHELL] = m
         /\ \A p \in Slots \ {SHELL} : sk2[p] = sk[p] /\ pm2[p] = pm[p]
    BY <1>1, <2>1, <2>13, IdleSlot
  <2>15. /\ st[SHELL] = "UNUSED" /\ CompleteIn(st2, SHELL) /\ SHELL \in Slots \ {IDLE}
         /\ \A p \in Slots \ {SHELL} : st2[p] = st[p]
    BY <1>1, <2>13, InUseAtBoot, IdleSlot DEF CompleteIn
  <2>16. SpacesIn(h.table, Range(h.free), kp, st, sk, pm)
    BY <1>1, <1>2, <1>3, <2>13
  <2>17. SpacesIn(l.table, Range(l.free), kp, st2, sk2, pm2)
    <3>1. PICK q : q = SHELL
      OBVIOUS
    <3>2. /\ q \in Slots \ {IDLE} /\ st[q] = "UNUSED" /\ CompleteIn(st2, q)
          /\ OthersKept(q, st, sk, pm, st2, sk2, pm2)
          /\ SpaceBuilt(h, l, sk2[q], pm2[q], a, b, c, d, u)
      BY <2>9, <2>14, <2>15, <3>1 DEF OthersKept
    <3> QED
      BY <2>2, <2>16, <3>2, SpaceGiven
  <2>18. UNCHANGED state
    BY DEF vars, procVars
  <2>19. RunningInv'
    BY <2>1, <2>10, <2>12, <2>13, <2>17, <2>18 DEF RunningInv
  <2>20. DOMAIN table' = DOMAIN table /\ Len(free) = Len(free') + 7
    BY <1>2, <1>3, <2>9, <2>10 DEF SpaceBuilt, Writes
  <2> QED
    BY <2>1, <2>19, <2>20, WhenRunning
<1> QED
  BY <1>4, <1>5

\* Fork without a map: what was allocated is free again.
LEMMA ForkWithoutMapInv ==
  ASSUME RunningInv, ForkWithoutMap
  PROVE  RunningInv' /\ Len(free') = Len(free) /\ DOMAIN table' = DOMAIN table
<1>1. Heap.free = free /\ Heap.table = table
  BY DEF Heap
<1>2. PICK h, g, s, k, l : /\ h = Heap /\ g = kalloc(h) /\ s = Top(h)
                           /\ k = SetupKVM(g).heap /\ l = kfree(k, s)
  OBVIOUS
<1>3. /\ free # <<>> /\ SetupKVM(g).map = NoPage /\ Becomes(l)
      /\ UNCHANGED <<stack, page_map, kernel_pages, state>>
  BY <1>2 DEF ForkWithoutMap, ForkFailsInSetupKVM, procVars, Mapped, Stacked
<1>4. HeapOK(h) /\ Allocated(h, g, s)
  BY <1>1, <1>2, <1>3, PageAllocated DEF RunningInv
<1>5. HeapOK(g) /\ Len(g.free) \in Nat /\ Len(h.free) \in Nat
  BY <1>4, FreeInHeap DEF Allocated
<1>6. Len(g.free) < 3
  <2>1. Len(g.free) >= 3 => SetupKVM(g).map # NoPage
    BY <1>5, KernelMapBuilt
  <2> QED
    BY <1>3, <1>5, <2>1
<1>7. OnlyFreeWritten(g, k)
  BY <1>2, <1>5, <1>6, KernelMapMissing
<1>8. HeapOK(k) /\ s \in DOMAIN k.table /\ s \notin Range(k.free)
  BY <1>4, <1>7 DEF OnlyFreeWritten, Allocated, Writes
<1>9. Freed(k, l, s)
  BY <1>2, <1>8, PageFreed
<1>10. OnlyFreeWritten(h, l)
  <2>1. Writes(h, l, Range(h.free))
    BY <1>4, <1>7, <1>9 DEF OnlyFreeWritten, Allocated, Freed, Writes
  <2>2. Range(l.free) = Range(h.free)
    BY <1>4, <1>7, <1>9 DEF OnlyFreeWritten, Allocated, Freed
  <2>3. Len(l.free) = Len(h.free)
    BY <1>4, <1>5, <1>7, <1>9 DEF OnlyFreeWritten, Allocated, Freed
  <2> QED
    BY <1>9, <2>1, <2>2, <2>3 DEF OnlyFreeWritten, Freed
<1>11. HeapOK(l) /\ Heap' = l /\ free' = l.free /\ table' = l.table
  BY <1>3, <1>9, HeapBecomes DEF Freed
<1>12. SpacesIn(h.table, Range(h.free), kernel_pages, state, stack, page_map)
  BY <1>1, <1>2 DEF RunningInv
<1>13. SpacesIn(l.table, Range(l.free), kernel_pages, state, stack, page_map)
  BY <1>4, <1>10, <1>12, FreeWritten
<1>14. RunningInv'
  BY <1>3, <1>11, <1>13 DEF RunningInv
<1> QED
  BY <1>1, <1>2, <1>10, <1>11, <1>14 DEF OnlyFreeWritten, Writes

\* The process that forks has a user part in its map, none of it free.
LEMMA ForkersMap ==
  ASSUME SchedulerInv, RunningInv, UserMode
  PROVE  \E c, d, u : /\ UserPart(table, page_map[current_proc], c, d, u)
                      /\ {page_map[current_proc], c, d, u} \cap Range(free) = {}
<1>1. PICK p : p = current_proc
  OBVIOUS
<1>2. p \in Slots /\ p # IDLE /\ state[p] = "RUNNING"
  BY <1>1, CurrentRuns DEF SchedulerInv, UserMode
<1>3. PICK T, s, m, a, b, c, d, u :
        /\ T = table /\ s = stack[p] /\ m = page_map[p] /\ a = T[m][KERNEL_PML4]
        /\ b = T[a][0] /\ c = T[m][USER_PML4] /\ d = T[c][0] /\ u = T[d][USER_PD]
  OBVIOUS
<1>4. CompleteIn(state, p)
  BY <1>2 DEF CompleteIn
<1>5. Space(T, s, m, a, b, c, d, u)
  BY <1>2, <1>3, <1>4 DEF RunningInv, SpacesIn, Furnished, FurnishedAt, ProcessSpace
<1>6. NoPage \notin DOMAIN T
  BY <1>3, FreeInHeap DEF RunningInv, Heap
<1>7. MapPagesIn(T, m) = {m, a, b, c, d, u}
  BY <1>5, <1>6, ProcessMapPages
<1>8. OwnIn(table, kernel_pages, state, stack, page_map, p) = {s} \cup MapPagesIn(T, m)
  BY <1>2, <1>3 DEF OwnIn, CompleteIn
<1>9. {m, c, d, u} \cap Range(free) = {}
  BY <1>2, <1>7, <1>8 DEF RunningInv, SpacesIn, Apart
<1>10. UserPart(table, m, c, d, u)
  BY <1>3, <1>5 DEF Space
<1>11. m = page_map[current_proc]
  BY <1>1, <1>3
<1> QED
  BY <1>9, <1>10, <1>11, Zenon

\* Fork once SetupKVM has succeeded: the child gets an address space if there are
\* seven pages, and is left behind with a stack otherwise.
LEMMA NewAddressSpaceInv ==
  ASSUME SchedulerInv, RunningInv, UserMode, NewAddressSpace,
         \/ Copied.ok /\ state' = [state EXCEPT ![FindFreeProcessSlot] = "READY"]
         \/ ~ Copied.ok /\ state' = [state EXCEPT ![FindFreeProcessSlot] = "INITIALIZED"]
  PROVE  /\ RunningInv' /\ DOMAIN table' = DOMAIN table
         /\ Copied.ok => Len(free) = Len(free') + 7
         /\ ~ Copied.ok => Len(free) < 7
<1>1. Heap.free = free /\ Heap.table = table
  BY DEF Heap
<1>2. PICK h, map, s, m, r, k, n :
        /\ h = Heap /\ map = SetupKVM(kalloc(h)) /\ s = Top(h) /\ m = map.map
        /\ n = page_map[current_proc] /\ r = CopyUVM(map.heap, map.map, n) /\ k = r.heap
  OBVIOUS
<1>3. r = Copied /\ map = Mapped
  BY <1>2 DEF Copied, Mapped, Stacked
<1>4. PICK q : q = FindFreeProcessSlot
  OBVIOUS
<1>5. /\ FreeSlots # {} /\ free # <<>> /\ m # NoPage /\ Becomes(k)
      /\ stack' = [stack EXCEPT ![q] = s] /\ page_map' = [page_map EXCEPT ![q] = m]
      /\ UNCHANGED kernel_pages
  BY <1>2, <1>3, <1>4 DEF NewAddressSpace
<1>6. q \in Slots \ {IDLE} /\ state[q] = "UNUSED"
  BY <1>4, <1>5, FreeSlotFound DEF FreeSlots, SchedulerInv, ListsMatchStates
<1>7. HeapOK(h) /\ h.free = free /\ h.table = table
  BY <1>1, <1>2 DEF RunningInv
<1>8. PICK c0, d0, u0 : UserPart(table, n, c0, d0, u0) /\ {n, c0, d0, u0} \cap Range(free) = {}
  BY <1>2, ForkersMap
<1>9. \/ /\ Len(h.free) >= 7 /\ r.ok
         /\ \E a, b, c, d, u : SpaceBuilt(h, k, s, m, a, b, c, d, u)
      \/ Len(h.free) < 7 /\ ~ r.ok /\ StackKept(h, k, s)
  BY <1>2, <1>5, <1>7, <1>8, SpaceForked
<1>10. HeapOK(k) /\ DOMAIN k.table = DOMAIN h.table /\ s \in Nat /\ m \in Nat
  <2>1. HeapOK(k) /\ DOMAIN k.table = DOMAIN h.table
    BY <1>9 DEF SpaceBuilt, StackKept, Writes
  <2>2. s \in Range(h.free)
    <3>1. ASSUME NEW a, NEW b, NEW c, NEW d, NEW u, SpaceBuilt(h, k, s, m, a, b, c, d, u)
          PROVE  s \in Range(h.free)
      BY <3>1 DEF SpaceBuilt
    <3>2. StackKept(h, k, s) => s \in Range(h.free)
      BY DEF StackKept
    <3> QED
      BY <1>9, <3>1, <3>2
  <2>3. m \in DOMAIN h.table
    <3>1. PICK g : g = kalloc(h)
      OBVIOUS
    <3>2. Allocated(h, g, s)
      BY <1>2, <1>5, <1>7, <3>1, PageAllocated
    <3>3. HeapOK(g) /\ Len(g.free) \in Nat
      BY <3>2, FreeInHeap DEF Allocated
    <3>4. Len(g.free) >= 3
      BY <1>2, <1>5, <3>1, <3>3, KernelMapMissing
    <3>5. \E x, y : KernelBuilt(g, map.heap, m, x, y)
      BY <1>2, <3>1, <3>3, <3>4, KernelMapBuilt
    <3> QED
      BY <3>2, <3>5 DEF KernelBuilt, KernelPart, Writes, Allocated
  <2>4. DOMAIN h.table \subseteq Nat /\ Range(h.free) \subseteq DOMAIN h.table
    BY <1>7, FreeInHeap DEF HeapOK
  <2> QED
    BY <2>1, <2>2, <2>3, <2>4
<1>11. Heap' = k /\ free' = k.free /\ table' = k.table
  BY <1>5, <1>10, HeapBecomes
<1>12. stack' \in [Slots -> Nat] /\ page_map' \in [Slots -> Nat]
  BY <1>5, <1>10 DEF RunningInv
<1>13. PICK kp, st, sk, pm, st2, sk2, pm2 :
         /\ kp = kernel_pages /\ st = state /\ sk = stack /\ pm = page_map
         /\ st2 = state' /\ sk2 = stack' /\ pm2 = page_map'
  OBVIOUS
<1>14. SpacesIn(h.table, Range(h.free), kp, st, sk, pm)
  BY <1>7, <1>13 DEF RunningInv
<1>15. OthersKept(q, st, sk, pm, st2, sk2, pm2) /\ sk2[q] = s /\ pm2[q] = m
  BY <1>4, <1>5, <1>6, <1>13 DEF OthersKept, RunningInv, SchedulerInv, TypeOK
<1>16. st[q] = "UNUSED"
  BY <1>6, <1>13
<1>17. CASE r.ok
  <2>1. st2[q] = "READY"
    BY <1>3, <1>4, <1>6, <1>13, <1>17 DEF SchedulerInv, TypeOK
  <2>2. PICK a, b, c, d, u : SpaceBuilt(h, k, s, m, a, b, c, d, u)
    BY <1>9, <1>17
  <2>3. SpaceBuilt(h, k, sk2[q], pm2[q], a, b, c, d, u) /\ CompleteIn(st2, q)
    BY <1>15, <2>1, <2>2 DEF CompleteIn
  <2>4. SpacesIn(k.table, Range(k.free), kp, st2, sk2, pm2)
    BY <1>6, <1>7, <1>14, <1>15, <1>16, <2>3, SpaceGiven
  <2>5. RunningInv'
    BY <1>5, <1>10, <1>11, <1>12, <1>13, <2>4 DEF RunningInv
  <2>6. Len(free) = Len(free') + 7
    BY <1>7, <1>11, <2>2 DEF SpaceBuilt
  <2> QED
    BY <1>3, <1>7, <1>10, <1>11, <1>17, <2>5, <2>6
<1>18. CASE ~ r.ok
  <2>1. st2[q] = "INITIALIZED"
    BY <1>3, <1>4, <1>6, <1>13, <1>18 DEF SchedulerInv, TypeOK
  <2>2. StackKept(h, k, sk2[q])
    BY <1>9, <1>15, <1>18
  <2>3. SpacesIn(k.table, Range(k.free), kp, st2, sk2, pm2)
    BY <1>6, <1>7, <1>14, <1>15, <1>16, <2>1, <2>2, StackGiven
  <2>4. RunningInv'
    BY <1>5, <1>10, <1>11, <1>12, <1>13, <2>3 DEF RunningInv
  <2> QED
    BY <1>3, <1>7, <1>9, <1>10, <1>11, <1>18, <2>4
<1> QED
  BY <1>17, <1>18

\* Wait: the pages of the process that is cleaned up are free again.
LEMMA WaitFreesInv ==
  ASSUME SchedulerInv, RunningInv, WaitFreesPages
  PROVE  RunningInv' /\ DOMAIN table' = DOMAIN table /\ Len(free') = Len(free) + 7
<1>1. Heap.free = free /\ Heap.table = table
  BY DEF Heap
<1>2. PICK q \in Slots : /\ state[q] = "KILLED" /\ q # IDLE /\ pid[q] = arg[current_proc]
                         /\ state' = [state EXCEPT ![q] = "UNUSED"]
  BY ReapedProcess DEF WaitFreesPages, SchedulerInv
<1>3. Reaped = q
  <2>1. \A p \in Slots : Matches(p) /\ state[p] = "KILLED" => p = q
    BY <1>2 DEF Matches, SchedulerInv, PidsDistinct
  <2>2. Matches(q)
    BY <1>2 DEF Matches
  <2> QED
    BY <1>2, <2>1, <2>2 DEF Reaped
<1>4. PICK h, k : h = Heap /\ k = FreeVM(kfree(h, stack[q]), page_map[q])
  OBVIOUS
<1>5. /\ Becomes(k) /\ stack' = [stack EXCEPT ![q] = NoPage]
      /\ page_map' = [page_map EXCEPT ![q] = NoPage] /\ UNCHANGED kernel_pages
  BY <1>3, <1>4 DEF WaitFreesPages
<1>6. HeapOK(h) /\ h.free = free /\ h.table = table
  BY <1>1, <1>4 DEF RunningInv
<1>7. PICK kp, st, sk, pm, st2, sk2, pm2 :
         /\ kp = kernel_pages /\ st = state /\ sk = stack /\ pm = page_map
         /\ st2 = state' /\ sk2 = stack' /\ pm2 = page_map'
  OBVIOUS
<1>8. SpacesIn(h.table, Range(h.free), kp, st, sk, pm)
  BY <1>6, <1>7 DEF RunningInv
<1>9. OthersKept(q, st, sk, pm, st2, sk2, pm2) /\ st2[q] = "UNUSED" /\ CompleteIn(st, q)
  BY <1>2, <1>5, <1>7 DEF OthersKept, RunningInv, SchedulerInv, TypeOK, CompleteIn
<1>10. q \in Slots \ {IDLE} /\ WaitFrees(h, k, sk[q], pm[q])
  BY <1>2, <1>4, <1>7 DEF WaitFrees
<1>11. SpacesIn(k.table, Range(k.free), kp, st2, sk2, pm2) /\ SevenMore(h, k)
  BY <1>6, <1>8, <1>9, <1>10, SpaceReturned
<1>12. Heap' = k /\ free' = k.free /\ table' = k.table
  BY <1>5, <1>11, HeapBecomes DEF SevenMore
<1>13. stack' \in [Slots -> Nat] /\ page_map' \in [Slots -> Nat]
  BY <1>5 DEF RunningInv, NoPage
<1>14. RunningInv'
  BY <1>5, <1>7, <1>11, <1>12, <1>13 DEF RunningInv, SevenMore
<1> QED
  BY <1>6, <1>11, <1>12, <1>14 DEF SevenMore

-----------------------------------------------------------------------------
(* The memory map: which pages RetrieveMemoryInfo frees.                   *)

\* Multiples of the page size are ordered as their factors are.
LEMMA PageOrder ==
  ASSUME NEW x \in Nat, NEW y \in Nat
  PROVE  /\ x * PAGE_SIZE \in Nat /\ (x + 1) * PAGE_SIZE = x * PAGE_SIZE + PAGE_SIZE
         /\ x <= y => x * PAGE_SIZE <= y * PAGE_SIZE
         /\ x < y => (x + 1) * PAGE_SIZE <= y * PAGE_SIZE
<1>1. PAGE_SIZE \in Nat \ {0}
  BY MapAssumption
<1>2. x * PAGE_SIZE \in Nat /\ (x + 1) * PAGE_SIZE = x * PAGE_SIZE + PAGE_SIZE
  BY <1>1
<1>3. \A i, j \in Nat : i <= j => i * PAGE_SIZE <= j * PAGE_SIZE
  BY <1>1
<1> QED
  BY <1>1, <1>2, <1>3

\* The page in which an address lies.
LEMMA PageOfAddress ==
  ASSUME NEW a \in Nat
  PROVE  /\ a \div PAGE_SIZE \in Nat /\ (a \div PAGE_SIZE) * PAGE_SIZE <= a
         /\ a < (a \div PAGE_SIZE) * PAGE_SIZE + PAGE_SIZE
BY MapAssumption

\* Page p ends at or before address a exactly when it is before the page of a.
LEMMA PageEndsBefore ==
  ASSUME NEW a \in Nat, NEW p \in Nat
  PROVE  p < a \div PAGE_SIZE <=> (p + 1) * PAGE_SIZE <= a
<1>1. PICK q \in Nat : /\ q = a \div PAGE_SIZE /\ q * PAGE_SIZE <= a
                       /\ a < q * PAGE_SIZE + PAGE_SIZE
  BY PageOfAddress
<1>2. p < q => (p + 1) * PAGE_SIZE <= q * PAGE_SIZE
  BY PageOrder
<1>3. ~ (p < q) => q * PAGE_SIZE <= p * PAGE_SIZE
  BY PageOrder
<1>4. /\ p * PAGE_SIZE \in Nat /\ q * PAGE_SIZE \in Nat
      /\ (p + 1) * PAGE_SIZE = p * PAGE_SIZE + PAGE_SIZE /\ PAGE_SIZE \in Nat \ {0}
  BY PageOrder, MapAssumption
<1> QED
  BY <1>1, <1>2, <1>3, <1>4

\* Rounding up an address gives the first page that begins at or behind it.
LEMMA PageBeginsBehind ==
  ASSUME NEW a \in Nat, NEW p \in Nat
  PROVE  /\ PAGE_ALIGN_UP(a) \div PAGE_SIZE \in Nat
         /\ PAGE_ALIGN_UP(a) \div PAGE_SIZE <= p <=> a <= p * PAGE_SIZE
<1>1. a + PAGE_SIZE - 1 \in Nat /\ PAGE_SIZE \in Nat \ {0}
  BY MapAssumption
<1>2. PICK q \in Nat : /\ q = (a + PAGE_SIZE - 1) \div PAGE_SIZE
                       /\ q * PAGE_SIZE <= a + PAGE_SIZE - 1
                       /\ a + PAGE_SIZE - 1 < q * PAGE_SIZE + PAGE_SIZE
  BY <1>1, PageOfAddress
<1>3. q * PAGE_SIZE \in Nat /\ p * PAGE_SIZE \in Nat
  BY PageOrder
<1>4. PAGE_ALIGN_UP(a) \div PAGE_SIZE = q
  <2>1. PICK d \in Nat : /\ d = (q * PAGE_SIZE) \div PAGE_SIZE
                         /\ d * PAGE_SIZE <= q * PAGE_SIZE
                         /\ q * PAGE_SIZE < d * PAGE_SIZE + PAGE_SIZE
    BY <1>3, PageOfAddress
  <2>2. /\ d < q => (d + 1) * PAGE_SIZE <= q * PAGE_SIZE
        /\ q < d => (q + 1) * PAGE_SIZE <= d * PAGE_SIZE
        /\ (d + 1) * PAGE_SIZE = d * PAGE_SIZE + PAGE_SIZE
        /\ (q + 1) * PAGE_SIZE = q * PAGE_SIZE + PAGE_SIZE
        /\ d * PAGE_SIZE \in Nat
    BY PageOrder
  <2>3. d = q
    BY <1>1, <1>3, <2>1, <2>2
  <2> QED
    BY <1>2, <2>1, <2>3 DEF PAGE_ALIGN_UP
<1>5. q <= p => q * PAGE_SIZE <= p * PAGE_SIZE
  BY PageOrder
<1>6. p < q => p * PAGE_SIZE + PAGE_SIZE <= q * PAGE_SIZE
  BY PageOrder
<1> QED
  BY <1>1, <1>2, <1>3, <1>4, <1>5, <1>6

Increasing(s) == \A j, k \in 1 .. Len(s) : j < k => s[j] < s[k]

\* FreeRegion frees the pages that lie between start and end and below the limit.
LEMMA RegionFreed ==
  ASSUME NEW start \in Nat, NEW end \in Nat
  PROVE  /\ FreeRegion(start, end) \in Seq(Nat) /\ Increasing(FreeRegion(start, end))
         /\ \A p \in Nat : p \in Range(FreeRegion(start, end)) <=>
              /\ start <= p * PAGE_SIZE /\ (p + 1) * PAGE_SIZE <= end
              /\ (p + 1) * PAGE_SIZE <= PHYSICAL_MEMORY_SIZE
<1>1. PICK first, limit :
        /\ first = PAGE_ALIGN_UP(start) \div PAGE_SIZE
        /\ limit = IF end <= PHYSICAL_MEMORY_SIZE THEN end ELSE PHYSICAL_MEMORY_SIZE
  OBVIOUS
<1>2. PICK last, n : /\ last = limit \div PAGE_SIZE
                     /\ n = IF last > first THEN last - first ELSE 0
  OBVIOUS
<1>3. limit \in Nat /\ first \in Nat /\ last \in Nat
  BY <1>1, <1>2, MapAssumption, PageBeginsBehind, PageOfAddress
<1>4. n \in Nat
  BY <1>2, <1>3
<1>5. PICK s : s = FreeRegion(start, end)
  OBVIOUS
<1>6. s = [i \in 1 .. n |-> first + i - 1]
  BY <1>1, <1>2, <1>5 DEF FreeRegion
<1>7. s \in Seq(Nat) /\ Len(s) = n /\ DOMAIN s = 1 .. n
  <2>1. \A i \in 1 .. n : first + i - 1 \in Nat
    BY <1>3, <1>4
  <2> QED
    BY <1>4, <1>6, <2>1
<1>8. Increasing(s)
  BY <1>3, <1>4, <1>6, <1>7 DEF Increasing
<1>9. \A p \in Nat : p \in Range(s) <=> first <= p /\ p < last
  <2>1. Range(s) = {s[i] : i \in 1 .. n}
    BY <1>7 DEF Range
  <2>2. ASSUME NEW p \in Nat, first <= p, p < last PROVE p \in Range(s)
    <3>1. p - first + 1 \in 1 .. n
      BY <1>2, <1>3, <2>2
    <3>2. s[p - first + 1] = p
      BY <1>3, <1>6, <3>1
    <3> QED
      BY <2>1, <3>1, <3>2
  <2>3. ASSUME NEW p \in Nat, p \in Range(s) PROVE first <= p /\ p < last
    <3>1. PICK i \in 1 .. n : p = s[i]
      BY <2>1, <2>3
    <3>2. p = first + i - 1
      BY <1>6, <3>1
    <3> QED
      BY <1>2, <1>3, <1>4, <3>1, <3>2
  <2> QED
    BY <2>2, <2>3
<1>10. ASSUME NEW p \in Nat
       PROVE  p \in Range(s) <=> /\ start <= p * PAGE_SIZE /\ (p + 1) * PAGE_SIZE <= end
                                 /\ (p + 1) * PAGE_SIZE <= PHYSICAL_MEMORY_SIZE
  <2>1. first <= p <=> start <= p * PAGE_SIZE
    BY <1>1, PageBeginsBehind
  <2>2. p < last <=> (p + 1) * PAGE_SIZE <= limit
    BY <1>2, <1>3, PageEndsBefore
  <2>3. (p + 1) * PAGE_SIZE \in Nat
    BY PageOrder
  <2>4. (p + 1) * PAGE_SIZE <= limit <=> /\ (p + 1) * PAGE_SIZE <= end
                                         /\ (p + 1) * PAGE_SIZE <= PHYSICAL_MEMORY_SIZE
    <3>1. PHYSICAL_MEMORY_SIZE \in Nat
      BY MapAssumption
    <3>2. \A x \in Nat : x <= limit <=> x <= end /\ x <= PHYSICAL_MEMORY_SIZE
      BY <1>1, <3>1
    <3> QED
      BY <2>3, <3>2
  <2> QED
    BY <1>9, <2>1, <2>2, <2>4
<1> QED
  BY <1>5, <1>7, <1>8, <1>10

\* What makes page p usable in region r.
RegionType == [address : Nat, length : Nat, type : 1 .. 5]
UsableIn(r, p) ==
  /\ r.type = MEMORY_REGION_USABLE_RAM_TYPE
  /\ l_kernel_end <= p * PAGE_SIZE /\ (p + 1) * PAGE_SIZE <= PHYSICAL_MEMORY_SIZE
  /\ r.address <= p * PAGE_SIZE /\ (p + 1) * PAGE_SIZE <= r.address + r.length

\* One round of the second loop of RetrieveMemoryInfo frees the usable pages of
\* its region.
LEMMA RegionCollected ==
  ASSUME NEW r \in RegionType
  PROVE  /\ CollectRegion(r) \in Seq(Nat) /\ Increasing(CollectRegion(r))
         /\ \A p \in Nat : p \in Range(CollectRegion(r)) <=> UsableIn(r, p)
<1>1. r.address \in Nat /\ r.length \in Nat /\ l_kernel_end \in Nat \ {0}
  BY MapAssumption DEF RegionType
<1>2. PICK from, end, s : from = r.address /\ end = r.address + r.length /\ s = CollectRegion(r)
  OBVIOUS
<1>3. from \in Nat /\ end \in Nat /\ from <= end
  BY <1>1, <1>2
<1>4. /\ <<>> \in Seq(Nat) /\ Increasing(<<>>) /\ \A p \in Nat : p \notin Range(<<>>)
  BY EmptyQueue DEF Increasing
<1>5. \A p \in Nat : /\ p * PAGE_SIZE \in Nat /\ (p + 1) * PAGE_SIZE \in Nat
                     /\ p * PAGE_SIZE < (p + 1) * PAGE_SIZE
  BY PageOrder, MapAssumption
<1> SUFFICES /\ s \in Seq(Nat) /\ Increasing(s)
             /\ \A p \in Nat : p \in Range(s) <=> UsableIn(r, p)
  BY <1>2
<1>6. CASE r.type # MEMORY_REGION_USABLE_RAM_TYPE
  <2>1. s = <<>>
    BY <1>2, <1>6 DEF CollectRegion
  <2> QED
    BY <1>4, <1>6, <2>1 DEF UsableIn
<1>7. CASE r.type = MEMORY_REGION_USABLE_RAM_TYPE /\ from > l_kernel_end
  <2>1. s = FreeRegion(from, end)
    BY <1>2, <1>7 DEF CollectRegion
  <2>2. /\ s \in Seq(Nat) /\ Increasing(s)
        /\ \A p \in Nat : p \in Range(s) <=>
             /\ from <= p * PAGE_SIZE /\ (p + 1) * PAGE_SIZE <= end
             /\ (p + 1) * PAGE_SIZE <= PHYSICAL_MEMORY_SIZE
    BY <1>3, <2>1, RegionFreed
  <2>3. \A x \in Nat : from <= x => l_kernel_end <= x
    BY <1>1, <1>3, <1>7
  <2> QED
    BY <1>2, <1>5, <1>7, <2>2, <2>3 DEF UsableIn
<1>8. CASE r.type = MEMORY_REGION_USABLE_RAM_TYPE /\ ~ (from > l_kernel_end) /\ end > l_kernel_end
  <2>1. s = FreeRegion(l_kernel_end, end)
    BY <1>2, <1>8 DEF CollectRegion
  <2>2. /\ s \in Seq(Nat) /\ Increasing(s)
        /\ \A p \in Nat : p \in Range(s) <=>
             /\ l_kernel_end <= p * PAGE_SIZE /\ (p + 1) * PAGE_SIZE <= end
             /\ (p + 1) * PAGE_SIZE <= PHYSICAL_MEMORY_SIZE
    BY <1>1, <1>3, <2>1, RegionFreed
  <2>3. \A x \in Nat : l_kernel_end <= x => from <= x
    BY <1>1, <1>3, <1>8
  <2> QED
    BY <1>2, <1>5, <1>8, <2>2, <2>3 DEF UsableIn
<1>9. CASE r.type = MEMORY_REGION_USABLE_RAM_TYPE /\ ~ (from > l_kernel_end) /\ ~ (end > l_kernel_end)
  <2>1. s = <<>>
    BY <1>2, <1>9 DEF CollectRegion
  <2>2. \A x, y \in Nat : x < y /\ l_kernel_end <= x => ~ (y <= end)
    BY <1>1, <1>3, <1>9
  <2> QED
    BY <1>2, <1>4, <1>5, <2>1, <2>2 DEF UsableIn
<1> QED
  BY <1>6, <1>7, <1>8, <1>9

\* One round of the loop over the regions, with the pages so far given by f.
CollectStep(map, f, i) == IF i = 0 THEN <<>> ELSE f[i - 1] \o CollectRegion(map[i])

\* The loop has a result for any number of regions.
LEMMA CollectExists ==
  ASSUME NEW map, NEW n \in Nat
  PROVE  \E f : f = [i \in 0 .. n |-> CollectStep(map, f, i)]
<1> DEFINE Solves(f, m) == f = [i \in 0 .. m |-> CollectStep(map, f, i)]
           T == {m \in Nat : ~ \E f : Solves(f, m)}
<1>1. SUFFICES ASSUME T # {} PROVE FALSE
  OBVIOUS
<1>2. PICK m \in T : \A k \in T : m <= k
  BY <1>1, LeastNatural
<1>3. CASE m = 0
  <2> DEFINE g == [i \in 0 .. 0 |-> <<>>]
  <2>1. Solves(g, 0)
    BY DEF CollectStep
  <2> QED
    BY <2>1, <1>2, <1>3
<1>4. CASE m # 0
  <2>1. m - 1 \in Nat /\ m - 1 \notin T
    BY <1>2, <1>4
  <2>2. PICK f : Solves(f, m - 1)
    BY <2>1
  <2> DEFINE g == [i \in 0 .. m |-> IF i = m THEN CollectStep(map, f, m) ELSE f[i]]
  <2>3. \A i \in 0 .. m - 1 : g[i] = f[i]
    OBVIOUS
  <2>4. \A i \in 0 .. m - 1 : CollectStep(map, g, i) = CollectStep(map, f, i)
    BY <2>3 DEF CollectStep
  <2>5. CollectStep(map, g, m) = CollectStep(map, f, m)
    <3>1. g[m - 1] = f[m - 1]
      BY <2>1, <2>3
    <3> HIDE DEF g
    <3> QED
      BY <1>4, <3>1 DEF CollectStep
  <2>6. \A i \in 0 .. m - 1 : f[i] = CollectStep(map, f, i)
    BY <2>2
  <2>7. \A i \in 0 .. m : g[i] = CollectStep(map, g, i)
    BY <2>3, <2>4, <2>5, <2>6
  <2>8. Solves(g, m)
    BY <2>7
  <2> QED
    BY <2>8, <1>2
<1> QED
  BY <1>3, <1>4

\* FreedPages is the last value of that loop.
LEMMA CollectUnfolds ==
  ASSUME NEW map, Len(map) \in Nat
  PROVE  \E f : /\ FreedPages(map) = f[Len(map)]
                /\ \A i \in 0 .. Len(map) : f[i] = CollectStep(map, f, i)
<1> DEFINE f == CHOOSE g : g = [i \in 0 .. Len(map) |-> CollectStep(map, g, i)]
<1>1. FreedPages(map) = f[Len(map)]
  BY DEF FreedPages, CollectStep
<1>2. f = [i \in 0 .. Len(map) |-> CollectStep(map, f, i)]
  BY CollectExists, Zenon
<1> HIDE DEF f
<1>3. \A i \in 0 .. Len(map) : f[i] = CollectStep(map, f, i)
  BY <1>2
<1> QED
  BY <1>1, <1>3

\* Two increasing lists, the first wholly below the second, are one.
LEMMA IncreasingJoined ==
  ASSUME NEW s \in Seq(Nat), NEW t \in Seq(Nat), Increasing(s), Increasing(t),
         \A x \in Range(s), y \in Range(t) : x < y
  PROVE  /\ s \o t \in Seq(Nat) /\ Increasing(s \o t)
         /\ Range(s \o t) = Range(s) \cup Range(t)
<1>1. PICK c, m, n : c = s \o t /\ m = Len(s) /\ n = Len(t)
  OBVIOUS
<1>2. /\ c \in Seq(Nat) /\ Len(c) = m + n /\ m \in Nat /\ n \in Nat
      /\ \A k \in 1 .. m : c[k] = s[k]
      /\ \A k \in m + 1 .. m + n : c[k] = t[k - m]
  BY <1>1
<1>3. /\ \A k \in 1 .. m : s[k] \in Range(s) /\ s[k] \in Nat
      /\ \A k \in 1 .. n : t[k] \in Range(t) /\ t[k] \in Nat
  <2>1. DOMAIN s = 1 .. m /\ DOMAIN t = 1 .. n
    BY <1>1
  <2>2. /\ \A k \in 1 .. m : s[k] \in Nat
        /\ \A k \in 1 .. n : t[k] \in Nat
    BY <1>1, SMTT(40)
  <2>3. /\ \A k \in 1 .. m : s[k] \in Range(s)
        /\ \A k \in 1 .. n : t[k] \in Range(t)
    BY <2>1 DEF Range
  <2> QED
    BY <2>2, <2>3
<1>4. ASSUME NEW j \in 1 .. m + n, NEW k \in 1 .. m + n, j < k PROVE c[j] < c[k]
  <2>1. CASE k <= m
    BY <1>1, <1>2, <1>4, <2>1 DEF Increasing
  <2>2. CASE j <= m /\ m < k
    <3>1. j \in 1 .. m /\ k - m \in 1 .. n /\ k \in m + 1 .. m + n
      BY <1>2, <2>2
    <3> QED
      BY <1>2, <1>3, <3>1
  <2>3. CASE m < j
    <3>1. /\ j - m \in 1 .. n /\ k - m \in 1 .. n /\ j - m < k - m
          /\ j \in m + 1 .. m + n /\ k \in m + 1 .. m + n
      BY <1>2, <1>4, <2>3
    <3>2. t[j - m] < t[k - m]
      BY <1>1, <3>1 DEF Increasing
    <3> QED
      BY <1>2, <3>1, <3>2
  <2> QED
    BY <1>2, <1>4, <2>1, <2>2, <2>3
<1>5. Increasing(c)
  BY <1>2, <1>4 DEF Increasing
<1> QED
  BY <1>1, <1>2, <1>5, PushAll

\* An increasing list has no repetitions, and its last element is the largest.
LEMMA IncreasingDistinct ==
  ASSUME NEW s \in Seq(Nat), Increasing(s)
  PROVE  /\ NoDuplicates(s)
         /\ s # <<>> => s[Len(s)] \in Nat /\ \A x \in Range(s) : x <= s[Len(s)]
<1>1. \A j \in 1 .. Len(s) : s[j] \in Nat
  OBVIOUS
<1>2. \A j, k \in 1 .. Len(s) : s[j] = s[k] => j = k
  <2>1. \A j, k \in 1 .. Len(s) : j < k \/ k < j \/ j = k
    OBVIOUS
  <2> QED
    BY <1>1, <2>1 DEF Increasing
<1>3. NoDuplicates(s)
  BY <1>2 DEF NoDuplicates, IsInjective
<1>4. ASSUME s # <<>> PROVE s[Len(s)] \in Nat /\ \A x \in Range(s) : x <= s[Len(s)]
  <2>1. Len(s) \in 1 .. Len(s) /\ \A j \in 1 .. Len(s) : j < Len(s) \/ j = Len(s)
    BY <1>4
  <2>2. \A j \in 1 .. Len(s) : s[j] <= s[Len(s)]
    BY <1>1, <2>1 DEF Increasing
  <2> QED
    BY <1>1, <2>1, <2>2 DEF Range
<1> QED
  BY <1>3, <1>4

\* RetrieveMemoryInfo on a map in order: the pages it frees are those that lie in
\* a usable region, each once and in ascending order.
LEMMA PagesFreed ==
  ASSUME NEW map \in Seq(RegionType), Ordered(map)
  PROVE  /\ FreedPages(map) \in Seq(Nat) /\ Increasing(FreedPages(map))
         /\ \A p \in Nat : p \in Range(FreedPages(map)) <=>
              \E i \in 1 .. Len(map) : UsableIn(map[i], p)
<1>1. Len(map) \in Nat
  OBVIOUS
<1>2. PICK f : /\ FreedPages(map) = f[Len(map)]
               /\ \A i \in 0 .. Len(map) : f[i] = CollectStep(map, f, i)
  BY <1>1, CollectUnfolds
<1> DEFINE Good(i) == /\ f[i] \in Seq(Nat) /\ Increasing(f[i])
                      /\ \A p \in Nat : p \in Range(f[i]) <=>
                           \E r \in 1 .. i : UsableIn(map[r], p)
           T == {i \in 0 .. Len(map) : ~ Good(i)}
<1>3. T = {}
  <2>1. SUFFICES ASSUME T # {} PROVE FALSE
    OBVIOUS
  <2>2. PICK i \in T : \A k \in T : i <= k
    <3>1. T \subseteq Nat
      OBVIOUS
    <3> HIDE DEF T
    <3> QED
      BY <2>1, <3>1, LeastNatural
  <2>3. CASE i = 0
    <3>1. f[i] = <<>>
      BY <1>1, <1>2, <2>3 DEF CollectStep
    <3>2. <<>> \in Seq(Nat) /\ Increasing(<<>>) /\ Range(<<>>) = {}
      BY EmptyQueue DEF Increasing
    <3>3. \A r : r \notin 1 .. i
      BY <2>3
    <3>4. Good(i)
      BY <3>1, <3>2, <3>3
    <3> QED
      BY <2>2, <3>4
  <2>4. CASE i # 0
    <3>1. PICK j : j = i - 1
      OBVIOUS
    <3>2. i \in 1 .. Len(map) /\ j \in 0 .. Len(map) /\ j < i /\ i = j + 1
      BY <1>1, <2>4, <3>1
    <3>3. Good(j)
      BY <2>2, <3>2
    <3>4. map[i] \in RegionType
      BY <3>2
    <3>5. PICK s, t : s = f[j] /\ t = CollectRegion(map[i])
      OBVIOUS
    <3>6. f[i] = s \o t
      BY <1>2, <2>4, <3>1, <3>2, <3>5 DEF CollectStep
    <3>7. /\ s \in Seq(Nat) /\ Increasing(s)
          /\ \A p \in Nat : p \in Range(s) <=> \E r \in 1 .. j : UsableIn(map[r], p)
      BY <3>3, <3>5
    <3>8. /\ t \in Seq(Nat) /\ Increasing(t)
          /\ \A p \in Nat : p \in Range(t) <=> UsableIn(map[i], p)
      BY <3>4, <3>5, RegionCollected
    <3>9. Range(s) \subseteq Nat /\ Range(t) \subseteq Nat
      BY <3>7, <3>8 DEF Range
    <3>10. ASSUME NEW x \in Range(s), NEW y \in Range(t) PROVE x < y
      <4>1. x \in Nat /\ y \in Nat
        BY <3>9
      <4>2. PICK r \in 1 .. j : UsableIn(map[r], x)
        BY <3>7, <4>1
      <4>3. r \in 1 .. Len(map) /\ r < i
        BY <1>1, <3>2
      <4>4. map[r].address + map[r].length <= map[i].address
        BY <3>2, <4>3 DEF Ordered
      <4>5. UsableIn(map[i], y)
        BY <3>8, <4>1
      <4>6. (x + 1) * PAGE_SIZE <= map[r].address + map[r].length /\ map[i].address <= y * PAGE_SIZE
        BY <4>2, <4>5 DEF UsableIn
      <4>7. map[r] \in RegionType
        BY <4>3
      <4>8. /\ map[r].address + map[r].length \in Nat /\ map[i].address \in Nat
        BY <3>4, <4>7, SMTT(40) DEF RegionType
      <4>9. /\ y * PAGE_SIZE \in Nat /\ (x + 1) * PAGE_SIZE \in Nat
            /\ y <= x => (y + 1) * PAGE_SIZE <= (x + 1) * PAGE_SIZE
            /\ (y + 1) * PAGE_SIZE = y * PAGE_SIZE + PAGE_SIZE
        BY <4>1, PageOrder
      <4>10. (x + 1) * PAGE_SIZE <= y * PAGE_SIZE
        BY <4>4, <4>6, <4>8, <4>9
      <4>11. PAGE_SIZE \in Nat \ {0}
        BY MapAssumption
      <4> QED
        BY <4>1, <4>9, <4>10, <4>11
    <3>11. /\ s \o t \in Seq(Nat) /\ Increasing(s \o t)
           /\ Range(s \o t) = Range(s) \cup Range(t)
      BY <3>7, <3>8, <3>10, IncreasingJoined
    <3>12. \A r : r \in 1 .. i <=> r \in 1 .. j \/ r = i
      BY <3>2
    <3>13. Good(i)
      BY <3>6, <3>7, <3>8, <3>11, <3>12
    <3> QED
      BY <2>2, <3>13
  <2> QED
    BY <2>3, <2>4
<1>4. Good(Len(map))
  BY <1>1, <1>3
<1> QED
  BY <1>2, <1>4

\* The reference definition of the heap, by regions.
LEMMA UsableByRegion ==
  ASSUME NEW map \in Seq(RegionType)
  PROVE  UsablePages(map) = {p \in Nat : \E i \in 1 .. Len(map) : UsableIn(map[i], p)}
<1>1. PHYSICAL_MEMORY_SIZE \in Nat /\ l_kernel_end \in Nat
  BY MapAssumption
<1>2. PICK n \in Nat : n = PHYSICAL_MEMORY_SIZE \div PAGE_SIZE
  BY <1>1, PageOfAddress
<1>3. ASSUME NEW p \in Nat, NEW i \in 1 .. Len(map), UsableIn(map[i], p) PROVE p \in 0 .. n
  <2>1. (p + 1) * PAGE_SIZE <= PHYSICAL_MEMORY_SIZE
    BY <1>3 DEF UsableIn
  <2>2. p < n
    BY <1>1, <1>2, <2>1, PageEndsBefore
  <2> QED
    BY <2>2
<1>4. \A p \in Nat : p * PAGE_SIZE >= l_kernel_end <=> l_kernel_end <= p * PAGE_SIZE
  BY <1>1, PageOrder
<1>5. ASSUME NEW p \in UsablePages(map)
      PROVE  p \in Nat /\ \E i \in 1 .. Len(map) : UsableIn(map[i], p)
  <2>1. p \in 0 .. n
    BY <1>2 DEF UsablePages
  <2> QED
    BY <1>4, <2>1 DEF UsablePages, UsableIn
<1>6. ASSUME NEW p \in Nat, \E i \in 1 .. Len(map) : UsableIn(map[i], p)
      PROVE  p \in UsablePages(map)
  <2>1. p \in 0 .. n
    BY <1>3, <1>6
  <2> QED
    BY <1>2, <1>4, <1>6, <2>1 DEF UsablePages, UsableIn
<1> QED
  BY <1>5, <1>6

\* kfree() in order gives the reversed list: the same pages, each once.
LEMMA ReverseProperties ==
  ASSUME NEW A, NEW s \in Seq(A), NoDuplicates(s)
  PROVE  /\ Reverse(s) \in Seq(A) /\ NoDuplicates(Reverse(s))
         /\ Range(Reverse(s)) = Range(s) /\ Len(Reverse(s)) = Len(s)
<1>1. PICK r, n : r = Reverse(s) /\ n = Len(s)
  OBVIOUS
<1>2. n \in Nat /\ DOMAIN s = 1 .. n /\ r = [i \in 1 .. n |-> s[n + 1 - i]]
  BY <1>1 DEF Reverse
<1>3. \A i \in 1 .. n : n + 1 - i \in 1 .. n /\ n + 1 - (n + 1 - i) = i
  BY <1>2
<1>4. \A i \in 1 .. n : s[i] \in A
  BY <1>2
<1>5. r \in Seq(A) /\ Len(r) = n /\ DOMAIN r = 1 .. n
  BY <1>2, <1>3, <1>4
<1>6. \A i \in 1 .. n : r[i] = s[n + 1 - i] /\ s[i] = r[n + 1 - i]
  BY <1>2, <1>3
<1>7. Range(r) = Range(s)
  <2>1. \A i \in 1 .. n : r[i] \in Range(s)
    BY <1>2, <1>3, <1>6 DEF Range
  <2>2. \A i \in 1 .. n : s[i] \in Range(r)
    BY <1>3, <1>5, <1>6 DEF Range
  <2> QED
    BY <1>2, <1>5, <2>1, <2>2 DEF Range
<1>8. \A i, j \in 1 .. n : r[i] = r[j] => n + 1 - i = n + 1 - j
  BY <1>2, <1>3, <1>6 DEF NoDuplicates, IsInjective
<1>9. \A i, j \in 1 .. n : n + 1 - i = n + 1 - j => i = j
  BY <1>2
<1>10. NoDuplicates(r)
  BY <1>5, <1>8, <1>9 DEF NoDuplicates, IsInjective
<1> QED
  BY <1>1, <1>5, <1>7, <1>10

\* RetrieveMemoryInfo: every usable page is in the heap and in the free list once,
\* and the end of memory is behind the last of them.
LEMMA RetrieveInv ==
  ASSUME OrderedMaps, MemInv, BootRetrieveMemoryInfo, UNCHANGED vars
  PROVE  /\ TableInv' /\ SpacesInv' /\ HeapIsFreeMemory'
         /\ boot' = "InitMemory" => Range(free') = UsablePages(mem_map)
<1>1. /\ boot = "RetrieveMemoryInfo" /\ table = <<>> /\ kernel_pages = {}
      /\ stack \in [Slots -> Nat] /\ page_map \in [Slots -> Nat]
      /\ mem_map \in Seq(RegionType) /\ mem_map = bios /\ bios \in BiosMaps
  BY DEF BootRetrieveMemoryInfo, MemInv, TableInv, SpacesInv, LoaderInv, RegionType
<1>2. CASE Len(mem_map) >= MEMORY_MAX_FREE_REGIONS
  <2>1. Panic
    BY <1>2 DEF BootRetrieveMemoryInfo
  <2>2. table' = <<>>
    BY <1>1, <2>1 DEF Panic
  <2>3. HeapIsFreeMemory'
    BY <2>2 DEF HeapIsFreeMemory, Pages
  <2>4. boot' = "panic"
    BY <2>1 DEF Panic
  <2> QED
    BY <2>1, <2>3, <2>4, PanicInv
<1>3. CASE ~ (Len(mem_map) >= MEMORY_MAX_FREE_REGIONS)
  <2>1. PICK s, zero : s = FreedPages(mem_map) /\ zero = [i \in Indices |-> NoPage]
    OBVIOUS
  <2>2. /\ boot' = "InitMemory" /\ free' = Reverse(s)
        /\ table' = [p \in Range(s) |-> zero]
        /\ s_free_memory_end_address' = FreeMemoryEnd(s)
        /\ UNCHANGED <<mem_map, stack, page_map, kernel_pages>>
    BY <1>3, <2>1 DEF BootRetrieveMemoryInfo
  <2>3. Ordered(mem_map)
    BY <1>1 DEF OrderedMaps
  <2>4. /\ s \in Seq(Nat) /\ Increasing(s)
        /\ \A p \in Nat : p \in Range(s) <=>
             \E i \in 1 .. Len(mem_map) : UsableIn(mem_map[i], p)
    BY <1>1, <2>1, <2>3, PagesFreed
  <2>5. Range(s) \subseteq Nat
    BY <2>4 DEF Range
  <2>6. Range(s) = UsablePages(mem_map)
    BY <1>1, <2>4, <2>5, UsableByRegion
  <2>7. 0 \notin Range(s)
    <3>1. ASSUME NEW i \in 1 .. Len(mem_map) PROVE ~ UsableIn(mem_map[i], 0)
      BY MapAssumption DEF UsableIn
    <3> QED
      BY <2>4, <3>1
  <2>8. NoDuplicates(s) /\ s \in Seq(Range(s))
    <3>1. s \in Seq(Range(s))
      BY <2>4 DEF Range
    <3> QED
      BY <2>4, <3>1, IncreasingDistinct
  <2>9. /\ free' \in Seq(Range(s)) /\ NoDuplicates(free')
        /\ Range(free') = Range(s)
    BY <2>2, <2>8, ReverseProperties
  <2>10. zero \in [Indices -> Int]
    BY <2>1, IndexFacts
  <2>11. DOMAIN table' = Range(s) /\ table' \in [Range(s) -> [Indices -> Int]]
    BY <2>2, <2>10
  <2>12. HeapOK(Heap)'
    BY <2>5, <2>7, <2>9, <2>11 DEF HeapOK, Heap
  <2>13. TableInv'
    BY <1>1, <2>2, <2>12 DEF TableInv, MemInv, AtBoot, vars, procVars
  <2>14. SpacesInv'
    BY <1>1, <2>2, <2>9, <2>11 DEF SpacesInv, Pages, KernelReady
  <2>15. ASSUME NEW p \in Range(s)
         PROVE  (p + 1) * PAGE_SIZE <= s_free_memory_end_address'
    <3>1. s # <<>>
      BY <2>15, EmptyQueue
    <3>2. PICK l : l = s[Len(s)]
      OBVIOUS
    <3>3. l \in Nat /\ p <= l /\ p \in Nat
      BY <2>4, <2>5, <3>1, <3>2, IncreasingDistinct
    <3>4. s_free_memory_end_address' = l * PAGE_SIZE + PAGE_SIZE
      BY <2>2, <3>1, <3>2 DEF FreeMemoryEnd
    <3>5. /\ (p + 1) * PAGE_SIZE = p * PAGE_SIZE + PAGE_SIZE /\ p * PAGE_SIZE <= l * PAGE_SIZE
          /\ p * PAGE_SIZE \in Nat /\ l * PAGE_SIZE \in Nat /\ PAGE_SIZE \in Nat
      BY <3>3, PageOrder, MapAssumption
    <3> QED
      BY <3>4, <3>5
  <2>16. HeapIsFreeMemory'
    BY <2>2, <2>6, <2>11, <2>15 DEF HeapIsFreeMemory, Pages
  <2> QED
    BY <2>6, <2>9, <2>13, <2>14, <2>16
<1> QED
  BY <1>2, <1>3

-----------------------------------------------------------------------------
(* Every step.                                                             *)

\* A step of the process manager that does not touch the memory and neither takes
\* nor frees a slot.
Quiet == SameSlotsInUse /\ UNCHANGED memVars

\* What a step of the running system may be, for the memory.
LEMMA RunningCases ==
  ASSUME SchedulerInv, Running
  PROVE  /\ SchedulerInv'
         /\ \/ Quiet \/ ForkWithoutMap \/ ForkWithoutUserPage \/ ForkCompletes
            \/ WaitFreesPages \/ FileCallWithoutPage
<1>1. TypeOK /\ ListsMatchStates /\ PidsDistinct
  BY DEF SchedulerInv
<1>2. UNCHANGED state => SameSlotsInUse
  BY DEF SameSlotsInUse
<1>3. UNCHANGED vars => SameSlotsInUse
  BY <1>2 DEF vars, procVars
<1>4. CASE ForkWithoutStack
  <2>1. UNCHANGED vars /\ UNCHANGED memVars
    BY <1>4 DEF ForkWithoutStack, ForkFailsEarly
  <2> QED
    BY <1>3, <2>1, StutterInv DEF Quiet
<1>5. CASE ForkWithoutMap \/ ForkWithoutUserPage \/ ForkCompletes
  <2>1. SysFork
    BY <1>5 DEF ForkWithoutMap, ForkWithoutUserPage, ForkCompletes, SysFork
  <2> QED
    BY <1>5, <2>1, InvStep DEF Next, UserStep
<1>6. CASE WaitFreesPages
  <2>1. WaitReaps
    BY <1>6 DEF WaitFreesPages
  <2> QED
    BY <1>6, <2>1, InvStep DEF Next, KernelLoop
<1>7. CASE ExecBorrowsPage
  <2>1. SysExec /\ UNCHANGED memVars
    BY <1>7 DEF ExecBorrowsPage
  <2>2. SameSlotsInUse
    BY <1>1, <1>3, <2>1, ExitLists DEF SysExec, UserMode
  <2> QED
    BY <2>1, <2>2, InvStep DEF Next, UserStep, Quiet
<1>8. CASE FileCallWithoutPage
  BY <1>8, StutterInv DEF FileCallWithoutPage
<1>9. CASE TimerInterrupt /\ UNCHANGED memVars
  <2>1. SameSlotsInUse
    BY <1>1, <1>9, TimerLists
  <2> QED
    BY <1>9, <2>1, InvStep DEF Next, Interrupt, Quiet
<1>10. CASE SysExit /\ UNCHANGED memVars
  <2>1. SameSlotsInUse
    BY <1>1, <1>10, ExitLists DEF SysExit, UserMode
  <2> QED
    BY <1>10, <2>1, InvStep DEF Next, UserStep, Quiet
<1>11. CASE WaitSleeps /\ UNCHANGED memVars
  <2>1. current_proc # IDLE
    BY <1>11, CallerIsUser DEF WaitSleeps
  <2>2. Sleep(INIT_PROCESS_WAIT_ID) /\ UNCHANGED kill_proc_list
    BY <1>11 DEF WaitSleeps
  <2>3. SameSlotsInUse
    BY <1>1, <2>1, <2>2, SleepLists
  <2> QED
    BY <1>11, <2>3, InvStep DEF Next, KernelLoop, Quiet
<1>12. CASE WaitSpins /\ UNCHANGED memVars
  <2>1. UNCHANGED vars
    BY <1>12 DEF WaitSpins
  <2> QED
    BY <1>3, <1>12, <2>1, StutterInv DEF Quiet
<1>13. ASSUME NEW p \in WaitPids, SysWait(p), UNCHANGED memVars
       PROVE  SchedulerInv' /\ Quiet
  <2>1. SameSlotsInUse
    BY <1>2, <1>13 DEF SysWait, Enter, procVars
  <2>2. Next
    BY <1>13 DEF Next, UserStep
  <2> QED
    BY <1>13, <2>1, <2>2, InvStep DEF Quiet
<1> QED
  BY <1>4, <1>5, <1>6, <1>7, <1>8, <1>9, <1>10, <1>11, <1>12, <1>13 DEF Running

\* A fork that does not fail in SetupKVM, as the lemma about it wants it.
LEMMA ForkCases ==
  ASSUME SchedulerInv, RunningInv, ForkWithoutUserPage \/ ForkCompletes
  PROVE  /\ RunningInv' /\ DOMAIN table' = DOMAIN table /\ UNCHANGED <<boot, mapVars>>
         /\ ForkCompletes => Len(free) = Len(free') + 7
         /\ ForkWithoutUserPage => Len(free) < 7
<1>1. UserMode /\ NewAddressSpace
  BY DEF ForkWithoutUserPage, ForkCompletes, ForkFailsInCopyUVM, ForkSucceeds
<1>2. /\ ForkCompletes =>
           Copied.ok /\ state' = [state EXCEPT ![FindFreeProcessSlot] = "READY"]
      /\ ForkWithoutUserPage =>
           ~ Copied.ok /\ state' = [state EXCEPT ![FindFreeProcessSlot] = "INITIALIZED"]
  BY DEF ForkWithoutUserPage, ForkCompletes, ForkFailsInCopyUVM, ForkSucceeds
<1>3. /\ RunningInv' /\ DOMAIN table' = DOMAIN table
      /\ Copied.ok => Len(free) = Len(free') + 7
      /\ ~ Copied.ok => Len(free) < 7
  BY <1>1, <1>2, NewAddressSpaceInv
<1>4. UNCHANGED <<boot, mapVars>>
  BY <1>1 DEF NewAddressSpace
<1> QED
  BY <1>2, <1>3, <1>4

\* A quiet step keeps the invariant of the running system.
LEMMA QuietInv ==
  ASSUME RunningInv, Quiet
  PROVE  RunningInv' /\ UNCHANGED <<boot, mapVars, free, table>>
<1>1. UNCHANGED <<boot, mapVars, free, table, stack, page_map, kernel_pages>>
  BY DEF Quiet, memVars
<1>2. PICK st, st2 : st = state /\ st2 = state'
  OBVIOUS
<1>3. \A p \in Slots : \A x \in {"UNUSED", "INITIALIZED"} : st2[p] = x <=> st[p] = x
  BY <1>2 DEF Quiet, SameSlotsInUse
<1>4. SpacesIn(table, Range(free), kernel_pages, st, stack, page_map)
  BY <1>2 DEF RunningInv
<1>5. SpacesIn(table, Range(free), kernel_pages, st2, stack, page_map)
  BY <1>3, <1>4, StatesChange
<1> QED
  BY <1>1, <1>2, <1>5 DEF RunningInv, Heap

\* Every step of the running system keeps the invariant, and the heap's pages.
LEMMA RunningStep ==
  ASSUME MemInv, boot = "running", Running
  PROVE  MemInv' /\ DOMAIN table' = DOMAIN table /\ UNCHANGED mapVars /\ boot' \in {"running", "panic"}
<1>1. SchedulerInv /\ RunningInv
  BY WhenRunning DEF MemInv
<1>2. SchedulerInv' /\ \/ Quiet \/ ForkWithoutMap \/ ForkWithoutUserPage \/ ForkCompletes
                       \/ WaitFreesPages \/ FileCallWithoutPage
  BY <1>1, RunningCases
<1>3. UNCHANGED mapVars => LoaderInv' \/ boot' = "loader"
  BY DEF MemInv, LoaderInv, mapVars
<1>4. ASSUME RunningInv', UNCHANGED <<boot, mapVars>> PROVE MemInv' /\ boot' = "running"
  <2>1. TableInv' /\ SpacesInv' /\ boot' = "running"
    BY <1>4, WhenRunning
  <2> QED
    BY <1>2, <1>3, <1>4, <2>1 DEF MemInv
<1>5. CASE Quiet
  BY <1>1, <1>4, <1>5, QuietInv
<1>6. CASE ForkWithoutMap
  BY <1>1, <1>4, <1>6, ForkWithoutMapInv DEF ForkWithoutMap
<1>7. CASE ForkWithoutUserPage \/ ForkCompletes
  BY <1>1, <1>4, <1>7, ForkCases
<1>8. CASE WaitFreesPages
  BY <1>1, <1>4, <1>8, WaitFreesInv DEF WaitFreesPages
<1>9. CASE FileCallWithoutPage
  <2>1. Panic /\ UNCHANGED vars
    BY <1>9 DEF FileCallWithoutPage
  <2>2. UNCHANGED mapVars /\ boot' = "panic"
    BY <2>1 DEF Panic
  <2> QED
    BY <1>2, <1>3, <2>1, <2>2, PanicInv DEF MemInv
<1> QED
  BY <1>2, <1>5, <1>6, <1>7, <1>8, <1>9

\* The invariant holds when the loader starts.
LEMMA MemInvInit == MemInit => MemInv /\ HeapIsFreeMemory
<1> SUFFICES ASSUME MemInit PROVE MemInv /\ HeapIsFreeMemory
  OBVIOUS
<1>1. SchedulerInv
  BY InvInit DEF MemInit
<1>2. LoaderInv
  <2>1. bios \in BiosMaps /\ mem_map = <<>> /\ boot = "loader"
    BY DEF MemInit
  <2>2. bios \in Seq(RegionType)
    BY <2>1, BiosAssumption DEF RegionType
  <2> QED
    BY <2>1, <2>2 DEF LoaderInv
<1>3. /\ boot = "loader" /\ table = <<>> /\ kernel_pages = {}
      /\ stack = [p \in Slots |-> NoPage] /\ page_map = [p \in Slots |-> NoPage]
      /\ state = [p \in Slots |-> IF p = IDLE THEN "RUNNING"
                                  ELSE IF p = SHELL THEN "READY" ELSE "UNUSED"]
  BY DEF MemInit, Init
<1>4. TableInv
  BY <1>3, IndexFacts DEF TableInv, AtBoot, HeapReady
<1>5. SpacesInv /\ HeapIsFreeMemory
  BY <1>3 DEF SpacesInv, KernelReady, HeapIsFreeMemory
<1> QED
  BY <1>1, <1>2, <1>4, <1>5 DEF MemInv

\* The loader's steps keep the invariant.
LEMMA LoaderStep ==
  ASSUME MemInv, LoaderReadsMap \/ LoaderDone, UNCHANGED vars
  PROVE  MemInv' /\ HeapIsFreeMemory'
<1>1. /\ boot = "loader" /\ bios \in BiosMaps /\ mem_map \in Seq(RegionType)
      /\ \A i \in 1 .. Len(mem_map) : mem_map[i] = bios[i]
      /\ table = <<>> /\ kernel_pages = {}
      /\ stack \in [Slots -> Nat] /\ page_map \in [Slots -> Nat]
      /\ UNCHANGED <<bios, free, table, stack, page_map, kernel_pages>>
  BY DEF MemInv, LoaderInv, TableInv, SpacesInv, LoaderReadsMap, LoaderDone, RegionType,
         mapVars
<1>2. bios \in Seq(RegionType) /\ Len(bios) \in Nat /\ Len(mem_map) \in Nat
  BY <1>1, BiosAssumption DEF RegionType
<1>3. SchedulerInv'
  BY StutterInv DEF MemInv
<1>4. boot' \in {"loader", "halted", "RetrieveMemoryInfo"}
  BY <1>1 DEF LoaderReadsMap, LoaderDone
<1>5. TableInv'
  BY <1>1, <1>4 DEF MemInv, TableInv, AtBoot, HeapReady, vars, procVars
<1>6. SpacesInv' /\ HeapIsFreeMemory'
  BY <1>1, <1>4 DEF SpacesInv, HeapIsFreeMemory, KernelReady
<1>7. LoaderInv'
  <2>1. CASE LoaderReadsMap
    <3>1. PICK n, r : n = Len(mem_map) /\ r = bios[n + 1]
      OBVIOUS
    <3>2. /\ mem_map' = Append(mem_map, r) /\ n < Len(bios) /\ boot' = "loader"
      BY <1>1, <2>1, <3>1 DEF LoaderReadsMap
    <3>3. r \in RegionType /\ n \in Nat
      BY <1>2, <3>1, <3>2
    <3>4. /\ mem_map' \in Seq(RegionType) /\ Len(mem_map') = n + 1
          /\ \A i \in 1 .. n : mem_map'[i] = mem_map[i]
          /\ mem_map'[n + 1] = r
      BY <1>1, <3>1, <3>2, <3>3
    <3>5. \A i \in 1 .. n + 1 : i \in 1 .. n \/ i = n + 1
      BY <3>3
    <3>6. \A i \in 1 .. n + 1 : mem_map'[i] = bios[i]
      BY <1>1, <3>1, <3>4, <3>5
    <3>7. n + 1 <= Len(bios)
      BY <1>2, <3>2, <3>3
    <3> QED
      BY <1>1, <3>2, <3>4, <3>6, <3>7 DEF LoaderInv, RegionType
  <2>2. CASE LoaderDone
    <3>1. Len(mem_map) = Len(bios) /\ UNCHANGED mem_map
      BY <2>2 DEF LoaderDone, mapVars
    <3>2. mem_map = bios
      BY <1>1, <1>2, <3>1
    <3> QED
      BY <1>1, <1>2, <3>1, <3>2 DEF LoaderInv, RegionType
  <2> QED
    BY <2>1, <2>2
<1> QED
  BY <1>3, <1>5, <1>6, <1>7 DEF MemInv

\* Every step of the boot and of the running system keeps the invariant.
LEMMA MemInvStep ==
  OrderedMaps /\ MemInv /\ HeapIsFreeMemory /\ [MemNext]_allVars
    => MemInv' /\ HeapIsFreeMemory'
<1> SUFFICES ASSUME OrderedMaps, MemInv, HeapIsFreeMemory, [MemNext]_allVars
             PROVE  MemInv' /\ HeapIsFreeMemory'
  OBVIOUS
<1>1. ASSUME UNCHANGED allVars PROVE MemInv' /\ HeapIsFreeMemory'
  <2>1. /\ UNCHANGED vars
        /\ UNCHANGED <<boot, bios, mem_map, s_free_memory_end_address, free, table, stack,
                       page_map, kernel_pages, state>>
    BY <1>1 DEF allVars, memVars, mapVars, vars, procVars
  <2>2. SchedulerInv'
    BY <2>1, StutterInv DEF MemInv
  <2>3. LoaderInv' /\ TableInv' /\ HeapIsFreeMemory'
    BY <2>1 DEF MemInv, LoaderInv, TableInv, HeapIsFreeMemory, Heap, Pages
  <2>4. InUse' = InUse
    BY <2>1 DEF InUse
  <2>5. SpacesInv'
    BY <2>1, <2>4 DEF MemInv, SpacesInv, Pages
  <2> QED
    BY <2>2, <2>3, <2>5 DEF MemInv
<1>2. ASSUME LoaderReadsMap \/ LoaderDone, UNCHANGED vars PROVE MemInv' /\ HeapIsFreeMemory'
  BY <1>2, LoaderStep
<1>3. ASSUME TableInv', SpacesInv', UNCHANGED <<vars, bios, mem_map>>,
             boot # "loader", boot' # "loader"
      PROVE  MemInv'
  <2>1. SchedulerInv'
    BY <1>3, StutterInv DEF MemInv
  <2>2. LoaderInv'
    BY <1>3 DEF MemInv, LoaderInv
  <2> QED
    BY <1>3, <2>1, <2>2 DEF MemInv
<1>4. ASSUME BootRetrieveMemoryInfo, UNCHANGED vars PROVE MemInv' /\ HeapIsFreeMemory'
  <2>1. /\ boot # "loader" /\ boot' # "loader" /\ UNCHANGED <<bios, mem_map>>
    BY <1>4 DEF BootRetrieveMemoryInfo, Panic, mapVars
  <2> QED
    BY <1>3, <1>4, <2>1, RetrieveInv
<1>5. ASSUME UNCHANGED mapVars, DOMAIN table' = DOMAIN table,
             boot \notin {"loader", "halted", "RetrieveMemoryInfo"}
      PROVE  HeapIsFreeMemory'
  BY <1>5 DEF HeapIsFreeMemory, Pages, mapVars
<1>6. ASSUME BootInitMemory \/ BootInitFileSystem \/ BootInitProcess, UNCHANGED vars
      PROVE  MemInv' /\ HeapIsFreeMemory'
  <2>1. TableInv' /\ SpacesInv' /\ DOMAIN table' = DOMAIN table
    BY <1>6, InitMemoryInv, InitFileSystemInv, InitProcessInv
  <2>2. /\ boot \in {"InitMemory", "InitFileSystem", "InitProcess"} /\ boot' # "loader"
        /\ UNCHANGED mapVars
    BY <1>6 DEF BootInitMemory, BootInitFileSystem, BootInitProcess, Panic
  <2>3. UNCHANGED <<bios, mem_map>>
    BY <2>2 DEF mapVars
  <2> QED
    BY <1>3, <1>5, <1>6, <2>1, <2>2, <2>3
<1>7. ASSUME boot = "running", Running PROVE MemInv' /\ HeapIsFreeMemory'
  BY <1>5, <1>7, RunningStep
<1> QED
  BY <1>1, <1>2, <1>4, <1>6, <1>7 DEF MemNext, BootStep, Stopped

-----------------------------------------------------------------------------
(* Theorems.                                                               *)

\* On any machine whose BIOS reports its regions in ascending order and without
\* overlap, the invariant holds in every reachable state.
THEOREM MemInvHolds == OrderedMaps => (MemSpec => [](MemInv /\ HeapIsFreeMemory))
<1> SUFFICES ASSUME OrderedMaps PROVE MemSpec => [](MemInv /\ HeapIsFreeMemory)
  OBVIOUS
<1>1. MemInv /\ HeapIsFreeMemory /\ [MemNext]_allVars => (MemInv /\ HeapIsFreeMemory)'
  BY MemInvStep
<1>2. MemInit => MemInv /\ HeapIsFreeMemory
  BY MemInvInit
<1> QED
  BY <1>1, <1>2, PTL DEF MemSpec

\* OwnPages is OwnIn of the current values.
LEMMA OwnPagesAre ==
  ASSUME NEW p \in Slots
  PROVE  /\ OwnPages(p) = OwnIn(table, kernel_pages, state, stack, page_map, p)
         /\ Complete(p) <=> CompleteIn(state, p)
<1>1. \A m, i : PageDirectory(Heap, m, i) = DirectoryIn(table, m, i)
  BY DEF PageDirectory, DirectoryIn, Heap
<1>2. \A m : MapPagesOf(m) = MapPagesIn(table, m)
  BY <1>1 DEF MapPagesOf, MapPagesIn, Pages
<1>3. Complete(p) <=> CompleteIn(state, p)
  BY DEF Complete, CompleteIn
<1> QED
  BY <1>2, <1>3 DEF OwnPages, OwnIn

\* Virtual memories are isolated, for any number of slots and pages and whatever
\* forks fail for lack of which page: no page belongs to two processes, or to one
\* and to the free list, and the free list has no repetitions.
THEOREM AlwaysIsolated == OrderedMaps => (MemSpec => []Isolated)
<1>1. MemInv => Isolated
  <2> SUFFICES ASSUME MemInv, boot = "running"
               PROVE  /\ NoDuplicates(free)
                      /\ \A p \in Slots : OwnPages(p) \cap Range(free) = {}
                      /\ \A p, q \in Slots : p # q => OwnPages(p) \cap OwnPages(q) = {}
    BY DEF Isolated
  <2>1. RunningInv
    BY WhenRunning
  <2>2. NoDuplicates(free)
    BY <2>1 DEF RunningInv, HeapOK, Heap
  <2>3. Apart(table, Range(free), kernel_pages, state, stack, page_map)
    BY <2>1 DEF RunningInv, SpacesIn
  <2> QED
    BY <2>2, <2>3, OwnPagesAre DEF Apart
<1> QED
  BY <1>1, MemInvHolds, PTL

\* Whoever can get the CPU has a complete address space of seven different pages.
THEOREM AddressSpacesAlwaysComplete == OrderedMaps => (MemSpec => []AddressSpaceComplete)
<1>1. MemInv => AddressSpaceComplete
  <2> SUFFICES ASSUME MemInv, boot = "running", NEW p \in Slots \ {IDLE}, Complete(p)
               PROVE  /\ Cardinality(OwnPages(p)) = 7
                      /\ PageDirectory(Heap, page_map[p], KERNEL_PML4) \in Pages
                      /\ table[PageDirectory(Heap, page_map[p], KERNEL_PML4)][0] = KernelFrames
    BY DEF AddressSpaceComplete
  <2>1. RunningInv
    BY WhenRunning
  <2>2. PICK T, s, m, a, b, c, d, u :
          /\ T = table /\ s = stack[p] /\ m = page_map[p] /\ a = T[m][KERNEL_PML4]
          /\ b = T[a][0] /\ c = T[m][USER_PML4] /\ d = T[c][0] /\ u = T[d][USER_PD]
    OBVIOUS
  <2>3. CompleteIn(state, p)
    BY OwnPagesAre
  <2>4. Space(T, s, m, a, b, c, d, u)
    BY <2>1, <2>2, <2>3 DEF RunningInv, SpacesIn, Furnished, FurnishedAt, ProcessSpace
  <2>5. NoPage \notin DOMAIN T
    BY <2>1, <2>2, FreeInHeap DEF RunningInv, Heap
  <2>6. OwnPages(p) = {s} \cup {m, a, b, c, d, u}
    <3>1. MapPagesIn(T, m) = {m, a, b, c, d, u}
      BY <2>4, <2>5, ProcessMapPages
    <3>2. OwnIn(table, kernel_pages, state, stack, page_map, p) = {stack[p]} \cup MapPagesIn(T, m)
      BY <2>2, <2>3 DEF OwnIn, CompleteIn
    <3> QED
      BY <2>2, <3>1, <3>2, OwnPagesAre
  <2>7. Cardinality({s} \cup {m, a, b, c, d, u}) = 7
    <3>1. /\ s \notin {m, a, b, c, d, u} /\ m \notin {a, b, c, d, u} /\ a \notin {b, c, d, u}
          /\ b \notin {c, d, u} /\ c \notin {d, u} /\ d # u
      BY <2>4 DEF Space, KernelPart, UserPart
    <3>2. IsFiniteSet({u}) /\ Cardinality({u}) = 1
      BY FS_Singleton
    <3>3. IsFiniteSet({d, u}) /\ Cardinality({d, u}) = 2
      <4>1. {u} \cup {d} = {d, u} /\ d \notin {u}
        BY <3>1
      <4> QED
        BY <3>2, <4>1, FS_AddElement
    <3>4. IsFiniteSet({c, d, u}) /\ Cardinality({c, d, u}) = 3
      <4>1. {d, u} \cup {c} = {c, d, u}
        OBVIOUS
      <4> QED
        BY <3>1, <3>3, <4>1, FS_AddElement
    <3>5. IsFiniteSet({b, c, d, u}) /\ Cardinality({b, c, d, u}) = 4
      <4>1. PICK S : S = {c, d, u}
        OBVIOUS
      <4>2. S \cup {b} = {b, c, d, u} /\ b \notin S
        BY <3>1, <4>1
      <4>3. IsFiniteSet(S) /\ Cardinality(S) = 3
        BY <3>4, <4>1
      <4> QED
        BY <4>2, <4>3, FS_AddElement
    <3>6. IsFiniteSet({a, b, c, d, u}) /\ Cardinality({a, b, c, d, u}) = 5
      <4>1. {b, c, d, u} \cup {a} = {a, b, c, d, u}
        OBVIOUS
      <4> QED
        BY <3>1, <3>5, <4>1, FS_AddElement
    <3>7. IsFiniteSet({m, a, b, c, d, u}) /\ Cardinality({m, a, b, c, d, u}) = 6
      <4>1. {a, b, c, d, u} \cup {m} = {m, a, b, c, d, u}
        OBVIOUS
      <4> QED
        BY <3>1, <3>6, <4>1, FS_AddElement
    <3>8. {s} \cup {m, a, b, c, d, u} = {m, a, b, c, d, u} \cup {s}
      OBVIOUS
    <3> QED
      BY <3>1, <3>7, <3>8, FS_AddElement
  <2>8. PageDirectory(Heap, page_map[p], KERNEL_PML4) = b /\ b \in DOMAIN T /\ T[b][0] = KernelFrames
    BY <2>2, <2>4, <2>5 DEF PageDirectory, Heap, Space, KernelPart
  <2> QED
    BY <2>2, <2>6, <2>7, <2>8 DEF Pages
<1> QED
  BY <1>1, MemInvHolds, PTL

\* No page is lost while no fork has failed in CopyUVM: every page is free or
\* belongs to a slot.
THEOREM PagesAlwaysAccountedFor == OrderedMaps => (MemSpec => []PagesAccountedFor)
<1>1. MemInv => PagesAccountedFor
  <2> SUFFICES ASSUME MemInv, boot = "running", \A p \in Slots : state[p] # "INITIALIZED"
               PROVE  Pages = Range(free) \cup UNION {OwnPages(p) : p \in Slots}
    BY DEF PagesAccountedFor
  <2>1. RunningInv
    BY WhenRunning
  <2>2. DOMAIN table = Range(free) \cup
          UNION {OwnIn(table, kernel_pages, state, stack, page_map, p) : p \in Slots}
    BY <2>1 DEF RunningInv, SpacesIn, AllOwned
  <2>3. {OwnPages(p) : p \in Slots} =
          {OwnIn(table, kernel_pages, state, stack, page_map, p) : p \in Slots}
    BY OwnPagesAre
  <2> QED
    BY <2>2, <2>3 DEF Pages
<1> QED
  BY <1>1, MemInvHolds, PTL

\* The heap is all of the usable memory in whole pages, and the kernel's map
\* reaches all of it, for any page size, kernel and limit.
THEOREM HeapAlwaysFreeMemory == OrderedMaps => (MemSpec => []HeapIsFreeMemory)
BY MemInvHolds, PTL

-----------------------------------------------------------------------------
(* With memory for every slot no page is ever missing.                     *)

\* The memory is as large as EnoughPages asks for.
Roomy == /\ Len(mem_map) < MEMORY_MAX_FREE_REGIONS
         /\ Cardinality(UsablePages(mem_map)) >= PagesForAllSlots

\* The processes, each of which holds seven pages.
Processes(st) == {p \in Slots \ {IDLE} : CompleteIn(st, p)}

\* How many pages are free after each stage: the kernel's map took three of them,
\* its tables two, each process seven; and no fork has left a slot behind.
EnoughInv ==
  LET usable == Cardinality(UsablePages(mem_map))
  IN  Roomy =>
        /\ boot # "panic"
        /\ boot = "InitMemory" => Len(free) = usable
        /\ boot = "InitFileSystem" => Len(free) + 3 = usable
        /\ boot = "InitProcess" => Len(free) + 5 = usable
        /\ boot = "running" =>
             /\ Len(free) + 5 + 7 * Cardinality(Processes(state)) = usable
             /\ \A p \in Slots : state[p] # "INITIALIZED"

\* A list without repetitions is as long as the set of its elements is large.
LEMMA DistinctLength ==
  ASSUME NEW S, NEW s \in Seq(S), NoDuplicates(s)
  PROVE  IsFiniteSet(Range(s)) /\ Cardinality(Range(s)) = Len(s)
<1>1. PICK n \in Nat : n = Len(s) /\ DOMAIN s = 1 .. n
  OBVIOUS
<1>2. s \in [1 .. n -> Range(s)]
  BY <1>1 DEF Range
<1>3. \A i, j \in 1 .. n : s[i] = s[j] => i = j
  BY <1>1 DEF NoDuplicates, IsInjective
<1>4. \A x \in Range(s) : \E i \in 1 .. n : s[i] = x
  BY <1>1 DEF Range
<1>5. s \in Bijection(1 .. n, Range(s))
  BY <1>2, <1>3, <1>4 DEF Bijection, Injection, Surjection, IsInjective
<1>6. ExistsBijection(1 .. n, Range(s))
  BY <1>5 DEF ExistsBijection
<1>7. IsFiniteSet(1 .. n) /\ Cardinality(1 .. n) = n
  <2>1. n \in Int /\ 1 \in Int /\ (IF 1 > n THEN 0 ELSE n - 1 + 1) = n
    BY <1>1
  <2> QED
    BY <2>1, FS_Interval
<1> QED
  BY <1>1, <1>6, <1>7, FS_Bijection

\* There are at most as many processes as slots but the idle task's, and fewer
\* while a slot is free.
LEMMA ProcessCount ==
  ASSUME NEW st
  PROVE  /\ IsFiniteSet(Processes(st)) /\ Cardinality(Processes(st)) \in Nat
         /\ Cardinality(Processes(st)) <= MAXIMUM_NUMBER_OF_PROCESS - 1
         /\ \A q \in Slots \ {IDLE} : q \notin Processes(st) =>
              Cardinality(Processes(st)) <= MAXIMUM_NUMBER_OF_PROCESS - 2
<1>1. PICK n, S, P : n = MAXIMUM_NUMBER_OF_PROCESS /\ S = 1 .. n - 1 /\ P = Processes(st)
  OBVIOUS
<1>2. n \in Nat /\ n >= 2
  BY <1>1, ProcessAssumption
<1>3. Slots \ {IDLE} = S
  BY <1>1, <1>2 DEF Slots, IDLE
<1>4. IsFiniteSet(S) /\ Cardinality(S) = n - 1
  <2>1. 1 \in Int /\ n - 1 \in Int /\ ~ (1 > n - 1) /\ (n - 1) - 1 + 1 = n - 1
    BY <1>2
  <2> QED
    BY <1>1, <2>1, FS_Interval
<1>5. P \in SUBSET S
  BY <1>1, <1>3 DEF Processes
<1>6. IsFiniteSet(P) /\ Cardinality(P) <= n - 1
  BY <1>4, <1>5, FS_Subset
<1>7. Cardinality(P) \in Nat
  BY <1>6, FS_CardinalityType
<1>8. ASSUME NEW q \in S, q \notin P PROVE Cardinality(P) <= n - 2
  <2>1. IsFiniteSet(S \ {q}) /\ Cardinality(S \ {q}) = n - 2
    BY <1>2, <1>4, <1>8, FS_RemoveElement
  <2>2. P \in SUBSET (S \ {q})
    BY <1>5, <1>8
  <2> QED
    BY <2>1, <2>2, FS_Subset
<1> QED
  BY <1>1, <1>3, <1>6, <1>7, <1>8

\* In a memory with room, at least one page is free, and eight while a slot is.
LEMMA RoomLeft ==
  ASSUME EnoughInv, Roomy, boot = "running", Len(free) \in Nat,
         Cardinality(UsablePages(mem_map)) \in Nat
  PROVE  /\ Len(free) >= 1
         /\ \A q \in Slots \ {IDLE} : q \notin Processes(state) => Len(free) >= 8
<1>1. PICK n, c, l, u : /\ n = MAXIMUM_NUMBER_OF_PROCESS /\ c = Cardinality(Processes(state))
                        /\ l = Len(free) /\ u = Cardinality(UsablePages(mem_map))
  OBVIOUS
<1>2. n \in Nat /\ n >= 2 /\ c \in Nat /\ l \in Nat /\ u \in Nat /\ c <= n - 1
  BY <1>1, ProcessCount, ProcessAssumption
<1>3. l + 5 + 7 * c = u /\ u >= 12 + 7 * (n - 2) + 1
  BY <1>1 DEF EnoughInv, Roomy, PagesForAllSlots
<1>4. l >= 1 /\ (c <= n - 2 => l >= 8)
  BY <1>2, <1>3
<1> QED
  BY <1>1, <1>4, ProcessCount

\* Usable pages lie below the limit on physical memory, so that there are finitely
\* many of them.
LEMMA UsableFinite ==
  ASSUME NEW map \in Seq(RegionType)
  PROVE  Cardinality(UsablePages(map)) \in Nat
<1>1. PICK n \in Nat : n = PHYSICAL_MEMORY_SIZE \div PAGE_SIZE
  BY MapAssumption, PageOfAddress
<1>2. IsFiniteSet(0 .. n)
  BY <1>1, FS_Interval
<1>3. UsablePages(map) \in SUBSET (0 .. n)
  BY <1>1 DEF UsablePages
<1> QED
  BY <1>2, <1>3, FS_Subset, FS_CardinalityType

\* Booting in a memory with room: each stage finds the pages it needs.
LEMMA EnoughAtBoot ==
  ASSUME OrderedMaps, MemInv, HeapIsFreeMemory, EnoughInv, BootStep, UNCHANGED vars,
         MemInv', Roomy'
  PROVE  EnoughInv'
<1>1. /\ mem_map' \in Seq(RegionType)
      /\ boot \in HeapReady => Len(free) \in Nat
      /\ boot' \in HeapReady => HeapOK(Heap') /\ Len(free') \in Nat
  <2>1. /\ mem_map' \in Seq(RegionType)
        /\ boot \in HeapReady => HeapOK(Heap)
        /\ boot' \in HeapReady => HeapOK(Heap')
    BY DEF MemInv, LoaderInv, TableInv, RegionType
  <2>2. Heap.free = free /\ Heap'.free = free'
    BY DEF Heap
  <2> QED
    BY <2>1, <2>2, FreeInHeap
<1>2. PICK u \in Nat : u = Cardinality(UsablePages(mem_map'))
  BY <1>1, UsableFinite
<1>3. u >= 13 /\ Len(mem_map') < MEMORY_MAX_FREE_REGIONS
  <2>1. u >= 12 + 7 * (MAXIMUM_NUMBER_OF_PROCESS - 2) + 1
    BY <1>2 DEF Roomy, PagesForAllSlots
  <2> QED
    BY <1>2, <2>1, ProcessAssumption DEF Roomy
<1>4. CASE LoaderReadsMap \/ LoaderDone
  <2>1. boot' \in {"loader", "halted", "RetrieveMemoryInfo"}
    BY <1>4 DEF LoaderReadsMap, LoaderDone
  <2> QED
    BY <2>1 DEF EnoughInv
<1>5. CASE BootRetrieveMemoryInfo
  <2>1. UNCHANGED mem_map
    BY <1>5 DEF BootRetrieveMemoryInfo, Panic, mapVars
  <2>2. boot' = "InitMemory"
    <3>1. Len(mem_map) \in Nat /\ MEMORY_MAX_FREE_REGIONS \in Nat
      BY <1>1, <2>1, MapAssumption
    <3>2. ~ (Len(mem_map) >= MEMORY_MAX_FREE_REGIONS)
      BY <1>3, <2>1, <3>1
    <3> QED
      BY <1>5, <3>2 DEF BootRetrieveMemoryInfo
  <2>3. Range(free') = UsablePages(mem_map')
    BY <1>5, <2>1, <2>2, RetrieveInv
  <2>4. free' \in Seq(DOMAIN table') /\ NoDuplicates(free')
    BY <1>1, <2>2 DEF HeapReady, HeapOK, Heap
  <2>5. Cardinality(Range(free')) = Len(free')
    BY <2>4, DistinctLength
  <2> QED
    BY <2>2, <2>3, <2>5 DEF EnoughInv
<1>6. ASSUME UNCHANGED mem_map
      PROVE  /\ boot = "InitMemory" => Len(free) = u
             /\ boot = "InitFileSystem" => Len(free) + 3 = u
             /\ boot = "InitProcess" => Len(free) + 5 = u
  BY <1>2, <1>6 DEF EnoughInv, Roomy
<1>7. CASE BootInitMemory
  <2>1. UNCHANGED mem_map /\ boot = "InitMemory"
    BY <1>7 DEF BootInitMemory, Panic, mapVars
  <2>2. boot' = "InitFileSystem" /\ Len(free) = Len(free') + 3
    BY <1>1, <1>3, <1>6, <1>7, <2>1, InitMemoryInv DEF HeapReady
  <2> QED
    BY <1>2, <1>6, <2>1, <2>2 DEF EnoughInv
<1>8. CASE BootInitFileSystem
  <2>1. UNCHANGED mem_map /\ boot = "InitFileSystem"
    BY <1>8 DEF BootInitFileSystem, Panic, mapVars
  <2>2. Len(free) \in Nat /\ Len(free) >= 2
    BY <1>1, <1>3, <1>6, <2>1 DEF HeapReady
  <2>3. boot' = "InitProcess" /\ Len(free) = Len(free') + 2
    BY <1>8, <2>2, InitFileSystemInv
  <2>4. Len(free') + 5 = u
    BY <1>1, <1>6, <2>1, <2>3 DEF HeapReady
  <2> QED
    BY <1>2, <2>3, <2>4 DEF EnoughInv
<1>9. CASE BootInitProcess
  <2>1. UNCHANGED mem_map /\ boot = "InitProcess"
    BY <1>9 DEF BootInitProcess, Panic, mapVars
  <2>2. Len(free) \in Nat /\ Len(free) >= 7
    BY <1>1, <1>3, <1>6, <2>1 DEF HeapReady
  <2>3. boot' = "running" /\ Len(free) = Len(free') + 7
    BY <1>9, <2>2, InitProcessInv
  <2>4. \A p \in Slots : state'[p] = IF p = IDLE THEN "RUNNING"
                                     ELSE IF p = SHELL THEN "READY" ELSE "UNUSED"
    BY <2>1 DEF MemInv, TableInv, AtBoot, vars, procVars
  <2>5. Processes(state') = {SHELL}
    BY <2>4, IdleSlot DEF Processes, CompleteIn
  <2>6. Cardinality(Processes(state')) = 1
    BY <2>5, FS_Singleton
  <2>7. Len(free') + 5 + 7 * 1 = u
    BY <1>1, <1>6, <2>1, <2>3 DEF HeapReady
  <2> QED
    BY <1>2, <2>3, <2>4, <2>6, <2>7 DEF EnoughInv
<1> QED
  BY <1>4, <1>5, <1>7, <1>8, <1>9 DEF BootStep

\* Running in a memory with room: no fork fails for lack of a page, so that Wait()
\* gives back all that Fork() took.
LEMMA EnoughWhenRunning ==
  ASSUME MemInv, EnoughInv, boot = "running", Running, MemInv', Roomy'
  PROVE  EnoughInv'
<1>1. SchedulerInv /\ RunningInv /\ UNCHANGED mem_map
  BY WhenRunning, RunningStep DEF MemInv, mapVars
<1>2. Roomy /\ mem_map \in Seq(RegionType) /\ Len(free) \in Nat
  <2>1. Roomy /\ mem_map \in Seq(RegionType)
    BY <1>1 DEF Roomy, MemInv, LoaderInv, RegionType
  <2>2. HeapOK(Heap) /\ Heap.free = free
    BY <1>1 DEF RunningInv, Heap
  <2> QED
    BY <2>1, <2>2, FreeInHeap
<1>3. PICK u \in Nat : u = Cardinality(UsablePages(mem_map))
  BY <1>2, UsableFinite
<1>4. PICK P, P2, c, l : /\ P = Processes(state) /\ P2 = Processes(state')
                         /\ c = Cardinality(P) /\ l = Len(free)
  OBVIOUS
<1>5. /\ l + 5 + 7 * c = u /\ c \in Nat /\ l \in Nat /\ IsFiniteSet(P)
      /\ \A p \in Slots : state[p] # "INITIALIZED"
  BY <1>2, <1>3, <1>4, ProcessCount DEF EnoughInv
<1>6. l >= 1 /\ \A q \in Slots \ {IDLE} : q \notin P => l >= 8
  BY <1>2, <1>3, <1>4, RoomLeft
<1>7. ASSUME boot' = "running", Len(free') + 5 + 7 * Cardinality(P2) = u,
             \A p \in Slots : state'[p] # "INITIALIZED"
      PROVE  EnoughInv'
  BY <1>1, <1>3, <1>4, <1>7 DEF EnoughInv
<1>8. state \in [Slots -> ProcessState]
  BY <1>1 DEF SchedulerInv, TypeOK
<1>9. CASE Quiet
  <2>1. UNCHANGED <<boot, free>>
    BY <1>9 DEF Quiet, memVars
  <2>2. P2 = P /\ \A p \in Slots : state'[p] # "INITIALIZED"
    BY <1>4, <1>5, <1>9 DEF Quiet, SameSlotsInUse, Processes, CompleteIn
  <2> QED
    BY <1>4, <1>5, <1>7, <2>1, <2>2
<1>10. CASE ForkWithoutMap
  <2>1. UNCHANGED <<boot, state>>
    BY <1>10 DEF ForkWithoutMap, ForkFailsInSetupKVM, procVars
  <2>2. Len(free') = Len(free)
    BY <1>1, <1>10, ForkWithoutMapInv
  <2> QED
    BY <1>4, <1>5, <1>7, <2>1, <2>2
<1>11. ASSUME NewAddressSpace
       PROVE  FindFreeProcessSlot \in Slots \ {IDLE} /\ FindFreeProcessSlot \notin P
  <2>1. FindFreeProcessSlot \in Slots /\ state[FindFreeProcessSlot] = "UNUSED"
    BY <1>11, FreeSlotFound DEF NewAddressSpace, FreeSlots
  <2> QED
    BY <1>1, <1>4, <2>1 DEF Processes, CompleteIn, SchedulerInv, ListsMatchStates
<1>12. CASE ForkWithoutUserPage
  <2>1. Len(free) < 7
    BY <1>1, <1>12, ForkCases
  <2>2. Len(free) >= 8
    BY <1>4, <1>6, <1>11, <1>12 DEF ForkWithoutUserPage
  <2> QED
    BY <1>2, <2>1, <2>2
<1>13. CASE ForkCompletes
  <2>1. PICK q : q = FindFreeProcessSlot
    OBVIOUS
  <2>2. /\ q \in Slots \ {IDLE} /\ q \notin P /\ UNCHANGED boot
        /\ state' = [state EXCEPT ![q] = "READY"]
    BY <1>11, <1>13, <2>1 DEF ForkCompletes, NewAddressSpace, ForkSucceeds
  <2>3. Len(free) = Len(free') + 7
    BY <1>1, <1>13, ForkCases
  <2>4. P2 = P \cup {q} /\ \A p \in Slots : state'[p] # "INITIALIZED"
    BY <1>4, <1>5, <1>8, <2>2 DEF Processes, CompleteIn
  <2>5. Cardinality(P2) = c + 1
    BY <1>4, <1>5, <2>2, <2>4, FS_AddElement
  <2>6. Len(free') \in Nat
    <3>1. RunningInv' /\ Heap'.free = free'
      BY <1>1, <1>13, ForkCases DEF Heap
    <3> QED
      BY <3>1, FreeInHeap DEF RunningInv
  <2>7. Len(free') + 5 + 7 * (c + 1) = u
    BY <1>4, <1>5, <2>3, <2>6
  <2> QED
    BY <1>7, <2>2, <2>4, <2>5, <2>7
<1>14. CASE WaitFreesPages
  <2>1. PICK q \in Slots : /\ state[q] = "KILLED" /\ q # IDLE
                           /\ state' = [state EXCEPT ![q] = "UNUSED"]
    BY <1>1, <1>14, ReapedProcess DEF WaitFreesPages, SchedulerInv
  <2>2. Len(free') = Len(free) + 7 /\ UNCHANGED boot
    BY <1>1, <1>14, WaitFreesInv DEF WaitFreesPages
  <2>3. q \in P /\ P2 = P \ {q} /\ \A p \in Slots : state'[p] # "INITIALIZED"
    BY <1>4, <1>5, <1>8, <2>1 DEF Processes, CompleteIn
  <2>4. Cardinality(P2) = c - 1
    BY <1>4, <1>5, <2>3, FS_RemoveElement
  <2>5. Len(free') + 5 + 7 * (c - 1) = u
    BY <1>4, <1>5, <2>2
  <2> QED
    BY <1>7, <2>2, <2>3, <2>4, <2>5
<1>15. CASE FileCallWithoutPage
  BY <1>4, <1>6, <1>15 DEF FileCallWithoutPage
<1> QED
  BY <1>1, <1>9, <1>10, <1>12, <1>13, <1>14, <1>15, RunningCases

\* With memory for the kernel, for every slot and for one page more, the kernel
\* never panics for lack of a page: neither at boot nor after any sequence of
\* forks, exits and waits, for any number of slots and any memory map in order.
THEOREM AlwaysEnoughPages == OrderedMaps => (MemSpec => []EnoughPages)
<1> SUFFICES ASSUME OrderedMaps PROVE MemSpec => []EnoughPages
  OBVIOUS
<1> DEFINE Both == MemInv /\ HeapIsFreeMemory
<1>1. MemSpec => []Both
  BY MemInvHolds
<1>2. MemInit => EnoughInv
  BY DEF MemInit, EnoughInv
<1>3. Both /\ Both' /\ EnoughInv /\ [MemNext]_allVars => EnoughInv'
  <2> SUFFICES ASSUME Both, Both', EnoughInv, [MemNext]_allVars, Roomy'
               PROVE  EnoughInv'
    BY DEF EnoughInv
  <2>1. CASE UNCHANGED allVars
    <3>1. UNCHANGED <<boot, mem_map, free, state>>
      BY <2>1 DEF allVars, memVars, mapVars, vars, procVars
    <3> QED
      BY <3>1 DEF EnoughInv, Roomy
  <2>2. CASE BootStep /\ UNCHANGED vars
    BY <2>2, EnoughAtBoot
  <2>3. CASE boot = "running" /\ Running
    BY <2>3, EnoughWhenRunning
  <2> QED
    BY <2>1, <2>2, <2>3 DEF MemNext, Stopped
<1>4. Both /\ EnoughInv => EnoughPages
  <2> SUFFICES ASSUME MemInv, EnoughInv, Roomy
               PROVE  boot # "panic" /\ (boot = "running" => free # <<>>)
    BY DEF EnoughPages, Roomy
  <2>1. boot # "panic"
    BY DEF EnoughInv
  <2>2. ASSUME boot = "running" PROVE free # <<>>
    <3>1. HeapOK(Heap) /\ Heap.free = free /\ mem_map \in Seq(RegionType)
      BY <2>2 DEF MemInv, TableInv, LoaderInv, HeapReady, Heap, RegionType
    <3>2. Len(free) \in Nat /\ Cardinality(UsablePages(mem_map)) \in Nat
      BY <3>1, FreeInHeap, UsableFinite
    <3>3. Len(free) >= 1
      BY <2>2, <3>2, RoomLeft
    <3> QED
      BY <3>3
  <2> QED
    BY <2>1, <2>2
<1> QED
  BY <1>1, <1>2, <1>3, <1>4, PTL DEF MemSpec

=============================================================================
