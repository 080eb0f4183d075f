------------------------------- MODULE Memory -------------------------------
(***************************************************************************)
(* The page allocator and the page maps of kernel/memory.c, and what Fork  *)
(* and Wait of kernel/process.c do with them, on top of Scheduler.         *)
(*                                                                         *)
(* Everything is allocated in pages of 2 MB: kernel stacks, user memory,   *)
(* and every table of a page map (PML4, page directory pointer table, page *)
(* directory).  table[p] is what page p holds when it is used as a table:  *)
(* at each of the three indices that occur, the page its entry points to,  *)
(* or NoPage if the entry is not present.                                  *)
(*                                                                         *)
(* The kernel runs with interrupts disabled, so an allocation sequence is  *)
(* one step; its operators take the heap h == [free, table] and return the *)
(* next one.                                                               *)
(*                                                                         *)
(* A behaviour begins in the loader, which asks the BIOS for the memory    *)
(* map; module MemoryMap says which pages that makes.  boot is the next    *)
(* stage of the boot, then "running"; "panic" is the loop that ends panic(),*)
(* and "halted" the one that ends the loader.                              *)
(***************************************************************************)
EXTENDS Scheduler, MemoryMap, FiniteSets

CONSTANTS BiosMaps    \* the memory maps a BIOS may report

ASSUME BiosAssumption ==
  \A m \in BiosMaps : m \in Seq([address : Nat, length : Nat, type : 1 .. 5])

NoPage == 0           \* page 0 is never in the heap: the kernel is behind it

USER_PML4 == 0        \* index of USER_VIRTUAL_ADDRESS_BASE, 0x400000, ...
USER_PD   == 2
KERNEL_PML4 == 256    \* ... and of KERNEL_VIRTUAL_ADDRESS_BASE
Indices == {0, USER_PD, KERNEL_PML4}

KernelFrames == -1    \* the entries of a kernel page directory: all of
                      \* physical memory, owned by no page map

VARIABLES
  boot,
  bios,               \* the BIOS's memory map
  mem_map,            \* what the loader has stored of it at 0x9008
  free,               \* the list at s_free_memory_page_head
  s_free_memory_end_address,
  table,
  stack, page_map,    \* fields of each Process slot
  kernel_pages        \* FCB table and FD table

mapVars == <<bios, mem_map, s_free_memory_end_address>>
memVars == <<boot, mapVars, free, table, stack, page_map, kernel_pages>>
allVars == <<vars, memVars>>

-----------------------------------------------------------------------------
(* The allocator: a stack of pages.                                        *)

Heap == [free |-> free, table |-> table]

\* The page kalloc() would return.
Top(h) == IF h.free = <<>> THEN NoPage ELSE Head(h.free)

\* kalloc() of a page and the memset to zero that follows everywhere.
kalloc(h) ==
  [free  |-> Tail(h.free),
   table |-> [h.table EXCEPT ![Top(h)] = [i \in Indices |-> NoPage]]]

\* kfree(p): the link to the next free page overwrites the first entry; it is
\* an aligned address, so the entry is not present.
kfree(h, p) ==
  [free |-> <<p>> \o h.free, table |-> [h.table EXCEPT ![p][0] = NoPage]]

-----------------------------------------------------------------------------
(* Page maps.                                                              *)

\* FindPML4TableEntry and FindPageDirPointerTableEntry with alloc = 1: the
\* table that entry i of table t points to, allocated if it is not there.
FindEntry(h, t, i) ==
  IF h.table[t][i] # NoPage THEN [heap |-> h, page |-> h.table[t][i]]
  ELSE IF h.free = <<>> THEN [heap |-> h, page |-> NoPage]
  ELSE [heap |-> [kalloc(h) EXCEPT !.table[t][i] = Top(h)], page |-> Top(h)]

\* The page directory under entry i of a map, with alloc = 0.
PageDirectory(h, map, i) ==
  IF h.table[map][i] = NoPage THEN NoPage ELSE h.table[h.table[map][i]][0]

\* MapPages: directory entry j under map entry i points to page.
MapPages(h, map, i, j, page) ==
  LET pdpt == FindEntry(h, map, i)
      pd   == FindEntry(pdpt.heap, pdpt.page, 0)
  IN  IF pdpt.page = NoPage THEN [heap |-> pdpt.heap, ok |-> FALSE]
      ELSE IF pd.page = NoPage THEN [heap |-> pd.heap, ok |-> FALSE]
      ELSE [heap |-> [pd.heap EXCEPT !.table[pd.page][j] = page], ok |-> TRUE]

\* FreePages: the user page.
FreePages(h, map) ==
  LET pd == PageDirectory(h, map, USER_PML4)
  IN  IF pd # NoPage /\ h.table[pd][USER_PD] # NoPage
      THEN [kfree(h, h.table[pd][USER_PD]) EXCEPT !.table[pd][USER_PD] = NoPage]
      ELSE h

\* FreePDTable and FreePDPTable, for one entry of the map.
FreePDTableAt(h, map, i) ==
  IF PageDirectory(h, map, i) = NoPage THEN h
  ELSE [kfree(h, PageDirectory(h, map, i))
          EXCEPT !.table[h.table[map][i]][0] = NoPage]
FreePDPTableAt(h, map, i) ==
  IF h.table[map][i] = NoPage THEN h
  ELSE [kfree(h, h.table[map][i]) EXCEPT !.table[map][i] = NoPage]

FreePDTable(h, map)  == FreePDTableAt(FreePDTableAt(h, map, USER_PML4),
                                      map, KERNEL_PML4)
FreePDPTable(h, map) == FreePDPTableAt(FreePDPTableAt(h, map, USER_PML4),
                                       map, KERNEL_PML4)
FreePML4Table(h, map) == kfree(h, map)

\* FreeVM: from the lower to the higher level of the tables.
MutFreeTopDown(h, map) ==
  FreePML4Table(FreePDTable(FreePDPTable(FreePages(h, map), map), map), map)

FreeVM(h, map) ==
  FreePML4Table(FreePDPTable(FreePDTable(FreePages(h, map), map), map), map)

\* SetupKVM: a map with the kernel in it, or NoPage and nothing allocated.
SetupKVM(h) ==
  LET map == Top(h)
      m   == MapPages(kalloc(h), map, KERNEL_PML4, 0, KernelFrames)
  IN  IF map = NoPage THEN [heap |-> h, map |-> NoPage]
      ELSE IF m.ok THEN [heap |-> m.heap, map |-> map]
      ELSE [heap |-> FreeVM(m.heap, map), map |-> NoPage]

\* SetupUVM: a user page in the map.  If its tables cannot be allocated the
\* page and the whole map are freed; if there is no page, the map is left as it
\* is.
SetupUVM(h, map) ==
  LET page == Top(h)
      m    == MapPages(kalloc(h), map, USER_PML4, USER_PD, page)
  IN  IF page = NoPage THEN [heap |-> h, ok |-> FALSE]
      ELSE IF m.ok THEN m
      ELSE [heap |-> FreeVM(kfree(m.heap, page), map), ok |-> FALSE]

\* CopyUVM: the same for a child's map, with the contents of the user page of
\* the current process, which is looked for after the new page is in place.
MutCopyUVMFreesPageTwice(h, map, current) ==
  LET page == Top(h)
      m    == MapPages(kalloc(h), map, USER_PML4, USER_PD, page)
  IN  IF page = NoPage THEN [heap |-> h, ok |-> FALSE]
      ELSE IF m.ok THEN m
      ELSE [heap |-> FreeVM(kfree(kfree(m.heap, page), page), map), ok |-> FALSE]

CopyUVM(h, map, current) ==
  LET page == Top(h)
      m    == MapPages(kalloc(h), map, USER_PML4, USER_PD, page)
  IN  IF page = NoPage THEN [heap |-> h, ok |-> FALSE]
      ELSE IF m.ok /\ PageDirectory(m.heap, current, USER_PML4) # NoPage THEN m
      ELSE [heap |-> FreeVM(kfree(m.heap, page), map), ok |-> FALSE]

-----------------------------------------------------------------------------
(* Boot.  The process table is that of InitProcess from the start; nobody  *)
(* looks at it before the last stage is done.                              *)

MemInit ==
  /\ Init
  /\ boot = "loader" /\ bios \in BiosMaps /\ mem_map = <<>>
  /\ free = <<>> /\ table = <<>> /\ s_free_memory_end_address = 0
  /\ stack = [p \in Slots |-> NoPage] /\ page_map = [p \in Slots |-> NoPage]
  /\ kernel_pages = {}

Becomes(h) == free' = h.free /\ table' = h.table

\* A failed ASSERT, or an access through NULL: panic() does not return.
Panic == boot' = "panic" /\ UNCHANGED <<mapVars, free, table, stack, page_map,
                                        kernel_pages>>

\* GetMemoryInfoStart and GetMemoryInfo: one BIOS call each.  The last entry
\* comes with ebx = 0, or the call after it sets the carry flag.
LoaderReadsMap ==
  /\ boot = "loader" /\ Len(mem_map) < Len(bios)
  /\ mem_map' = Append(mem_map, bios[Len(mem_map) + 1])
  /\ UNCHANGED <<boot, bios, s_free_memory_end_address, free, table, stack,
                 page_map, kernel_pages>>

LoaderDone ==
  /\ boot = "loader" /\ Len(mem_map) = Len(bios)
  /\ boot' = IF mem_map = <<>> THEN "halted" ELSE "RetrieveMemoryInfo"
  /\ UNCHANGED <<mapVars, free, table, stack, page_map, kernel_pages>>

\* RetrieveMemoryInfo: the pages of the usable regions are freed in the order
\* of the map, so that the last one is the head of the list.
BootRetrieveMemoryInfo ==
  LET pages == FreedPages(mem_map)
  IN  /\ boot = "RetrieveMemoryInfo"
      /\ IF Len(mem_map) >= MEMORY_MAX_FREE_REGIONS THEN Panic
         ELSE /\ boot' = "InitMemory"
              /\ free' = Reverse(pages)
              /\ table' = [p \in Range(pages) |-> [i \in Indices |-> NoPage]]
              /\ s_free_memory_end_address' = FreeMemoryEnd(pages)
              /\ UNCHANGED <<bios, mem_map, stack, page_map, kernel_pages>>

\* InitMemory: the kernel's own map, later that of the idle task.
BootInitMemory ==
  LET kernel == SetupKVM(Heap)
  IN  /\ boot = "InitMemory"
      /\ IF kernel.map = NoPage THEN Panic
         ELSE /\ boot' = "InitFileSystem"
              /\ Becomes(kernel.heap)
              /\ page_map' = [page_map EXCEPT ![IDLE] = kernel.map]
              /\ UNCHANGED <<mapVars, stack, kernel_pages>>

\* InitFileSystem: a page for the first sector of the disk, given back, then
\* one for each table.
BootInitFileSystem ==
  LET second == kalloc(Heap)
  IN  /\ boot = "InitFileSystem"
      /\ IF Len(free) < 2 THEN Panic
         ELSE /\ boot' = "InitProcess"
              /\ Becomes(kalloc(second))
              /\ kernel_pages' = {Top(Heap), Top(second)}
              /\ UNCHANGED <<mapVars, stack, page_map>>

\* InitShellProcess: CreateNewProcess and SetupUVM.
BootInitProcess ==
  LET map  == SetupKVM(kalloc(Heap))
      user == SetupUVM(map.heap, map.map)
  IN  /\ boot = "InitProcess"
      /\ IF free = <<>> THEN Panic
         ELSE IF map.map = NoPage THEN Panic
         ELSE IF ~ user.ok THEN Panic
         ELSE /\ boot' = "running"
              /\ Becomes(user.heap)
              /\ stack' = [stack EXCEPT ![SHELL] = Top(Heap)]
              /\ page_map' = [page_map EXCEPT ![SHELL] = map.map]
              /\ UNCHANGED <<mapVars, kernel_pages>>

BootStep == \/ LoaderReadsMap \/ LoaderDone \/ BootRetrieveMemoryInfo
            \/ BootInitMemory \/ BootInitFileSystem \/ BootInitProcess

-----------------------------------------------------------------------------
(* Fork: the stack, the map, the user page; the outcome decides which of   *)
(* Scheduler's cases it is.                                                *)

Stacked == kalloc(Heap)
Mapped  == SetupKVM(Stacked)
Copied  == CopyUVM(Mapped.heap, Mapped.map, page_map[current_proc])

\* CreateNewProcess fails before or at the stack.
ForkWithoutStack ==
  /\ FreeSlots = {} \/ free = <<>>
  /\ ForkFailsEarly
  /\ UNCHANGED memVars

\* SetupKVM fails: the stack is given back and the slot cleared.
ForkWithoutMap ==
  /\ FreeSlots # {} /\ free # <<>> /\ Mapped.map = NoPage
  /\ ForkFailsInSetupKVM
  /\ Becomes(kfree(Mapped.heap, Top(Heap)))
  /\ UNCHANGED <<boot, mapVars, stack, page_map, kernel_pages>>

\* CopyUVM fails or not: the slot keeps its stack and its map.
NewAddressSpace ==
  /\ FreeSlots # {} /\ free # <<>> /\ Mapped.map # NoPage
  /\ Becomes(Copied.heap)
  /\ stack' = [stack EXCEPT ![FindFreeProcessSlot] = Top(Heap)]
  /\ page_map' = [page_map EXCEPT ![FindFreeProcessSlot] = Mapped.map]
  /\ UNCHANGED <<boot, mapVars, kernel_pages>>

ForkWithoutUserPage == NewAddressSpace /\ ~ Copied.ok /\ ForkFailsInCopyUVM
MutForkIgnoresCopyUVM == NewAddressSpace /\ ForkSucceeds
ForkCompletes       == NewAddressSpace /\ Copied.ok /\ ForkSucceeds

\* Wait cleans up the process that leaves the kill list.
Reaped == CHOOSE p \in Slots : Matches(p) /\ state[p] = "KILLED"

WaitFreesPages ==
  /\ WaitReaps
  /\ Becomes(FreeVM(kfree(Heap, stack[Reaped]), page_map[Reaped]))
  /\ stack' = [stack EXCEPT ![Reaped] = NoPage]
  /\ page_map' = [page_map EXCEPT ![Reaped] = NoPage]
  /\ UNCHANGED <<boot, mapVars, kernel_pages>>

\* open(), read() and exec() use one page at a time, for a sector of the
\* directory or for the data, and give it back before they return.  Only the
\* first would notice: FindFileInRootDir and ReadRawData do not test it for
\* NULL.
ExecBorrowsPage == free # <<>> /\ SysExec /\ UNCHANGED memVars
FileCallWithoutPage == free = <<>> /\ UserMode /\ Panic /\ UNCHANGED vars

Running ==
  \/ ForkWithoutStack \/ ForkWithoutMap \/ ForkWithoutUserPage \/ ForkCompletes
  \/ WaitFreesPages
  \/ ExecBorrowsPage \/ FileCallWithoutPage
  \/ (TimerInterrupt \/ SysExit \/ WaitSleeps \/ WaitSpins) /\ UNCHANGED memVars
  \/ \E p \in WaitPids : SysWait(p) /\ UNCHANGED memVars

Stopped == boot \in {"panic", "halted"} /\ UNCHANGED allVars

MemNext == \/ BootStep /\ UNCHANGED vars
           \/ boot = "running" /\ Running
           \/ Stopped

MemSpec == MemInit /\ [][MemNext]_allVars

-----------------------------------------------------------------------------
(* Properties.                                                             *)

Pages == DOMAIN table

\* The pages of a map: its tables, and the user page.
MapPagesOf(map) ==
  LET pdpts == {table[map][i] : i \in {USER_PML4, KERNEL_PML4}}
      pds   == {PageDirectory(Heap, map, i) : i \in {USER_PML4, KERNEL_PML4}}
      users == {table[pd][USER_PD] : pd \in pds \cap Pages}
  IN  ({map} \cup pdpts \cup pds \cup users) \cap Pages

\* The pages a slot keeps: those of a process, the stack of a slot that a failed
\* fork left behind, and the kernel's own under the idle task.
Complete(p) == state[p] \notin {"UNUSED", "INITIALIZED"}
OwnPages(p) == CASE p = IDLE -> MapPagesOf(page_map[p]) \cup kernel_pages
                 [] p # IDLE /\ Complete(p) ->
                      {stack[p]} \cup MapPagesOf(page_map[p])
                 [] p # IDLE /\ state[p] = "INITIALIZED" -> {stack[p]}
                 [] OTHER -> {}

\* Virtual memories are isolated (memory.h): no page belongs to two processes,
\* and none of them is in the free list, from where it would be handed out
\* again; the free list holds every page at most once.
Isolated ==
  boot = "running" =>
    /\ NoDuplicates(free)
    /\ \A p \in Slots : OwnPages(p) \cap Range(free) = {}
    /\ \A p, q \in Slots : p # q => OwnPages(p) \cap OwnPages(q) = {}

\* Whoever can get the CPU has a complete address space: a stack, the kernel at
\* its address and a user page at 0x400000, all different (7 pages).
AddressSpaceComplete ==
  boot = "running" =>
    \A p \in Slots \ {IDLE} : Complete(p) =>
      /\ Cardinality(OwnPages(p)) = 7
      /\ PageDirectory(Heap, page_map[p], KERNEL_PML4) \in Pages
      /\ table[PageDirectory(Heap, page_map[p], KERNEL_PML4)][0] = KernelFrames

\* No page is lost: while no fork has failed in CopyUVM, every page is free or
\* belongs to a slot; what Wait() frees is all that Fork() allocated.
PagesAccountedFor ==
  boot = "running" /\ (\A p \in Slots : state[p] # "INITIALIZED") =>
    Pages = Range(free) \cup UNION {OwnPages(p) : p \in Slots}

\* The heap is all of the usable memory behind the kernel and below 1 GB, in
\* whole pages, wherever the regions begin and end and whatever lies between them;
\* and the kernel's map, which ends where the head of the free list ends, reaches
\* every page of it (memory.h: "with size is all of our free memory").  That is so
\* for regions in ascending order without overlap, as BiosMaps has them; with others
\* the head of the list is not the end of memory.
HeapIsFreeMemory ==
  boot \notin {"loader", "halted", "RetrieveMemoryInfo"} /\ Pages # {} =>
    /\ Pages = UsablePages(mem_map)
    /\ \A p \in Pages : (p + 1) * PAGE_SIZE <= s_free_memory_end_address

\* With memory for the kernel, for every slot and for one page to borrow, the
\* kernel never panics for lack of a page, neither at boot nor after any sequence
\* of forks, exits and waits.
PagesForAllSlots == 12 + 7 * (MAXIMUM_NUMBER_OF_PROCESS - 2) + 1
EnoughPages ==
  /\ Len(mem_map) < MEMORY_MAX_FREE_REGIONS
  /\ Cardinality(UsablePages(mem_map)) >= PagesForAllSlots
  => boot # "panic" /\ (boot = "running" => free # <<>>)

=============================================================================
