----------------------------- MODULE MemoryMap ------------------------------
(***************************************************************************)
(* From the memory map of the BIOS to the pages of the kernel's heap:      *)
(* RetrieveMemoryInfo and FreeRegion of kernel/memory.c with the macros of *)
(* kernel/memory.h.                                                        *)
(*                                                                         *)
(* Addresses are physical; the code adds KERNEL_VIRTUAL_ADDRESS_BASE to    *)
(* every one of them.  A page is its number, address \div PAGE_SIZE.       *)
(***************************************************************************)
EXTENDS Integers, Sequences

CONSTANTS
  PAGE_SIZE,                  \* 2 MB
  l_kernel_end,               \* the linker's symbol
  PHYSICAL_MEMORY_SIZE,       \* 1 GB
  MEMORY_MAX_FREE_REGIONS     \* 50

ASSUME MapAssumption ==
  /\ PAGE_SIZE \in Nat \ {0}
  /\ {PHYSICAL_MEMORY_SIZE, MEMORY_MAX_FREE_REGIONS} \subseteq Nat
  /\ l_kernel_end \in Nat \ {0}

MEMORY_REGION_USABLE_RAM_TYPE == 1

MutPageAlignDown(a) == (a \div PAGE_SIZE) * PAGE_SIZE
PAGE_ALIGN_UP(a)    == ((a + PAGE_SIZE - 1) \div PAGE_SIZE) * PAGE_SIZE

-----------------------------------------------------------------------------
\* FreeRegion: the whole pages between start and end, in ascending order,
\* without those that end behind PHYSICAL_MEMORY_SIZE.
FreeRegion(start, end) ==
  LET first == PAGE_ALIGN_UP(start) \div PAGE_SIZE
      limit == IF end <= PHYSICAL_MEMORY_SIZE THEN end ELSE PHYSICAL_MEMORY_SIZE
      last  == limit \div PAGE_SIZE
  IN  [i \in 1 .. (IF last > first THEN last - first ELSE 0) |-> first + i - 1]

\* The second loop of RetrieveMemoryInfo for one region: what is behind the
\* kernel.
CollectRegion(r) ==
  LET end == r.address + r.length
  IN  IF r.type # MEMORY_REGION_USABLE_RAM_TYPE THEN <<>>
      ELSE IF r.address > l_kernel_end THEN FreeRegion(r.address, end)
      ELSE IF end > l_kernel_end THEN FreeRegion(l_kernel_end, end)
      ELSE <<>>

\* The pages in the order in which they are freed.
FreedPages(map) ==
  LET freed[i \in 0 .. Len(map)] ==
        IF i = 0 THEN <<>> ELSE freed[i - 1] \o CollectRegion(map[i])
  IN  freed[Len(map)]

\* kfree puts each page before the others.
Reverse(s) == [i \in 1 .. Len(s) |-> s[Len(s) + 1 - i]]

\* s_free_memory_end_address: the end of the head of the list.
MutStartOfHead(pages) ==
  IF pages = <<>> THEN PAGE_SIZE ELSE pages[Len(pages)] * PAGE_SIZE

FreeMemoryEnd(pages) ==
  IF pages = <<>> THEN PAGE_SIZE
  ELSE pages[Len(pages)] * PAGE_SIZE + PAGE_SIZE

-----------------------------------------------------------------------------
(* What the heap should be, without the loops: the pages that lie in a     *)
(* usable region, behind the kernel and below the limit.                   *)

UsablePages(map) ==
  {p \in 0 .. PHYSICAL_MEMORY_SIZE \div PAGE_SIZE :
     /\ p * PAGE_SIZE >= l_kernel_end
     /\ (p + 1) * PAGE_SIZE <= PHYSICAL_MEMORY_SIZE
     /\ \E i \in 1 .. Len(map) :
          /\ map[i].type = MEMORY_REGION_USABLE_RAM_TYPE
          /\ map[i].address <= p * PAGE_SIZE
          /\ (p + 1) * PAGE_SIZE <= map[i].address + map[i].length}

=============================================================================
