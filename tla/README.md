# A TLA+ model of the LARVA-OS kernel

This directory holds a formal model of the x86-64 operating system in this
repository: TLA+ modules for the parts of the kernel and of the user programs that
keep state, TLC configurations that check them on small instances, and proofs,
checked by TLAPS, of the safety properties of most of them for every size.

Every definition is translated from the source; `PROJECT.json` (`map`) names the
lines of each. Definitions whose name starts with `Mut` are plausible bugs in the
operator that follows them. They are used by no specification; substituting one
shows that the property listed with it (`mutants`) notices the bug.

## 1. The system

One CPU, one kernel, up to ten processes of one 2 MB page of user memory each.

| component | state | operations | talks to |
|---|---|---|---|
| process manager (`kernel/process.c`) | `s_process_manager[10]` (state, pid, wait_id, stack, page_map, files), `s_pid_num`, the current process and three lists (ready, wait, kill) | `InitProcess`, `Yield`, `Sleep`, `Wakeup`, `Exit`, `Wait`, `Fork`, `Exec`, `Schedule` | called by the trap handler and system calls; calls memory and files |
| lists (`libc/list.c`) | `next`/`tail` pointers, `next` stored in the process itself | push back, pop front; two removal loops live in `process.c` | used by the scheduler |
| traps (`kernel/trap.c`, `trap.asm`) | `s_system_ticks`, the IDT | timer (10 ms), keyboard, spurious interrupt, system call, exceptions | scheduler, keyboard driver, system calls |
| system calls (`kernel/syscall.c`) | a dispatch table | write, sleep, exit, wait, read, meminfo, open, close, fork, exec, lstat, clear | everything |
| keyboard driver (`kernel/keyboard.c`) | ring buffer of 500 bytes, modifier flags | handler (producer), `ReadKeyBuffer` (consumer) | scheduler (`Sleep`/`Wakeup`) |
| memory manager (`kernel/memory.c`) | a stack of free 2 MB pages; page maps in pages of their own | `kalloc`, `kfree`, `SetupKVM`, `SetupUVM`, `CopyUVM`, `FreeVM` | boot, `Fork`, `Wait`, file buffers |
| file system (`kernel/file.c`) | descriptors per process, FD table, FCB table | open, close, read, size, lstat; FAT16 directory and clusters | disk, processes (fork shares, wait closes) |
| disk driver (`kernel/disk.c`) | none | read sectors by port I/O | file system |
| console (`kernel/printk.c`) | cursor, VGA buffer | print, clear | everyone |
| user programs (`usr/`) | local variables | shell: read a line, open, fork, exec, wait; `process1` forks and waits; `process3` loops; `process4`, `ls`, `clr` return | system calls |
| user runtime (`usr/runtime`), libc | none | wrappers, printf, strings | system calls |
| boot (`boot/`, `kernel.asm`, `main.c`) | none later | BIOS memory map, long mode, order of initialisation | kernel |

**What is hard.** All IDT gates are interrupt gates (`trap.c` 38-65), so kernel code
runs with interrupts disabled and control passes between processes only inside
`Schedule()`. A process that called `Sleep()` in the middle of a system call resumes
there much later, after steps of everybody else. That makes the hard behaviours:

- a wakeup (by a tick, a key, an exit) against a process that is about to sleep;
- conditions checked before `Sleep()` and relied on after it (`ReadKeyBuffer`), or
  polled with interrupts disabled (`Wait`);
- lists that share one `next` field in each process;
- slots that are reused while somebody waits for a pid;
- a fork that fails half way, at each of up to seven allocations;
- counts kept in two file tables over fork, close and the clean-up of killed processes;
- the wrap-around of the tick counter and of the ring buffer;
- the drive and the keyboard, which go on at their own pace: a command while the drive is
  busy, a key code that arrives in two interrupts;
- the host, which may change the disk image between two sectors of a search;
- registers that pass through five lists of pushes and pops in assembly, a C structure
  and two frames made by hand, while anybody may be interrupted between any two of them;
- long sequences of output that move one cursor by wrapping, scrolling and erasing.

The `hazards` of `PROJECT.json` list these at their lines with the properties that
would catch them; where a property covers a hazard in part, or none does, the note there
says why.

**What makes each part correct.** Scheduler: each process is in exactly the list of
its state, nobody starves, no wakeup is lost, a killed process never runs. Traps: a
process never notices one, and a call reaches the handler it was meant for. Keyboard:
a FIFO queue that loses keys only when it is full. Memory: the heap is the usable memory
and the kernel can reach all of it, no page has two owners, none is lost. Files: a name
leads to its file, the counts are exact, a read delivers the file's bytes and ends
(section 3 says how far it does).
Console: a message appears as it is meant, text is never printed over text, and the line
on the screen is the line the shell has. Shell: each command ends and is cleaned up.

## 2. Modules

```
ProcessQueue ── Scheduler ──┬── UserPrograms   shell and programs
                            ├── Context        registers, frames, kernel stacks, dispatch
                            ├── Keyboard ····· refines KeyQueue
         MemoryMap ─────────┼── Memory         boot, page allocator and page maps
                            └── FileTable      open files
IntrusiveList ····· refines Queues             list.c at pointer level
FileRead ── RootDirectory                      a file down to the drive; the directory
Format ── Console                              printk and printf; the screen and the shell
ScanCode                                       key codes to characters
*Proofs                                        theorems: SchedulerProofs (also ProcessQueue),
                                               ContextProofs, KeyboardProofs (also ScanCode),
                                               MemoryProofs, FileTableProofs,
                                               IntrusiveListProofs, RootDirectoryProofs (also
                                               FileRead), ShellProofs (UserPrograms, Console)
MC*                                            instances for TLC
```

The five modules to the right of `Scheduler` extend it: each conjoins its own state
change to the scheduler's action for the same handler (for instance `Memory`'s
`ForkWithoutMap` is `ForkFailsInSetupKVM` plus what happens to the heap), and so
decides a choice `Scheduler` leaves open.

### Scheduler

State: the fields of each slot, `current_proc`, the lists as sequences of slots,
`s_pid_num`, `s_system_ticks`, and for each slot the system call it is suspended in
(`call`, `arg`, `old_ticks`), which stands for its kernel stack. `call[p] = "none"`
means user code (or the idle loop, `kernel.asm` 137-140), and only then are
interrupts enabled.

| action | code |
|---|---|
| `TimerInterrupt` | vector 32: tick, `Wakeup(-1)`, `Yield` |
| `KeyboardInterrupt` | vector 33 with a character: `Wakeup(-2)`, no reschedule |
| `UserException`, `SysExit` | `Exit` |
| `SysExec` | `Exec`: the process ends if the file cannot be opened, or only its memory changes |
| `SysSleep`, `SysWait`, `SysReadKey` | entering a blocking call |
| `SleepLoopBlocks`, `SleepLoopReturns` | the loop of `SysSleep` |
| `WaitReaps`, `WaitSleeps`, `WaitSpins` | the three outcomes of a round of `Wait`'s loop |
| `ReadKeyBlocks`, `ReadKeyReturns` | `SysRead` from the keyboard |
| `ForkSucceeds`, `ForkFailsEarly`, `ForkFailsInSetupKVM`, `ForkFailsInCopyUVM` | the ways through `Fork` |

User code is arbitrary: any process may make any call at any time. `Wakeup` calls
`WaitListRemoveReadyProcess` until it finds nothing; the result is the filter
`Select`, and `IntrusiveList` justifies it at the level of pointers.

Trap frames, registers and the TSS are not part of the state here: the kernel stack in
use is that of `current_proc`. `Context` shows that this is so.

### Context

The registers, a kernel stack per slot as the sequence of the words pushed on it, the
saved stack pointer of each process, the stack in use and the one in the TSS. `Trap`,
`TrapReturn`, `SetTSS` and `ContextSwitch` are operators from machine to machine; the
orders of their pushes and pops are the sequences at the top of the module, in the order
of the source, and so is `TrapFrame`. A step is a step of `Scheduler` with the operators
on its way in and out: `Ends` is `SwitchProcess` if the scheduler chose somebody else,
and `TrapReturn` if that process is not in the middle of a call. The kernel's own C code
is represented by a value in each register that a function must preserve.

User code may be interrupted anywhere; the interesting place is the int instruction of a
wrapper, with the registers loaded (`Wrapper`, then `SystemCall`). `expect` is what user
code relies on and `asked` the call it made, both history.

### UserPrograms

`upc` is the next user-level step of the program in each slot. A blocking call moves
`upc` at once to the step after it, where the process arrives when the kernel returns.
`Commands` is what may be typed, `MemoryShortage` whether forks may fail. The
shell itself is assumed not to fault; every other program may. The check by
`open` before the fork, `cat` and `mem` come back to the prompt and are one step.

### Keyboard and KeyQueue

`buffer`, `front`, `end` as in the code; `saved` is the local variable `front` of
`ReadKeyBuffer`, which it reads before `Sleep` and uses after. A key is the number of
its keystroke, so that it can be told which was delivered. `KeyQueue` is the abstract
bounded queue; the ring between `front` and `end` maps to it.

### IntrusiveList and Queues

`next` and `tail` pointers. An item that leaves a list keeps its `next`, as in the
code. The head of a list doubles as the item before the first, as the removal loops
have it (`prev = (List *)list`). Both loops look for the first match of a predicate
(wait_id or pid), which is a set of items here. `Queues` is the abstract
specification, one sequence per list.

### MemoryMap and Memory

`MemoryMap` is the way from the BIOS's list of regions to the pages of the heap, without
state; `UsablePages` says what the result should be without following the loops.

`Memory` begins in the loader and goes through the stages of `KMain` that take pages;
`boot` is the next stage, `"panic"` the end of `panic()`, in which a failed `ASSERT` and
an access through a null pointer end, and `"halted"` the loader without a memory map.
`free` is the stack of free pages. `table[p]` is the contents of page `p` as a page
table, at the three indices that occur (0, 2 and 256), with `kfree` overwriting entry
0 as the code does. `SetupKVM`, `MapPages`, `SetupUVM`, `CopyUVM` and `FreeVM` are
operators from heap to heap; a fork is one step because interrupts are disabled. The
entries of a kernel page directory map all of physical memory and own nothing, so one
value stands for all. `open`, `read` and `exec` take one page at a time and give it back,
so the heap is the same afterwards, unless there is none (`FileCallWithoutPage`).

### FileTable

Descriptors, FD entries and FCBs with their counts, the shared read position, and the
file sizes on disk, in the FCB and for `Read`. The kernel does not write to the disk,
but the repository's README has the host edit files on the mounted image, so sizes may
change under the kernel (`HostWrites`). What a read returns is the subject of `FileRead`.

### FileRead

One descriptor on a file of an image with a given BPB, and the drive. `fcb` is the table
of control blocks with their counts, `file` the slot the descriptor is on; a block also
has the list of clusters that the FAT gives for the file (`chain`), of which the code
stores the first. `page` is what has been read into the kernel's buffer so far. A byte is
its address on the disk, so `ReadsTheFile` and `ReadsLoadedClusters` can compare what
reached the user with what the file has there. `ReadStarts` is `Read`, `ReadRawData` and
`ReadFileData` up to the command; `ReadSector` and `WaitForDrive` are the loops of
`DiskReadSectors`; `ReadReturns` is the copy and the new position. The drive
(`DriveTakes`, `DriveReady`) is external: it hands out the sectors of a command one by
one, takes a count of 0 for 256 as the ATA standard has it, and, being busy, may ignore a
command or start it. `CountModulus` is 256 made small. The 16-bit variables of the
code do not overflow for files that fit into the 2 MB page and are not modelled.

### RootDirectory

Extends `FileRead`: the same drive, now with the directory and the calls that search it.
`dir` says for each entry of the root directory whether it is empty, deleted, created or
written, and which clusters and size its file has; names and attributes are those of
`Entries`, and so are the clusters and sizes the host may choose from. The host (external)
creates, rewrites and deletes entries at any time, also between the sectors of a search and
while a file is open, and keeps the names of files distinct. `OpenEntry` is the end of
`Open`: the control block is set up only if no descriptor is on it (`Linked`), so that a
later one shares what the first one found. One descriptor, the first that is opened, reads;
up to `MaxOpen` others come and go (`OtherCloses`), of which the counts tell. A search reads
one sector, looks at its entries (`Listed`, `Found`) and returns or goes on with the next
sector. `steady` is history: the entries the host left alone since the call began, for
which the outcome is determined. The name of an entry is made as `GetRelativeFileName`
makes it, always with a dot; `listed` is what `ls` shows, and that is the name to open.

### Console

`cell`, `column` and `row` are the screen, and `WriteVGA` is one character of the loop
in the function of that name. The shell's `main` is a program counter with the actions
of the prompt, `ReadCmd` and what follows. `buffer` has one cell more than the array of
the code: the byte after it, which `main` may write and `open` may read. Which command it
is matters only for whether the string in `buffer` is ended afterwards, so `cat` and
running a program are one action. `text` is what `WriteVGA` has still to write and `said`
the message it comes from. If the text of a message asks `printk` for arguments, it gets
any of `Leftovers`: a number, a string, or (`FAULT`) the address of nothing, which ends in
`panic()`.

### Format

What `printk` and `printf` make of a format and its arguments. Both are the same code
twice, and `SysWrite` passes the text that `printf` has made to `printk` as a format
without arguments, so every message is formatted twice; the second time `printk` takes
whatever the registers and the stack hold for each specifier in the text (`SysWrite`). A
message of `Console` is a sequence of pieces (text of the format, or a specifier with its
argument); `FormatOf` and `ArgsOf` make the call, `Meant` says what it should print, with
numerals place by place where the code divides. An argument is the 64-bit word `va_arg` takes; an `int`
fills the lower half of it. `WellFormed` is the messages that programs make: any strings,
and numbers that the type they are passed in holds.

### ScanCode

`wire` holds the bytes the keyboard has sent, `pending` the characters they mean by the
layout at the moment of typing, so that the driver's idea of shift and lock, which it
forms byte by byte, can be compared with the user's. `Meaning` is what a key means to the
user, in two readings of caps lock (`LockIsShift`): for letters only and reversed by
shift, as PC keyboards have it, or a shift for all keys, as the comment at
`keyboard.c:56` has it. Each branch of `ReadCharacter` is an action. What it returns is a
key of module `Keyboard`. Any key that is held may repeat.

## 3. Runs

| run | shows | bounds |
|---|---|---|
| `scheduler` | `TypeOK`; `ListsMatchStates`; `PidsDistinct`; `CallsMatchStates`; `NoReaperSleeps` (no lost wakeup); `NoOverdueSleeper`; `RoundRobin`; `KilledIsFinal`; and, unless somebody spins in `Wait`, `ReadyRuns`, `SleepReturns` | 4 slots (idle, shell, 2 more), ticks modulo 6, pids below 4, sleeps and waits: slots are reused, the counter wraps, every fork failure occurs |
| `context` | `UserStateSurvives`, `KernelStateSurvives`, `HandlerGetsCall` | idle task, shell and one child whose slot is used twice; one call of each kind with 0 to 3 arguments |
| `programs` | `WaitedChildExists`; and, as long as programs return and forks succeed (`Benign`), `PromptIsClean`, `CommandEnds` | all kinds of programs, forks may fail, 5 slots, 3 forks |
| `programs_nested` | **violated**: `KilledAreCleanedUp` | `process1` |
| `keyboard` | `IsKeyQueue` (refines `KeyQueue`), `NoKeyWhileReaderSleeps`; and, unless somebody spins in `Wait`, `KeysAreRead` | one reader, a ring of 3, 5 keys: the ring fills, drops and wraps; 4 slots and `wait()` for the reader or its child, so that a process can spin in `Wait` while the reader lives |
| `scan_codes` | `CharactersAsTyped` | a letter, a digit, one shift key, caps lock for letters only, two extended keys; up to 4 bytes unread |
| `lists` | `IsQueues` (refines `Queues`), `TailIsLast` | 3 lists, 4 items: removal at the front, inside and at the end of a list |
| `memory` | `Isolated`, `AddressSpaceComplete`, `PagesAccountedFor`, `HeapIsFreeMemory`, `EnoughPages` | 16 memory maps: too few pages for each stage of the boot; 19 to 26 pages (boot takes 12, a process 7, so the second fork fails at each possible point, or all slots have room); holes, unaligned regions, memory behind the limit, more regions than the table has, none |
| `files` | `EntriesCounted`, `FilesCounted`, `PositionInFile`, `DescriptorStable` | 3 slots with reuse, 2 files, 2 descriptors, 2 entries |
| `directory_and_read` | `OpensNamedFile`, `ListsDirectory`, `ReadsLoadedClusters`, `DriveIdleBetweenReads`, `CallsEnd` | 2 sectors of 2 entries: two places for one name without extension, one of them for a file without data, a part of a long name that looks like it, another file; clusters of 2 sectors of 2 bytes; 9 bytes in clusters 2, 3 and 4 or 6 bytes in 6 and 5, in that order, one rewritten to the other while it is open; reads of up to 5 bytes from any position before the end, which is one cluster or two, a register that counts to 4, the sectors of the largest read; two descriptors |
| `console` | `ConsoleTypeOK`, `NothingAfterCursor`, `EchoMatchesBuffer`, `ShowsWhatIsMeant` | a screen of 3 rows of 2, a line of 2 after a prompt of 1: the line wraps and scrolls while it is edited; the keys `s` and `%`, so that a line may be a specifier; words modulo 20 with the smallest number, 0, a negative `int` and hexadecimal digits; a message longer than the screen keeps |
| `shell_stale_line` | **violated**: `CommandIsTyped` | the same with a line of 3, on lines of 1 or 2 |

The two violated runs are disagreements between the code and what the repository says of
it (`findings` quotes the place):

1. `programs_nested`: **nested waits hang the machine.** All waiters sleep on one wait id,
   and `Wait` sleeps only while the kill list is empty. If the shell waits for `process1` and
   `process1` for `process4`, the exit of `process4` wakes the shell first; it finds the
   list not empty and its child not in it, and spins with interrupts disabled.
2. `shell_stale_line`: **the shell executes more than was typed.** Its line is not ended by
   a zero byte. In the trace a second key is typed and erased: the line has one character
   then, and the name that is opened has two. The rest of a longer earlier command stays in
   the same way.

### Further configurations

These belong to no run. Each sets aside a condition of a passing run, and TLC then
finds the property violated within seconds:

| number, configuration | module | violated | what happens |
|---|---|---|---|
| 3, `ConsoleFormat` | `MCConsole` | `TextIsNoFormat` | What is typed may be a format. A command `%s` that names no file comes back as the argument of the shell's "not found" (`shell.c:58`); `printf` copies it, `SysWrite` makes it the format of `printk`, and that prints the string at some address, or faults. |
| 4, `FileReadFragmented` | `MCRootDirectory` | `ReadsTheFile` | The FAT is not followed. A position is looked for at the first cluster plus so many clusters (`file.c:449`): a file in clusters 2 and 4 continues in 3. `docs/os_concepts.md:1876` ("If the data is large than 2KB we need to check next cluster using FAT table.") and `boot/boot.asm:159` describe larger files differently. |
| 5, `FileReadAcross` | `MCRootDirectory` | `ReadsTheFile` | A cluster too few. The number of clusters to load is that of the size alone (`file.c:447`): a read of 3 bytes at position 3 of clusters of 4 loads the first one. The programs of the repository read from position 0 and do not notice. |
| 6, `FileReadAtEnd` | `MCRootDirectory` | `DriveIdleBetweenReads` | A read of nothing asks the drive for 0 sectors, which stands for 256 (`disk.c:8`), and takes none; the next command finds the drive busy. |
| 7, `FileReadLarge` | `MCRootDirectory` | `CallsEnd` | More than 128 KB at once. The drive's register has 8 bits, the loop that takes the sectors does not (`disk.c:24`); it waits for sectors the drive was not asked for. |
| 8, `ScanCodeTwoShifts` | `MCScanCode` | `CharactersAsTyped` | Both shift keys set and clear one flag (`keyboard.c:145`): releasing one ends shift. |
| 9, `ScanCodeCapsLock` | `MCScanCode` | `CharactersAsTyped` | The comment on the shift map (`keyboard.c:56`, "The shift map is used when we hold shift key or caps lock key and press other keys.") has it used with caps lock for all keys; the code uses it with shift only and turns the case of letters round. As this is how PC keyboards behave, it is the comment that is wrong here. |

### Where the passing runs stop

Each condition under which a property holds is a constant or a named predicate, and
without it the property fails; a number is that of the violation above:

| condition | without it |
|---|---|
| `Benign` of `programs`: no fork fails | the shell waits for pid -12, which is fork's error, for ever |
| `Spinning` in `ReadyRuns` and `SleepReturns` | a process in `Wait` for a pid that is not in a kill list with others holds the CPU for good (1) |
| `Memory`: `EnoughPages` is about machines with `PagesForAllSlots` pages | `open`, `read` and `exec` use the page `kalloc` returned without looking, and the kernel panics |
| `Memory`: `BiosMaps` are ascending and without overlap | the kernel's map ends behind the page freed last, and a page in two regions is in the heap twice |
| `Memory`: `PagesAccountedFor` is about states without an `INITIALIZED` slot | a fork that fails in `CopyUVM` returns without undoing `CreateNewProcess`: slot and stack are lost |
| `Spinning` in `KeysAreRead` of `keyboard` | the same: the process that spins has interrupts disabled, and the reader never runs |
| `Keyboard`: one process in `Readers` (`MCTwoReaders` for two) | one key wakes both, `ReadKeyBuffer` does not look at the buffer again, and both return the same key |
| `ScanCode`: one shift key in `PlainKeys`, `LockIsShift = FALSE` | 8 and 9 |
| `ReadsLoadedClusters` is about the bytes that are where the code looks for them (`InPlace`) | 4; `ReadsTheFile` is about all bytes |
| `ReadsLoadedClusters` is about the bytes in the clusters a read has loaded | 5; `ReadsTheFile` is about all bytes |
| `FileRead`: `ReadsAtEnd = FALSE` | 6 |
| `FileRead`: `CountModulus` is at least the number of sectors of a read | 7 |
| `ShowsWhatIsMeant`: no specifier in the text (`AsksForNothing`) | 3 |
| `ShowsWhatIsMeant`, `TextIsNoFormat`: `NoNegativeInt` | an `int` leaves the upper half of its register clear, and the number is printed as a large positive one; `process1.c` casts its negative number, and the only caller that could pass one is `ls`, when `lstat` fails |
| `CommandIsTyped` is about lines that leave room in the buffer | a line of 80 characters runs into the byte behind the array, whose value is the compiler's affair |
| `Context`: the number of a call is one of the wrappers' or beyond 20 | 12 to 19 reach an `ASSERT`; 20 passes the range test and reads behind the table |

Conditions that are named with a property are part of it: the states they leave out occur
in its run. Deadlock is checked in all runs (a panic is a state that stays). The names
`MaxPid` and `MaxKeys` are bounds of the models (the code has an `int` and no limit), and so
are `WireSize` and, within the size of the code's table, `MaxOpen`; the other constants are
sizes of the code made small.

### Why these bounds are enough

Interactions in the scheduler are between the running process, one that sleeps or
waits, and one that is killed; two slots besides the shell and the idle task give all
pairs, and the theorems of section 5 remove the bound for the safety properties. The
width of the tick counter matters only relative to the sleep times. The pids bound
gives a slot a second life. A ring of 3 with 5 keys passes the wrap-around twice.
The heap sizes cover the residues modulo 7 at which a fork can fail. The screen is
small enough that every edited line wraps and may start on the last row. A file is in
three clusters or in two, in order and out of order; the second read of it begins inside a
cluster and may go beyond the ones it loads. In the directory the same name may be in the
first sector, in the second or in both one after the other, which is what a search can
confuse. For the registers one child is enough: a switch concerns two
stacks, the third is that of the idle task, and the child's slot has a second life.

## 4. Fairness

- `SF(TimerInterrupt)`: the timer is periodic and the interrupt controller holds a
  tick until interrupts are enabled, so a tick that can be taken again and again is
  taken. Weak fairness would not do: interrupts are disabled in every system call.
- `WF` of the kernel's loops: kernel code runs on without waiting for anything.
- `RootDirectory`: `WF` of the kernel's steps, all of one thread, and of the drive, which
  becomes ready if it has a sector to hand out. Nothing is assumed of the host.
- Only in `UserPrograms`: `SF` of the steps of each program while it has the CPU, as
  a slice of 10 ms is long enough for an instruction every time. Nothing is assumed
  of the keyboard or of when programs fault.

`ReadyRuns` and `SleepReturns` of `Scheduler` and `KeysAreRead` of `Keyboard` have
`Spinning` as a way out because a process that waits for a pid that is not its child's can
spin for ever with interrupts disabled (violation 1 of section 3); `programs` checks
liveness with `wait()` as the shell uses it.

## 5. Proofs

A run checks an instance; these theorems hold for every value of the constants that
the `ASSUME`s of the modules allow (at least two slots, a positive modulus, finite sets
of items and descriptors, and the like). Each module's safety properties follow from one
inductive invariant, which TLC has checked on the instance of the run before it was
proved. `PROJECT.json` (`theorems`) lists them with the property of the run they state.

| module | theorem | property |
|---|---|---|
| `SchedulerProofs` | `TypeCorrect`, `ListsAlwaysMatchStates`, `PidsAlwaysDistinct`, `CallsAlwaysMatchStates`, `NoLostWakeup`, `NoOversleeping` | the invariants of `scheduler` |
| | `AlwaysRoundRobin`, `KilledAlwaysFinal` | its action properties |
| `ContextProofs` | `UserStateAlwaysSurvives`, `KernelStateAlwaysSurvives`, `HandlerAlwaysGetsCall` | the invariants of `context` |
| `KeyboardProofs` | `NoKeyWakeupLost` | `NoKeyWhileReaderSleeps`, for one reader |
| | `DriverIsKeyQueue` | the refinement `IsKeyQueue`, for one reader |
| | `CharactersAlwaysAsTyped` | `CharactersAsTyped` of `scan_codes`, for one shift key and caps lock for letters |
| `IntrusiveListProofs` | `TailAlwaysLast` | `TailIsLast` |
| | `ListsAreQueues` | the refinement `IsQueues` |
| `MemoryProofs` | `AlwaysIsolated`, `AddressSpacesAlwaysComplete`, `PagesAlwaysAccountedFor`, `HeapAlwaysFreeMemory`, `AlwaysEnoughPages` | the invariants of `memory`, for ordered memory maps |
| `FileTableProofs` | `EntriesAlwaysCounted`, `FilesAlwaysCounted`, `PositionAlwaysInFile` | the invariants of `files` |
| | `DescriptorsStayOnFile` | its action property `DescriptorStable` |
| `RootDirectoryProofs` | `DriveAlwaysIdleBetweenReads`, `LoadedClustersAlwaysRead` | `DriveIdleBetweenReads`, `ReadsLoadedClusters` |
| | `AlwaysOpensNamedFile`, `AlwaysListsDirectory` | the action properties of `directory_and_read` |
| `ShellProofs` | `WaitedChildAlwaysExists`, `PromptAlwaysClean` | `WaitedChildExists`; `PromptIsClean`, under `Benign` as in the run |
| | `ScreenBlankAfterCursor`, `EchoAlwaysMatches` | `NothingAfterCursor`, `EchoMatchesBuffer` |
| | `ConsoleTypeCorrect`, `AlwaysShowsWhatIsMeant` | `ConsoleTypeOK`, `ShowsWhatIsMeant` |

**Scheduler.** The parts of `SchedulerInv` need each other. `ListsMatchStates` alone is
not inductive: `Yield` recognises the idle task by its pid, so the idle task stays out of
the ready list only if pids are distinct; `Sleep` puts whoever runs into the wait
list, so the idle task stays out of it only if it is in no system call
(`CallsMatchStates`). `NoReaperSleeps` needs `CallsMatchStates` to know that the
processes an `Exit` wakes are all that sleep in `Wait`, and `NoOverdueSleeper` needs it
to know that a tick wakes every process in `SysSleep`; that is also why it holds for
every modulus, since after a tick no such process is left in the list. The proof has a
lemma per primitive (what `Schedule`, `Wakeup`, `Sleep`, `Exit` do to the lists) and then
one step per action. The modules that extend `Scheduler` have `SchedulerInv` in their own
invariant and reuse those steps.

**Context.** The properties of the run are about the moment a process is back: they say
nothing of a process that is away, so none of them is inductive. `ContextInv` says what is
kept for it meanwhile. In a call (`RunningInv`) the stack is the frame, with each register
at the place where `TrapReturn` and `iretq` pop it from, under the return address into
`Trap`. Of a process that is not running (`SuspendedInv`) there is on top of that what
`ContextSwitch` pushed, the return address into `Schedule` and the six registers of C; or
it never ran and has the frame and the context that `CreateNewProcess` made by hand, whose
`ret` goes to `TrapReturn`. The stack pointer, the saved contexts and the TSS are always those of
`current_proc`; this is what `Scheduler` takes for granted. `AskedInv` is for
`HandlerGetsCall`: a process may be interrupted between a wrapper's loads and its `int`.
The lemmas treat the instructions one at a time as operations on the machine (that the
order of pops in `trap.asm` is the reverse of the order of pushes is one of them), then the
halves of `ContextSwitch`, then a whole step, with or without a switch, ending in a call or
in user mode; each of the scheduler's actions is an instance of it. `CallAssumption` limits
the calls to the wrappers of the library, which have at most three arguments, or to a
number beyond the table.

**Keyboard.** `KeyInv` adds what a suspended reader relies on: the `front` it read before
`Sleep` is still the front of the ring when it goes on, and if it has been woken there is
a key. This is where the hypothesis `OneReader` enters (the shell is the only program that
reads the keyboard): with two readers the other one may move the front in between, and
both properties fail, as section 3 says. The refinement maps the ring between `front` and
`end` to a sequence; a full ring that drops a key is a stutter.

**Scan codes.** `CharactersAsTyped` compares two histories and is not inductive: it says
nothing of the bytes that the driver has not read yet. `ScanInv` does. It runs the driver
over them in thought: there are flags for every place in the unread bytes (`Reads`), from
the driver's at the front to those the user has in mind at the end, and the characters
that come out on the way are the ones the user is still owed. A press appends to this run,
a byte read takes its first step away. The hypotheses are conditions of section 3:
`OneShiftKey`, as the flag at the end says whether a shift key is held, which one bit can
say of one key only, and that `LockIsShift` is false.

**Lists.** `ListInv` says that the pointers spell disjoint sequences (`Represents`): each
`next` in a list leads to the next item, the last item's `next` is null, `tail` is that
item, and no item is in two lists, although removed items keep their `next`. That the
walk defined in `IntrusiveList` finds exactly this sequence is an induction along the
list; one lemma per operation says what it does to the sequences, and the refinement
follows.

**Memory.** `MemInv` consists of `SchedulerInv`, the loader's copy of the memory map,
the types of the page tables, and `SpacesInv`: the pages of every process, of the kernel
and of the free list are apart, every page map has the shape that `FreeVM` walks, and
which slots have a map follows from their state. `Isolated` is not inductive without the
shape, because `FreeVM` frees what it finds in the tables. The operators on the heap
(`kalloc`, `kfree`, `MapPages`, `SetupKVM`, `SetupUVM`, `CopyUVM`, `FreeVM`) have a lemma
each, for every place where an allocation may fail. `EnoughInv` counts: the kernel's map
takes three pages, the file tables two, each process seven, so with room for all slots
no allocation fails, and no fork leaves a slot behind. The hypothesis `OrderedMaps`
is what BIOSes report (regions ascending, without overlap); the code relies on it.

**Files.** `FileInv` has the counts as cardinalities of sets of descriptors, and
`FreeSlotsHoldNothing`: `Fork` copies descriptors into a slot without looking at what is
there, and the counts stay exact only if a free slot has none. `Wait` closes a process's
descriptors one after the other; the lemma about it adds up what each close does.

**Directory and reading.** `DiskInv` is about a transfer in the middle: the drive has as
many sectors left as `DiskReadSectors` still wants, its next sector is the one the loop
has come to, and the page holds the bytes of all sectors before it. That a command finds
the drive idle, so that no `ASSERT` fails (`pc # "panic"`), and that a page is complete
when the transfer ends follow from it. It needs `RegisterHolds`: no read asks for more
sectors than the 8-bit register counts, and none for 0. `BlocksInv` is about the control
blocks: one that is open has the clusters and the size of some file the host has written,
not of the one that is on the disk by now, and no opening or closing of another descriptor
changes it; `AlwaysOpensNamedFile` needs it to say that open descriptors keep their file.
For `LoadedClustersAlwaysRead`, `ReadInv` adds that nothing is left of the last read once its
descriptor is closed; a read may begin anywhere and have any size, and a file may be in
any clusters: the property itself leaves out the bytes that are not in place or not
loaded. `OpenInv` and `LstatInv` say what the sectors
searched so far have shown about the entries that the host leaves alone (it may create,
write and delete files between two sectors). `PaddedNames` says how a FAT stores a name,
blanks at the end and none inside; the lemma `MatchesListed` then has it that the code's
comparison, which drops the blanks, puts in the dot and ignores case, is that of the names
`ls` shows. The hypotheses are those of the table in section 3, and the instance of
the run satisfies all of them.

**Programs.** `WaitedChildExists` is about the pid in `wait()`. It is not enough to know
that the child was there when it was forked: another process might wait for the same pid
and clean the slot. `VarsInv` excludes this: no two variables ever hold the same pid, not
even in programs that are dead, since the pid of a fork is new and is written to one
variable. `ChildrenInv` is the property for processes on their way into `wait()` as well.
For `PromptIsClean`, `ShellInv` says that as long as programs return and forks succeed
there is at most one process besides the shell, the one that it waits for.

**Console.** `ScreenOK` allows the row behind the last one, where the cursor may be
until the next character scrolls. `EchoInv` describes the line while it is being
changed: a character typed is in the buffer before it is on the screen, an erased one
leaves the buffer before its cell is blank, and the line may have scrolled up meanwhile.

**Messages.** `ShowsWhatIsMeant` has three parts. The digits that the loop of `printk`
takes off a number are, read backwards, its numeral (`NumeralWritten`: dividing by the
base once moves every digit by one place, and `PlacesFit` shows that a number has one
length without leading zeros), and a word that is passed as 64 bits is printed with its
sign (`WordPassed`, down to the smallest number, whose negation is itself). The loop over
the format meets the pieces of a message one after the other, each with its own argument
(`MessageFormatted`, an induction from the last piece back, because a turn of the loop
depends on what follows). Both hold for every message (`FormattedHolds`). If what comes
out asks for no argument, and has no negative `int` in it, it is what was meant, and it
passes `printk` unchanged a second time (`MessagePrinted`); if it does ask, all that is
known is that it is some text or a panic, which is what `ConsoleTypeOK` and the properties
of the screen need. `MessageInv` adds what
`WriteVGA` has done of it: a suffix of the message is still in `text`, and the part
before it stands before the cursor, as far as it has not scrolled off.

**Induction.** The library's induction theorems cannot be used (the installed provers do
not instantiate an operator parameter). A set of numbers that is not empty has a least
element (`LeastNatural`, proved from the well-foundedness of the naturals), and inductions are done
through the least counterexample; recursive operators are recursive functions. What
`SchedulerProofs` says of `Select` (it returns exactly the matching elements, without duplicates, in order)
is used for every list.

Only model-checked: liveness (fairness and `ENABLED` are beyond the prover).

## 6. What is not modelled

The mode switches of the boot code and the loading of the kernel; `sprintk`, which makes
the text of a panic; the limits of the 1024-byte buffers of `printk` and `printf`; colours;
the checks of the disk's signatures; `libc`'s byte loops except for the comparison of
names; the C++ runtime; `syscall4` and `syscall5`, which have no caller. They keep no
state that other parts rely on, or none that a model would say more about than the code.

A failed `ASSERT` or an exception in ring 0 is a state in `Memory`, `FileRead` and
`Console`; elsewhere, where the properties imply that an `ASSERT` holds (`Wait`'s on the process state, `Close`'s
on the count), this is noted at the property.

Arguments that user code gives to the calls are taken from the ranges the programs of
the repository use: descriptors within the array, lengths that are not negative.

## 7. Plan

Done: all modules of section 2, and the proofs of section 5, which state every safety
property of the passing runs. No module uses a `RECURSIVE` operator.
