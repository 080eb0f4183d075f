------------------------------ MODULE Context -------------------------------
(***************************************************************************)
(* What a trap does to the registers: the stubs, Trap, TrapReturn and      *)
(* ContextSwitch of kernel/trap.asm, the frames and contexts that          *)
(* kernel/process.c builds by hand, SystemCall of kernel/syscall.c, and    *)
(* the user's side of a call (usr/runtime/syscall.asm and the wrappers).   *)
(* On top of Scheduler, whose steps say who runs next.                     *)
(*                                                                         *)
(* A kernel stack is the sequence of the words pushed on it, its top at    *)
(* stack + STACK_SIZE being the empty sequence: word i is 8 * i bytes      *)
(* below.  A saved stack pointer is the stack it points into; what is      *)
(* below it is dead.  What C functions push and take back themselves is    *)
(* left out.                                                               *)
(***************************************************************************)
EXTENDS Scheduler

CONSTANTS
  Calls,        \* what user code asks the wrappers for: [fn, args]
  Results       \* what the calls that only compute something may return

VARIABLES
  cpu,          \* the registers
  kstack,       \* per slot: its kernel stack (the boot stack for the idle task)
  context,      \* per slot: the saved stack pointer
  on,           \* the stack the kernel runs on
  tss,          \* the stack whose top is in TaskStateSegment.rsp0
  ustack,       \* per slot: the words just below USER_STACK_START
  expect,       \* history: the registers user code of each slot relies on
  asked         \* history: what it last asked a wrapper for

machineVars == <<cpu, kstack, context, on, tss>>
contextVars == <<machineVars, ustack, expect, asked>>
everything  == <<vars, contextVars>>

-----------------------------------------------------------------------------
(* Registers and frames.                                                   *)

\* In the order in which they are pushed.
PushedByCPU    == <<"ss", "rsp", "rflags", "cs", "rip">>
PushedByTrap   == <<"rax", "rbx", "rcx", "rdx", "rsi", "rdi", "rbp", "r8", "r9",
                    "r10", "r11", "r12", "r13", "r14", "r15">>
PushedBySwitch == <<"rbx", "rbp", "r12", "r13", "r14", "r15">>

\* In the order in which they are popped.
PoppedByTrapReturn == <<"r15", "r14", "r13", "r12", "r11", "r10", "r9", "r8",
                        "rbp", "rdi", "rsi", "rdx", "rcx", "rbx", "rax">>
PoppedByIret       == <<"rip", "cs", "rflags", "rsp", "ss">>
MutPoppedBySwitch  == <<"r15", "r14", "r13", "r12", "rbx", "rbp">>
PoppedBySwitch     == <<"r15", "r14", "r13", "r12", "rbp", "rbx">>

\* struct TrapFrame, from the lowest address.
MutTrapFrame == <<"r15", "r14", "r13", "r12", "r11", "r10", "r9", "r8", "rbp",
                  "rsi", "rdi", "rdx", "rcx", "rbx", "rax", "trapno",
                  "error_code", "rip", "cs", "rflags", "rsp", "ss">>
TrapFrame == <<"r15", "r14", "r13", "r12", "r11", "r10", "r9", "r8", "rbp",
               "rdi", "rsi", "rdx", "rcx", "rbx", "rax", "trapno", "error_code",
               "rip", "cs", "rflags", "rsp", "ss">>

Registers == Range(PushedByCPU) \cup Range(PushedByTrap)
Index(seq, r) == CHOOSE i \in 1 .. Len(seq) : seq[i] = r

\* Addresses and selectors that occur as words.
TRAP_RETURN == -1      \* where InterruptHandler returns to
SCHEDULE    == -2      \* where ContextSwitch returns to
KERNEL_CS   == 8
USER_CS     == 19      \* 0x10 | 3
USER_SS     == 27      \* 0x18 | 3
USER_STACK_START == 500
USER_VIRTUAL_ADDRESS_BASE == 600
INT_0x80    == 700     \* the int instruction of a wrapper

\* Values that user code and the C code of the kernel leave in a register.
UserValue(p, r)   == 1000 + 100 * p + Index(PushedByTrap, r)
KernelValue(p, r) == 2000 + 100 * p + Index(PushedByTrap, r)

\* CreateNewProcess and Exec: the registers of a program at its start.
DefaultFrame == [r \in Registers |-> CASE r = "cs"     -> USER_CS
                                       [] r = "rip"    -> USER_VIRTUAL_ADDRESS_BASE
                                       [] r = "ss"     -> USER_SS
                                       [] r = "rsp"    -> USER_STACK_START
                                       [] r = "rflags" -> 514
                                       [] OTHER        -> 0]

Words(regs, names) == [i \in 1 .. Len(names) |-> regs[names[i]]]
Frame(regs, error_code, trapno) ==
  Words(regs, PushedByCPU) \o <<error_code, trapno>> \o Words(regs, PushedByTrap)

\* A frame written field by field at the top of a stack, and the empty context
\* under it.
NewFrame == [i \in 1 .. Len(TrapFrame) |->
               LET field == TrapFrame[Len(TrapFrame) + 1 - i]
               IN  IF field \in Registers THEN DefaultFrame[field] ELSE 0]
EmptyContext == <<TRAP_RETURN, 0, 0, 0, 0, 0, 0>>

-----------------------------------------------------------------------------
(* The machine, as a record that the steps of a trap transform.            *)

Machine == [cpu |-> cpu, stack |-> kstack, context |-> context, on |-> on,
            tss |-> tss, at |-> "C"]

Becomes(m) == /\ cpu' = m.cpu /\ kstack' = m.stack /\ context' = m.context
              /\ on' = m.on /\ tss' = m.tss

Push(m, words) == [m EXCEPT !.stack[m.on] = @ \o words]
Drop(m, n)     == [m EXCEPT !.stack[m.on] = SubSeq(@, 1, Len(@) - n)]

\* Word n from the end of the running stack.
Word(m, n) == LET s == m.stack[m.on]
              IN  IF n <= Len(s) THEN s[Len(s) + 1 - n] ELSE 0

Pop(m, names) ==
  [Drop(m, Len(names)) EXCEPT !.cpu =
     [r \in Registers |-> IF r \in Range(names) THEN Word(m, Index(names, r))
                          ELSE m.cpu[r]]]

\* The CPU (from ring 3 it starts at rsp0), the stub, Trap, and the call of
\* InterruptHandler.  Compiled code then has its own values in the registers a
\* function preserves and anything in the others.
Trap(m, error_code, trapno) ==
  LET entered == IF m.cpu.cs = USER_CS
                 THEN [m EXCEPT !.on = m.tss, !.stack[m.tss] = <<>>] ELSE m
      saved   == Push(entered, Frame(m.cpu, error_code, trapno) \o <<TRAP_RETURN>>)
  IN  [saved EXCEPT !.cpu =
         [r \in Registers |->
            IF r = "cs" THEN KERNEL_CS
            ELSE IF r \in Range(PushedBySwitch) THEN KernelValue(current_proc, r)
            ELSE 0]]

\* InterruptHandler returns, unless ContextSwitch came here by itself.
TrapReturn(m) ==
  LET popped == Pop(IF m.at = "TrapReturn" THEN m ELSE Drop(m, 1),
                    PoppedByTrapReturn)
  IN  Pop(Drop(popped, 2), PoppedByIret)

MutSetTSSOnce(m, new) == m
SetTSS(m, new) == [m EXCEPT !.tss = new]

ContextSwitch(m, prev, new) ==
  LET saved  == Push(m, <<SCHEDULE>> \o Words(m.cpu, PushedBySwitch))
      moved  == [saved EXCEPT !.context[prev] = saved.on, !.on = saved.context[new]]
      loaded == Pop(moved, PoppedBySwitch)
  IN  [Drop(loaded, 1) EXCEPT
         !.at = IF Word(loaded, 1) = TRAP_RETURN THEN "TrapReturn" ELSE "C"]

SwitchProcess(m, prev, new) == ContextSwitch(SetTSS(m, new), prev, new)

\* The rest of a step of Scheduler: Schedule() switches to the process it chose,
\* and that process goes on in its call or returns from its trap.
Ends(m) ==
  LET m2 == IF current_proc' = current_proc THEN m
            ELSE SwitchProcess(m, current_proc, current_proc')
  IN  Becomes(IF call'[current_proc'] = "none" THEN TrapReturn(m2) ELSE m2)

-----------------------------------------------------------------------------
IdleRegisters == [r \in Registers |->
                    CASE r = "cs" -> KERNEL_CS
                      [] r \in Range(PushedByTrap) -> UserValue(IDLE, r)
                      [] OTHER -> 0]

NoArgs   == [a \in USER_STACK_START - 3 .. USER_STACK_START - 1 |-> 0]
NotAsked == [fn |-> "none", args |-> <<>>]

ContextInit ==
  /\ Init
  /\ cpu = IdleRegisters
  /\ kstack = [p \in Slots |-> IF p = SHELL THEN NewFrame \o EmptyContext ELSE <<>>]
  /\ context = [p \in Slots |-> p] /\ on = IDLE /\ tss = IDLE
  /\ ustack = [p \in Slots |-> NoArgs]
  /\ expect = [p \in Slots |-> IF p = IDLE THEN IdleRegisters ELSE DefaultFrame]
  /\ asked = [p \in Slots |-> NotAsked]

-----------------------------------------------------------------------------
(* User code: whatever it does with its registers, then a wrapper up to    *)
(* its int instruction.                                                    *)

AtInt == UserMode /\ cpu.rip = INT_0x80

\* enum SYSCALL; 21 stands for a number without wrapper.
Number == [write |-> 0, sleep |-> 1, exit |-> 2, wait |-> 3, read |-> 4, mem |-> 5,
           open |-> 6, close |-> 7, fork |-> 8, exec |-> 9, lstat |-> 10,
           clrscr |-> 11, unknown |-> 21]

\* syscall0 to syscall3 are the ones with callers.
ASSUME CallAssumption ==
  \A c \in Calls : c.fn \in DOMAIN Number /\ c.args \in Seq(Int) /\ Len(c.args) <= 3

\* syscall0 to syscall3: the arguments go to the stack.
Wrapper(c) ==
  LET count == Len(c.args)
      rsp   == USER_STACK_START - count
      regs  == [r \in Registers |->
                  CASE r = "rax" -> Number[c.fn]
                    [] r = "rdi" -> count
                    [] r = "rsi" /\ count > 0 -> rsp
                    [] r = "rsp" -> rsp
                    [] r = "rip" -> INT_0x80
                    [] r \in {"cs", "ss", "rflags"} -> cpu[r]
                    [] OTHER -> UserValue(current_proc, r)]
  IN  /\ UserMode /\ ~ AtInt
      /\ cpu' = regs
      /\ expect' = [expect EXCEPT ![current_proc] = regs]
      /\ ustack' = [ustack EXCEPT ![current_proc] =
           [a \in DOMAIN NoArgs |-> IF a >= rsp THEN c.args[a - rsp + 1] ELSE 0]]
      /\ asked' = [asked EXCEPT ![current_proc] = c]
      /\ UNCHANGED <<vars, kstack, context, on, tss>>

-----------------------------------------------------------------------------
(* System calls.                                                           *)

MAXIMUM_SYSTEM_CALLS == 20
InitSystemCall == <<"SysWrite", "SysSleep", "SysExit", "SysWait", "SysRead",
                    "SysMemInfo", "SysOpen", "SysClose", "SysFork", "SysExec",
                    "SysLstat", "SysClrSrc">>
s_syscall_table == [n \in 0 .. MAXIMUM_SYSTEM_CALLS - 1 |->
                      IF n < Len(InitSystemCall) THEN InitSystemCall[n + 1] ELSE "NULL"]

\* The frame of the trap that the kernel is in, and the words at its rsi.
tf(m, field) == Word(m, 1 + Index(TrapFrame, field))
Arg(m, i) == LET address == tf(m, "rsi") + i - 1
             IN  IF address \in DOMAIN NoArgs THEN ustack[current_proc][address]
                 ELSE 0

\* The trap of the int instruction, and the handler that SystemCall chooses.
Trapped == Trap([Machine EXCEPT !.cpu.rip = @ + 1], 0, 128)
Handler ==
  IF tf(Trapped, "rdi") < 0 \/ tf(Trapped, "rax") > MAXIMUM_SYSTEM_CALLS
  THEN "EINVAL" ELSE s_syscall_table[tf(Trapped, "rax")]

\* tf->rax = v, with tf the frame the handler was called for.
SetRax(m, v) ==
  [m EXCEPT !.stack[m.on][Len(m.stack[m.on]) - Index(TrapFrame, "rax")] = v]

Returned(regs, v) == [regs EXCEPT !.rax = v]
Passed == [expect[current_proc] EXCEPT !.rip = @ + 1]      \* the int instruction

ReturnsAtOnce(v) ==
  /\ Ends(SetRax(Trapped, v))
  /\ expect' = [expect EXCEPT ![current_proc] = Returned(Passed, v)]
  /\ UNCHANGED <<ustack, asked>>

\* sleep, wait and read from the keyboard: the loop follows.
CallBlocks == /\ \/ Handler = "SysSleep" /\ SysSleep(Arg(Trapped, 1))
                 \/ Handler = "SysWait" /\ SysWait(Arg(Trapped, 1))
                 \/ Handler = "SysRead" /\ Arg(Trapped, 1) = 0 /\ SysReadKey
              /\ Ends(Trapped)
              /\ expect' = [expect EXCEPT ![current_proc] = Passed]
              /\ UNCHANGED <<ustack, asked>>

CallComputes ==
  /\ \/ Handler \in {"SysWrite", "SysMemInfo", "SysOpen", "SysClose", "SysLstat",
                     "SysClrSrc"}
     \/ Handler = "SysRead" /\ Arg(Trapped, 1) # 0
  /\ UNCHANGED vars
  /\ \E v \in Results : ReturnsAtOnce(v)

EINVAL == 22
CallRejected == Handler = "EINVAL" /\ UNCHANGED vars /\ ReturnsAtOnce(-EINVAL)

\* Exit() does not return: nobody relies on the registers any more.
Forgotten == /\ expect' = [expect EXCEPT ![current_proc] = DefaultFrame]
             /\ asked' = [asked EXCEPT ![current_proc] = NotAsked]

CallExits == /\ Handler = "SysExit" /\ SysExit
             /\ Ends(Trapped)
             /\ Forgotten /\ UNCHANGED ustack

\* Fork: the child gets the frame at current_proc->tf, at the top of the
\* parent's kernel stack, with rax = 0, and the parent's memory.
ForkedFrame(m) == SubSeq(m.stack[current_proc], 1, Len(TrapFrame))

CallForks ==
  LET child == FindFreeProcessSlot
      frame == [ForkedFrame(Trapped) EXCEPT
                  ![Len(TrapFrame) + 1 - Index(TrapFrame, "rax")] = 0]
      m     == [Trapped EXCEPT !.stack[child] = frame \o EmptyContext,
                               !.context[child] = child]
  IN  /\ Handler = "SysFork" /\ ForkSucceeds
      /\ Ends(SetRax(m, s_pid_num))
      /\ expect' = [expect EXCEPT ![current_proc] = Returned(Passed, s_pid_num),
                                  ![child] = Returned(Passed, 0)]
      /\ ustack' = [ustack EXCEPT ![child] = ustack[current_proc]]
      /\ asked' = [asked EXCEPT ![child] = NotAsked]

\* -ENOMEM; the slot that a failed CopyUVM leaves behind never runs.
ForkFailed == /\ Handler = "SysFork"
              /\ ForkFailsEarly \/ ForkFailsInSetupKVM \/ ForkFailsInCopyUVM
              /\ ReturnsAtOnce(-12)

\* Exec: a new frame, or the end of the process.
CallExecs ==
  LET s == Trapped.stack[current_proc]
      m == [Trapped EXCEPT !.stack[current_proc] =
              NewFrame \o SubSeq(s, Len(TrapFrame) + 1, Len(s))]
  IN  /\ Handler = "SysExec" /\ UNCHANGED vars
      /\ Ends(SetRax(m, 0))
      /\ Forgotten
      /\ ustack' = [ustack EXCEPT ![current_proc] = NoArgs]

ExecFails == /\ Handler = "SysExec" /\ Exit
             /\ Ends(Trapped)
             /\ Forgotten /\ UNCHANGED ustack

SystemCall == /\ AtInt
              /\ \/ CallBlocks \/ CallComputes \/ CallRejected \/ CallExits
                 \/ CallForks \/ ForkFailed \/ CallExecs \/ ExecFails

-----------------------------------------------------------------------------
(* Interrupts, exceptions, and the calls that go on after a Sleep().       *)

Interrupted(vector) == /\ Ends(Trap(Machine, 0, vector))
                       /\ UNCHANGED <<ustack, expect, asked>>

Timer    == TimerInterrupt /\ Interrupted(32)
Key      == KeyboardInterrupt /\ Interrupted(33)
Spurious == InterruptsEnabled /\ UNCHANGED vars /\ Interrupted(39)

\* Vector14 has an error code of the CPU.
Exception == /\ UserException
             /\ Ends(Trap(Machine, 7, 14))
             /\ Forgotten /\ UNCHANGED ustack

LoopBlocks == /\ SleepLoopBlocks \/ ReadKeyBlocks \/ WaitSleeps
              /\ Ends(Machine)
              /\ UNCHANGED <<ustack, expect, asked>>

\* Wait() has freed the memory of the process it cleaned up.
LoopReturns(v) ==
  LET m == [Machine EXCEPT !.stack =
              [p \in Slots |-> IF state'[p] = "UNUSED" THEN <<>> ELSE @[p]]]
  IN  /\ Ends(SetRax(m, v))
      /\ expect' = [expect EXCEPT ![current_proc] = Returned(@, v)]
      /\ ustack' = [p \in Slots |-> IF state'[p] = "UNUSED" THEN NoArgs
                                    ELSE ustack[p]]
      /\ UNCHANGED asked

CallReturns == \/ (SleepLoopReturns \/ WaitReaps) /\ LoopReturns(0)
               \/ ReadKeyReturns /\ LoopReturns(Arg(Machine, 3))

Spins == WaitSpins /\ UNCHANGED contextVars

ContextNext == \/ \E c \in Calls : Wrapper(c)
               \/ SystemCall
               \/ Timer \/ Key \/ Spurious \/ Exception
               \/ LoopBlocks \/ CallReturns \/ Spins

ContextSpec == ContextInit /\ [][ContextNext]_everything

-----------------------------------------------------------------------------
(* Properties.                                                             *)

\* A process finds all its registers as it left them, and so does the idle
\* task, whatever interrupts, calls of others, forks and exits came between; only
\* rax changes, to the result of its own call: 0 in a new child, which returns
\* from the fork its parent made (process.c: "return to the same location as the
\* current process does").
UserStateSurvives == call[current_proc] = "none" => cpu = expect[current_proc]

\* A process that was switched out in a call goes on with the registers that its
\* C functions rely on.
KernelStateSurvives ==
  call[current_proc] # "none" =>
    \A r \in Range(PushedBySwitch) : cpu[r] = KernelValue(current_proc, r)

\* The handler and the arguments of a system call are those of the wrapper that
\* user code called, although the process may have been interrupted between
\* loading the registers and the int instruction; a number beyond the table is
\* rejected.
ServedBy == [write |-> "SysWrite", sleep |-> "SysSleep", exit |-> "SysExit",
             wait |-> "SysWait", read |-> "SysRead", mem |-> "SysMemInfo",
             open |-> "SysOpen", close |-> "SysClose", fork |-> "SysFork",
             exec |-> "SysExec", lstat |-> "SysLstat", clrscr |-> "SysClrSrc",
             unknown |-> "EINVAL"]

HandlerGetsCall ==
  AtInt => /\ Handler = ServedBy[asked[current_proc].fn]
           /\ [i \in 1 .. Len(asked[current_proc].args) |-> Arg(Trapped, i)]
                = asked[current_proc].args

=============================================================================
