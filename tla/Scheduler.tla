------------------------------ MODULE Scheduler ------------------------------
(***************************************************************************)
(* The process manager and scheduler of the kernel (kernel/process.c), the *)
(* interrupts that drive it (kernel/trap.c) and the blocking system calls  *)
(* built on it (kernel/syscall.c).                                         *)
(*                                                                         *)
(* There is one CPU and every gate of the IDT is an interrupt gate, so     *)
(* kernel code runs with interrupts disabled: control passes to another    *)
(* process only where the code calls Schedule().  A process that was       *)
(* switched out inside Sleep() resumes there, still in the kernel with     *)
(* interrupts disabled, and runs the rest of its system call first.        *)
(* call[p] is that rest: "none" when p runs user code (or the idle loop),  *)
(* otherwise the kernel loop it will go on with when it has the CPU.       *)
(*                                                                         *)
(* User code is arbitrary: any process may make any call at any time.      *)
(* Whether memory or a key is available is left open here (the choices of  *)
(* SysFork, SysExec and of the key read).                                  *)
(***************************************************************************)
EXTENDS ProcessQueue

CONSTANTS
  MAXIMUM_NUMBER_OF_PROCESS,  \* slots of s_process_manager, 10 in process.h
  TickModulus,                \* s_system_ticks wraps here, 2^64 in trap.c
  SleepTicks,                 \* the arguments user code gives to sleep()
  WaitPids,                   \* the arguments user code gives to wait()
  MaxPid                      \* bound of the model: no fork at this s_pid_num

ASSUME ProcessAssumption ==
  MAXIMUM_NUMBER_OF_PROCESS \in Nat /\ MAXIMUM_NUMBER_OF_PROCESS >= 2

ASSUME TickAssumption ==
  /\ TickModulus \in Nat \ {0}
  /\ SleepTicks \subseteq Nat

ASSUME PidAssumption ==
  /\ MaxPid \in Nat
  /\ WaitPids \subseteq Int

Slots == 0 .. MAXIMUM_NUMBER_OF_PROCESS - 1

IDLE_PROCESS_PID == 0
IDLE  == 0     \* the slot InitIDLEProcess takes, indexed by Schedule()
SHELL == 1     \* the slot InitShellProcess takes

NORMAL_PROCESS_WAIT_ID           == -1
INIT_PROCESS_WAIT_ID             == 1
WAITING_KEYBOARD_PROCESS_WAIT_ID == -2
WaitIds == {NORMAL_PROCESS_WAIT_ID, INIT_PROCESS_WAIT_ID,
            WAITING_KEYBOARD_PROCESS_WAIT_ID}

ProcessState == {"UNUSED", "INITIALIZED", "READY", "RUNNING", "SLEEPING",
                 "KILLED"}

VARIABLES
  state, pid, wait_id,       \* fields of each Process slot
  current_proc,              \* the rest of struct Scheduler
  ready_proc_list, wait_proc_list, kill_proc_list,
  s_pid_num,                 \* next pid
  s_system_ticks,            \* trap.c
  call, arg, old_ticks       \* each slot's suspended system call, its argument
                             \* and, for SysSleep, the tick it started at

procVars  == <<state, pid, wait_id>>
listVars  == <<ready_proc_list, wait_proc_list, kill_proc_list>>
callVars  == <<call, arg, old_ticks>>
vars == <<procVars, current_proc, listVars, s_pid_num, s_system_ticks, callVars>>

-----------------------------------------------------------------------------
(* InitProcess: the idle task owns the CPU and the shell is ready.         *)
InitIDLEProcess == /\ current_proc = IDLE
                   /\ state[IDLE] = "RUNNING"
                   /\ pid[IDLE] = IDLE_PROCESS_PID

InitShellProcess == /\ state[SHELL] = "READY"
                    /\ pid[SHELL] = 1
                    /\ ready_proc_list = <<SHELL>>
                    /\ s_pid_num = 2

Init ==
  /\ state = [p \in Slots |-> IF p = IDLE THEN "RUNNING"
                              ELSE IF p = SHELL THEN "READY" ELSE "UNUSED"]
  /\ pid = [p \in Slots |-> IF p = SHELL THEN 1 ELSE 0]
  /\ InitIDLEProcess
  /\ InitShellProcess
  /\ wait_id = [p \in Slots |-> 0]
  /\ wait_proc_list = <<>> /\ kill_proc_list = <<>>
  /\ s_system_ticks = 0
  /\ call = [p \in Slots |-> "none"]
  /\ arg = [p \in Slots |-> 0] /\ old_ticks = [p \in Slots |-> 0]

-----------------------------------------------------------------------------
(* The primitives.  Those that run before Schedule() in the same handler   *)
(* take the process states and the ready list as they stand at that point. *)

\* Schedule(): pop the head of the ready list, or take the idle slot.
Schedule(st, ready) ==
  LET next == IF ready = <<>> THEN IDLE ELSE Head(ready)
  IN  /\ current_proc' = next
      /\ state' = [st EXCEPT ![next] = "RUNNING"]
      /\ ready_proc_list' = IF ready = <<>> THEN ready ELSE Tail(ready)

\* Yield(): the idle task is never pushed to the ready list.
MutYieldPushesIdle(st, ready) ==
  IF ready = <<>>
  THEN state' = st /\ ready_proc_list' = ready /\ UNCHANGED current_proc
  ELSE Schedule([st EXCEPT ![current_proc] = "READY"],
                Append(ready, current_proc))

MutYieldPushesFront(st, ready) ==
  IF ready = <<>>
  THEN state' = st /\ ready_proc_list' = ready /\ UNCHANGED current_proc
  ELSE Schedule([st EXCEPT ![current_proc] = "READY"],
                IF pid[current_proc] # IDLE_PROCESS_PID
                THEN <<Head(ready), current_proc>> \o Tail(ready) ELSE ready)

Yield(st, ready) ==
  IF ready = <<>>
  THEN state' = st /\ ready_proc_list' = ready /\ UNCHANGED current_proc
  ELSE Schedule([st EXCEPT ![current_proc] = "READY"],
                IF pid[current_proc] # IDLE_PROCESS_PID
                THEN Append(ready, current_proc) ELSE ready)

\* Sleep(w): the current process goes to the tail of the wait list.
Sleep(w) ==
  /\ wait_id' = [wait_id EXCEPT ![current_proc] = w]
  /\ wait_proc_list' = Append(wait_proc_list, current_proc)
  /\ Schedule([state EXCEPT ![current_proc] = "SLEEPING"], ready_proc_list)

\* Wakeup(w): WaitListRemoveReadyProcess takes the matching processes out of
\* the wait list one after the other and each goes to the ready list's tail.
Sleepers(w) == {p \in Slots : wait_id[p] = w}
Woken(w)    == Select(wait_proc_list, Sleepers(w))
WakeupState(st, w) == [p \in Slots |-> IF p \in Range(Woken(w)) THEN "READY"
                                       ELSE st[p]]
WakeupReady(w) == ready_proc_list \o Woken(w)
WakeupWait(w)  == Without(wait_proc_list, Range(Woken(w)))

\* Exit(): to the kill list, wake the waiters, give up the CPU for good.
MutExitNoWakeup ==
  /\ kill_proc_list' = Append(kill_proc_list, current_proc)
  /\ Schedule([state EXCEPT ![current_proc] = "KILLED"], ready_proc_list)
  /\ UNCHANGED <<wait_proc_list, pid, wait_id, s_pid_num, s_system_ticks,
                 callVars>>

Exit ==
  /\ kill_proc_list' = Append(kill_proc_list, current_proc)
  /\ wait_proc_list' = WakeupWait(INIT_PROCESS_WAIT_ID)
  /\ Schedule(WakeupState([state EXCEPT ![current_proc] = "KILLED"],
                          INIT_PROCESS_WAIT_ID),
              WakeupReady(INIT_PROCESS_WAIT_ID))
  /\ UNCHANGED <<pid, wait_id, s_pid_num, s_system_ticks, callVars>>

-----------------------------------------------------------------------------
(* Interrupts (InterruptHandler).  They reach user code and the idle       *)
(* task's sti; hlt loop only.                                              *)

InterruptsEnabled == call[current_proc] = "none"

\* Vector 32: count the tick, wake the sleepers, yield.
MutTimerWakesNobody ==
  /\ InterruptsEnabled
  /\ s_system_ticks' = (s_system_ticks + 1) % TickModulus
  /\ Yield(state, ready_proc_list)
  /\ UNCHANGED <<wait_proc_list, kill_proc_list, pid, wait_id, s_pid_num,
                 callVars>>

TimerInterrupt ==
  /\ InterruptsEnabled
  /\ s_system_ticks' = (s_system_ticks + 1) % TickModulus
  /\ wait_proc_list' = WakeupWait(NORMAL_PROCESS_WAIT_ID)
  /\ Yield(WakeupState(state, NORMAL_PROCESS_WAIT_ID),
           WakeupReady(NORMAL_PROCESS_WAIT_ID))
  /\ UNCHANGED <<kill_proc_list, pid, wait_id, s_pid_num, callVars>>

\* Vector 33 with a key that yields a character: the readers become ready but
\* the interrupted process keeps the CPU.
KeyboardInterrupt ==
  /\ InterruptsEnabled
  /\ wait_proc_list' = WakeupWait(WAITING_KEYBOARD_PROCESS_WAIT_ID)
  /\ state' = WakeupState(state, WAITING_KEYBOARD_PROCESS_WAIT_ID)
  /\ ready_proc_list' = WakeupReady(WAITING_KEYBOARD_PROCESS_WAIT_ID)
  /\ UNCHANGED <<kill_proc_list, current_proc, pid, wait_id, s_pid_num,
                 s_system_ticks, callVars>>

-----------------------------------------------------------------------------
(* System calls and exceptions of the process that runs user code.         *)

UserMode == current_proc # IDLE /\ call[current_proc] = "none"

\* InterruptHandler, default case, CPL 3: terminate the process.
UserException == UserMode /\ Exit

SysExit == UserMode /\ Exit

\* Exec: a file that cannot be opened or read ends the process; otherwise
\* only its memory and trap frame change.
SysExec == UserMode /\ (Exit \/ UNCHANGED vars)

\* Enter a blocking call; the loop that follows is an action of its own.
Enter(loop, a) ==
  /\ UserMode
  /\ call' = [call EXCEPT ![current_proc] = loop]
  /\ arg' = [arg EXCEPT ![current_proc] = a]
  /\ old_ticks' = [old_ticks EXCEPT ![current_proc] =
                     IF loop = "SysSleep" THEN s_system_ticks ELSE 0]
  /\ UNCHANGED <<procVars, current_proc, listVars, s_pid_num, s_system_ticks>>

SysSleep(ticks) == Enter("SysSleep", ticks)
SysWait(p)      == Enter("Wait", p)
SysReadKey      == Enter("ReadKeyBuffer", 0)

\* The call is done: back to user mode with its locals gone.
Return ==
  /\ call' = [call EXCEPT ![current_proc] = "none"]
  /\ arg' = [arg EXCEPT ![current_proc] = 0]
  /\ old_ticks' = [old_ticks EXCEPT ![current_proc] = 0]

\* while (ticks - old_ticks < sleep_ticks) Sleep(NORMAL_PROCESS_WAIT_ID)
Elapsed(p) == (s_system_ticks - old_ticks[p]) % TickModulus

MutSleepLoopNoRecheck ==
  /\ call[current_proc] = "SysSleep"
  /\ Sleep(NORMAL_PROCESS_WAIT_ID)
  /\ UNCHANGED <<pid, kill_proc_list, s_pid_num, s_system_ticks, callVars>>

SleepLoopBlocks ==
  /\ call[current_proc] = "SysSleep"
  /\ Elapsed(current_proc) < arg[current_proc]
  /\ Sleep(NORMAL_PROCESS_WAIT_ID)
  /\ UNCHANGED <<pid, kill_proc_list, s_pid_num, s_system_ticks, callVars>>

SleepLoopReturns ==
  /\ call[current_proc] = "SysSleep"
  /\ Elapsed(current_proc) >= arg[current_proc]
  /\ Return
  /\ UNCHANGED <<procVars, current_proc, listVars, s_pid_num, s_system_ticks>>

\* SysRead from standard input: each ReadKeyBuffer of its loop sleeps once if
\* the buffer is empty, then takes a key.
ReadKeyBlocks ==
  /\ call[current_proc] = "ReadKeyBuffer"
  /\ Sleep(WAITING_KEYBOARD_PROCESS_WAIT_ID)
  /\ UNCHANGED <<pid, kill_proc_list, s_pid_num, s_system_ticks, callVars>>

ReadKeyReturns ==
  /\ call[current_proc] = "ReadKeyBuffer"
  /\ Return
  /\ UNCHANGED <<procVars, current_proc, listVars, s_pid_num, s_system_ticks>>

-----------------------------------------------------------------------------
(* Wait(pid): one action per outcome of an iteration of its loop.          *)

Matches(p) == pid[p] = arg[current_proc]

\* RemoveProcessWithPID found it: the slot is cleared and the loop ends.
WaitReaps ==
  \E k \in 1 .. Len(kill_proc_list) :
    LET p == kill_proc_list[k]
    IN  /\ call[current_proc] = "Wait"
        /\ Matches(p)
        /\ \A j \in 1 .. k - 1 : ~ Matches(kill_proc_list[j])
        /\ kill_proc_list' = Without(kill_proc_list, {p})
        /\ state' = [state EXCEPT ![p] = "UNUSED"]
        /\ pid' = [pid EXCEPT ![p] = 0]
        /\ wait_id' = [wait_id EXCEPT ![p] = 0]
        /\ Return
        /\ UNCHANGED <<ready_proc_list, wait_proc_list, current_proc, s_pid_num,
                       s_system_ticks>>

\* The kill list is empty: sleep until an Exit().
MutWaitSleepsOnPid ==
  /\ call[current_proc] = "Wait"
  /\ kill_proc_list = <<>>
  /\ Sleep(arg[current_proc])
  /\ UNCHANGED <<pid, kill_proc_list, s_pid_num, s_system_ticks, callVars>>

MutWaitSleepsUnlessReaped ==
  /\ call[current_proc] = "Wait"
  /\ ~ \E p \in Range(kill_proc_list) : Matches(p)
  /\ Sleep(INIT_PROCESS_WAIT_ID)
  /\ UNCHANGED <<pid, kill_proc_list, s_pid_num, s_system_ticks, callVars>>

WaitSleeps ==
  /\ call[current_proc] = "Wait"
  /\ kill_proc_list = <<>>
  /\ Sleep(INIT_PROCESS_WAIT_ID)
  /\ UNCHANGED <<pid, kill_proc_list, s_pid_num, s_system_ticks, callVars>>

\* It holds other processes only: the loop goes round again, and nothing can
\* change what it reads because interrupts are disabled.
WaitSpins ==
  /\ call[current_proc] = "Wait"
  /\ kill_proc_list # <<>>
  /\ \A p \in Range(kill_proc_list) : ~ Matches(p)
  /\ UNCHANGED vars

-----------------------------------------------------------------------------
(* Fork.                                                                   *)

FreeSlots == {p \in Slots : state[p] = "UNUSED"}
MutFindInitializedSlot ==
  CHOOSE p \in {q \in Slots : state[q] \in {"UNUSED", "KILLED"}} :
    \A q \in Slots : state[q] \in {"UNUSED", "KILLED"} => p <= q
FindFreeProcessSlot == CHOOSE p \in FreeSlots : \A q \in FreeSlots : p <= q

\* CreateNewProcess as far as the process table goes.
MutCreateKeepsPidNum(child) ==
  /\ pid' = [pid EXCEPT ![child] = s_pid_num]
  /\ wait_id' = [wait_id EXCEPT ![child] = 0]
  /\ s_pid_num' = s_pid_num

CreateNewProcess(child) ==
  /\ pid' = [pid EXCEPT ![child] = s_pid_num]
  /\ wait_id' = [wait_id EXCEPT ![child] = 0]
  /\ s_pid_num' = s_pid_num + 1

\* Every allocation succeeds: the child joins the ready list.
ForkSucceeds ==
  /\ UserMode /\ s_pid_num < MaxPid /\ FreeSlots # {}
  /\ CreateNewProcess(FindFreeProcessSlot)
  /\ state' = [state EXCEPT ![FindFreeProcessSlot] = "READY"]
  /\ ready_proc_list' = Append(ready_proc_list, FindFreeProcessSlot)
  /\ UNCHANGED <<current_proc, wait_proc_list, kill_proc_list, s_system_ticks,
                 callVars>>

\* No free slot or no kernel stack: -ENOMEM with nothing changed.
ForkFailsEarly == UserMode /\ s_pid_num < MaxPid /\ UNCHANGED vars

\* SetupKVM fails: the slot is cleared again but its pid is used up.
ForkFailsInSetupKVM ==
  /\ UserMode /\ s_pid_num < MaxPid /\ FreeSlots # {}
  /\ s_pid_num' = s_pid_num + 1
  /\ UNCHANGED <<procVars, current_proc, listVars, s_system_ticks, callVars>>

\* CopyUVM fails: Fork returns and the slot stays INITIALIZED.
ForkFailsInCopyUVM ==
  /\ UserMode /\ s_pid_num < MaxPid /\ FreeSlots # {}
  /\ CreateNewProcess(FindFreeProcessSlot)
  /\ state' = [state EXCEPT ![FindFreeProcessSlot] = "INITIALIZED"]
  /\ UNCHANGED <<current_proc, listVars, s_system_ticks, callVars>>

SysFork == ForkSucceeds \/ ForkFailsEarly \/ ForkFailsInSetupKVM
             \/ ForkFailsInCopyUVM

-----------------------------------------------------------------------------
Interrupt == TimerInterrupt \/ KeyboardInterrupt

UserStep == \/ UserException \/ SysExit \/ SysExec \/ SysFork \/ SysReadKey
            \/ \E n \in SleepTicks : SysSleep(n)
            \/ \E p \in WaitPids : SysWait(p)

KernelLoop == \/ SleepLoopBlocks \/ SleepLoopReturns
              \/ ReadKeyBlocks \/ ReadKeyReturns
              \/ WaitReaps \/ WaitSleeps \/ WaitSpins

Next == Interrupt \/ UserStep \/ KernelLoop

Spec == Init /\ [][Next]_vars

\* The timer is periodic and the interrupt controller holds a tick until
\* interrupts are enabled, so a timer interrupt that can be taken again and
\* again is taken; the kernel runs its loops without pause.  User code owes
\* nothing, and no fairness is assumed of it or of the keyboard.
Fairness == SF_vars(TimerInterrupt) /\ WF_vars(KernelLoop)
FairSpec == Spec /\ Fairness

-----------------------------------------------------------------------------
(* Safety.                                                                 *)

\* Every variable keeps its type: the fields of a Process slot, the lists of
\* struct Scheduler and the suspended calls.
TypeOK ==
  /\ state \in [Slots -> ProcessState]
  /\ pid \in [Slots -> Nat]
  /\ wait_id \in [Slots -> WaitIds \cup {0}]
  /\ current_proc \in Slots
  /\ ready_proc_list \in Seq(Slots)
  /\ wait_proc_list \in Seq(Slots)
  /\ kill_proc_list \in Seq(Slots)
  /\ s_pid_num \in Nat
  /\ s_system_ticks \in 0 .. TickModulus - 1
  /\ call \in [Slots -> {"none", "SysSleep", "Wait", "ReadKeyBuffer"}]
  /\ arg \in [Slots -> Int]
  /\ old_ticks \in [Slots -> 0 .. TickModulus - 1]

\* The three lists share the next field of Process, so a process may be linked
\* into at most one of them, once, and into the one its state names; the
\* process that runs, the idle task and slots that are free or half built are
\* in none (process.h, items 1 to 7).
ListsMatchStates ==
  /\ NoDuplicates(ready_proc_list)
  /\ NoDuplicates(wait_proc_list)
  /\ NoDuplicates(kill_proc_list)
  /\ Range(ready_proc_list) = {p \in Slots \ {IDLE} : state[p] = "READY"}
  /\ Range(wait_proc_list) = {p \in Slots : state[p] = "SLEEPING"}
  /\ Range(kill_proc_list) = {p \in Slots : state[p] = "KILLED"}
  /\ {p \in Slots : state[p] = "RUNNING"} = {current_proc}
  /\ state[IDLE] \in {"RUNNING", "READY"}

\* Two processes never share a pid, and only the idle task has pid 0: Wait()
\* and Yield() tell processes apart by it (slots are reused, pids are not).
PidsDistinct ==
  /\ pid[IDLE] = IDLE_PROCESS_PID
  /\ \A p \in Slots \ {IDLE} :
       state[p] # "UNUSED" => pid[p] > 0 /\ pid[p] < s_pid_num
  /\ \A p, q \in Slots :
       state[p] # "UNUSED" /\ state[q] # "UNUSED" /\ pid[p] = pid[q] => p = q

\* A suspended process sleeps on the event its system call waits for, and a
\* process that is killed or not yet created is in no system call: a slot that
\* Fork reuses starts in user mode.
CallsMatchStates ==
  /\ \A p \in Slots : state[p] = "SLEEPING" =>
       \/ call[p] = "SysSleep" /\ wait_id[p] = NORMAL_PROCESS_WAIT_ID
       \/ call[p] = "Wait" /\ wait_id[p] = INIT_PROCESS_WAIT_ID
       \/ call[p] = "ReadKeyBuffer"
            /\ wait_id[p] = WAITING_KEYBOARD_PROCESS_WAIT_ID
  /\ \A p \in Slots : \/ p = IDLE
                      \/ state[p] \in {"UNUSED", "INITIALIZED", "KILLED"}
                      => call[p] = "none"

\* No lost wakeup between Exit() and Wait(): while a killed process waits to be
\* cleaned up, nobody is asleep in Wait(), so whoever is to clean it up is
\* awake and will look at the kill list.
NoReaperSleeps ==
  kill_proc_list # <<>> =>
    \A p \in Range(wait_proc_list) : wait_id[p] # INIT_PROCESS_WAIT_ID

\* No sleeper is left in the wait list once its time is over: the tick that
\* ends a sleep() takes the process out of the list, and SysSleep's loop does
\* not put it back.
NoOverdueSleeper ==
  \A p \in Range(wait_proc_list) :
    call[p] = "SysSleep" => Elapsed(p) < arg[p]

-----------------------------------------------------------------------------
(* Action properties.                                                      *)

\* Round robin: the CPU goes to the head of the ready list and everyone behind
\* it moves up by one; while the CPU stays where it is nobody in the list is
\* overtaken.
RoundRobinStep ==
  LET ready == ready_proc_list
  IN  IF current_proc' = current_proc
      THEN \A k \in 1 .. Len(ready) : /\ k <= Len(ready_proc_list')
                                      /\ ready_proc_list'[k] = ready[k]
      ELSE ready # <<>> =>
             /\ current_proc' = ready[1]
             /\ \A k \in 2 .. Len(ready) :
                  /\ k - 1 <= Len(ready_proc_list')
                  /\ ready_proc_list'[k - 1] = ready[k]
RoundRobin == [][RoundRobinStep]_vars

\* A process that was killed never runs again: its slot changes only by being
\* cleared, in a step of some other process that waited for its pid
\* (process.h, item 7).
KilledIsFinalStep ==
  \A p \in Slots :
    state[p] = "KILLED" /\ state'[p] # "KILLED" =>
      /\ state'[p] = "UNUSED"
      /\ current_proc # p /\ call[current_proc] = "Wait"
      /\ arg[current_proc] = pid[p]
KilledIsFinal == [][KilledIsFinalStep]_vars

-----------------------------------------------------------------------------
(* Liveness, under FairSpec.                                               *)

\* Wait() holds the CPU for good: see WaitSpins.
Spinning == /\ call[current_proc] = "Wait" /\ kill_proc_list # <<>>
            /\ \A p \in Range(kill_proc_list) : ~ Matches(p)

\* Every ready process gets the CPU (round robin over the timer interrupt),
\* unless somebody spins in Wait().
ReadyRuns ==
  \A p \in Slots \ {IDLE} :
    (state[p] = "READY") ~> (current_proc = p \/ Spinning)

\* sleep() returns, unless somebody spins in Wait().
SleepReturns ==
  \A p \in Slots : (call[p] = "SysSleep") ~> (call[p] = "none" \/ Spinning)

=============================================================================
