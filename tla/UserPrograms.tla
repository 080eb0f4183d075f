---------------------------- MODULE UserPrograms ----------------------------
(***************************************************************************)
(* The programs of usr/ on top of the process manager: the shell, which    *)
(* runs one command at a time in a child process and waits for it, and the *)
(* programs it can start.                                                  *)
(*                                                                         *)
(* upc[p] is the next user-level step of the program in slot p, var[p] the *)
(* variable the program keeps fork's result in, cmd[p] the command line.   *)
(* A blocking call moves upc to the step after it: the process gets there  *)
(* when the kernel lets it return.                                         *)
(***************************************************************************)
EXTENDS Scheduler

CONSTANTS
  Commands,       \* what is typed at the prompt, names of programs
  MemoryShortage  \* may the kernel run out of pages during a fork?

\* process1 forks and waits itself; process3 loops for ever; the others (ls,
\* clr, process4) run and return from main.
Programs == {"process1", "process3", "process4", "ls", "clr"}

ASSUME CommandsAssumption == /\ Commands \subseteq Programs
                             /\ MemoryShortage \in BOOLEAN

VARIABLES upc, var, cmd

userVars == <<upc, var, cmd>>
allVars  == <<vars, userVars>>

ENOMEM == 12

me == current_proc

UserInit ==
  /\ Init
  /\ upc = [p \in Slots |-> IF p = SHELL THEN "prompt" ELSE "none"]
  /\ var = [p \in Slots |-> 0]
  /\ cmd = [p \in Slots |-> "none"]

At(step) == UserMode /\ upc[me] = step
Goto(step) == upc' = [upc EXCEPT ![me] = step]

-----------------------------------------------------------------------------
(* shell.c                                                                 *)

\* ReadCmd: read(0, c, 1) until the line ends.  Only the last read matters.
ShellReadsCmd ==
  /\ At("prompt") /\ SysReadKey /\ Goto("parse") /\ UNCHANGED <<var, cmd>>

\* A line with a program's name; builtins and unknown names return to the prompt.
ShellParsesCmd ==
  /\ At("parse")
  /\ \/ \E c \in Commands : /\ cmd' = [cmd EXCEPT ![me] = c]
                            /\ Goto("fork")
     \/ Goto("prompt") /\ UNCHANGED cmd
  /\ UNCHANGED <<var, vars>>

\* pid = fork(): the child, a copy, is at exec; the parent is at wait(pid),
\* whatever fork returned.
MutForkAndContinue(childCmd) ==
  \/ LET child == FindFreeProcessSlot
     IN  /\ ForkSucceeds
         /\ upc' = [upc EXCEPT ![me] = IF me = SHELL THEN "prompt"
                                               ELSE "return",
                            ![child] = "exec"]
         /\ var' = [var EXCEPT ![me] = s_pid_num, ![child] = 0]
         /\ cmd' = [cmd EXCEPT ![child] = childCmd]
  \/ /\ MemoryShortage
     /\ ForkFailsEarly \/ ForkFailsInSetupKVM \/ ForkFailsInCopyUVM
     /\ Goto("wait")
     /\ var' = [var EXCEPT ![me] = - ENOMEM]
     /\ UNCHANGED cmd

ForkAndWait(childCmd) ==
  \/ LET child == FindFreeProcessSlot
     IN  /\ ForkSucceeds
         /\ upc' = [upc EXCEPT ![me] = "wait", ![child] = "exec"]
         /\ var' = [var EXCEPT ![me] = s_pid_num, ![child] = 0]
         /\ cmd' = [cmd EXCEPT ![child] = childCmd]
  \/ /\ MemoryShortage
     /\ ForkFailsEarly \/ ForkFailsInSetupKVM \/ ForkFailsInCopyUVM
     /\ Goto("wait")
     /\ var' = [var EXCEPT ![me] = - ENOMEM]
     /\ UNCHANGED cmd

ShellForks == At("fork") /\ ForkAndWait(cmd[me])

\* wait(pid), then the next prompt for the shell, the end of main for process1.
MutWaitForPreviousPid ==
  /\ At("wait")
  /\ SysWait(var[me] - 1)
  /\ Goto(IF me = SHELL THEN "prompt" ELSE "return")
  /\ UNCHANGED <<var, cmd>>

ProgramWaits ==
  /\ At("wait")
  /\ SysWait(var[me])
  /\ Goto(IF me = SHELL THEN "prompt" ELSE "return")
  /\ UNCHANGED <<var, cmd>>

-----------------------------------------------------------------------------
(* The child: exec(buffer), and then the program's main.                   *)

ChildExecs ==
  /\ At("exec")
  /\ \/ Exit /\ UNCHANGED userVars                     \* the file is not there
     \/ /\ Goto(CASE cmd[me] = "process1" -> "fork1"
                  [] cmd[me] = "process3" -> "loop"
                  [] OTHER -> "return")
        /\ UNCHANGED <<vars, var, cmd>>

\* process1.c: fork; the child execs process4, the parent waits for it.
Process1Forks == At("fork1") /\ ForkAndWait("process4")

\* process3.c: while (1).
Process3Loops == At("loop") /\ UNCHANGED allVars

\* start.asm: main returned, exit().
ProgramExits == At("return") /\ SysExit /\ UNCHANGED userVars

\* Any program but the shell may raise an exception; it is killed if the trap
\* came from ring 3.
ProgramFaults == UserMode /\ me # SHELL /\ Exit /\ UNCHANGED userVars

-----------------------------------------------------------------------------
ProgramStep == \/ ShellReadsCmd \/ ShellParsesCmd \/ ShellForks \/ ProgramWaits
               \/ ChildExecs \/ Process1Forks \/ Process3Loops \/ ProgramExits

UserNext == \/ Interrupt /\ UNCHANGED userVars
            \/ KernelLoop /\ UNCHANGED userVars
            \/ ProgramStep
            \/ ProgramFaults

\* The kernel's fairness, and that a process executes instructions while it has
\* the CPU: its slice of 10 ms is long enough for a step, every time.
ProgramFairness ==
  /\ SF_allVars(TimerInterrupt /\ UNCHANGED userVars)
  /\ WF_allVars(KernelLoop /\ UNCHANGED userVars)
  /\ \A p \in Slots : SF_allVars(me = p /\ ProgramStep)

UserSpec == UserInit /\ [][UserNext]_allVars
FairUserSpec == UserSpec /\ ProgramFairness

-----------------------------------------------------------------------------
(* Properties.                                                             *)

\* A process that waits for a child it forked is not waiting for nothing: the
\* child still has its slot, alive or killed, and nobody else has cleaned it up.
WaitedChildExists ==
  \A w \in Slots : call[w] = "Wait" /\ arg[w] # - ENOMEM =>
    \E p \in Slots \ {w} : pid[p] = arg[w] /\ state[p] # "UNUSED"

\* Killed processes are cleaned up (process.h: the init process will pop and
\* clean up their resources).
KilledAreCleanedUp ==
  \A p \in Slots : (state[p] = "KILLED") ~> (state[p] = "UNUSED")

\* The case the shell is made for: programs that return, none that forks and
\* waits itself, and memory for every fork.  The properties below are about
\* behaviours in which it is always the case.
Benign == \A p \in Slots : /\ cmd[p] \notin {"process1", "process3"}
                          /\ var[p] # - ENOMEM

\* At the prompt the previous command has been cleaned up: its slots, and with
\* them pages and files, are free again.
PromptIsClean ==
  []Benign =>
    [](upc[SHELL] = "prompt" /\ call[SHELL] = "none" =>
         \A p \in Slots \ {IDLE, SHELL} : state[p] = "UNUSED")

\* A command that the shell waits for comes to an end and the prompt returns
\* (shell.c, "Wait command exit."), and its process is cleaned up.
CommandEnds ==
  []Benign =>
    /\ (upc[SHELL] = "wait") ~> (upc[SHELL] = "prompt" /\ call[SHELL] = "none")
    /\ KilledAreCleanedUp

=============================================================================
