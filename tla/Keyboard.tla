------------------------------ MODULE Keyboard ------------------------------
(***************************************************************************)
(* The keyboard driver (kernel/keyboard.c) and its readers (SysRead of     *)
(* kernel/syscall.c) on top of the process manager: a circular buffer that *)
(* the interrupt handler fills and processes in the kernel empty.          *)
(*                                                                         *)
(* A key is the number of its keystroke among those that reached the       *)
(* buffer, so that which key is delivered, and how often, can be told.  0  *)
(* is the zero byte of the buffer's initial contents.                      *)
(***************************************************************************)
EXTENDS Scheduler

CONSTANTS
  BufferSize,    \* s_keyboard_controller.size, 500 in the code
  ReadLengths,   \* the lengths user code gives to read(0, ...)
  Readers,       \* the slots whose program reads the keyboard
  MaxKeys        \* bound of the model: number of keys typed

ASSUME KeyboardAssumption ==
  /\ BufferSize \in Nat \ {0, 1}
  /\ ReadLengths \subseteq Nat
  /\ Readers \subseteq Slots
  /\ MaxKeys \in Nat

VARIABLES
  buffer, front, end,   \* s_keyboard_controller
  left,                 \* per slot: keys SysRead still has to read
  slept,                \* per slot: ReadKeyBuffer is back from its Sleep()
  saved,                \* per slot: the local variable front of ReadKeyBuffer
  typed,                \* number of keys stored so far
  delivered             \* the keys ReadKeyBuffer returned, in order

readVars == <<left, slept, saved>>
kbVars   == <<buffer, front, end, readVars, typed, delivered>>
keyVars  == <<vars, kbVars>>

KeyInit ==
  /\ Init
  /\ buffer = [i \in 0 .. BufferSize - 1 |-> 0]
  /\ front = 0 /\ end = 0
  /\ left = [p \in Slots |-> 0]
  /\ slept = [p \in Slots |-> FALSE]
  /\ saved = [p \in Slots |-> 0]
  /\ typed = 0 /\ delivered = <<>>

-----------------------------------------------------------------------------
\* WriteKeyBuffer: a full buffer drops the key.
MutFullNoWrap == end + 1 = front
Full == (end + 1) % BufferSize = front

WriteKeyBuffer ==
  IF Full
  THEN UNCHANGED <<buffer, end, typed>>
  ELSE /\ buffer' = [buffer EXCEPT ![end] = typed + 1]
       /\ end' = (end + 1) % BufferSize
       /\ typed' = typed + 1

\* KeyboardHandler for a scan code that yields a character; the readers are
\* woken even if the key was dropped.
MutHandlerForgetsWakeup ==
  /\ InterruptsEnabled /\ typed < MaxKeys
  /\ WriteKeyBuffer
  /\ UNCHANGED <<vars, front, readVars, delivered>>

KeyboardHandler ==
  /\ KeyboardInterrupt /\ typed < MaxKeys
  /\ WriteKeyBuffer
  /\ UNCHANGED <<front, readVars, delivered>>

-----------------------------------------------------------------------------
(* SysRead(STANDARD_INPUT, buffer, length), one ReadKeyBuffer at a time.   *)

SysRead(length) ==
  /\ current_proc \in Readers
  /\ SysReadKey
  /\ left' = [left EXCEPT ![current_proc] = length]
  /\ UNCHANGED <<buffer, front, end, slept, saved, typed, delivered>>

Reading == call[current_proc] = "ReadKeyBuffer"

\* The end of ReadKeyBuffer: front moves on from wherever it is now, and the
\* key is the one at the index read before the sleep.
TakeKey(at) ==
  /\ front' = (front + 1) % BufferSize
  /\ delivered' = Append(delivered, buffer[at])
  /\ left' = [left EXCEPT ![current_proc] = @ - 1]
  /\ slept' = [slept EXCEPT ![current_proc] = FALSE]
  /\ saved' = [saved EXCEPT ![current_proc] = 0]
  /\ UNCHANGED <<vars, buffer, end, typed>>

\* ReadKeyBuffer finds a key.
ReadKeyAtOnce ==
  /\ Reading /\ left[current_proc] > 0
  /\ ~ slept[current_proc] /\ front # end
  /\ TakeKey(front)

\* It finds none and sleeps.
ReadKeySleeps ==
  /\ Reading /\ left[current_proc] > 0
  /\ ~ slept[current_proc] /\ front = end
  /\ slept' = [slept EXCEPT ![current_proc] = TRUE]
  /\ saved' = [saved EXCEPT ![current_proc] = front]
  /\ ReadKeyBlocks
  /\ UNCHANGED <<buffer, front, end, left, typed, delivered>>

\* It is woken, and takes a key without looking again.
ReadKeyWoken ==
  /\ Reading /\ slept[current_proc]
  /\ TakeKey(saved[current_proc])

\* The loop over length is done.
SysReadReturns ==
  /\ Reading /\ left[current_proc] = 0
  /\ ReadKeyReturns
  /\ UNCHANGED kbVars

ReadStep == ReadKeyAtOnce \/ ReadKeySleeps \/ ReadKeyWoken \/ SysReadReturns

\* The rest of the kernel as Scheduler has it.
OtherUserStep == \/ TimerInterrupt \/ SysExit \/ SysFork
                 \/ \E n \in SleepTicks : SysSleep(n)
                 \/ \E p \in WaitPids : SysWait(p)
OtherLoop == \/ SleepLoopBlocks \/ SleepLoopReturns
             \/ WaitReaps \/ WaitSleeps \/ WaitSpins

KeyNext == \/ KeyboardHandler \/ ReadStep
           \/ \E n \in ReadLengths : SysRead(n)
           \/ OtherUserStep /\ UNCHANGED kbVars
           \/ OtherLoop /\ UNCHANGED kbVars

KeySpec == KeyInit /\ [][KeyNext]_keyVars

\* As in Scheduler: the timer is not lost and the kernel's loops run on.
KeyFairness ==
  /\ SF_keyVars(TimerInterrupt /\ UNCHANGED kbVars)
  /\ WF_keyVars(ReadStep \/ (OtherLoop /\ UNCHANGED kbVars))
FairKeySpec == KeySpec /\ KeyFairness

-----------------------------------------------------------------------------
(* Properties.                                                             *)

\* The buffer of the ring between front and end, as the queue it stands for.
Contents == [i \in 1 .. (end - front) % BufferSize |->
               buffer[(front + i - 1) % BufferSize]]

Promise == INSTANCE KeyQueue WITH Keys <- 1 .. MaxKeys,
                                  Capacity <- BufferSize - 1,
                                  queue <- Contents, out <- delivered

\* The driver is a bounded FIFO queue: stored keys are neither lost, nor
\* duplicated, nor reordered, nor overwritten while they wait.
IsKeyQueue == Promise!QueueSpec

\* Nobody sleeps for a key while there is one: the interrupt that stores a key
\* wakes the readers, and a reader sleeps only on an empty buffer.
NoKeyWhileReaderSleeps ==
  front # end => \A p \in Range(wait_proc_list) :
                   wait_id[p] # WAITING_KEYBOARD_PROCESS_WAIT_ID

\* A reader that asks while there are keys gets its keys, or empties the buffer,
\* unless somebody spins in Wait() and holds the CPU for good.
KeysAreRead ==
  \A p \in Readers :
    (call[p] = "ReadKeyBuffer" /\ front # end) ~>
      (call[p] = "none" \/ front = end \/ Spinning)

=============================================================================
