--------------------------- MODULE KeyboardProofs ---------------------------
(***************************************************************************)
(* Theorems about the two modules of kernel/keyboard.c: Keyboard, for any  *)
(* size of the ring, any number of keys and of processes, and one process  *)
(* that reads the keyboard; ScanCode, for any keys, one of which is shift. *)
(***************************************************************************)
EXTENDS Keyboard, ScanCode, SchedulerProofs, SequenceTheorems

\* The driver takes a key after a Sleep() without looking at the buffer again,
\* so what it promises, it promises to one reader: the shell of this system.
OneReader == \A p, q \in Readers : p = q

-----------------------------------------------------------------------------
(* The inductive invariant.                                                *)

KeyTypeOK ==
  /\ buffer \in [0 .. BufferSize - 1 -> 0 .. MaxKeys]
  /\ front \in 0 .. BufferSize - 1 /\ end \in 0 .. BufferSize - 1
  /\ left \in [Slots -> Nat]
  /\ slept \in [Slots -> BOOLEAN]
  /\ saved \in [Slots -> 0 .. BufferSize - 1]
  /\ typed \in 0 .. MaxKeys
  /\ delivered \in Seq(0 .. MaxKeys)

\* ReadKeyBuffer is between its Sleep() and its return: the front it read before
\* is still the front, and it is asleep exactly while the buffer is empty.
Suspended(p) ==
  /\ call[p] = "ReadKeyBuffer" /\ left[p] > 0 /\ saved[p] = front
  /\ state[p] = "SLEEPING" <=> front = end

ReadersInv ==
  /\ \A p \in Slots : call[p] = "ReadKeyBuffer" => p \in Readers
  /\ \A p \in Slots : slept[p] => Suspended(p)
  /\ \A p \in Slots : call[p] = "ReadKeyBuffer" /\ state[p] = "SLEEPING"
                        => slept[p]

KeyInv == SchedulerInv /\ KeyTypeOK /\ ReadersInv

-----------------------------------------------------------------------------
(* The ring's arithmetic.                                                  *)

\* One place on from place x.
LEMMA RingNext ==
  ASSUME NEW x \in 0 .. BufferSize - 1
  PROVE  (x + 1) % BufferSize = IF x + 1 = BufferSize THEN 0 ELSE x + 1
BY KeyboardAssumption

\* The place i places on from place x.
LEMMA RingIndex ==
  ASSUME NEW x \in 0 .. BufferSize - 1, NEW i \in 0 .. BufferSize - 1
  PROVE  (x + i) % BufferSize = IF x + i < BufferSize THEN x + i
                                ELSE x + i - BufferSize
BY KeyboardAssumption

\* The number of places from place x to place y.
LEMMA RingLength ==
  ASSUME NEW x \in 0 .. BufferSize - 1, NEW y \in 0 .. BufferSize - 1
  PROVE  (y - x) % BufferSize = IF y >= x THEN y - x ELSE y - x + BufferSize
BY KeyboardAssumption

-----------------------------------------------------------------------------
(* The process manager below the driver.                                   *)

\* Every step of the driver is a step of the process manager, or leaves it alone.
LEMMA KeyStepIsStep == [KeyNext]_keyVars => [Next]_vars
BY DEF KeyNext, keyVars, KeyboardHandler, ReadStep, ReadKeyAtOnce, ReadKeySleeps,
       ReadKeyWoken, SysReadReturns, TakeKey, SysRead, OtherUserStep, OtherLoop,
       Next, Interrupt, UserStep, KernelLoop

\* What is asleep is what is in the wait list.
LEMMA AsleepInList ==
  ASSUME SchedulerInv
  PROVE  \A p \in Slots : state[p] = "SLEEPING" <=> p \in Range(wait_proc_list)
BY DEF SchedulerInv, ListsMatchStates

\* The steps that are no business of the keyboard neither wake a reader nor put
\* one to sleep, and no process enters or leaves the read in them.
LEMMA ReadersUndisturbed ==
  ASSUME SchedulerInv, SchedulerInv', OtherUserStep \/ OtherLoop
  PROVE  /\ \A p \in Slots : call'[p] = "ReadKeyBuffer" <=>
                               call[p] = "ReadKeyBuffer"
         /\ \A p \in Slots : call[p] = "ReadKeyBuffer" =>
              (state'[p] = "SLEEPING" <=> state[p] = "SLEEPING")
<1> DEFINE Goal == /\ \A p \in Slots : call'[p] = "ReadKeyBuffer" <=>
                                         call[p] = "ReadKeyBuffer"
                   /\ \A p \in Slots : call[p] = "ReadKeyBuffer" =>
                        (state'[p] = "SLEEPING" <=> state[p] = "SLEEPING")
<1>1. /\ \A p \in Slots : state[p] = "SLEEPING" <=> p \in Range(wait_proc_list)
      /\ \A p \in Slots : state'[p] = "SLEEPING" <=> p \in Range(wait_proc_list')
  BY AsleepInList DEF SchedulerInv, ListsMatchStates
<1>2. TypeOK /\ ListsMatchStates /\ current_proc \in Slots
  BY DEF SchedulerInv, TypeOK
<1>3. \A p \in Slots : call[p] = "ReadKeyBuffer" /\ state[p] = "SLEEPING" =>
        wait_id[p] \notin {NORMAL_PROCESS_WAIT_ID, INIT_PROCESS_WAIT_ID}
  BY DEF SchedulerInv, CallsMatchStates, NORMAL_PROCESS_WAIT_ID,
         INIT_PROCESS_WAIT_ID, WAITING_KEYBOARD_PROCESS_WAIT_ID
<1>4. CASE TimerInterrupt \/ SysExit
  <2>1. PICK w \in {NORMAL_PROCESS_WAIT_ID, INIT_PROCESS_WAIT_ID} :
          wait_proc_list' = WakeupWait(w)
    BY <1>4 DEF TimerInterrupt, SysExit, Exit
  <2>2. Range(wait_proc_list') =
          {p \in Slots : state[p] = "SLEEPING" /\ wait_id[p] # w}
    BY <1>2, <2>1, WakeupLists
  <2>3. UNCHANGED call
    BY <1>4 DEF TimerInterrupt, SysExit, Exit, callVars
  <2> QED
    BY <1>1, <1>3, <2>2, <2>3
<1>5. CASE SysFork
  <2>1. UNCHANGED <<call, wait_proc_list>>
    BY <1>5 DEF SysFork, ForkSucceeds, ForkFailsEarly, ForkFailsInSetupKVM,
                ForkFailsInCopyUVM, vars, listVars, callVars
  <2> QED
    BY <1>1, <2>1
<1>6. ASSUME NEW loop \in {"SysSleep", "Wait"}, NEW a, Enter(loop, a)
      PROVE  Goal
  <2>1. UNCHANGED wait_proc_list /\ call[current_proc] = "none"
    BY <1>6 DEF Enter, UserMode, listVars
  <2>2. \A p \in Slots : call'[p] = IF p = current_proc THEN loop ELSE call[p]
    BY <1>2, <1>6 DEF Enter, TypeOK
  <2> QED
    BY <1>1, <1>2, <2>1, <2>2
<1>7. CASE SleepLoopBlocks \/ WaitSleeps
  <2>1. /\ wait_proc_list' = Append(wait_proc_list, current_proc)
        /\ call[current_proc] \in {"SysSleep", "Wait"} /\ UNCHANGED call
    BY <1>7 DEF SleepLoopBlocks, WaitSleeps, Sleep, callVars
  <2>2. Range(wait_proc_list') = Range(wait_proc_list) \cup {current_proc}
    BY <1>2, <2>1, PushBack DEF TypeOK
  <2> QED
    BY <1>1, <2>1, <2>2
<1>8. CASE SleepLoopReturns \/ WaitReaps
  <2>1. /\ UNCHANGED wait_proc_list /\ Return
        /\ call[current_proc] \in {"SysSleep", "Wait"}
    BY <1>8 DEF SleepLoopReturns, WaitReaps, listVars
  <2>2. \A p \in Slots : call'[p] = IF p = current_proc THEN "none" ELSE call[p]
    BY <1>2, <2>1 DEF Return, TypeOK
  <2> QED
    BY <1>1, <2>1, <2>2
<1>9. CASE WaitSpins
  BY <1>9 DEF WaitSpins, vars, procVars, callVars
<1> QED
  BY <1>4, <1>5, <1>6, <1>7, <1>8, <1>9
  DEF OtherUserStep, OtherLoop, SysSleep, SysWait

-----------------------------------------------------------------------------
(* The invariant is inductive: one lemma per kind of step.                 *)

\* The invariant holds after InitKeyboard, with an empty buffer and no reader.
LEMMA KeyInvInit == KeyInit => KeyInv
<1> SUFFICES ASSUME KeyInit PROVE KeyInv
  OBVIOUS
<1>1. SchedulerInv
  BY InvInit DEF KeyInit
<1>2. KeyTypeOK
  BY KeyboardAssumption DEF KeyInit, KeyTypeOK
<1>3. ReadersInv
  BY DEF KeyInit, Init, ReadersInv
<1> QED
  BY <1>1, <1>2, <1>3 DEF KeyInv

\* The key interrupt: there is a key afterwards, stored now or before, and every
\* reader is awake.
LEMMA HandlerInv ==
  ASSUME KeyInv, SchedulerInv', KeyboardHandler
  PROVE  KeyInv' /\ front' # end'
<1> USE DEF KeyInv
<1>1. /\ KeyboardInterrupt /\ WriteKeyBuffer /\ typed < MaxKeys
      /\ UNCHANGED <<front, left, slept, saved, delivered, call>>
  BY DEF KeyboardHandler, KeyboardInterrupt, readVars, callVars
<1>2. (end + 1) % BufferSize = IF end + 1 = BufferSize THEN 0 ELSE end + 1
  BY RingNext DEF KeyTypeOK
<1>3. KeyTypeOK' /\ front' # end'
  <2>1. CASE Full
    <3>1. UNCHANGED <<buffer, end, typed, front, left, slept, saved, delivered, call>>
      BY <1>1, <2>1 DEF WriteKeyBuffer
    <3>2. front # end
      BY <1>2, <2>1, KeyboardAssumption DEF Full, KeyTypeOK
    <3> QED
      BY <3>1, <3>2 DEF KeyTypeOK
  <2>2. CASE ~ Full
    <3>1. /\ buffer' = [buffer EXCEPT ![end] = typed + 1]
          /\ end' = (end + 1) % BufferSize /\ typed' = typed + 1
      BY <1>1, <2>2 DEF WriteKeyBuffer
    <3>2. typed' \in 0 .. MaxKeys /\ end' \in 0 .. BufferSize - 1
      BY <1>1, <1>2, <3>1, KeyboardAssumption DEF KeyTypeOK
    <3>3. buffer' \in [0 .. BufferSize - 1 -> 0 .. MaxKeys]
      BY <3>1, <3>2 DEF KeyTypeOK
    <3>4. front' # end'
      BY <1>1, <2>2, <3>1 DEF Full
    <3> QED
      BY <1>1, <3>2, <3>3, <3>4 DEF KeyTypeOK
  <2> QED
    BY <2>1, <2>2
<1>4. \A p \in Slots : state'[p] = "SLEEPING" => call[p] # "ReadKeyBuffer"
  <2>1. Range(wait_proc_list') =
          {p \in Slots : state[p] = "SLEEPING"
                           /\ wait_id[p] # WAITING_KEYBOARD_PROCESS_WAIT_ID}
    BY <1>1, WakeupLists DEF KeyboardInterrupt, SchedulerInv
  <2>2. \A p \in Slots : state'[p] = "SLEEPING" => p \in Range(wait_proc_list')
    BY DEF SchedulerInv, ListsMatchStates
  <2> QED
    BY <2>1, <2>2 DEF SchedulerInv, CallsMatchStates
<1>5. ReadersInv'
  BY <1>1, <1>3, <1>4 DEF ReadersInv, Suspended
<1> QED
  BY <1>3, <1>5

\* The end of ReadKeyBuffer moves front on; the one reader holds no older value.
LEMMA TakeKeyInv ==
  ASSUME OneReader, KeyInv, SchedulerInv', Reading, left[current_proc] > 0,
         NEW at \in 0 .. BufferSize - 1, TakeKey(at)
  PROVE  KeyInv'
<1> USE DEF KeyInv
<1>1. current_proc \in Slots /\ current_proc \in Readers
  BY DEF Reading, ReadersInv, SchedulerInv, TypeOK
<1>2. UNCHANGED <<call, state, buffer, end, typed, current_proc>>
  BY DEF TakeKey, vars, procVars, callVars
<1>3. KeyTypeOK'
  <2>1. front' \in 0 .. BufferSize - 1
    BY RingNext, KeyboardAssumption DEF TakeKey, KeyTypeOK
  <2>2. buffer[at] \in 0 .. MaxKeys
    BY DEF KeyTypeOK
  <2>3. delivered' \in Seq(0 .. MaxKeys)
    BY <2>2 DEF TakeKey, KeyTypeOK
  <2> QED
    BY <1>1, <1>2, <2>1, <2>3, KeyboardAssumption, SMTT(40) DEF TakeKey, KeyTypeOK
<1>4. \A p \in Slots : ~ slept'[p]
  <2>1. ~ slept'[current_proc]
    BY <1>1 DEF TakeKey, KeyTypeOK
  <2>2. \A p \in Slots : p # current_proc => slept'[p] = slept[p]
    BY <1>1 DEF TakeKey, KeyTypeOK
  <2>3. \A p \in Slots : slept[p] => p = current_proc
    BY <1>1 DEF ReadersInv, Suspended, OneReader
  <2> QED
    BY <2>1, <2>2, <2>3
<1>5. \A p \in Slots : call[p] = "ReadKeyBuffer" => state[p] # "SLEEPING"
  BY <1>1, CurrentRuns DEF ReadersInv, OneReader, SchedulerInv
<1> QED
  BY <1>2, <1>3, <1>4, <1>5 DEF ReadersInv

\* Finding no key, the reader goes to sleep, and remembers the front.
LEMMA ReadSleepsInv ==
  ASSUME KeyInv, SchedulerInv', ReadKeySleeps
  PROVE  KeyInv'
<1> USE DEF KeyInv
<1>1. /\ Reading /\ left[current_proc] > 0 /\ front = end
      /\ slept' = [slept EXCEPT ![current_proc] = TRUE]
      /\ saved' = [saved EXCEPT ![current_proc] = front]
      /\ UNCHANGED <<buffer, front, end, left, typed, delivered, call>>
      /\ wait_proc_list' = Append(wait_proc_list, current_proc)
  BY DEF ReadKeySleeps, ReadKeyBlocks, Sleep, callVars
<1>2. current_proc \in Slots /\ wait_proc_list \in Seq(Slots)
  BY DEF SchedulerInv, TypeOK
<1>3. KeyTypeOK'
  BY <1>1, <1>2 DEF KeyTypeOK
<1>4. \A p \in Slots : state'[p] = "SLEEPING" <=>
                          p = current_proc \/ state[p] = "SLEEPING"
  <2>1. Range(wait_proc_list') = Range(wait_proc_list) \cup {current_proc}
    BY <1>1, <1>2, PushBack
  <2> QED
    BY <2>1 DEF SchedulerInv, ListsMatchStates
<1>5. /\ slept'[current_proc] = TRUE /\ saved'[current_proc] = front
      /\ \A p \in Slots : p # current_proc => /\ slept'[p] = slept[p]
                                              /\ saved'[p] = saved[p]
  BY <1>1, <1>2 DEF KeyTypeOK
<1>6. ASSUME NEW p \in Slots, slept'[p] PROVE Suspended(p)'
  <2>1. CASE p = current_proc
    BY <1>1, <1>4, <1>5, <2>1 DEF Reading, Suspended
  <2>2. CASE p # current_proc
    <3>1. slept[p]
      BY <1>5, <1>6, <2>2
    <3>2. Suspended(p)
      BY <3>1 DEF ReadersInv
    <3> QED
      BY <1>1, <1>4, <1>5, <2>2, <3>2 DEF Suspended
  <2> QED
    BY <2>1, <2>2
<1>7. ASSUME NEW p \in Slots, call'[p] = "ReadKeyBuffer", state'[p] = "SLEEPING"
      PROVE  slept'[p]
  <2>1. p = current_proc \/ slept[p]
    BY <1>1, <1>4, <1>7 DEF ReadersInv
  <2> QED
    BY <1>5, <2>1
<1> QED
  BY <1>1, <1>3, <1>6, <1>7 DEF ReadersInv

\* The read returns to user mode with all its keys; nobody is suspended in it.
LEMMA ReadReturnsInv ==
  ASSUME KeyInv, SchedulerInv', SysReadReturns
  PROVE  KeyInv'
<1> USE DEF KeyInv
<1>1. /\ Reading /\ left[current_proc] = 0 /\ Return /\ UNCHANGED state
      /\ UNCHANGED <<buffer, front, end, left, slept, saved, typed, delivered>>
  BY DEF SysReadReturns, ReadKeyReturns, kbVars, readVars, procVars
<1>2. current_proc \in Slots
  BY DEF SchedulerInv, TypeOK
<1>3. \A p \in Slots : call'[p] = IF p = current_proc THEN "none" ELSE call[p]
  BY <1>1 DEF Return, SchedulerInv, TypeOK
<1>4. KeyTypeOK'
  BY <1>1 DEF KeyTypeOK
<1>5. ~ slept[current_proc]
  BY <1>1, <1>2 DEF ReadersInv, Suspended
<1>6. ReadersInv'
  BY <1>1, <1>3, <1>5 DEF ReadersInv, Suspended
<1> QED
  BY <1>4, <1>6

\* SysRead starts: the process was in user mode, so suspended in no read.
LEMMA ReadStartsInv ==
  ASSUME KeyInv, SchedulerInv', NEW n \in ReadLengths, SysRead(n)
  PROVE  KeyInv'
<1> USE DEF KeyInv
<1>1. /\ current_proc \in Readers /\ call[current_proc] = "none"
      /\ call' = [call EXCEPT ![current_proc] = "ReadKeyBuffer"]
      /\ left' = [left EXCEPT ![current_proc] = n] /\ UNCHANGED state
      /\ UNCHANGED <<buffer, front, end, slept, saved, typed, delivered>>
  BY DEF SysRead, SysReadKey, Enter, UserMode, procVars
<1>2. current_proc \in Slots /\ state[current_proc] = "RUNNING"
  BY CurrentRuns DEF SchedulerInv
<1>3. KeyTypeOK'
  BY <1>1, KeyboardAssumption DEF KeyTypeOK
<1>4. \A p \in Slots : p # current_proc => /\ call'[p] = call[p]
                                           /\ left'[p] = left[p]
  BY <1>1, <1>2 DEF KeyTypeOK, SchedulerInv, TypeOK
<1>5. ~ slept[current_proc]
  BY <1>1, <1>2 DEF ReadersInv, Suspended
<1>6. ReadersInv'
  BY <1>1, <1>2, <1>4, <1>5 DEF ReadersInv, Suspended
<1> QED
  BY <1>3, <1>6

\* A step that leaves the driver alone.
LEMMA OtherStepInv ==
  ASSUME KeyInv, SchedulerInv', UNCHANGED kbVars,
         OtherUserStep \/ OtherLoop \/ UNCHANGED vars
  PROVE  KeyInv'
<1> USE DEF KeyInv
<1>1. UNCHANGED <<buffer, front, end, left, slept, saved, typed, delivered>>
  BY DEF kbVars, readVars
<1>2. /\ \A p \in Slots : call'[p] = "ReadKeyBuffer" <=>
                              call[p] = "ReadKeyBuffer"
      /\ \A p \in Slots : call[p] = "ReadKeyBuffer" =>
           (state'[p] = "SLEEPING" <=> state[p] = "SLEEPING")
  BY ReadersUndisturbed DEF vars, procVars, callVars
<1>3. KeyTypeOK'
  BY <1>1 DEF KeyTypeOK
<1>4. ReadersInv'
  BY <1>1, <1>2 DEF ReadersInv, Suspended
<1> QED
  BY <1>3, <1>4

\* Every step keeps the invariant.
LEMMA KeyInvStep ==
  ASSUME OneReader
  PROVE  KeyInv /\ [KeyNext]_keyVars => KeyInv'
<1> SUFFICES ASSUME KeyInv, [KeyNext]_keyVars PROVE KeyInv'
  OBVIOUS
<1>1. SchedulerInv'
  BY KeyStepIsStep, InvStep DEF KeyInv
<1>2. CASE KeyboardHandler
  BY <1>1, <1>2, HandlerInv
<1>3. CASE ReadKeyAtOnce
  BY <1>1, <1>3, TakeKeyInv DEF ReadKeyAtOnce, KeyInv, KeyTypeOK
<1>4. CASE ReadKeyWoken
  <2>1. current_proc \in Slots
    BY DEF KeyInv, SchedulerInv, TypeOK
  <2>2. left[current_proc] > 0 /\ saved[current_proc] \in 0 .. BufferSize - 1
    BY <1>4, <2>1 DEF ReadKeyWoken, KeyInv, KeyTypeOK, ReadersInv, Suspended
  <2> QED
    BY <1>1, <1>4, <2>2, TakeKeyInv DEF ReadKeyWoken
<1>5. CASE ReadKeySleeps
  BY <1>1, <1>5, ReadSleepsInv
<1>6. CASE SysReadReturns
  BY <1>1, <1>6, ReadReturnsInv
<1>7. ASSUME NEW n \in ReadLengths, SysRead(n) PROVE KeyInv'
  BY <1>1, <1>7, ReadStartsInv
<1>8. CASE (OtherUserStep \/ OtherLoop \/ UNCHANGED vars) /\ UNCHANGED kbVars
  BY <1>1, <1>8, OtherStepInv
<1> QED
  BY <1>2, <1>3, <1>4, <1>5, <1>6, <1>7, <1>8 DEF KeyNext, ReadStep, keyVars

\* With one reader, the driver's invariant holds in every reachable state: a
\* process suspended in ReadKeyBuffer still has the right front.
THEOREM KeyInvHolds == OneReader => (KeySpec => []KeyInv)
<1> SUFFICES ASSUME OneReader PROVE KeySpec => []KeyInv
  OBVIOUS
<1>1. KeyInv /\ [KeyNext]_keyVars => KeyInv'
  BY KeyInvStep
<1> QED
  BY <1>1, KeyInvInit, PTL DEF KeySpec

\* Nobody sleeps for a key while there is one in the ring: the wakeup between
\* WriteKeyBuffer and the Sleep() of ReadKeyBuffer is never lost.
THEOREM NoKeyWakeupLost == OneReader => (KeySpec => []NoKeyWhileReaderSleeps)
<1> SUFFICES ASSUME OneReader PROVE KeySpec => []NoKeyWhileReaderSleeps
  OBVIOUS
<1>1. KeyInv => NoKeyWhileReaderSleeps
  <2> SUFFICES ASSUME KeyInv, NEW p \in Range(wait_proc_list),
                      wait_id[p] = WAITING_KEYBOARD_PROCESS_WAIT_ID
               PROVE  front = end
    BY DEF NoKeyWhileReaderSleeps
  <2>1. p \in Slots /\ state[p] = "SLEEPING"
    BY DEF KeyInv, SchedulerInv, ListsMatchStates
  <2>2. call[p] = "ReadKeyBuffer"
    BY <2>1 DEF KeyInv, SchedulerInv, CallsMatchStates, NORMAL_PROCESS_WAIT_ID,
                INIT_PROCESS_WAIT_ID, WAITING_KEYBOARD_PROCESS_WAIT_ID
  <2> QED
    BY <2>1, <2>2 DEF KeyInv, ReadersInv, Suspended
<1> QED
  BY <1>1, KeyInvHolds, PTL

-----------------------------------------------------------------------------
(* Refinement: the ring is a bounded queue.                                *)

\* The queue that a ring with contents b between places f and e stands for.
Ring(b, f, e) == [i \in 1 .. (e - f) % BufferSize |-> b[(f + i - 1) % BufferSize]]

RingBuffers == [0 .. BufferSize - 1 -> 0 .. MaxKeys]

\* How many places that is, and the i-th of them, without the modulus.
RingSize(f, e) == IF e >= f THEN e - f ELSE e - f + BufferSize
Place(f, i) == IF f + i - 1 < BufferSize THEN f + i - 1 ELSE f + i - 1 - BufferSize

\* The places between f and e, in order.
LEMMA RingIsSequence ==
  ASSUME NEW b \in RingBuffers, NEW f \in 0 .. BufferSize - 1,
         NEW e \in 0 .. BufferSize - 1
  PROVE  /\ Ring(b, f, e) \in Seq(0 .. MaxKeys)
         /\ RingSize(f, e) \in 0 .. BufferSize - 1
         /\ Len(Ring(b, f, e)) = RingSize(f, e)
         /\ \A i \in 1 .. RingSize(f, e) : Ring(b, f, e)[i] = b[Place(f, i)]
<1> DEFINE n == RingSize(f, e)
<1>1. (e - f) % BufferSize = n /\ n \in 0 .. BufferSize - 1
  BY RingLength, KeyboardAssumption DEF RingSize
<1>2. ASSUME NEW i \in 1 .. n
      PROVE  /\ (f + i - 1) % BufferSize = Place(f, i)
             /\ Place(f, i) \in 0 .. BufferSize - 1
  <2>1. PICK j \in 0 .. BufferSize - 1 : j = i - 1
    BY <1>1, KeyboardAssumption
  <2>2. (f + j) % BufferSize = IF f + j < BufferSize THEN f + j
                               ELSE f + j - BufferSize
    BY RingIndex
  <2>3. f + i - 1 = f + j
    BY <2>1
  <2> QED
    BY <2>2, <2>3, KeyboardAssumption DEF Place
<1> HIDE DEF n
<1>3. Ring(b, f, e) = [i \in 1 .. n |-> b[Place(f, i)]]
  BY <1>1, <1>2 DEF Ring
<1>4. \A i \in 1 .. n : b[Place(f, i)] \in 0 .. MaxKeys
  BY <1>2 DEF RingBuffers
<1>5. Ring(b, f, e) \in Seq(0 .. MaxKeys) /\ Len(Ring(b, f, e)) = n
  BY <1>1, <1>3, <1>4
<1>6. \A i \in 1 .. n : Ring(b, f, e)[i] = b[Place(f, i)]
  BY <1>3
<1> QED
  BY <1>1, <1>5, <1>6 DEF n

\* Storing a key appends it, and there was room.
LEMMA RingPut ==
  ASSUME NEW b \in RingBuffers, NEW f \in 0 .. BufferSize - 1,
         NEW e \in 0 .. BufferSize - 1, NEW k \in 0 .. MaxKeys,
         (e + 1) % BufferSize # f
  PROVE  /\ Len(Ring(b, f, e)) < BufferSize - 1
         /\ Ring([b EXCEPT ![e] = k], f, (e + 1) % BufferSize) =
              Append(Ring(b, f, e), k)
<1> DEFINE n == RingSize(f, e)
           e2 == (e + 1) % BufferSize
           b2 == [b EXCEPT ![e] = k]
           old == Ring(b, f, e)
           new == Ring(b2, f, e2)
<1>1. /\ e2 = IF e + 1 = BufferSize THEN 0 ELSE e + 1
      /\ e2 \in 0 .. BufferSize - 1 /\ e2 # f
  BY RingNext, KeyboardAssumption
<1>2. b2 \in RingBuffers
  BY DEF RingBuffers
<1>3. \A j \in 0 .. BufferSize - 1 : b2[j] = IF j = e THEN k ELSE b[j]
  BY DEF RingBuffers
<1> HIDE DEF b2, e2, new, old
<1>4. /\ old \in Seq(0 .. MaxKeys) /\ n \in 0 .. BufferSize - 1 /\ Len(old) = n
      /\ \A i \in 1 .. n : old[i] = b[Place(f, i)]
  BY RingIsSequence DEF old
<1>5. RingSize(f, e2) = n + 1 /\ n + 1 \in 0 .. BufferSize - 1
  BY <1>1, KeyboardAssumption DEF RingSize
<1>6. /\ new \in Seq(0 .. MaxKeys) /\ Len(new) = n + 1
      /\ \A i \in 1 .. n + 1 : new[i] = b2[Place(f, i)]
  <2>1. /\ new \in Seq(0 .. MaxKeys) /\ Len(new) = RingSize(f, e2)
        /\ \A i \in 1 .. RingSize(f, e2) : new[i] = b2[Place(f, i)]
    BY <1>1, <1>2, RingIsSequence, ZenonT(40) DEF new
  <2> QED
    BY <1>5, <2>1
<1>7. ASSUME NEW i \in 1 .. n + 1
      PROVE  new[i] = IF i = n + 1 THEN k ELSE old[i]
  <2>1. Place(f, i) \in 0 .. BufferSize - 1 /\ (Place(f, i) = e <=> i = n + 1)
    BY <1>5, KeyboardAssumption DEF Place, RingSize
  <2>2. i # n + 1 => i \in 1 .. n
    BY <1>4
  <2> HIDE DEF n
  <2> QED
    BY <1>3, <1>4, <1>6, <2>1, <2>2
<1> HIDE DEF n
<1>8. /\ Append(old, k) \in Seq(0 .. MaxKeys) /\ Len(Append(old, k)) = n + 1
      /\ \A i \in 1 .. n + 1 : Append(old, k)[i] = IF i = n + 1 THEN k ELSE old[i]
  BY <1>4
<1>9. new = Append(old, k)
  BY <1>6, <1>7, <1>8, SeqEqual
<1>10. Len(old) < BufferSize - 1
  BY <1>4, <1>5, KeyboardAssumption
<1> QED
  BY <1>9, <1>10 DEF new, old, b2, e2

\* Taking a key takes the first.
LEMMA RingGet ==
  ASSUME NEW b \in RingBuffers, NEW f \in 0 .. BufferSize - 1,
         NEW e \in 0 .. BufferSize - 1, f # e
  PROVE  /\ Ring(b, f, e) # <<>>
         /\ Head(Ring(b, f, e)) = b[f]
         /\ Ring(b, (f + 1) % BufferSize, e) = Tail(Ring(b, f, e))
<1> DEFINE n == RingSize(f, e)
           f2 == (f + 1) % BufferSize
           old == Ring(b, f, e)
           new == Ring(b, f2, e)
<1>1. /\ f2 = IF f + 1 = BufferSize THEN 0 ELSE f + 1
      /\ f2 \in 0 .. BufferSize - 1
  BY RingNext, KeyboardAssumption
<1> HIDE DEF f2, new, old
<1>2. /\ old \in Seq(0 .. MaxKeys) /\ n \in 0 .. BufferSize - 1 /\ Len(old) = n
      /\ \A i \in 1 .. n : old[i] = b[Place(f, i)]
  BY RingIsSequence DEF old
<1>3. RingSize(f2, e) = n - 1 /\ n >= 1
  BY <1>1, KeyboardAssumption DEF RingSize
<1>4. /\ new \in Seq(0 .. MaxKeys) /\ Len(new) = n - 1
      /\ \A i \in 1 .. n - 1 : new[i] = b[Place(f2, i)]
  <2>1. /\ new \in Seq(0 .. MaxKeys) /\ Len(new) = RingSize(f2, e)
        /\ \A i \in 1 .. RingSize(f2, e) : new[i] = b[Place(f2, i)]
    BY <1>1, RingIsSequence, ZenonT(40) DEF new
  <2> QED
    BY <1>3, <2>1
<1>5. old[1] = b[f]
  <2>1. Place(f, 1) = f
    BY KeyboardAssumption DEF Place
  <2> HIDE DEF n
  <2> QED
    BY <1>2, <1>3, <2>1
<1>6. ASSUME NEW i \in 1 .. n - 1 PROVE new[i] = old[i + 1]
  <2>1. i + 1 \in 1 .. n
    BY <1>2
  <2>2. Place(f2, i) = Place(f, i + 1)
    BY <1>1, <1>2, KeyboardAssumption DEF Place
  <2> HIDE DEF n
  <2> QED
    BY <1>2, <1>4, <2>1, <2>2, Zenon
<1> HIDE DEF n
<1>7. /\ old # <<>> /\ Head(old) = old[1]
      /\ Tail(old) \in Seq(0 .. MaxKeys) /\ Len(Tail(old)) = n - 1
      /\ \A i \in 1 .. n - 1 : Tail(old)[i] = old[i + 1]
  BY <1>2, <1>3
<1>8. new = Tail(old)
  BY <1>4, <1>6, <1>7, SeqEqual
<1> QED
  BY <1>5, <1>7, <1>8 DEF new, old, f2

\* A step of the driver is a step of the queue, or leaves it alone.
LEMMA KeyStepSimulates ==
  ASSUME OneReader, KeyInv, [KeyNext]_keyVars
  PROVE  [Promise!QueueNext]_<<Contents, delivered>>
<1>0. /\ Contents = Ring(buffer, front, end)
      /\ Contents' = Ring(buffer', front', end')
  BY DEF Contents, Ring
<1>1. /\ buffer \in RingBuffers /\ front \in 0 .. BufferSize - 1
      /\ end \in 0 .. BufferSize - 1 /\ typed \in Nat
  BY KeyboardAssumption DEF KeyInv, KeyTypeOK, RingBuffers
<1>2. ASSUME UNCHANGED <<buffer, front, end, delivered>>
      PROVE  UNCHANGED <<Contents, delivered>>
  BY <1>0, <1>2
<1>3. CASE KeyboardHandler
  <2>1. WriteKeyBuffer /\ typed < MaxKeys /\ UNCHANGED <<front, delivered>>
    BY <1>3 DEF KeyboardHandler
  <2>2. CASE Full
    BY <1>2, <2>1, <2>2 DEF WriteKeyBuffer
  <2>3. CASE ~ Full
    <3>1. PICK k \in 1 .. MaxKeys : k = typed + 1
      BY <1>1, <2>1, KeyboardAssumption
    <3>2. /\ Contents' = Append(Contents, k)
          /\ Len(Contents) < BufferSize - 1
      <4>1. k \in 0 .. MaxKeys /\ (end + 1) % BufferSize # front
        BY <2>3 DEF Full
      <4>2. /\ buffer' = [buffer EXCEPT ![end] = k]
            /\ end' = (end + 1) % BufferSize /\ front' = front
        BY <2>1, <2>3, <3>1 DEF WriteKeyBuffer
      <4> QED
        BY <1>0, <1>1, <4>1, <4>2, RingPut
    <3>3. Promise!Put(k)
      BY <2>1, <3>2 DEF Promise!Put
    <3> QED
      BY <3>3 DEF Promise!QueueNext
  <2> QED
    BY <2>2, <2>3
<1>4. ASSUME NEW at, TakeKey(at), at = front, front # end
      PROVE  Promise!Get
  <2>1. /\ front' = (front + 1) % BufferSize
        /\ delivered' = Append(delivered, buffer[front])
        /\ UNCHANGED <<buffer, end>>
    BY <1>4 DEF TakeKey
  <2>2. /\ Contents # <<>> /\ Head(Contents) = buffer[front]
        /\ Contents' = Tail(Contents)
    BY <1>0, <1>1, <1>4, <2>1, RingGet
  <2> QED
    BY <2>1, <2>2 DEF Promise!Get
<1>5. CASE ReadKeyAtOnce
  BY <1>4, <1>5 DEF ReadKeyAtOnce, Promise!QueueNext
<1>6. CASE ReadKeyWoken
  <2>1. current_proc \in Slots /\ state[current_proc] = "RUNNING"
    BY CurrentRuns DEF KeyInv, SchedulerInv
  <2>2. saved[current_proc] = front /\ front # end
    BY <1>6, <2>1 DEF ReadKeyWoken, KeyInv, ReadersInv, Suspended
  <2> QED
    BY <1>4, <1>6, <2>2 DEF ReadKeyWoken, Promise!QueueNext
<1>7. CASE \/ ReadKeySleeps \/ SysReadReturns \/ UNCHANGED kbVars
           \/ \E n \in ReadLengths : SysRead(n)
  <2>1. UNCHANGED <<buffer, front, end, delivered>>
    BY <1>7 DEF ReadKeySleeps, SysReadReturns, SysRead, kbVars
  <2> QED
    BY <1>2, <2>1
<1> QED
  BY <1>3, <1>5, <1>6, <1>7 DEF KeyNext, ReadStep, keyVars

\* The driver implements KeyQueue: with one reader, keys are delivered once each
\* and in the order in which they were stored, for every size of the ring and
\* every interleaving of key presses with the reads and with other processes.
THEOREM DriverIsKeyQueue == OneReader => (KeySpec => IsKeyQueue)
<1> SUFFICES ASSUME OneReader PROVE KeySpec => IsKeyQueue
  OBVIOUS
<1>1. KeyInit => Promise!QueueInit
  <2> SUFFICES ASSUME KeyInit PROVE Contents = <<>> /\ delivered = <<>>
    BY DEF Promise!QueueInit
  <2>1. (end - front) % BufferSize = 0
    BY RingLength, KeyboardAssumption DEF KeyInit
  <2> QED
    BY <2>1 DEF KeyInit, Contents
<1>2. KeyInv /\ [KeyNext]_keyVars => [Promise!QueueNext]_<<Contents, delivered>>
  BY KeyStepSimulates
<1>3. KeySpec => []KeyInv
  BY KeyInvHolds
<1> QED
  BY <1>1, <1>2, <1>3, PTL DEF KeySpec, IsKeyQueue, Promise!QueueSpec

-----------------------------------------------------------------------------
(* ScanCode: the bytes on the wire stand for the characters in pending.    *)

\* The driver has one flag for both shift keys, so what it promises, it promises
\* to a keyboard of which one shift key is used.
OneShiftKey == \A a, b \in PlainKeys \cap SHIFTS : a = b

Flags == {"E0_SIGN", "SHIFT", "CAPS_LOCK"}

Texts == {"a", "A", "1", "!", " "}

\* What ReadCharacter does with byte b when the flags are F.
Making(F, b) == b # E0 /\ "E0_SIGN" \notin F /\ b < BREAK
Made(F, b) ==
  CASE b \in SHIFTS -> F \cup {"SHIFT"}
    [] b = CAPS -> IF "CAPS_LOCK" \in F THEN F \ {"CAPS_LOCK"} ELSE F \cup {"CAPS_LOCK"}
    [] OTHER -> F
AfterByte(F, b) ==
  CASE b = E0 -> F \cup {"E0_SIGN"}
    [] b # E0 /\ "E0_SIGN" \in F -> F \ {"E0_SIGN"}
    [] Making(F, b) -> Made(F, b)
    [] OTHER -> IF b - BREAK \in SHIFTS THEN F \ {"SHIFT"} ELSE F
CharOf(F, b) == IF Making(F, b) THEN MakeChar(Made(F, b), b) ELSE NOCHAR

\* The flags as the user would set them.
UserFlags == (IF ShiftHeld THEN {"SHIFT"} ELSE {}) \cup (IF locked THEN {"CAPS_LOCK"} ELSE {})

\* Reading the whole wire w from flags F gives the characters p and flags G; f[i]
\* and o[i] are the flags and the number of characters after i bytes.
Reads(f, o, w, F, p, G) ==
  /\ f \in [0 .. Len(w) -> SUBSET Flags] /\ o \in [0 .. Len(w) -> Nat]
  /\ f[0] = F /\ f[Len(w)] = G /\ o[0] = 0 /\ o[Len(w)] = Len(p)
  /\ \A i, j \in 0 .. Len(w) : i <= j => o[i] <= o[j]
  /\ \A i \in 1 .. Len(w) : f[i] = AfterByte(f[i - 1], w[i])
  /\ \A i \in 1 .. Len(w) : CharOf(f[i - 1], w[i]) = NOCHAR => o[i] = o[i - 1]
  /\ \A i \in 1 .. Len(w) : CharOf(f[i - 1], w[i]) # NOCHAR =>
       o[i] = o[i - 1] + 1 /\ p[o[i]] = CharOf(f[i - 1], w[i])

ScanInv ==
  /\ held \subseteq Keys /\ locked \in BOOLEAN /\ wire \in Seq(0 .. 255)
  /\ pending \in Seq(Texts) /\ s_flag \in SUBSET Flags
  /\ \E f, o : Reads(f, o, wire, s_flag, pending, UserFlags)
  /\ last.got = last.meant

WithChar(p, c) == IF c = NOCHAR THEN p ELSE Append(p, c)
WithoutChar(p, c) == IF c = NOCHAR THEN p ELSE Tail(p)

\* A byte that goes on the wire, with the character it stands for if it has one.
LEMMA ByteSent ==
  ASSUME NEW w \in Seq(0 .. 255), NEW p \in Seq(Texts), NEW F, NEW G,
         NEW f, NEW o, Reads(f, o, w, F, p, G),
         NEW b \in 0 .. 255, AfterByte(G, b) \in SUBSET Flags
  PROVE  \E g, u : Reads(g, u, Append(w, b), F, WithChar(p, CharOf(G, b)), AfterByte(G, b))
<1>1. PICK n \in Nat : n = Len(w)
  BY LenProperties
<1>2. PICK v : v = Append(w, b)
  OBVIOUS
<1>3. v \in Seq(0 .. 255) /\ Len(v) = n + 1 /\ v[n + 1] = b /\ \A i \in 1 .. n : v[i] = w[i]
  BY <1>1, <1>2
<1>4. PICK c : c = CharOf(G, b)
  OBVIOUS
<1>5. PICK k \in Nat : k = Len(p)
  BY LenProperties
<1>6. PICK q : q = WithChar(p, c)
  OBVIOUS
<1>7. PICK m \in Nat : m = IF c = NOCHAR THEN k ELSE k + 1
  OBVIOUS
<1>8. /\ Len(q) = m /\ m >= k /\ \A i \in 1 .. k : q[i] = p[i]
      /\ c # NOCHAR => m = k + 1 /\ q[m] = c
  <2>1. CASE c = NOCHAR
    BY <1>5, <1>6, <1>7, <2>1 DEF WithChar
  <2>2. CASE c # NOCHAR
    BY <1>5, <1>6, <1>7, <2>2, AppendProperties DEF WithChar
  <2> QED
    BY <2>1, <2>2
<1>9. /\ f \in [0 .. n -> SUBSET Flags] /\ o \in [0 .. n -> Nat]
      /\ f[0] = F /\ f[n] = G /\ o[0] = 0 /\ o[n] = k
      /\ \A i, j \in 0 .. n : i <= j => o[i] <= o[j]
      /\ \A i \in 1 .. n : f[i] = AfterByte(f[i - 1], w[i])
      /\ \A i \in 1 .. n : CharOf(f[i - 1], w[i]) = NOCHAR => o[i] = o[i - 1]
      /\ \A i \in 1 .. n : CharOf(f[i - 1], w[i]) # NOCHAR =>
           o[i] = o[i - 1] + 1 /\ p[o[i]] = CharOf(f[i - 1], w[i])
  BY <1>1, <1>5 DEF Reads
<1>10. PICK g : g = [i \in 0 .. n + 1 |-> IF i = n + 1 THEN AfterByte(G, b) ELSE f[i]]
  OBVIOUS
<1>11. PICK u : u = [i \in 0 .. n + 1 |-> IF i = n + 1 THEN m ELSE o[i]]
  OBVIOUS
<1>12. /\ g \in [0 .. n + 1 -> SUBSET Flags] /\ g[n + 1] = AfterByte(G, b)
       /\ \A i \in 0 .. n : g[i] = f[i]
  BY <1>9, <1>10
<1>13. u \in [0 .. n + 1 -> Nat] /\ u[n + 1] = m /\ \A i \in 0 .. n : u[i] = o[i]
  BY <1>9, <1>11
<1>14. \A i, j \in 0 .. n + 1 : i <= j => u[i] <= u[j]
  <2>1. \A i \in 0 .. n : o[i] <= k /\ o[i] \in Nat
    BY SMTT(60), <1>9
  <2> QED
    BY SMTT(60), <1>8, <1>9, <1>13, <2>1
<1>15. ASSUME NEW i \in 1 .. n + 1
       PROVE  /\ g[i] = AfterByte(g[i - 1], v[i])
              /\ CharOf(g[i - 1], v[i]) = NOCHAR => u[i] = u[i - 1]
              /\ CharOf(g[i - 1], v[i]) # NOCHAR =>
                   u[i] = u[i - 1] + 1 /\ q[u[i]] = CharOf(g[i - 1], v[i])
  <2>1. CASE i = n + 1
    <3>1. g[i - 1] = G /\ v[i] = b /\ u[i - 1] = k /\ u[i] = m
      BY <1>3, <1>9, <1>12, <1>13, <2>1
    <3> QED
      BY <1>4, <1>7, <1>8, <1>12, <2>1, <3>1
  <2>2. CASE i # n + 1
    <3>1. i \in 1 .. n /\ i - 1 \in 0 .. n /\ i \in 0 .. n
      BY <2>2
    <3>2. /\ g[i - 1] = f[i - 1] /\ g[i] = f[i] /\ v[i] = w[i]
          /\ u[i - 1] = o[i - 1] /\ u[i] = o[i]
      BY <1>3, <1>12, <1>13, <3>1
    <3>3. CharOf(f[i - 1], w[i]) # NOCHAR => o[i] \in 1 .. k
      BY <1>9, <3>1
    <3> QED
      BY ZenonT(60), <1>8, <1>9, <3>1, <3>2, <3>3
  <2> QED
    BY <2>1, <2>2
<1>16. Reads(g, u, v, F, q, AfterByte(G, b))
  <2>1. 0 \in 0 .. n
    OBVIOUS
  <2> QED
    BY <1>3, <1>8, <1>9, <1>12, <1>13, <1>14, <1>15, <2>1 DEF Reads
<1> QED
  BY <1>2, <1>4, <1>6, <1>16

\* A byte that is read: if it stands for a character, that is the next one.
LEMMA ByteTaken ==
  ASSUME NEW w \in Seq(0 .. 255), w # <<>>, NEW p \in Seq(Texts), NEW F, NEW G,
         NEW f, NEW o, Reads(f, o, w, F, p, G), NEW c, c = CharOf(F, Head(w))
  PROVE  /\ c # NOCHAR => p # <<>> /\ Head(p) = c
         /\ AfterByte(F, Head(w)) \in SUBSET Flags
         /\ \E g, u : Reads(g, u, Tail(w), AfterByte(F, Head(w)), WithoutChar(p, c), G)
<1>1. PICK n \in Nat : n + 1 = Len(w)
  <2>1. PICK l \in Nat : l = Len(w)
    BY LenProperties
  <2>2. l # 0
    BY <2>1, EmptySeq
  <2>3. l - 1 \in Nat /\ l - 1 + 1 = l
    BY <2>2
  <2> QED
    BY <2>1, <2>3
<1>2. PICK v : v = Tail(w)
  OBVIOUS
<1>3. v \in Seq(0 .. 255) /\ Len(v) = n /\ w[1] = Head(w) /\ \A i \in 1 .. n : v[i] = w[i + 1]
  BY <1>1, <1>2
<1>4. PICK k \in Nat : k = Len(p)
  BY LenProperties
<1>5. /\ f \in [0 .. n + 1 -> SUBSET Flags] /\ o \in [0 .. n + 1 -> Nat]
      /\ f[0] = F /\ f[n + 1] = G /\ o[0] = 0 /\ o[n + 1] = k
      /\ \A i, j \in 0 .. n + 1 : i <= j => o[i] <= o[j]
      /\ \A i \in 1 .. n + 1 : f[i] = AfterByte(f[i - 1], w[i])
      /\ \A i \in 1 .. n + 1 : CharOf(f[i - 1], w[i]) = NOCHAR => o[i] = o[i - 1]
      /\ \A i \in 1 .. n + 1 : CharOf(f[i - 1], w[i]) # NOCHAR =>
           o[i] = o[i - 1] + 1 /\ p[o[i]] = CharOf(f[i - 1], w[i])
  BY <1>1, <1>4 DEF Reads
<1>6. PICK d \in 0 .. 1 : d = IF c = NOCHAR THEN 0 ELSE 1
  OBVIOUS
<1>7. 1 \in 1 .. n + 1 /\ 1 - 1 = 0 /\ 1 \in 0 .. n + 1 /\ n + 1 \in 0 .. n + 1
  OBVIOUS
<1>8. f[1] = AfterByte(F, Head(w)) /\ o[1] = d
  BY <1>3, <1>5, <1>6, <1>7
<1>9. d <= k
  BY <1>5, <1>7, <1>8
<1>10. c # NOCHAR => p # <<>> /\ Head(p) = c
  <2> SUFFICES ASSUME c # NOCHAR PROVE p # <<>> /\ Head(p) = c
    OBVIOUS
  <2>1. p[1] = c /\ k >= 1
    BY <1>3, <1>5, <1>6, <1>7, <1>8, <1>9
  <2> QED
    BY <1>4, <2>1
<1>11. PICK q : q = WithoutChar(p, c)
  OBVIOUS
<1>12. Len(q) = k - d /\ \A i \in 1 .. k - d : q[i] = p[i + d]
  <2>1. CASE c = NOCHAR
    BY <1>4, <1>6, <1>11, <2>1 DEF WithoutChar
  <2>2. CASE c # NOCHAR
    BY <1>4, <1>6, <1>10, <1>11, <2>2 DEF WithoutChar
  <2> QED
    BY <2>1, <2>2
<1>13. PICK g : g = [i \in 0 .. n |-> f[i + 1]]
  OBVIOUS
<1>14. PICK u : u = [i \in 0 .. n |-> o[i + 1] - d]
  OBVIOUS
<1>15. \A i \in 0 .. n : i + 1 \in 0 .. n + 1 /\ i + 1 \in 1 .. n + 1
  OBVIOUS
<1>16. \A i \in 0 .. n : o[i + 1] \in Nat /\ o[i + 1] >= d
  BY <1>5, <1>7, <1>8, <1>15
<1>17. /\ g \in [0 .. n -> SUBSET Flags] /\ u \in [0 .. n -> Nat]
       /\ \A i \in 0 .. n : g[i] = f[i + 1] /\ u[i] = o[i + 1] - d
  BY SMTT(60), <1>5, <1>13, <1>14, <1>15, <1>16
<1>18. \A i, j \in 0 .. n : i <= j => u[i] <= u[j]
  <2> TAKE i, j \in 0 .. n
  <2>1. i <= j => o[i + 1] <= o[j + 1]
    BY <1>5, <1>15
  <2>2. /\ o[i + 1] \in Nat /\ o[j + 1] \in Nat
        /\ u[i] = o[i + 1] - d /\ u[j] = o[j + 1] - d
    BY <1>16, <1>17
  <2> QED
    BY <2>1, <2>2
<1>19. ASSUME NEW i \in 1 .. n
       PROVE  /\ g[i] = AfterByte(g[i - 1], v[i])
              /\ CharOf(g[i - 1], v[i]) = NOCHAR => u[i] = u[i - 1]
              /\ CharOf(g[i - 1], v[i]) # NOCHAR =>
                   u[i] = u[i - 1] + 1 /\ q[u[i]] = CharOf(g[i - 1], v[i])
  <2>1. PICK j \in 2 .. n + 1 : j = i + 1
    OBVIOUS
  <2>2. /\ j \in 1 .. n + 1 /\ j - 1 = i /\ i - 1 \in 0 .. n /\ i \in 0 .. n
        /\ i - 1 + 1 = i /\ i \in 0 .. n + 1 /\ j \in 0 .. n + 1
    BY <2>1
  <2>3. /\ g[i - 1] = f[j - 1] /\ g[i] = f[j] /\ v[i] = w[j]
        /\ u[i - 1] = o[j - 1] - d /\ u[i] = o[j] - d
    BY <1>3, <1>17, <2>1, <2>2
  <2>4. o[j] \in Nat /\ o[j - 1] \in Nat /\ o[j] <= k /\ o[j - 1] >= d
    BY <1>5, <1>7, <1>8, <2>2
  <2>5. ASSUME CharOf(f[j - 1], w[j]) # NOCHAR
        PROVE  u[i] = u[i - 1] + 1 /\ q[u[i]] = CharOf(f[j - 1], w[j])
    <3>1. o[j] = o[j - 1] + 1 /\ p[o[j]] = CharOf(f[j - 1], w[j])
      BY <1>5, <2>2, <2>5
    <3>2. PICK a \in Nat : a = o[j - 1]
      BY <2>4
    <3>3. /\ o[j] = a + 1 /\ u[i] = a + 1 - d /\ u[i - 1] = a - d
          /\ a + 1 <= k /\ a >= d
      BY <2>3, <2>4, <3>1, <3>2
    <3>4. a + 1 - d \in 1 .. k - d /\ a + 1 - d + d = a + 1 /\ a + 1 - d = a - d + 1
      BY <3>3
    <3> QED
      BY <1>12, <3>1, <3>3, <3>4
  <2>6. CharOf(f[j - 1], w[j]) = NOCHAR => u[i] = u[i - 1]
    BY <1>5, <2>2, <2>3
  <2> QED
    BY <1>5, <2>2, <2>3, <2>5, <2>6
<1>20. u[n] = k - d /\ u[0] = 0 /\ g[0] = AfterByte(F, Head(w)) /\ g[n] = G
  <2>1. 0 \in 0 .. n /\ n \in 0 .. n /\ 0 + 1 = 1
    OBVIOUS
  <2> QED
    BY <1>5, <1>8, <1>17, <2>1
<1>21. Reads(g, u, v, AfterByte(F, Head(w)), q, G)
  BY <1>3, <1>12, <1>17, <1>18, <1>19, <1>20 DEF Reads
<1>22. AfterByte(F, Head(w)) \in SUBSET Flags
  BY <1>5, <1>7, <1>8
<1> QED
  BY <1>2, <1>10, <1>11, <1>21, <1>22

\* The two maps: three keys have characters.
LEMMA KeyMaps ==
  ASSUME NEW k \in 0 .. 127
  PROVE  /\ k = 30 => s_key_map[k] = "a" /\ s_shift_key_map[k] = "A"
         /\ k = 2 => s_key_map[k] = "1" /\ s_shift_key_map[k] = "!"
         /\ k = 57 => s_key_map[k] = " " /\ s_shift_key_map[k] = " "
         /\ k \notin {30, 2, 57} => s_key_map[k] = NOCHAR /\ s_shift_key_map[k] = NOCHAR
<1>1. k \in 0 .. BREAK - 1
  BY DEF BREAK
<1>2. s_key_map[k] = CASE k = 30 -> "a" [] k = 2 -> "1" [] k = 57 -> " " [] OTHER -> NOCHAR
  BY <1>1 DEF s_key_map
<1>3. s_shift_key_map[k]
        = CASE k = 30 -> "A" [] k = 2 -> "!" [] k = 57 -> " " [] OTHER -> NOCHAR
  BY <1>1 DEF s_shift_key_map
<1>4. CASE k = 30
  BY <1>2, <1>3, <1>4
<1>5. CASE k = 2
  BY <1>2, <1>3, <1>5
<1>6. CASE k = 57
  <2>1. k # 30 /\ k # 2
    BY <1>6
  <2>2. s_key_map[k] = " " /\ s_shift_key_map[k] = " "
    BY <1>2, <1>3, <1>6, <2>1, Zenon
  <2> QED
    BY <1>6, <2>1, <2>2, Zenon
<1>7. CASE k \notin {30, 2, 57}
  BY <1>2, <1>3, <1>7
<1> QED
  BY <1>4, <1>5, <1>6, <1>7

\* The driver makes of a key what PC keyboards mean by it, if its flags are the
\* user's.
LEMMA CharIsMeant ==
  ASSUME ~ LockIsShift, NEW k \in 0 .. 95, locked \in BOOLEAN
  PROVE  /\ CharOf(UserFlags, k) = Meaning(k, ShiftHeld, locked)
         /\ CharOf(UserFlags, k) # NOCHAR => CharOf(UserFlags, k) \in Texts
<1>1. PICK S \in BOOLEAN : S = ShiftHeld
  BY DEF ShiftHeld
<1>2. PICK F : F = UserFlags
  OBVIOUS
<1>3. /\ "E0_SIGN" \notin F /\ ("SHIFT" \in F <=> S) /\ ("CAPS_LOCK" \in F <=> locked)
  BY <1>1, <1>2 DEF UserFlags
<1>4. Making(F, k) /\ k \in 0 .. 127
  BY <1>3 DEF Making, E0, BREAK
<1>5. CharOf(F, k) = MakeChar(Made(F, k), k)
  BY <1>4 DEF CharOf
<1>6. k \in {30, 2, 57} => Made(F, k) = F
  BY DEF Made, SHIFTS, CAPS
<1>7. /\ MakeChar(Made(F, k), k) = Meaning(k, S, locked)
      /\ MakeChar(Made(F, k), k) # NOCHAR => MakeChar(Made(F, k), k) \in Texts
  <2>1. PICK lo, up : lo = s_key_map[k] /\ up = s_shift_key_map[k]
    OBVIOUS
  <2>2. \A G : MakeChar(G, k) = IF "CAPS_LOCK" \in G
                                THEN SwapCase(IF "SHIFT" \in G THEN up ELSE lo)
                                ELSE IF "SHIFT" \in G THEN up ELSE lo
    BY <2>1 DEF MakeChar
  <2>3. Meaning(k, S, locked)
          = IF (IF k \in Letters THEN S # locked ELSE S) THEN up ELSE lo
    BY <2>1 DEF Meaning
  <2>4. CASE k = 30
    <3>1. lo = "a" /\ up = "A" /\ k \in Letters /\ Made(F, k) = F
      BY <1>4, <1>6, <2>1, <2>4, KeyMaps DEF Letters
    <3>2. SwapCase(lo) = up /\ SwapCase(up) = lo
      BY <3>1 DEF SwapCase
    <3>3. lo \in Texts /\ up \in Texts
      BY <3>1 DEF Texts
    <3>4. MakeChar(F, k) = (IF S # locked THEN up ELSE lo)
      BY <1>3, <2>2, <3>2
    <3> QED
      BY <2>3, <3>1, <3>3, <3>4
  <2>5. CASE k = 2 \/ k = 57
    <3>1. Made(F, k) = F /\ k \notin Letters
      BY <1>6, <2>5 DEF Letters
    <3>2. (lo = "1" /\ up = "!") \/ (lo = " " /\ up = " ")
      BY <1>4, <2>1, <2>5, KeyMaps
    <3>3. SwapCase(lo) = lo /\ SwapCase(up) = up
      BY <3>2 DEF SwapCase
    <3>4. lo \in Texts /\ up \in Texts
      BY <3>2 DEF Texts
    <3>5. MakeChar(F, k) = (IF S THEN up ELSE lo)
      BY <1>3, <2>2, <3>3
    <3> QED
      BY <2>3, <3>1, <3>4, <3>5
  <2>6. CASE k \notin {30, 2, 57}
    <3>1. lo = NOCHAR /\ up = NOCHAR
      BY <1>4, <2>1, <2>6, KeyMaps
    <3>2. SwapCase(NOCHAR) = NOCHAR
      BY DEF SwapCase, NOCHAR
    <3> QED
      BY <2>2, <2>3, <3>1, <3>2
  <2> QED
    BY <2>4, <2>5, <2>6
<1> QED
  BY <1>1, <1>2, <1>5, <1>7

\* The parts of a pair.
LEMMA PairParts ==
  ASSUME NEW A, NEW B, NEW x \in A \X B
  PROVE  x = <<x[1], x[2]>> /\ x[1] \in A /\ x[2] \in B
OBVIOUS

\* What a key is.
LEMMA KeyParts ==
  ASSUME NEW key \in Keys
  PROVE  /\ key = <<key[1], key[2]>> /\ key[1] \in 0 .. 95 /\ key[2] \in BOOLEAN
         /\ ~ key[2] => key[1] \in PlainKeys
<1>1. CASE key \in PlainKeys \X {FALSE}
  <2>1. key = <<key[1], key[2]>> /\ key[1] \in PlainKeys /\ key[2] \in {FALSE}
    BY <1>1, PairParts, Zenon
  <2>2. key[2] = FALSE
    BY <2>1
  <2>3. key[1] \in 0 .. 95
    BY <2>1, ScanAssumption
  <2> QED
    BY <2>1, <2>2, <2>3
<1>2. CASE key \in ExtendedKeys \X {TRUE}
  <2> DEFINE yes == {TRUE}
  <2>0. key \in ExtendedKeys \X yes
    BY <1>2
  <2> HIDE DEF yes
  <2>1. key = <<key[1], key[2]>> /\ key[1] \in ExtendedKeys /\ key[2] \in yes
    BY <2>0, PairParts, Zenon
  <2>2. key[2] = TRUE
    BY <2>1 DEF yes
  <2>3. key[1] \in 0 .. 95
    BY <2>1, ScanAssumption
  <2> QED
    BY <2>1, <2>2, <2>3
<1> QED
  BY <1>1, <1>2 DEF Keys

\* A prefix and the byte behind it cancel out.
LEMMA ExtendedSent ==
  ASSUME NEW w \in Seq(0 .. 255), NEW p \in Seq(Texts), NEW F, NEW f, NEW o,
         Reads(f, o, w, F, p, UserFlags), NEW b \in 0 .. 255, b # E0
  PROVE  /\ \E g, u : Reads(g, u, w \o <<E0, b>>, F, p, UserFlags)
         /\ w \o <<E0, b>> \in Seq(0 .. 255)
<1>1. PICK G : G = UserFlags
  OBVIOUS
<1>2. G \in SUBSET Flags /\ "E0_SIGN" \notin G
  BY <1>1 DEF UserFlags, Flags
<1>3. PICK H : H = AfterByte(G, E0)
  OBVIOUS
<1>4. H = G \cup {"E0_SIGN"} /\ CharOf(G, E0) = NOCHAR
  BY <1>3 DEF AfterByte, CharOf, Making
<1>5. AfterByte(H, b) = G /\ CharOf(H, b) = NOCHAR
  BY <1>2, <1>4 DEF AfterByte, CharOf, Making
<1>6. E0 \in 0 .. 255 /\ H \in SUBSET Flags
  BY <1>2, <1>4 DEF E0, Flags
<1>7. PICK v : v = Append(w, E0)
  OBVIOUS
<1>8. v \in Seq(0 .. 255) /\ Append(v, b) = w \o <<E0, b>> /\ Append(v, b) \in Seq(0 .. 255)
  BY <1>6, <1>7
<1>9. WithChar(p, CharOf(G, E0)) = p /\ WithChar(p, CharOf(H, b)) = p
  BY <1>4, <1>5 DEF WithChar
<1>10. Reads(f, o, w, F, p, G) /\ AfterByte(G, E0) \in SUBSET Flags
  BY <1>1, <1>3, <1>6
<1>11. \E g, u : Reads(g, u, Append(w, E0), F, WithChar(p, CharOf(G, E0)), AfterByte(G, E0))
  BY <1>6, <1>10, ByteSent
<1>12. PICK f1, o1 : Reads(f1, o1, v, F, p, H)
  BY <1>3, <1>7, <1>9, <1>11
<1>13. AfterByte(H, b) \in SUBSET Flags
  BY <1>2, <1>5
<1>14. \E g, u : Reads(g, u, Append(v, b), F, WithChar(p, CharOf(H, b)), AfterByte(H, b))
  BY <1>8, <1>12, <1>13, ByteSent
<1>15. PICK f2, o2 : Reads(f2, o2, Append(v, b), F, p, G)
  BY <1>5, <1>9, <1>14
<1> QED
  BY <1>1, <1>8, <1>15

\* A key goes down.
LEMMA KeyDownInv ==
  ASSUME ~ LockIsShift, ScanInv, NEW key \in Keys, KeyDown(key)
  PROVE  ScanInv'
<1>1. PICK f, o : Reads(f, o, wire, s_flag, pending, UserFlags)
  BY DEF ScanInv
<1>2. PICK k \in 0 .. 95 : k = key[1]
  BY KeyParts
<1>3. /\ wire \in Seq(0 .. 255) /\ pending \in Seq(Texts) /\ held \subseteq Keys
      /\ locked \in BOOLEAN
  BY DEF ScanInv
<1>4. /\ held' = held \cup {key} /\ wire' = wire \o Sends(key, k)
      /\ locked' = (IF key = <<CAPS, FALSE>> THEN ~ locked ELSE locked)
      /\ s_flag' = s_flag /\ last' = last
  BY <1>2 DEF KeyDown
<1>5. /\ held' \subseteq Keys /\ locked' \in BOOLEAN
  BY <1>3, <1>4
<1>6. CASE key[2]
  <2>1. \A a : key # <<a, FALSE>>
    <3> SUFFICES ASSUME NEW a, key = <<a, FALSE>> PROVE FALSE
      OBVIOUS
    <3> QED
      BY <1>6
  <2>2. UserFlags' = UserFlags /\ pending' = pending
    BY <1>4, <1>6, <2>1 DEF UserFlags, ShiftHeld, KeyDown
  <2>3. wire' = wire \o <<E0, k>> /\ k \in 0 .. 255 /\ k # E0
    BY <1>4, <1>6 DEF Sends, E0
  <2>4. /\ \E g, u : Reads(g, u, wire', s_flag, pending, UserFlags)
        /\ wire' \in Seq(0 .. 255)
    BY ZenonT(60), <1>1, <1>3, <2>3, ExtendedSent
  <2>5. \E g, u : Reads(g, u, wire', s_flag', pending', UserFlags')
    BY <1>4, <2>2, <2>4
  <2> QED
    BY <1>3, <1>4, <1>5, <2>2, <2>4, <2>5 DEF ScanInv
<1>7. CASE ~ key[2]
  <2>1. key = <<k, FALSE>>
    BY <1>2, <1>7, KeyParts
  <2>2. wire' = Append(wire, k) /\ k \in 0 .. 255
    BY <1>3, <1>4, <1>7 DEF Sends
  <2>3. PICK G : G = UserFlags
    OBVIOUS
  <2>4. /\ "E0_SIGN" \notin G /\ G \subseteq Flags
        /\ ("SHIFT" \in G <=> ShiftHeld) /\ ("CAPS_LOCK" \in G <=> locked)
    BY <2>3 DEF UserFlags, Flags
  <2>5. AfterByte(G, k) = Made(G, k)
    BY <2>4 DEF AfterByte, Making, E0, BREAK
  <2>6. ShiftHeld' <=> ShiftHeld \/ k \in SHIFTS
    BY <1>4, <2>1 DEF ShiftHeld
  <2>7. locked' <=> (IF k = CAPS THEN ~ locked ELSE locked)
    BY <1>3, <1>4, <2>1
  <2>8. CAPS \notin SHIFTS
    BY DEF CAPS, SHIFTS
  <2>9. Made(G, k) = UserFlags'
    <3>1. \A x : x \in Made(G, k) <=> x \in UserFlags'
      BY <2>3, <2>6, <2>7, <2>8 DEF Made, UserFlags
    <3> QED
      BY <3>1
  <2>10. /\ CharOf(G, k) = Meaning(k, ShiftHeld, locked)
         /\ CharOf(G, k) # NOCHAR => CharOf(G, k) \in Texts
    BY <1>3, <2>3, CharIsMeant
  <2>11. pending' = WithChar(pending, CharOf(G, k))
    BY <1>2, <1>7, <2>10 DEF KeyDown, WithChar
  <2>12. AfterByte(G, k) \in SUBSET Flags
    BY <2>5, <2>9 DEF UserFlags, Flags
  <2>13. \E g, u : Reads(g, u, wire', s_flag, pending', UserFlags')
    BY <1>1, <1>3, <2>2, <2>3, <2>5, <2>9, <2>11, <2>12, ByteSent
  <2>14. wire' \in Seq(0 .. 255)
    BY <1>3, <2>2
  <2>15. pending' \in Seq(Texts)
    <3>1. CASE CharOf(G, k) = NOCHAR
      BY <1>3, <2>11, <3>1 DEF WithChar
    <3>2. CASE CharOf(G, k) # NOCHAR
      BY <1>3, <2>10, <2>11, <3>2, AppendProperties DEF WithChar
    <3> QED
      BY <3>1, <3>2
  <2> QED
    BY <1>4, <1>5, <2>13, <2>14, <2>15 DEF ScanInv
<1> QED
  BY <1>6, <1>7, KeyParts

\* A key goes up.  The flag of the shift keys goes with the only one that is used.
LEMMA KeyUpInv ==
  ASSUME ScanInv, OneShiftKey, NEW key \in Keys, KeyUp(key)
  PROVE  ScanInv'
<1>1. PICK f, o : Reads(f, o, wire, s_flag, pending, UserFlags)
  BY DEF ScanInv
<1>2. PICK k \in 0 .. 95 : k = key[1]
  BY KeyParts
<1>3. /\ wire \in Seq(0 .. 255) /\ pending \in Seq(Texts) /\ held \subseteq Keys
      /\ locked \in BOOLEAN
  BY DEF ScanInv
<1>4. /\ held' = held \ {key} /\ wire' = wire \o Sends(key, k + BREAK)
      /\ UNCHANGED <<locked, pending, s_flag, last>> /\ key \in held
  BY <1>2 DEF KeyUp
<1>5. PICK b \in 128 .. 223 :
        b = k + BREAK /\ b \in 0 .. 255 /\ b # E0 /\ b - BREAK = k /\ ~ (b < BREAK)
  BY DEF BREAK, E0
<1>6. CASE key[2]
  <2>1. \A a : key # <<a, FALSE>>
    <3> SUFFICES ASSUME NEW a, key = <<a, FALSE>> PROVE FALSE
      OBVIOUS
    <3> QED
      BY <1>6
  <2>2. UserFlags' = UserFlags
    BY <1>4, <2>1 DEF UserFlags, ShiftHeld
  <2>3. wire' = wire \o <<E0, b>>
    BY <1>4, <1>5, <1>6 DEF Sends
  <2>4. /\ \E g, u : Reads(g, u, wire', s_flag, pending, UserFlags)
        /\ wire' \in Seq(0 .. 255)
    BY ZenonT(60), <1>1, <1>3, <1>5, <2>3, ExtendedSent
  <2>5. \E g, u : Reads(g, u, wire', s_flag', pending', UserFlags')
    BY <1>4, <2>2, <2>4
  <2> QED
    BY <1>3, <1>4, <2>4, <2>5 DEF ScanInv
<1>7. CASE ~ key[2]
  <2>1. key = <<k, FALSE>> /\ k \in PlainKeys
    BY <1>2, <1>7, KeyParts
  <2>2. wire' = Append(wire, b)
    BY <1>3, <1>4, <1>5, <1>7 DEF Sends
  <2>3. PICK G : G = UserFlags
    OBVIOUS
  <2>4. "E0_SIGN" \notin G /\ G \subseteq Flags
    BY <2>3 DEF UserFlags, Flags
  <2>5. /\ AfterByte(G, b) = (IF k \in SHIFTS THEN G \ {"SHIFT"} ELSE G)
        /\ CharOf(G, b) = NOCHAR
    BY <1>5, <2>4 DEF AfterByte, CharOf, Making
  <2>6. \A a \in SHIFTS : <<a, FALSE>> \in held => a \in PlainKeys
    BY <1>3, KeyParts
  <2>7. ASSUME k \in SHIFTS PROVE AfterByte(G, b) = UserFlags'
    <3>1. \A a \in SHIFTS : <<a, FALSE>> \in held => <<a, FALSE>> = key
      <4> TAKE a \in SHIFTS
      <4>1. <<a, FALSE>> \in held => a \in PlainKeys \cap SHIFTS
        BY <2>6
      <4>2. k \in PlainKeys \cap SHIFTS
        BY <2>1, <2>7
      <4>3. <<a, FALSE>> \in held => a = k
        BY <4>1, <4>2 DEF OneShiftKey
      <4> QED
        BY <2>1, <4>3
    <3>2. ~ ShiftHeld'
      BY <1>4, <3>1 DEF ShiftHeld
    <3>3. UserFlags' = G \ {"SHIFT"}
      BY <1>4, <2>3, <3>2 DEF UserFlags
    <3> QED
      BY <2>5, <2>7, <3>3
  <2>8. ASSUME k \notin SHIFTS PROVE AfterByte(G, b) = UserFlags'
    <3>1. ShiftHeld' = ShiftHeld
      BY <1>4, <2>1, <2>8 DEF ShiftHeld
    <3>2. UserFlags' = G
      BY <1>4, <2>3, <3>1 DEF UserFlags
    <3> QED
      BY <2>5, <2>8, <3>2
  <2>9. AfterByte(G, b) = UserFlags'
    BY <2>7, <2>8
  <2>10. AfterByte(G, b) \in SUBSET Flags
    BY <2>9 DEF UserFlags, Flags
  <2>11. Reads(f, o, wire, s_flag, pending, G) /\ WithChar(pending, CharOf(G, b)) = pending
    BY <1>1, <2>3, <2>5 DEF WithChar
  <2>12. \E g, u : Reads(g, u, Append(wire, b), s_flag, WithChar(pending, CharOf(G, b)),
                         AfterByte(G, b))
    BY <1>3, <1>5, <2>10, <2>11, ByteSent
  <2>13. \E g, u : Reads(g, u, wire', s_flag', pending', UserFlags')
    BY <1>4, <2>2, <2>9, <2>11, <2>12
  <2>14. wire' \in Seq(0 .. 255)
    BY <1>3, <1>5, <2>2
  <2> QED
    BY <1>3, <1>4, <2>13, <2>14 DEF ScanInv
<1> QED
  BY <1>6, <1>7, KeyParts

\* Each of the four outcomes of ReadCharacter is what AfterByte and CharOf say.
LEMMA ReadIs ==
  ASSUME s_flag \in SUBSET Flags, wire \in Seq(0 .. 255), ReadCharacter
  PROVE  /\ wire # <<>>
         /\ Read(AfterByte(s_flag, Head(wire)), CharOf(s_flag, Head(wire)))
<1>1. wire # <<>>
  BY DEF ReadCharacter, ReadPrefix, SkipExtended, ReadBreak, ReadMake
<1>2. PICK b \in 0 .. 255 : b = Head(wire)
  BY <1>1, HeadTailProperties
<1>3. CASE ReadPrefix
  <2>1. b = E0 /\ Read(s_flag \cup {"E0_SIGN"}, NOCHAR)
    BY <1>2, <1>3 DEF ReadPrefix
  <2>2. AfterByte(s_flag, b) = s_flag \cup {"E0_SIGN"} /\ CharOf(s_flag, b) = NOCHAR
    BY <2>1 DEF AfterByte, CharOf, Making
  <2> QED
    BY <1>1, <1>2, <2>1, <2>2
<1>4. CASE SkipExtended
  <2>1. b # E0 /\ "E0_SIGN" \in s_flag /\ Read(s_flag \ {"E0_SIGN"}, NOCHAR)
    BY <1>2, <1>4 DEF SkipExtended
  <2>2. AfterByte(s_flag, b) = s_flag \ {"E0_SIGN"} /\ CharOf(s_flag, b) = NOCHAR
    BY <2>1 DEF AfterByte, CharOf, Making
  <2> QED
    BY <1>1, <1>2, <2>1, <2>2
<1>5. CASE ReadBreak
  <2>1. /\ b # E0 /\ ~ (b < BREAK) /\ "E0_SIGN" \notin s_flag
        /\ Read(IF b - BREAK \in SHIFTS THEN s_flag \ {"SHIFT"} ELSE s_flag, NOCHAR)
    <3>1. b \in (BREAK .. 255) \ {E0}
      BY <1>2, <1>5, Zenon DEF ReadBreak
    <3>2. "E0_SIGN" \notin s_flag
      BY <1>5 DEF ReadBreak
    <3>3. Read(IF b - BREAK \in SHIFTS THEN s_flag \ {"SHIFT"} ELSE s_flag, NOCHAR)
      BY <1>2, <1>5, Zenon DEF ReadBreak
    <3>4. b # E0 /\ ~ (b < BREAK)
      BY <3>1 DEF BREAK
    <3> QED
      BY <3>2, <3>3, <3>4
  <2>2. ~ Making(s_flag, b)
    BY <2>1 DEF Making
  <2>3. /\ AfterByte(s_flag, b)
             = (IF b - BREAK \in SHIFTS THEN s_flag \ {"SHIFT"} ELSE s_flag)
        /\ CharOf(s_flag, b) = NOCHAR
    BY <2>1, <2>2 DEF AfterByte, CharOf
  <2> QED
    BY <1>1, <1>2, <2>1, <2>3
<1>6. CASE ReadMake
  <2>1. /\ b < BREAK /\ "E0_SIGN" \notin s_flag
        /\ Read(MakeFlags(b), MakeChar(MakeFlags(b), b))
    BY <1>2, <1>6 DEF ReadMake
  <2>2. b # E0 /\ Making(s_flag, b)
    BY <2>1 DEF Making, E0, BREAK
  <2>3. MakeFlags(b) = Made(s_flag, b)
    <3>1. CAPS \notin SHIFTS
      BY DEF CAPS, SHIFTS
    <3>2. CASE b \in SHIFTS
      BY <3>1, <3>2 DEF MakeFlags, Made
    <3>3. CASE b = CAPS
      BY <3>1, <3>3 DEF MakeFlags, Made
    <3>4. CASE b \notin SHIFTS /\ b # CAPS
      BY <3>4 DEF MakeFlags, Made
    <3> QED
      BY <3>2, <3>3, <3>4
  <2>4. /\ AfterByte(s_flag, b) = Made(s_flag, b)
        /\ CharOf(s_flag, b) = MakeChar(Made(s_flag, b), b)
    BY <2>1, <2>2 DEF AfterByte, CharOf
  <2> QED
    BY <1>1, <1>2, <2>1, <2>3, <2>4
<1> QED
  BY <1>3, <1>4, <1>5, <1>6 DEF ReadCharacter

\* Reading a byte takes the character it stands for off pending.
LEMMA ReadCharacterInv ==
  ASSUME ScanInv, ReadCharacter
  PROVE  ScanInv'
<1>1. PICK f, o : Reads(f, o, wire, s_flag, pending, UserFlags)
  BY DEF ScanInv
<1>2. /\ wire \in Seq(0 .. 255) /\ pending \in Seq(Texts) /\ held \subseteq Keys
      /\ locked \in BOOLEAN /\ s_flag \in SUBSET Flags /\ last.got = last.meant
  BY DEF ScanInv
<1>3. PICK F, c : F = AfterByte(s_flag, Head(wire)) /\ c = CharOf(s_flag, Head(wire))
  OBVIOUS
<1>4. wire # <<>> /\ Read(F, c)
  BY <1>2, <1>3, ReadIs
<1>5. /\ c # NOCHAR => pending # <<>> /\ Head(pending) = c
      /\ F \in SUBSET Flags
      /\ \E g, u : Reads(g, u, Tail(wire), F, WithoutChar(pending, c), UserFlags)
  BY <1>1, <1>2, <1>3, <1>4, ByteTaken
<1>6. held' = held /\ locked' = locked /\ wire' = Tail(wire) /\ s_flag' = F
  BY <1>4 DEF Read
<1>7. UserFlags' = UserFlags
  BY <1>6 DEF UserFlags, ShiftHeld
<1>8. pending' = WithoutChar(pending, c) /\ last'.got = last'.meant
  <2>1. CASE c = NOCHAR
    BY <1>2, <1>4, <2>1 DEF Read, WithoutChar
  <2>2. CASE c # NOCHAR
    BY <1>4, <1>5, <2>2 DEF Read, WithoutChar
  <2> QED
    BY <2>1, <2>2
<1>9. wire' \in Seq(0 .. 255) /\ pending' \in Seq(Texts)
  <2>1. wire' \in Seq(0 .. 255)
    BY <1>2, <1>4, <1>6
  <2>2. CASE c = NOCHAR
    BY <1>2, <1>8, <2>1, <2>2 DEF WithoutChar
  <2>3. CASE c # NOCHAR
    BY <1>2, <1>5, <1>8, <2>1, <2>3 DEF WithoutChar
  <2> QED
    BY <2>2, <2>3
<1>10. \E g, u : Reads(g, u, wire', s_flag', pending', UserFlags')
  BY <1>5, <1>6, <1>7, <1>8
<1> QED
  BY <1>2, <1>5, <1>6, <1>8, <1>9, <1>10 DEF ScanInv

\* At the start nothing is held, sent or set.
LEMMA ScanInitInv == ScanInit => ScanInv
<1> SUFFICES ASSUME ScanInit PROVE ScanInv
  OBVIOUS
<1>1. /\ held = {} /\ locked = FALSE /\ wire = <<>> /\ pending = <<>> /\ s_flag = {}
      /\ last = [got |-> NOCHAR, meant |-> NOCHAR]
  BY DEF ScanInit
<1>2. UserFlags = {}
  BY <1>1 DEF UserFlags, ShiftHeld
<1>3. Len(wire) = 0 /\ Len(pending) = 0
  BY <1>1
<1>4. Reads([i \in 0 .. 0 |-> {}], [i \in 0 .. 0 |-> 0], wire, s_flag, pending, UserFlags)
  <2>1. [i \in 0 .. 0 |-> {}] \in [0 .. 0 -> SUBSET Flags]
    OBVIOUS
  <2> QED
    BY <1>1, <1>2, <1>3, <2>1 DEF Reads
<1>5. wire \in Seq(0 .. 255) /\ pending \in Seq(Texts) /\ last.got = last.meant
  BY <1>1
<1>6. held \subseteq Keys /\ locked \in BOOLEAN /\ s_flag \in SUBSET Flags
  BY <1>1
<1> QED
  BY <1>4, <1>5, <1>6 DEF ScanInv

\* The driver returns what was typed, in order, on a keyboard of which one shift key
\* is used and to a user for whom caps lock is for letters, whatever its other keys are and however far the driver is behind: of
\* ReadCharacter and the flags it keeps from one interrupt to the next.
THEOREM CharactersAlwaysAsTyped ==
  OneShiftKey /\ ~ LockIsShift => (ScanSpec => []CharactersAsTyped)
<1> SUFFICES ASSUME OneShiftKey, ~ LockIsShift PROVE ScanSpec => []CharactersAsTyped
  OBVIOUS
<1>1. ScanInv /\ [ScanNext]_scanVars => ScanInv'
  <2> SUFFICES ASSUME ScanInv, [ScanNext]_scanVars PROVE ScanInv'
    OBVIOUS
  <2>1. ASSUME NEW key \in Keys, KeyDown(key) PROVE ScanInv'
    BY <2>1, KeyDownInv
  <2>2. ASSUME NEW key \in Keys, KeyUp(key) PROVE ScanInv'
    BY <2>2, KeyUpInv
  <2>3. CASE ReadCharacter
    BY <2>3, ReadCharacterInv
  <2>4. CASE UNCHANGED scanVars
    <3>1. UserFlags' = UserFlags
      BY <2>4 DEF scanVars, UserFlags, ShiftHeld
    <3>2. \E f, o : Reads(f, o, wire', s_flag', pending', UserFlags')
      BY <2>4, <3>1 DEF scanVars, ScanInv
    <3> QED
      BY <2>4, <3>2 DEF scanVars, ScanInv
  <2> QED
    BY <2>1, <2>2, <2>3, <2>4 DEF ScanNext
<1>2. ScanInv => CharactersAsTyped
  <2> SUFFICES ASSUME ScanInv, wire = <<>> PROVE pending = <<>>
    BY DEF ScanInv, CharactersAsTyped
  <2>1. PICK f, o : Reads(f, o, wire, s_flag, pending, UserFlags)
    BY DEF ScanInv
  <2>2. Len(wire) = 0
    OBVIOUS
  <2>3. Len(pending) = 0
    BY <2>1, <2>2 DEF Reads
  <2> QED
    BY <2>3, EmptySeq DEF ScanInv
<1> QED
  BY <1>1, <1>2, ScanInitInv, PTL DEF ScanSpec

=============================================================================
