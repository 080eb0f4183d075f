--------------------------- MODULE SchedulerProofs ---------------------------
(***************************************************************************)
(* Theorems about Scheduler, for any number of process slots, any width of *)
(* the tick counter and any arguments of the system calls.                 *)
(***************************************************************************)
EXTENDS Scheduler, WellFoundedInduction, NaturalsInduction, TLAPS

-----------------------------------------------------------------------------
(* What the list operations preserve: the elements of the resulting list   *)
(* and the absence of duplicates.  The proofs about the scheduler cite     *)
(* these and never look inside a sequence themselves.                      *)

\* A non-empty set of natural numbers has a least element: the form in which
\* induction is used below and in the proofs about the scheduler.
LEMMA LeastNatural ==
  ASSUME NEW T, T \subseteq Nat, T # {}
  PROVE  \E x \in T : \A y \in T : x <= y
<1>1. IsWellFoundedOn(OpToRel(<, Nat), Nat)
  BY NatLessThanWellFounded, Zenon
<1>2. PICK x \in T : \A y \in T : ~ (<<y, x>> \in OpToRel(<, Nat))
  BY <1>1, WFMin, Zenon
<1>3. \A y \in T : ~ (y < x)
  BY <1>2 DEF OpToRel
<1> QED
  BY <1>3

-----------------------------------------------------------------------------
\* One step of the filter's recursion, with the values so far given by f.
FilterStep(q, S, f, i) ==
  IF i = 0 THEN <<>>
  ELSE IF q[i] \in S THEN Append(f[i-1], q[i]) ELSE f[i-1]

\* The filter's recursion has a solution on every prefix of the list, so the
\* function SelectPrefix defines is that solution.
LEMMA FilterExists ==
  ASSUME NEW q, NEW S, NEW n \in Nat
  PROVE  \E f : f = [i \in 0 .. n |-> FilterStep(q, S, f, i)]
<1> DEFINE Solves(f, m) == f = [i \in 0 .. m |-> FilterStep(q, S, f, i)]
           T == {m \in Nat : ~ \E f : Solves(f, m)}
<1>1. SUFFICES ASSUME T # {} PROVE FALSE
  OBVIOUS
<1>2. PICK m \in T : \A k \in T : m <= k
  BY <1>1, LeastNatural
<1>3. CASE m = 0
  <2> DEFINE g == [i \in 0 .. 0 |-> <<>>]
  <2>1. Solves(g, 0)
    BY DEF FilterStep
  <2> QED
    BY <2>1, <1>2, <1>3
<1>4. CASE m # 0
  <2>1. m - 1 \in Nat /\ m - 1 \notin T
    BY <1>2, <1>4
  <2>2. PICK f : Solves(f, m - 1)
    BY <2>1
  <2> DEFINE g == [i \in 0 .. m |-> IF i = m THEN FilterStep(q, S, f, m)
                                    ELSE f[i]]
  <2>3. \A i \in 0 .. m - 1 : g[i] = f[i]
    OBVIOUS
  <2>4. \A i \in 0 .. m - 1 : FilterStep(q, S, g, i) = FilterStep(q, S, f, i)
    BY <2>3 DEF FilterStep
  <2>5. FilterStep(q, S, g, m) = FilterStep(q, S, f, m)
    BY <2>3, <1>4 DEF FilterStep
  <2>6. \A i \in 0 .. m - 1 : f[i] = FilterStep(q, S, f, i)
    BY <2>2
  <2>7. \A i \in 0 .. m : g[i] = FilterStep(q, S, g, i)
    BY <2>3, <2>4, <2>5, <2>6
  <2>8. Solves(g, m)
    BY <2>7
  <2> QED
    BY <2>8, <1>2
<1> QED
  BY <1>3, <1>4

\* The defining equation of the filter, unfolded by one element.
LEMMA FilterUnfolds ==
  ASSUME NEW A, NEW q \in Seq(A), NEW S, NEW i \in 0 .. Len(q)
  PROVE  SelectPrefix(q, S)[i] = FilterStep(q, S, SelectPrefix(q, S), i)
<1> DEFINE F == SelectPrefix(q, S)
<1>1. F = CHOOSE f : f = [k \in 0 .. Len(q) |-> FilterStep(q, S, f, k)]
  BY DEF SelectPrefix, FilterStep
<1>2. Len(q) \in Nat
  OBVIOUS
<1>3. F = [k \in 0 .. Len(q) |-> FilterStep(q, S, F, k)]
  BY <1>1, <1>2, FilterExists, Zenon
<1> HIDE DEF F
<1>4. F[i] = FilterStep(q, S, F, i)
  BY <1>3
<1> QED
  BY <1>4 DEF F

-----------------------------------------------------------------------------
\* Select keeps exactly the elements of q that are in S, and the order's
\* uniqueness: no element of a duplicate-free list is returned twice.
LEMMA SelectProperties ==
  ASSUME NEW A, NEW q \in Seq(A), NEW S
  PROVE  /\ Select(q, S) \in Seq(A)
         /\ Range(Select(q, S)) = Range(q) \cap S
         /\ NoDuplicates(q) => NoDuplicates(Select(q, S))
<1> DEFINE F == SelectPrefix(q, S)
           Elements(i) == {q[j] : j \in 1 .. i}
           Good(i) == /\ F[i] \in Seq(A)
                      /\ Range(F[i]) = Elements(i) \cap S
                      /\ NoDuplicates(q) => NoDuplicates(F[i])
           T == {i \in Nat : i <= Len(q) /\ ~ Good(i)}
<1>1. \A i \in 0 .. Len(q) : F[i] = FilterStep(q, S, F, i)
  BY FilterUnfolds
<1> HIDE DEF F
<1>2. T = {}
  <2> SUFFICES ASSUME T # {} PROVE FALSE
    OBVIOUS
  <2>1. PICK i \in T : \A k \in T : i <= k
    BY LeastNatural
  <2>2. CASE i = 0
    <3>1. F[0] = <<>>
      BY <1>1, <2>1, <2>2 DEF FilterStep
    <3>2. Good(0)
      BY <3>1 DEF Range, NoDuplicates, IsInjective
    <3> QED
      BY <3>2, <2>1, <2>2
  <2>3. CASE i # 0
    <3>1. i - 1 \in Nat /\ i \in 1 .. Len(q) /\ i - 1 \notin T
      <4> HIDE DEF Good
      <4>1. i \in Nat /\ i <= Len(q)
        BY <2>1
      <4>2. \A k \in T : i <= k
        BY <2>1
      <4> HIDE DEF T
      <4> QED
        BY <4>1, <4>2, <2>3
    <3>2. Good(i - 1)
      <4> HIDE DEF Good
      <4> QED
        BY <3>1
    <3>3. Elements(i) = Elements(i - 1) \cup {q[i]}
      BY <3>1
    <3>4. q[i] \in A
      BY <3>1
    <3>5. CASE q[i] \notin S
      <4>1. F[i] = F[i-1]
        BY <1>1, <3>1, <3>5, <2>3 DEF FilterStep
      <4> QED
        BY <4>1, <3>2, <3>3, <3>5, <2>1
    <3>6. CASE q[i] \in S
      <4>1. F[i] = Append(F[i-1], q[i])
        <5>1. F[i] = FilterStep(q, S, F, i)
          BY <1>1, <3>1
        <5> QED
          BY <5>1, <3>6, <2>3, Zenon DEF FilterStep
      <4> DEFINE p == F[i-1]
                 r == F[i]
      <4>2. /\ p \in Seq(A) /\ r \in Seq(A) /\ r = Append(p, q[i])
        BY <4>1, <3>2, <3>4
      <4> HIDE DEF p, r
      <4>3. /\ Len(r) = Len(p) + 1
            /\ \A k \in 1 .. Len(p) : r[k] = p[k]
            /\ r[Len(p) + 1] = q[i]
        BY <4>2, <3>4
      <4>4. Range(r) = Range(p) \cup {q[i]}
        BY <4>2, <4>3, SMTT(40) DEF Range
      <4>5. ASSUME NoDuplicates(q) PROVE NoDuplicates(r)
        <5>1. q[i] \notin Elements(i - 1)
          BY <4>5, <3>1 DEF NoDuplicates, IsInjective
        <5>2. q[i] \notin Range(p) /\ NoDuplicates(p)
          BY <5>1, <3>2, <4>5 DEF p
        <5> QED
          BY <5>2, <4>2, <4>3 DEF NoDuplicates, IsInjective, Range
      <4>6. Range(r) = Elements(i) \cap S
        BY <4>4, <3>2, <3>3, <3>6 DEF p
      <4>7. Good(i)
        BY <4>2, <4>5, <4>6 DEF r
      <4> QED
        BY <4>7, <2>1
    <3> QED
      BY <3>5, <3>6
  <2> QED
    BY <2>2, <2>3
<1>3. Good(Len(q))
  <2> HIDE DEF Good
  <2>1. Len(q) \in Nat /\ Len(q) \notin T
    BY <1>2
  <2> QED
    BY <2>1
<1>4. Elements(Len(q)) = Range(q)
  BY DEF Range
<1> QED
  BY <1>3, <1>4 DEF Select, F

\* Without keeps exactly the other elements, once each.
LEMMA WithoutProperties ==
  ASSUME NEW A, NEW q \in Seq(A), NEW S
  PROVE  /\ Without(q, S) \in Seq(A)
         /\ Range(Without(q, S)) = Range(q) \ S
         /\ NoDuplicates(q) => NoDuplicates(Without(q, S))
BY SelectProperties DEF Without

\* The empty list (ListIsEmpty).
LEMMA EmptyQueue ==
  /\ Range(<<>>) = {} /\ NoDuplicates(<<>>)
  /\ \A A : <<>> \in Seq(A)
  /\ \A A : \A q \in Seq(A) : Range(q) = {} => q = <<>>
<1>1. Range(<<>>) = {} /\ NoDuplicates(<<>>)
  BY DEF Range, NoDuplicates, IsInjective
<1>2. ASSUME NEW A, NEW q \in Seq(A), Range(q) = {} PROVE q = <<>>
  <2>1. Len(q) = 0
    BY <1>2 DEF Range
  <2> QED
    BY <2>1
<1> QED
  BY <1>1, <1>2

\* ListPushBack of a process that is not in the list yet.
LEMMA PushBack ==
  ASSUME NEW A, NEW q \in Seq(A), NEW x \in A
  PROVE  /\ Append(q, x) \in Seq(A)
         /\ Append(q, x) # <<>>
         /\ Range(Append(q, x)) = Range(q) \cup {x}
         /\ NoDuplicates(q) /\ x \notin Range(q) => NoDuplicates(Append(q, x))
<1> DEFINE r == Append(q, x)
<1>1. /\ r \in Seq(A) /\ Len(r) = Len(q) + 1 /\ r # <<>>
      /\ \A k \in 1 .. Len(q) : r[k] = q[k]
      /\ r[Len(q) + 1] = x
  OBVIOUS
<1> HIDE DEF r
<1>2. Range(r) = Range(q) \cup {x}
  BY <1>1 DEF Range
<1>3. NoDuplicates(q) /\ x \notin Range(q) => NoDuplicates(r)
  BY <1>1 DEF Range, NoDuplicates, IsInjective
<1> QED
  BY <1>1, <1>2, <1>3 DEF r

\* ListPopFront of a list that is not empty.
LEMMA PopFront ==
  ASSUME NEW A, NEW q \in Seq(A), q # <<>>
  PROVE  /\ Head(q) \in Range(q) /\ Range(q) \subseteq A
         /\ Tail(q) \in Seq(A)
         /\ NoDuplicates(q) => /\ NoDuplicates(Tail(q))
                               /\ Range(Tail(q)) = Range(q) \ {Head(q)}
<1> DEFINE r == Tail(q)
<1>1. /\ r \in Seq(A) /\ Len(r) = Len(q) - 1 /\ Len(q) >= 1 /\ Len(q) \in Nat
      /\ \A k \in 1 .. Len(r) : r[k] = q[k + 1]
      /\ Head(q) = q[1]
  OBVIOUS
<1> HIDE DEF r
<1>2. Head(q) \in Range(q) /\ Range(q) \subseteq A
  BY <1>1 DEF Range
<1>3. ASSUME NoDuplicates(q) PROVE NoDuplicates(r) /\ Range(r) = Range(q) \ {q[1]}
  <2>1. NoDuplicates(r)
    BY <1>1, <1>3, SMTT(40) DEF NoDuplicates, IsInjective
  <2>2. ASSUME NEW y \in Range(r) PROVE y \in Range(q) \ {q[1]}
    <3>1. PICK k \in 1 .. Len(r) : y = r[k]
      BY <1>1, <2>2 DEF Range
    <3>2. y = q[k + 1] /\ k + 1 \in 1 .. Len(q) /\ k + 1 # 1
      BY <1>1, <3>1
    <3> QED
      BY <1>1, <3>2, <1>3 DEF Range, NoDuplicates, IsInjective
  <2>3. ASSUME NEW y \in Range(q) \ {q[1]} PROVE y \in Range(r)
    <3>1. PICK k \in 1 .. Len(q) : y = q[k]
      BY <1>1, <2>3 DEF Range
    <3>2. k - 1 \in 1 .. Len(r) /\ r[k - 1] = y
      BY <1>1, <3>1, <2>3
    <3> QED
      BY <1>1, <3>2 DEF Range
  <2> QED
    BY <2>1, <2>2, <2>3
<1> QED
  BY <1>1, <1>2, <1>3 DEF r

\* A list appended to another one, as Wakeup() does one process at a time.
LEMMA PushAll ==
  ASSUME NEW A, NEW q \in Seq(A), NEW r \in Seq(A)
  PROVE  /\ q \o r \in Seq(A)
         /\ Range(q \o r) = Range(q) \cup Range(r)
         /\ NoDuplicates(q) /\ NoDuplicates(r) /\ Range(q) \cap Range(r) = {}
              => NoDuplicates(q \o r)
<1> DEFINE c == q \o r
<1>1. /\ c \in Seq(A) /\ Len(c) = Len(q) + Len(r)
      /\ Len(q) \in Nat /\ Len(r) \in Nat
      /\ \A k \in 1 .. Len(c) : c[k] = IF k <= Len(q) THEN q[k] ELSE r[k - Len(q)]
  OBVIOUS
<1> HIDE DEF c
<1>2. Range(c) \subseteq Range(q) \cup Range(r)
  BY <1>1 DEF Range
<1>3. Range(q) \subseteq Range(c)
  BY <1>1, SMTT(40) DEF Range
<1>4. ASSUME NEW y \in Range(r) PROVE y \in Range(c)
  <2>1. PICK k \in 1 .. Len(r) : y = r[k]
    BY <1>1, <1>4 DEF Range
  <2> DEFINE j == k + Len(q)
  <2>2. j \in 1 .. Len(c) /\ ~ (j <= Len(q)) /\ j - Len(q) = k
    BY <1>1, <2>1
  <2> HIDE DEF j
  <2>3. c[j] = y
    BY <1>1, <2>1, <2>2
  <2> QED
    BY <1>1, <2>2, <2>3, SMTT(40) DEF Range
<1>5. ASSUME NoDuplicates(q), NoDuplicates(r), Range(q) \cap Range(r) = {}
      PROVE  NoDuplicates(c)
  <2> SUFFICES ASSUME NEW a \in 1 .. Len(c), NEW b \in 1 .. Len(c), c[a] = c[b]
               PROVE  a = b
    BY <1>1 DEF NoDuplicates, IsInjective
  <2>1. CASE a <= Len(q) /\ b <= Len(q)
    BY <2>1, <1>1, <1>5 DEF NoDuplicates, IsInjective
  <2>2. CASE a > Len(q) /\ b > Len(q)
    <3>1. a - Len(q) \in 1 .. Len(r) /\ b - Len(q) \in 1 .. Len(r)
      BY <1>1, <2>2
    <3>2. r[a - Len(q)] = r[b - Len(q)]
      BY <1>1, <2>2
    <3>3. a - Len(q) = b - Len(q)
      BY <3>1, <3>2, <1>5 DEF NoDuplicates, IsInjective
    <3> QED
      BY <3>3, <1>1
  <2>3. CASE a <= Len(q) /\ b > Len(q)
    <3>1. c[a] \in Range(q)
      BY <1>1, <2>3 DEF Range
    <3>2. c[b] \in Range(r)
      BY <1>1, <2>3 DEF Range
    <3> QED
      BY <3>1, <3>2, <1>5
  <2>4. CASE a > Len(q) /\ b <= Len(q)
    <3>1. c[b] \in Range(q)
      BY <1>1, <2>4 DEF Range
    <3>2. c[a] \in Range(r)
      BY <1>1, <2>4, SMTT(40) DEF Range
    <3> QED
      BY <3>1, <3>2, <1>5
  <2> QED
    BY <1>1, <2>1, <2>2, <2>3, <2>4
<1> QED
  BY <1>1, <1>2, <1>3, <1>4, <1>5 DEF c

-----------------------------------------------------------------------------
(* The process manager.                                                    *)

\* The two slots that InitProcess takes exist and differ.
LEMMA IdleSlot == IDLE \in Slots /\ SHELL \in Slots /\ IDLE # SHELL
BY ProcessAssumption DEF IDLE, SHELL, Slots

-----------------------------------------------------------------------------
(* Types of what the primitives compute.                                   *)

\* Schedule() keeps the types of what it assigns.
LEMMA ScheduleType ==
  ASSUME NEW st \in [Slots -> ProcessState], NEW ready \in Seq(Slots),
         Schedule(st, ready)
  PROVE  /\ current_proc' \in Slots
         /\ state' \in [Slots -> ProcessState]
         /\ ready_proc_list' \in Seq(Slots)
<1>1. CASE ready = <<>>
  BY <1>1, IdleSlot DEF Schedule, ProcessState
<1>2. CASE ready # <<>>
  <2>1. Head(ready) \in Slots /\ Tail(ready) \in Seq(Slots)
    BY <1>2
  <2> QED
    BY <1>2, <2>1 DEF Schedule, ProcessState
<1> QED
  BY <1>1, <1>2

\* What Wakeup() computes is well typed.
LEMMA WakeupType ==
  ASSUME TypeOK, NEW w, NEW st \in [Slots -> ProcessState]
  PROVE  /\ WakeupState(st, w) \in [Slots -> ProcessState]
         /\ Woken(w) \in Seq(Slots)
         /\ WakeupReady(w) \in Seq(Slots)
         /\ WakeupWait(w) \in Seq(Slots)
<1>1. Woken(w) \in Seq(Slots)
  BY SelectProperties DEF Woken, TypeOK
<1>2. WakeupWait(w) \in Seq(Slots)
  BY WithoutProperties DEF WakeupWait, TypeOK
<1>3. WakeupReady(w) \in Seq(Slots)
  BY <1>1, PushAll DEF WakeupReady, TypeOK
<1>4. WakeupState(st, w) \in [Slots -> ProcessState]
  BY DEF WakeupState, ProcessState
<1> QED
  BY <1>1, <1>2, <1>3, <1>4

\* Yield() keeps the types of what it assigns.
LEMMA YieldType ==
  ASSUME TypeOK, NEW st \in [Slots -> ProcessState], NEW ready \in Seq(Slots),
         Yield(st, ready)
  PROVE  /\ current_proc' \in Slots
         /\ state' \in [Slots -> ProcessState]
         /\ ready_proc_list' \in Seq(Slots)
<1>1. CASE ready = <<>>
  BY <1>1 DEF Yield, TypeOK
<1>2. CASE ready # <<>>
  <2> DEFINE st2 == [st EXCEPT ![current_proc] = "READY"]
             ready2 == IF pid[current_proc] # IDLE_PROCESS_PID
                       THEN Append(ready, current_proc) ELSE ready
  <2>1. st2 \in [Slots -> ProcessState]
    BY DEF TypeOK, ProcessState
  <2>2. ready2 \in Seq(Slots)
    BY DEF TypeOK
  <2>3. Schedule(st2, ready2)
    BY <1>2 DEF Yield
  <2> HIDE DEF st2, ready2
  <2> QED
    BY <2>1, <2>2, <2>3, ScheduleType
<1> QED
  BY <1>1, <1>2

\* Sleep() keeps the types of what it assigns.
LEMMA SleepType ==
  ASSUME TypeOK, NEW w \in WaitIds, Sleep(w)
  PROVE  /\ current_proc' \in Slots
         /\ state' \in [Slots -> ProcessState]
         /\ wait_id' \in [Slots -> WaitIds \cup {0}]
         /\ ready_proc_list' \in Seq(Slots)
         /\ wait_proc_list' \in Seq(Slots)
<1>1. [state EXCEPT ![current_proc] = "SLEEPING"] \in [Slots -> ProcessState]
  BY DEF TypeOK, ProcessState
<1>2. ready_proc_list \in Seq(Slots)
  BY DEF TypeOK
<1>3. /\ current_proc' \in Slots
      /\ state' \in [Slots -> ProcessState]
      /\ ready_proc_list' \in Seq(Slots)
  BY <1>1, <1>2, ScheduleType DEF Sleep
<1>4. wait_proc_list' \in Seq(Slots)
  BY DEF Sleep, TypeOK
<1>5. wait_id' \in [Slots -> WaitIds \cup {0}]
  BY DEF Sleep, TypeOK
<1> QED
  BY <1>3, <1>4, <1>5

\* Exit() keeps the type invariant.
LEMMA ExitType == TypeOK /\ Exit => TypeOK'
<1> SUFFICES ASSUME TypeOK, Exit PROVE TypeOK'
  OBVIOUS
<1> DEFINE st == [state EXCEPT ![current_proc] = "KILLED"]
           w  == INIT_PROCESS_WAIT_ID
<1>1. st \in [Slots -> ProcessState]
  BY DEF TypeOK, ProcessState
<1> HIDE DEF st, w
<1>2. /\ WakeupState(st, w) \in [Slots -> ProcessState]
      /\ WakeupReady(w) \in Seq(Slots) /\ WakeupWait(w) \in Seq(Slots)
  BY <1>1, WakeupType
<1>3. Schedule(WakeupState(st, w), WakeupReady(w))
  BY DEF Exit, st, w
<1>4. /\ current_proc' \in Slots
      /\ state' \in [Slots -> ProcessState]
      /\ ready_proc_list' \in Seq(Slots)
  BY <1>2, <1>3, ScheduleType
<1>5. wait_proc_list' \in Seq(Slots) /\ kill_proc_list' \in Seq(Slots)
  BY <1>2 DEF Exit, TypeOK, w
<1> QED
  BY <1>4, <1>5 DEF Exit, TypeOK, callVars

\* FindFreeProcessSlot() returns a free slot when there is one.
LEMMA FreeSlotFound ==
  FreeSlots # {} => FindFreeProcessSlot \in FreeSlots
<1>1. FreeSlots \subseteq Nat
  BY ProcessAssumption DEF FreeSlots, Slots
<1> QED
  BY <1>1, LeastNatural DEF FindFreeProcessSlot

\* Returning from a system call keeps its variables well typed.
LEMMA ReturnType ==
  TypeOK /\ Return =>
    /\ call' \in [Slots -> {"none", "SysSleep", "Wait", "ReadKeyBuffer"}]
    /\ arg' \in [Slots -> Int]
    /\ old_ticks' \in [Slots -> 0 .. TickModulus - 1]
BY TickAssumption DEF Return, TypeOK

\* The tick counter wraps within its range.
LEMMA NextTick == ASSUME NEW t \in Nat PROVE t % TickModulus \in 0 .. TickModulus - 1
BY TickAssumption

\* The three wait ids are wait ids.
LEMMA WaitIdTypes ==
  /\ NORMAL_PROCESS_WAIT_ID \in WaitIds
  /\ INIT_PROCESS_WAIT_ID \in WaitIds
  /\ WAITING_KEYBOARD_PROCESS_WAIT_ID \in WaitIds
BY DEF WaitIds

\* The state after InitProcess is well typed.
LEMMA TypeInit == Init => TypeOK
BY IdleSlot, TickAssumption
DEF Init, TypeOK, InitIDLEProcess, InitShellProcess, ProcessState, WaitIds

\* Every step of the process manager keeps the type invariant.
LEMMA TypeStep == TypeOK /\ [Next]_vars => TypeOK'
<1> SUFFICES ASSUME TypeOK, [Next]_vars PROVE TypeOK'
  OBVIOUS
<1> USE DEF procVars, listVars, callVars
<1>1. CASE TimerInterrupt
  <2> DEFINE w == NORMAL_PROCESS_WAIT_ID
  <2>0. state \in [Slots -> ProcessState]
    BY DEF TypeOK
  <2> HIDE DEF w
  <2>1. /\ WakeupState(state, w) \in [Slots -> ProcessState]
        /\ WakeupReady(w) \in Seq(Slots) /\ WakeupWait(w) \in Seq(Slots)
    BY <2>0, WakeupType
  <2>2. Yield(WakeupState(state, w), WakeupReady(w))
    BY <1>1 DEF TimerInterrupt, w
  <2>3. /\ current_proc' \in Slots
        /\ state' \in [Slots -> ProcessState]
        /\ ready_proc_list' \in Seq(Slots)
    BY <2>1, <2>2, YieldType
  <2>4. s_system_ticks' \in 0 .. TickModulus - 1
    <3>1. s_system_ticks + 1 \in Nat
      BY TickAssumption DEF TypeOK
    <3> QED
      BY <1>1, <3>1, NextTick DEF TimerInterrupt
  <2> QED
    BY <1>1, <2>1, <2>3, <2>4 DEF TimerInterrupt, TypeOK, w
<1>2. CASE KeyboardInterrupt
  <2>0. state \in [Slots -> ProcessState]
    BY DEF TypeOK
  <2> DEFINE w == WAITING_KEYBOARD_PROCESS_WAIT_ID
  <2> HIDE DEF w
  <2>1. /\ WakeupState(state, w) \in [Slots -> ProcessState]
        /\ WakeupReady(w) \in Seq(Slots) /\ WakeupWait(w) \in Seq(Slots)
    BY <2>0, WakeupType
  <2> QED
    BY <1>2, <2>1 DEF KeyboardInterrupt, TypeOK, w
<1>3. CASE UserException \/ SysExit
  BY <1>3, ExitType DEF UserException, SysExit
<1>4. CASE SysExec
  <2>1. CASE Exit
    BY <2>1, ExitType
  <2>2. CASE UNCHANGED vars
    BY <2>2 DEF vars, TypeOK
  <2> QED
    BY <1>4, <2>1, <2>2 DEF SysExec
<1>5. ASSUME NEW n \in SleepTicks, SysSleep(n) PROVE TypeOK'
  BY <1>5, TickAssumption DEF SysSleep, Enter, TypeOK
<1>6. ASSUME NEW p \in WaitPids, SysWait(p) PROVE TypeOK'
  BY <1>6, PidAssumption, TickAssumption DEF SysWait, Enter, TypeOK
<1>7. CASE SysReadKey
  BY <1>7, TickAssumption DEF SysReadKey, Enter, TypeOK
<1>8. CASE SysFork
  <2>1. CASE ForkSucceeds \/ ForkFailsInCopyUVM
    <3>1. PICK child \in Slots : child = FindFreeProcessSlot
      BY <2>1, FreeSlotFound DEF ForkSucceeds, ForkFailsInCopyUVM, FreeSlots
    <3>2. PICK s \in ProcessState : state' = [state EXCEPT ![child] = s]
      BY <2>1, <3>1 DEF ForkSucceeds, ForkFailsInCopyUVM, ProcessState
    <3>3. \/ ready_proc_list' = Append(ready_proc_list, child)
          \/ ready_proc_list' = ready_proc_list
      BY <2>1, <3>1 DEF ForkSucceeds, ForkFailsInCopyUVM
    <3>4. CreateNewProcess(child)
      BY <2>1, <3>1 DEF ForkSucceeds, ForkFailsInCopyUVM
    <3>5. UNCHANGED <<current_proc, wait_proc_list, kill_proc_list,
                      s_system_ticks, call, arg, old_ticks>>
      BY <2>1 DEF ForkSucceeds, ForkFailsInCopyUVM
    <3>6. ready_proc_list' \in Seq(Slots)
      <4>1. Append(ready_proc_list, child) \in Seq(Slots)
        BY PushBack DEF TypeOK
      <4> QED
        BY <3>3, <4>1 DEF TypeOK
    <3>7. state' \in [Slots -> ProcessState]
      BY <3>2 DEF TypeOK
    <3>8. /\ pid' \in [Slots -> Nat] /\ s_pid_num' \in Nat
          /\ wait_id' \in [Slots -> WaitIds \cup {0}]
      BY <3>4 DEF CreateNewProcess, TypeOK
    <3> QED
      BY <3>5, <3>6, <3>7, <3>8 DEF TypeOK
  <2>2. CASE ForkFailsEarly
    BY <2>2 DEF ForkFailsEarly, TypeOK, vars
  <2>3. CASE ForkFailsInSetupKVM
    BY <2>3 DEF ForkFailsInSetupKVM, TypeOK
  <2> QED
    BY <1>8, <2>1, <2>2, <2>3 DEF SysFork
<1>9. CASE SleepLoopBlocks \/ ReadKeyBlocks \/ WaitSleeps
  <2>1. PICK w \in WaitIds : Sleep(w)
    BY <1>9, WaitIdTypes DEF SleepLoopBlocks, ReadKeyBlocks, WaitSleeps
  <2>2. /\ current_proc' \in Slots
        /\ state' \in [Slots -> ProcessState]
        /\ wait_id' \in [Slots -> WaitIds \cup {0}]
        /\ ready_proc_list' \in Seq(Slots)
        /\ wait_proc_list' \in Seq(Slots)
    BY <2>1, SleepType
  <2> QED
    BY <1>9, <2>2 DEF SleepLoopBlocks, ReadKeyBlocks, WaitSleeps, TypeOK
<1>10. CASE SleepLoopReturns \/ ReadKeyReturns
  BY <1>10, ReturnType DEF SleepLoopReturns, ReadKeyReturns, TypeOK
<1>11. CASE WaitReaps
  <2>0. PICK k \in 1 .. Len(kill_proc_list) :
          LET p == kill_proc_list[k]
          IN  /\ kill_proc_list' = Without(kill_proc_list, {p})
              /\ state' = [state EXCEPT ![p] = "UNUSED"]
              /\ pid' = [pid EXCEPT ![p] = 0]
              /\ wait_id' = [wait_id EXCEPT ![p] = 0]
    BY <1>11, Zenon DEF WaitReaps
  <2> DEFINE p == kill_proc_list[k]
  <2>1. /\ p \in Slots
        /\ kill_proc_list' = Without(kill_proc_list, {p})
        /\ state' = [state EXCEPT ![p] = "UNUSED"]
        /\ pid' = [pid EXCEPT ![p] = 0]
        /\ wait_id' = [wait_id EXCEPT ![p] = 0]
    BY <2>0 DEF TypeOK
  <2> HIDE DEF p
  <2>2. kill_proc_list' \in Seq(Slots)
    BY <2>1, WithoutProperties DEF TypeOK
  <2>3. Return /\ UNCHANGED <<ready_proc_list, wait_proc_list, current_proc,
                              s_pid_num, s_system_ticks>>
    BY <1>11 DEF WaitReaps
  <2> QED
    BY <2>1, <2>2, <2>3, ReturnType DEF TypeOK, ProcessState
<1>12. CASE WaitSpins \/ UNCHANGED vars
  BY <1>12 DEF WaitSpins, vars, TypeOK
<1> QED
  BY <1>1, <1>2, <1>3, <1>4, <1>5, <1>6, <1>7, <1>8, <1>9, <1>10, <1>11, <1>12
  DEF Next, Interrupt, UserStep, KernelLoop

\* Type correctness of the process manager, whatever user code does: every slot,
\* list and suspended call of kernel/process.c keeps its type.
THEOREM TypeCorrect == Spec => []TypeOK
BY TypeInit, TypeStep, PTL DEF Spec

-----------------------------------------------------------------------------
(* The process lists.                                                      *)

\* The same slots are free, and the same are half built, before and after.
SameSlotsInUse ==
  \A p \in Slots : \A s \in {"UNUSED", "INITIALIZED"} :
    state'[p] = s <=> state[p] = s

\* What Schedule() is called with: nobody runs, and the ready list holds the
\* ready processes other than the idle task.
Settled(st, ready) ==
  /\ NoDuplicates(ready)
  /\ Range(ready) = {p \in Slots \ {IDLE} : st[p] = "READY"}
  /\ st[IDLE] = "READY"
  /\ \A p \in Slots : st[p] # "RUNNING"

\* What Schedule() does to the states: the head of the ready list, or idle, runs.
LEMMA ScheduleStates ==
  ASSUME NEW st \in [Slots -> ProcessState], NEW ready \in Seq(Slots),
         Settled(st, ready), Schedule(st, ready)
  PROVE  /\ current_proc' \in Slots
         /\ st[current_proc'] = "READY"
         /\ state' = [st EXCEPT ![current_proc'] = "RUNNING"]
         /\ NoDuplicates(ready_proc_list')
         /\ Range(ready_proc_list') = Range(ready) \ {current_proc'}
<1>1. CASE ready = <<>>
  BY <1>1, IdleSlot, EmptyQueue DEF Schedule, Settled
<1>2. CASE ready # <<>>
  <2>1. /\ Head(ready) \in Range(ready)
        /\ NoDuplicates(Tail(ready))
        /\ Range(Tail(ready)) = Range(ready) \ {Head(ready)}
    BY <1>2, PopFront DEF Settled
  <2>2. /\ current_proc' = Head(ready)
        /\ state' = [st EXCEPT ![Head(ready)] = "RUNNING"]
        /\ ready_proc_list' = Tail(ready)
    BY <1>2 DEF Schedule
  <2> QED
    BY <2>1, <2>2 DEF Settled
<1> QED
  BY <1>1, <1>2

\* Every handler that calls Schedule() with the lists settled leaves them
\* matching the states.
LEMMA ScheduleLists ==
  ASSUME NEW st \in [Slots -> ProcessState], NEW ready \in Seq(Slots),
         Settled(st, ready), Schedule(st, ready),
         NoDuplicates(wait_proc_list'), NoDuplicates(kill_proc_list'),
         Range(wait_proc_list') = {p \in Slots : st[p] = "SLEEPING"},
         Range(kill_proc_list') = {p \in Slots : st[p] = "KILLED"}
  PROVE  /\ ListsMatchStates'
         /\ \A p \in Slots : \A s \in {"UNUSED", "INITIALIZED"} :
              state'[p] = s <=> st[p] = s
<1>1. /\ current_proc' \in Slots
      /\ st[current_proc'] = "READY"
      /\ state' = [st EXCEPT ![current_proc'] = "RUNNING"]
      /\ NoDuplicates(ready_proc_list')
      /\ Range(ready_proc_list') = Range(ready) \ {current_proc'}
  BY ScheduleStates
<1>2. \A p \in Slots : state'[p] = IF p = current_proc' THEN "RUNNING" ELSE st[p]
  BY <1>1
<1>3. Range(ready_proc_list') = {p \in Slots \ {IDLE} : state'[p] = "READY"}
  BY <1>1, <1>2 DEF Settled
<1>4. Range(wait_proc_list') = {p \in Slots : state'[p] = "SLEEPING"}
  BY <1>1, <1>2
<1>5. Range(kill_proc_list') = {p \in Slots : state'[p] = "KILLED"}
  BY <1>1, <1>2
<1>6. {p \in Slots : state'[p] = "RUNNING"} = {current_proc'}
  BY <1>1, <1>2 DEF Settled
<1>7. state'[IDLE] \in {"RUNNING", "READY"}
  BY <1>2, IdleSlot DEF Settled
<1>8. \A p \in Slots : \A s \in {"UNUSED", "INITIALIZED"} :
        state'[p] = s <=> st[p] = s
  BY <1>1, <1>2
<1> QED
  BY <1>1, <1>3, <1>4, <1>5, <1>6, <1>7, <1>8 DEF ListsMatchStates

\* Wakeup(w) moves the processes that sleep on w, and no other.
LEMMA WakeupLists ==
  ASSUME TypeOK, ListsMatchStates, NEW w
  PROVE  /\ Range(Woken(w)) =
              {p \in Slots : state[p] = "SLEEPING" /\ wait_id[p] = w}
         /\ NoDuplicates(WakeupReady(w))
         /\ Range(WakeupReady(w)) = Range(ready_proc_list) \cup Range(Woken(w))
         /\ NoDuplicates(WakeupWait(w))
         /\ Range(WakeupWait(w)) =
              {p \in Slots : state[p] = "SLEEPING" /\ wait_id[p] # w}
<1> USE DEF TypeOK
<1>1. /\ Woken(w) \in Seq(Slots)
      /\ Range(Woken(w)) = Range(wait_proc_list) \cap Sleepers(w)
      /\ NoDuplicates(Woken(w))
  BY SelectProperties DEF Woken, ListsMatchStates
<1>2. Range(Woken(w)) =
        {p \in Slots : state[p] = "SLEEPING" /\ wait_id[p] = w}
  BY <1>1 DEF ListsMatchStates, Sleepers
<1>3. Range(ready_proc_list) \cap Range(Woken(w)) = {}
  BY <1>2 DEF ListsMatchStates
<1>4. /\ NoDuplicates(WakeupReady(w))
      /\ Range(WakeupReady(w)) = Range(ready_proc_list) \cup Range(Woken(w))
  BY <1>1, <1>3, PushAll DEF WakeupReady, ListsMatchStates
<1>5. /\ NoDuplicates(WakeupWait(w))
      /\ Range(WakeupWait(w)) = Range(wait_proc_list) \ Range(Woken(w))
  BY WithoutProperties DEF WakeupWait, ListsMatchStates
<1>6. Range(WakeupWait(w)) =
        {p \in Slots : state[p] = "SLEEPING" /\ wait_id[p] # w}
  BY <1>2, <1>5 DEF ListsMatchStates
<1> QED
  BY <1>2, <1>4, <1>5, <1>6

\* The current process is the running one and is in no list.
LEMMA CurrentRuns ==
  ASSUME TypeOK, ListsMatchStates
  PROVE  /\ current_proc \in Slots
         /\ state[current_proc] = "RUNNING"
         /\ \A p \in Slots : p # current_proc => state[p] # "RUNNING"
         /\ current_proc # IDLE => state[IDLE] = "READY"
BY IdleSlot DEF TypeOK, ListsMatchStates

\* Sleep() keeps lists and states in agreement.
LEMMA SleepLists ==
  ASSUME TypeOK, ListsMatchStates, NEW w, Sleep(w), UNCHANGED kill_proc_list,
         current_proc # IDLE
  PROVE  ListsMatchStates' /\ SameSlotsInUse
<1> DEFINE st == [state EXCEPT ![current_proc] = "SLEEPING"]
<1>1. st \in [Slots -> ProcessState] /\ ready_proc_list \in Seq(Slots)
  BY DEF TypeOK, ProcessState
<1>2. \A p \in Slots : st[p] = IF p = current_proc THEN "SLEEPING" ELSE state[p]
  BY DEF TypeOK
<1>3. /\ Schedule(st, ready_proc_list)
      /\ wait_proc_list' = Append(wait_proc_list, current_proc)
  BY DEF Sleep
<1> HIDE DEF st
<1>4. Settled(st, ready_proc_list)
  BY <1>2, CurrentRuns, IdleSlot DEF Settled, ListsMatchStates
<1>5. NoDuplicates(kill_proc_list') /\ NoDuplicates(wait_proc_list')
  BY <1>3, CurrentRuns, PushBack DEF ListsMatchStates, TypeOK
<1>6. Range(wait_proc_list') = {p \in Slots : st[p] = "SLEEPING"}
  <2>1. Range(wait_proc_list') = Range(wait_proc_list) \cup {current_proc}
    BY <1>3, PushBack DEF TypeOK
  <2> QED
    BY <2>1, <1>2, CurrentRuns DEF ListsMatchStates
<1>7. Range(kill_proc_list') = {p \in Slots : st[p] = "KILLED"}
  BY <1>2, CurrentRuns DEF ListsMatchStates
<1>8. \A p \in Slots : \A s \in {"UNUSED", "INITIALIZED"} :
        st[p] = s <=> state[p] = s
  BY <1>2, CurrentRuns
<1> QED
  BY <1>1, <1>3, <1>4, <1>5, <1>6, <1>7, <1>8, ScheduleLists
  DEF SameSlotsInUse

\* Exit() keeps lists and states in agreement.
LEMMA ExitLists ==
  ASSUME TypeOK, ListsMatchStates, Exit, current_proc # IDLE
  PROVE  ListsMatchStates' /\ SameSlotsInUse
<1> DEFINE w   == INIT_PROCESS_WAIT_ID
           dead == [state EXCEPT ![current_proc] = "KILLED"]
           st  == WakeupState(dead, w)
<1>1. dead \in [Slots -> ProcessState]
  BY DEF TypeOK, ProcessState
<1>2. \A p \in Slots : st[p] = IF p \in Range(Woken(w)) THEN "READY"
                               ELSE IF p = current_proc THEN "KILLED"
                               ELSE state[p]
  BY DEF WakeupState, TypeOK
<1>3. /\ Schedule(st, WakeupReady(w))
      /\ wait_proc_list' = WakeupWait(w)
      /\ kill_proc_list' = Append(kill_proc_list, current_proc)
  BY DEF Exit
<1>4. st \in [Slots -> ProcessState] /\ WakeupReady(w) \in Seq(Slots)
  BY <1>1, WakeupType
<1> HIDE DEF st, w, dead
<1>5. /\ Range(Woken(w)) =
           {p \in Slots : state[p] = "SLEEPING" /\ wait_id[p] = w}
      /\ NoDuplicates(WakeupReady(w))
      /\ Range(WakeupReady(w)) = Range(ready_proc_list) \cup Range(Woken(w))
      /\ NoDuplicates(WakeupWait(w))
      /\ Range(WakeupWait(w)) =
           {p \in Slots : state[p] = "SLEEPING" /\ wait_id[p] # w}
  BY WakeupLists
<1>6. Settled(st, WakeupReady(w))
  <2>1. Range(WakeupReady(w)) = {p \in Slots \ {IDLE} : st[p] = "READY"}
    BY <1>2, <1>5, CurrentRuns, IdleSlot DEF ListsMatchStates
  <2>2. st[IDLE] = "READY" /\ \A p \in Slots : st[p] # "RUNNING"
    BY <1>2, <1>5, CurrentRuns, IdleSlot
  <2> QED
    BY <2>1, <2>2, <1>5 DEF Settled
<1>7. /\ NoDuplicates(kill_proc_list')
      /\ Range(kill_proc_list') = Range(kill_proc_list) \cup {current_proc}
  <2>1. current_proc \notin Range(kill_proc_list) /\ NoDuplicates(kill_proc_list)
    BY CurrentRuns DEF ListsMatchStates
  <2>2. current_proc \in Slots /\ kill_proc_list \in Seq(Slots)
    BY DEF TypeOK
  <2> QED
    BY <1>3, <2>1, <2>2, PushBack
<1>8. Range(wait_proc_list') = {p \in Slots : st[p] = "SLEEPING"}
  BY <1>2, <1>3, <1>5, CurrentRuns
<1>9. Range(kill_proc_list') = {p \in Slots : st[p] = "KILLED"}
  BY <1>2, <1>5, <1>7, CurrentRuns DEF ListsMatchStates
<1>10. \A p \in Slots : \A s \in {"UNUSED", "INITIALIZED"} :
         st[p] = s <=> state[p] = s
  BY <1>2, <1>5, CurrentRuns
<1> QED
  BY <1>3, <1>4, <1>5, <1>6, <1>7, <1>8, <1>9, <1>10, ScheduleLists
  DEF SameSlotsInUse

\* A wakeup that leaves the CPU where it is.
LEMMA WakeupOnlyLists ==
  ASSUME TypeOK, ListsMatchStates, NEW w,
         state' = WakeupState(state, w), ready_proc_list' = WakeupReady(w),
         wait_proc_list' = WakeupWait(w),
         UNCHANGED <<kill_proc_list, current_proc>>
  PROVE  ListsMatchStates' /\ SameSlotsInUse
<1>1. /\ Range(Woken(w)) =
           {p \in Slots : state[p] = "SLEEPING" /\ wait_id[p] = w}
      /\ NoDuplicates(WakeupReady(w))
      /\ Range(WakeupReady(w)) = Range(ready_proc_list) \cup Range(Woken(w))
      /\ NoDuplicates(WakeupWait(w))
      /\ Range(WakeupWait(w)) =
           {p \in Slots : state[p] = "SLEEPING" /\ wait_id[p] # w}
  BY WakeupLists
<1>2. \A p \in Slots :
        state'[p] = IF p \in Range(Woken(w)) THEN "READY" ELSE state[p]
  BY DEF WakeupState
<1>3. Range(ready_proc_list') = {p \in Slots \ {IDLE} : state'[p] = "READY"}
  BY <1>1, <1>2, IdleSlot DEF ListsMatchStates
<1>4. Range(wait_proc_list') = {p \in Slots : state'[p] = "SLEEPING"}
  BY <1>1, <1>2
<1>5. Range(kill_proc_list') = {p \in Slots : state'[p] = "KILLED"}
  BY <1>1, <1>2 DEF ListsMatchStates
<1>6. {p \in Slots : state'[p] = "RUNNING"} = {current_proc'}
  BY <1>1, <1>2, CurrentRuns
<1>7. state'[IDLE] \in {"RUNNING", "READY"}
  BY <1>2, IdleSlot DEF ListsMatchStates
<1>8. SameSlotsInUse
  BY <1>1, <1>2 DEF SameSlotsInUse
<1> QED
  BY <1>1, <1>3, <1>4, <1>5, <1>6, <1>7, <1>8 DEF ListsMatchStates

\* The timer interrupt keeps lists and states in agreement.
LEMMA TimerLists ==
  ASSUME TypeOK, ListsMatchStates, PidsDistinct, TimerInterrupt
  PROVE  ListsMatchStates' /\ SameSlotsInUse
<1> DEFINE w     == NORMAL_PROCESS_WAIT_ID
           woke  == WakeupState(state, w)
           ready == WakeupReady(w)
<1>0. /\ Yield(woke, ready) /\ wait_proc_list' = WakeupWait(w)
      /\ kill_proc_list' = kill_proc_list
  BY DEF TimerInterrupt
<1>1. /\ Range(Woken(w)) =
           {p \in Slots : state[p] = "SLEEPING" /\ wait_id[p] = w}
      /\ NoDuplicates(ready)
      /\ Range(ready) = Range(ready_proc_list) \cup Range(Woken(w))
      /\ NoDuplicates(WakeupWait(w))
      /\ Range(WakeupWait(w)) =
           {p \in Slots : state[p] = "SLEEPING" /\ wait_id[p] # w}
  BY WakeupLists
<1>2. woke \in [Slots -> ProcessState] /\ ready \in Seq(Slots)
  BY WakeupType DEF TypeOK
<1>3. \A p \in Slots :
        woke[p] = IF p \in Range(Woken(w)) THEN "READY" ELSE state[p]
  BY DEF WakeupState
<1>4. CASE ready = <<>>
  <2>1. state' = woke /\ ready_proc_list' = ready /\ current_proc' = current_proc
    BY <1>0, <1>4 DEF Yield
  <2> QED
    BY <1>0, <2>1, WakeupOnlyLists
<1>5. CASE ready # <<>>
  <2> DEFINE st   == [woke EXCEPT ![current_proc] = "READY"]
             rest == IF pid[current_proc] # IDLE_PROCESS_PID
                     THEN Append(ready, current_proc) ELSE ready
  <2>1. Schedule(st, rest)
    BY <1>0, <1>5 DEF Yield
  <2>2. current_proc = IDLE <=> pid[current_proc] = IDLE_PROCESS_PID
    BY CurrentRuns, IdleSlot DEF PidsDistinct, IDLE_PROCESS_PID, IDLE
  <2>3. current_proc \notin Range(ready) /\ current_proc \in Slots
    BY <1>1, CurrentRuns DEF ListsMatchStates
  <2>4. st \in [Slots -> ProcessState] /\ rest \in Seq(Slots)
    BY <1>2, <2>3, PushBack DEF ProcessState
  <2>5. \A p \in Slots : st[p] = IF p = current_proc \/ p \in Range(Woken(w))
                                 THEN "READY" ELSE state[p]
    BY <1>2, <1>3
  <2>6. /\ NoDuplicates(rest)
        /\ Range(rest) = IF current_proc # IDLE
                         THEN Range(ready) \cup {current_proc} ELSE Range(ready)
    <3>1. CASE current_proc = IDLE
      BY <1>1, <2>2, <3>1
    <3>2. CASE current_proc # IDLE
      <4>1. rest = Append(ready, current_proc)
        BY <2>2, <3>2
      <4> HIDE DEF rest, ready
      <4> QED
        BY <1>1, <1>2, <2>3, <3>2, <4>1, PushBack
    <3> QED
      BY <3>1, <3>2
  <2> HIDE DEF st, rest, woke, ready, w
  <2>7. Settled(st, rest)
    <3>1. Range(rest) = {p \in Slots \ {IDLE} : st[p] = "READY"}
      BY <1>1, <2>5, <2>6, CurrentRuns, IdleSlot DEF ListsMatchStates
    <3>2. st[IDLE] = "READY" /\ \A p \in Slots : st[p] # "RUNNING"
      BY <2>5, CurrentRuns, IdleSlot DEF ListsMatchStates
    <3> QED
      BY <2>6, <3>1, <3>2 DEF Settled
  <2>8. /\ NoDuplicates(wait_proc_list') /\ NoDuplicates(kill_proc_list')
        /\ Range(wait_proc_list') = {p \in Slots : st[p] = "SLEEPING"}
    BY <1>0, <1>1, <2>5, CurrentRuns DEF ListsMatchStates
  <2>9. Range(kill_proc_list') = {p \in Slots : st[p] = "KILLED"}
    BY <1>0, <1>1, <2>5, CurrentRuns DEF ListsMatchStates
  <2>10. \A p \in Slots : \A s \in {"UNUSED", "INITIALIZED"} :
           st[p] = s <=> state[p] = s
    BY <1>1, <2>5, CurrentRuns
  <2> QED
    BY <2>1, <2>4, <2>7, <2>8, <2>9, <2>10, ScheduleLists DEF SameSlotsInUse
<1> QED
  BY <1>4, <1>5

\* A fork, successful or not, keeps lists and states in agreement.
LEMMA ForkLists ==
  ASSUME TypeOK, ListsMatchStates, ForkSucceeds \/ ForkFailsInCopyUVM
  PROVE  ListsMatchStates'
<1>1. PICK child \in Slots : child = FindFreeProcessSlot /\ state[child] = "UNUSED"
  BY FreeSlotFound DEF ForkSucceeds, ForkFailsInCopyUVM, FreeSlots
<1>2. child # IDLE /\ child # current_proc /\ child \notin Range(ready_proc_list)
  BY <1>1 DEF ListsMatchStates
<1>3. CASE ForkSucceeds
  <2>1. /\ state' = [state EXCEPT ![child] = "READY"]
        /\ ready_proc_list' = Append(ready_proc_list, child)
        /\ UNCHANGED <<current_proc, wait_proc_list, kill_proc_list>>
    BY <1>1, <1>3 DEF ForkSucceeds
  <2>2. \A p \in Slots : state'[p] = IF p = child THEN "READY" ELSE state[p]
    BY <2>1 DEF TypeOK
  <2>3. /\ NoDuplicates(ready_proc_list')
        /\ Range(ready_proc_list') = Range(ready_proc_list) \cup {child}
    BY <1>2, <2>1, PushBack, SMTT(40) DEF TypeOK, ListsMatchStates
  <2>4. Range(ready_proc_list') = {p \in Slots \ {IDLE} : state'[p] = "READY"}
    BY <1>2, <2>2, <2>3 DEF ListsMatchStates
  <2> QED
    BY <1>1, <1>2, <2>1, <2>2, <2>3, <2>4, IdleSlot DEF ListsMatchStates
<1>4. CASE ForkFailsInCopyUVM
  <2>1. /\ state' = [state EXCEPT ![child] = "INITIALIZED"]
        /\ UNCHANGED <<current_proc, ready_proc_list, wait_proc_list,
                       kill_proc_list>>
    BY <1>1, <1>4 DEF ForkFailsInCopyUVM, listVars
  <2>2. \A p \in Slots : state'[p] = IF p = child THEN "INITIALIZED" ELSE state[p]
    BY <2>1 DEF TypeOK
  <2> QED
    BY <1>1, <1>2, <2>1, <2>2, IdleSlot DEF ListsMatchStates
<1> QED
  BY <1>3, <1>4

\* WaitReaps, with the process it cleans up named.
LEMMA ReapedProcess ==
  ASSUME TypeOK, ListsMatchStates, WaitReaps
  PROVE  \E p \in Slots :
           /\ state[p] = "KILLED" /\ p # current_proc /\ p # IDLE
           /\ pid[p] = arg[current_proc]
           /\ kill_proc_list' = Without(kill_proc_list, {p})
           /\ state' = [state EXCEPT ![p] = "UNUSED"]
           /\ pid' = [pid EXCEPT ![p] = 0]
           /\ wait_id' = [wait_id EXCEPT ![p] = 0]
<1>1. PICK k \in 1 .. Len(kill_proc_list) :
        LET p == kill_proc_list[k]
        IN  /\ Matches(p)
            /\ kill_proc_list' = Without(kill_proc_list, {p})
            /\ state' = [state EXCEPT ![p] = "UNUSED"]
            /\ pid' = [pid EXCEPT ![p] = 0]
            /\ wait_id' = [wait_id EXCEPT ![p] = 0]
  BY Zenon DEF WaitReaps
<1>2. kill_proc_list[k] \in Range(kill_proc_list)
  BY SMTT(40) DEF TypeOK, Range
<1>3. /\ kill_proc_list[k] \in Slots
      /\ state[kill_proc_list[k]] = "KILLED"
  BY <1>2 DEF ListsMatchStates
<1>4. kill_proc_list[k] # current_proc /\ kill_proc_list[k] # IDLE
  BY <1>3, CurrentRuns DEF ListsMatchStates
<1> QED
  BY <1>1, <1>3, <1>4, Zenon DEF Matches

\* Cleaning up a killed process keeps lists and states in agreement.
LEMMA ReapLists ==
  ASSUME TypeOK, ListsMatchStates, WaitReaps
  PROVE  ListsMatchStates'
<1>1. PICK p \in Slots :
           /\ state[p] = "KILLED" /\ p # current_proc /\ p # IDLE
           /\ kill_proc_list' = Without(kill_proc_list, {p})
           /\ state' = [state EXCEPT ![p] = "UNUSED"]
  BY ReapedProcess
<1>2. \A q \in Slots : state'[q] = IF q = p THEN "UNUSED" ELSE state[q]
  BY <1>1 DEF TypeOK
<1>3. UNCHANGED <<ready_proc_list, wait_proc_list, current_proc>>
  BY DEF WaitReaps
<1>4. /\ NoDuplicates(kill_proc_list')
      /\ Range(kill_proc_list') = Range(kill_proc_list) \ {p}
  BY <1>1, WithoutProperties DEF TypeOK, ListsMatchStates
<1> QED
  BY <1>1, <1>2, <1>3, <1>4, IdleSlot DEF ListsMatchStates

-----------------------------------------------------------------------------
(* The inductive invariant.  The lists need PidsDistinct (Yield tells the  *)
(* idle task by its pid) and CallsMatchStates (only a user process sleeps).*)
SchedulerInv ==
  /\ TypeOK /\ ListsMatchStates /\ PidsDistinct
  /\ CallsMatchStates /\ NoReaperSleeps /\ NoOverdueSleeper

\* The invariant holds after InitProcess.
LEMMA InvInit == Init => SchedulerInv
<1> SUFFICES ASSUME Init PROVE SchedulerInv
  OBVIOUS
<1>1. TypeOK
  BY TypeInit
<1>2. Range(ready_proc_list) = {SHELL} /\ NoDuplicates(ready_proc_list)
  BY DEF Init, InitShellProcess, Range, NoDuplicates, IsInjective
<1>3. ListsMatchStates
  BY <1>2, EmptyQueue, IdleSlot DEF Init, InitIDLEProcess, ListsMatchStates
<1>4. PidsDistinct
  BY IdleSlot DEF Init, PidsDistinct, InitIDLEProcess, InitShellProcess,
                  IDLE_PROCESS_PID
<1>5. CallsMatchStates
  BY IdleSlot DEF Init, CallsMatchStates
<1>6. NoReaperSleeps /\ NoOverdueSleeper
  BY EmptyQueue DEF Init, NoReaperSleeps, NoOverdueSleeper
<1> QED
  BY <1>1, <1>3, <1>4, <1>5, <1>6 DEF SchedulerInv

\* A process in the middle of a system call is a user process.
LEMMA CallerIsUser ==
  ASSUME SchedulerInv
  PROVE  call[current_proc] # "none" => current_proc # IDLE
BY IdleSlot DEF SchedulerInv, CallsMatchStates

\* The part of the invariant about pids, for steps that create no process.
LEMMA PidsKept ==
  ASSUME SchedulerInv, SameSlotsInUse, UNCHANGED <<pid, s_pid_num>>
  PROVE  PidsDistinct'
BY DEF SchedulerInv, PidsDistinct, SameSlotsInUse

\* Sleep() keeps the invariant if the caller's call matches the event.
LEMMA SleepInv ==
  ASSUME SchedulerInv, TypeOK', NEW w \in WaitIds, Sleep(w),
         UNCHANGED <<pid, kill_proc_list, s_pid_num, s_system_ticks, callVars>>,
         \/ w = NORMAL_PROCESS_WAIT_ID /\ call[current_proc] = "SysSleep"
              /\ Elapsed(current_proc) < arg[current_proc]
         \/ w = INIT_PROCESS_WAIT_ID /\ call[current_proc] = "Wait"
              /\ kill_proc_list = <<>>
         \/ w = WAITING_KEYBOARD_PROCESS_WAIT_ID
              /\ call[current_proc] = "ReadKeyBuffer"
  PROVE  SchedulerInv'
<1>1. current_proc # IDLE /\ current_proc \in Slots
  BY CallerIsUser DEF SchedulerInv, TypeOK
<1>2. ListsMatchStates' /\ SameSlotsInUse
  BY <1>1, SleepLists DEF SchedulerInv
<1>3. PidsDistinct'
  BY <1>2, PidsKept
<1>4. Range(wait_proc_list') = Range(wait_proc_list) \cup {current_proc}
  BY PushBack DEF Sleep, SchedulerInv, TypeOK
<1>5. \A p \in Slots : wait_id'[p] = IF p = current_proc THEN w ELSE wait_id[p]
  BY DEF Sleep, SchedulerInv, TypeOK
<1>6. UNCHANGED <<call, arg, old_ticks>>
  BY DEF callVars
<1>7. CallsMatchStates'
  <2>1. \A p \in Slots : state'[p] = "SLEEPING" =>
          p = current_proc \/ state[p] = "SLEEPING"
    BY <1>2, <1>4 DEF ListsMatchStates, SchedulerInv
  <2>2. \A p \in Slots : state'[p] = "KILLED" => state[p] = "KILLED"
    BY <1>2 DEF ListsMatchStates, SchedulerInv
  <2>3. \A p \in Slots : state'[p] \in {"UNUSED", "INITIALIZED", "KILLED"}
          => state[p] \in {"UNUSED", "INITIALIZED", "KILLED"}
    BY <1>2, <2>2 DEF SameSlotsInUse
  <2> QED
    BY <1>5, <1>6, <2>1, <2>3 DEF SchedulerInv, CallsMatchStates
<1>8. NoReaperSleeps'
  BY <1>1, <1>4, <1>5 DEF SchedulerInv, NoReaperSleeps, ListsMatchStates,
                     NORMAL_PROCESS_WAIT_ID, INIT_PROCESS_WAIT_ID,
                     WAITING_KEYBOARD_PROCESS_WAIT_ID
<1>9. NoOverdueSleeper'
  <2>1. \A p \in Slots : Elapsed(p)' = Elapsed(p)
    BY <1>6 DEF Elapsed
  <2>2. Range(wait_proc_list) \subseteq Slots
    BY DEF SchedulerInv, ListsMatchStates
  <2> QED
    BY <1>1, <1>4, <1>6, <2>1, <2>2 DEF SchedulerInv, NoOverdueSleeper
<1> QED
  BY <1>2, <1>3, <1>7, <1>8, <1>9 DEF SchedulerInv

\* Exit() keeps the invariant.
LEMMA ExitInv ==
  ASSUME SchedulerInv, TypeOK', Exit, UserMode
  PROVE  SchedulerInv'
<1>1. current_proc # IDLE /\ current_proc \in Slots /\ call[current_proc] = "none"
  BY DEF UserMode, SchedulerInv, TypeOK
<1>2. ListsMatchStates' /\ SameSlotsInUse
  BY <1>1, ExitLists DEF SchedulerInv
<1>3. UNCHANGED <<pid, wait_id, s_pid_num, s_system_ticks, call, arg, old_ticks>>
  BY DEF Exit, callVars
<1>4. PidsDistinct'
  BY <1>2, <1>3, PidsKept
<1>5. Range(wait_proc_list') = {p \in Slots : state[p] = "SLEEPING"
                                  /\ wait_id[p] # INIT_PROCESS_WAIT_ID}
  BY WakeupLists DEF Exit, SchedulerInv
<1>6. Range(kill_proc_list') = Range(kill_proc_list) \cup {current_proc}
  BY PushBack DEF Exit, SchedulerInv, TypeOK
<1>7. CallsMatchStates'
  <2>1. \A p \in Slots : state'[p] = "SLEEPING" => state[p] = "SLEEPING"
    BY <1>2, <1>5 DEF ListsMatchStates
  <2>2. \A p \in Slots : state'[p] = "KILLED" =>
          p = current_proc \/ state[p] = "KILLED"
    BY <1>2, <1>6 DEF ListsMatchStates, SchedulerInv
  <2>3. \A p \in Slots : state'[p] \in {"UNUSED", "INITIALIZED", "KILLED"}
          => p = current_proc \/ state[p] \in {"UNUSED", "INITIALIZED", "KILLED"}
    BY <1>2, <2>2 DEF SameSlotsInUse
  <2> QED
    BY <1>1, <1>3, <2>1, <2>3 DEF SchedulerInv, CallsMatchStates
<1>8. NoReaperSleeps'
  BY <1>3, <1>5 DEF NoReaperSleeps
<1>9. NoOverdueSleeper'
  <2>1. \A p \in Slots : Elapsed(p)' = Elapsed(p)
    BY <1>3 DEF Elapsed
  <2> QED
    BY <1>3, <1>5, <2>1 DEF SchedulerInv, NoOverdueSleeper, ListsMatchStates
<1> QED
  BY <1>2, <1>4, <1>7, <1>8, <1>9 DEF SchedulerInv

\* The two interrupts: the wait list shrinks and nothing else of what the
\* invariant speaks of changes, except the tick.
LEMMA InterruptInv ==
  ASSUME SchedulerInv, TypeOK', Interrupt
  PROVE  SchedulerInv'
<1> DEFINE w == IF TimerInterrupt THEN NORMAL_PROCESS_WAIT_ID
                ELSE WAITING_KEYBOARD_PROCESS_WAIT_ID
<1>1. ListsMatchStates' /\ SameSlotsInUse
  <2>1. CASE TimerInterrupt
    BY <2>1, TimerLists DEF SchedulerInv
  <2>2. CASE KeyboardInterrupt
    BY <2>2, WakeupOnlyLists DEF KeyboardInterrupt, SchedulerInv
  <2> QED
    BY <2>1, <2>2 DEF Interrupt
<1>2. UNCHANGED <<pid, wait_id, s_pid_num, kill_proc_list, call, arg, old_ticks>>
  BY DEF Interrupt, TimerInterrupt, KeyboardInterrupt, callVars
<1>3. PidsDistinct'
  BY <1>1, <1>2, PidsKept
<1>4. wait_proc_list' = WakeupWait(w)
  BY DEF Interrupt, TimerInterrupt, KeyboardInterrupt
<1> HIDE DEF w
<1>5. Range(wait_proc_list') =
        {p \in Slots : state[p] = "SLEEPING" /\ wait_id[p] # w}
  BY <1>4, WakeupLists DEF SchedulerInv
<1>6. CallsMatchStates'
  <2>1. \A p \in Slots : state'[p] = "SLEEPING" => state[p] = "SLEEPING"
    BY <1>1, <1>5 DEF ListsMatchStates
  <2>2. \A p \in Slots : state'[p] = "KILLED" => state[p] = "KILLED"
    BY <1>1, <1>2 DEF ListsMatchStates, SchedulerInv
  <2>3. \A p \in Slots : state'[p] \in {"UNUSED", "INITIALIZED", "KILLED"}
          => state[p] \in {"UNUSED", "INITIALIZED", "KILLED"}
    BY <1>1, <2>2 DEF SameSlotsInUse
  <2> QED
    BY <1>2, <2>1, <2>3 DEF SchedulerInv, CallsMatchStates
<1>7. NoReaperSleeps'
  BY <1>2, <1>5 DEF SchedulerInv, NoReaperSleeps, ListsMatchStates
<1>8. NoOverdueSleeper'
  <2>1. CASE TimerInterrupt
    <3>1. w = NORMAL_PROCESS_WAIT_ID
      BY <2>1 DEF w
    <3>2. \A p \in Range(wait_proc_list') : call[p] # "SysSleep"
      BY <1>5, <3>1 DEF SchedulerInv, CallsMatchStates
    <3> QED
      BY <1>2, <3>2 DEF NoOverdueSleeper
  <2>2. CASE KeyboardInterrupt
    <3>1. \A p \in Slots : Elapsed(p)' = Elapsed(p)
      BY <1>2, <2>2 DEF Elapsed, KeyboardInterrupt
    <3> QED
      BY <1>2, <1>5, <3>1 DEF SchedulerInv, NoOverdueSleeper, ListsMatchStates
  <2> QED
    BY <2>1, <2>2 DEF Interrupt
<1> QED
  BY <1>1, <1>3, <1>6, <1>7, <1>8 DEF SchedulerInv

\* Entering a call and returning from one change only the caller's call, and
\* the caller, which runs, is in none of the lists.
LEMMA CallOnlyInv ==
  ASSUME SchedulerInv, TypeOK', current_proc # IDLE,
         UNCHANGED <<procVars, current_proc, listVars, s_pid_num,
                     s_system_ticks>>,
         \A p \in Slots : p # current_proc =>
           call'[p] = call[p] /\ arg'[p] = arg[p] /\ old_ticks'[p] = old_ticks[p]
  PROVE  SchedulerInv'
<1> USE DEF procVars, listVars
<1>1. ListsMatchStates' /\ PidsDistinct' /\ NoReaperSleeps'
  BY DEF SchedulerInv, ListsMatchStates, PidsDistinct, NoReaperSleeps
<1>2. state[current_proc] = "RUNNING" /\ current_proc \in Slots
  BY CurrentRuns DEF SchedulerInv
<1>3. CallsMatchStates'
  BY <1>2 DEF SchedulerInv, CallsMatchStates
<1>4. NoOverdueSleeper'
  <2>1. \A p \in Slots : p # current_proc => Elapsed(p)' = Elapsed(p)
    BY DEF Elapsed
  <2>2. \A p \in Range(wait_proc_list) : p \in Slots /\ p # current_proc
    BY <1>2 DEF SchedulerInv, ListsMatchStates
  <2> QED
    BY <2>1, <2>2 DEF SchedulerInv, NoOverdueSleeper
<1> QED
  BY <1>1, <1>3, <1>4 DEF SchedulerInv

\* Entering a system call keeps the invariant.
LEMMA EnterInv ==
  ASSUME SchedulerInv, TypeOK', NEW loop, NEW a, Enter(loop, a)
  PROVE  SchedulerInv'
<1>1. \A p \in Slots : p # current_proc =>
        call'[p] = call[p] /\ arg'[p] = arg[p] /\ old_ticks'[p] = old_ticks[p]
  BY DEF Enter, SchedulerInv, TypeOK
<1> QED
  BY <1>1, CallOnlyInv DEF Enter, UserMode

\* Returning from a system call keeps the invariant.
LEMMA ReturnInv ==
  ASSUME SchedulerInv, TypeOK', SleepLoopReturns \/ ReadKeyReturns
  PROVE  SchedulerInv'
<1>1. current_proc # IDLE
  BY CallerIsUser DEF SleepLoopReturns, ReadKeyReturns
<1>2. Return /\ UNCHANGED <<procVars, current_proc, listVars, s_pid_num,
                            s_system_ticks>>
  BY DEF SleepLoopReturns, ReadKeyReturns
<1>3. \A p \in Slots : p # current_proc =>
        call'[p] = call[p] /\ arg'[p] = arg[p] /\ old_ticks'[p] = old_ticks[p]
  BY <1>2 DEF Return, SchedulerInv, TypeOK
<1> QED
  BY <1>1, <1>2, <1>3, CallOnlyInv

\* A fork keeps the invariant, whether it succeeds or fails at any point.
LEMMA ForkInv ==
  ASSUME SchedulerInv, TypeOK', ForkSucceeds \/ ForkFailsInCopyUVM
  PROVE  SchedulerInv'
<1>1. ListsMatchStates'
  BY ForkLists DEF SchedulerInv
<1>2. PICK child \in Slots : child = FindFreeProcessSlot /\ state[child] = "UNUSED"
  BY FreeSlotFound DEF ForkSucceeds, ForkFailsInCopyUVM, FreeSlots
<1>3. CreateNewProcess(child)
  BY <1>2 DEF ForkSucceeds, ForkFailsInCopyUVM
<1>4. UNCHANGED <<current_proc, wait_proc_list, kill_proc_list, s_system_ticks,
                  call, arg, old_ticks>>
  BY DEF ForkSucceeds, ForkFailsInCopyUVM, listVars, callVars
<1>5. PICK s \in {"READY", "INITIALIZED"} : state' = [state EXCEPT ![child] = s]
  BY <1>2 DEF ForkSucceeds, ForkFailsInCopyUVM
<1>6. \A p \in Slots : state'[p] = IF p = child THEN s ELSE state[p]
  BY <1>5 DEF SchedulerInv, TypeOK
<1>7. /\ \A p \in Slots : pid'[p] = IF p = child THEN s_pid_num ELSE pid[p]
      /\ \A p \in Slots : wait_id'[p] = IF p = child THEN 0 ELSE wait_id[p]
      /\ s_pid_num' = s_pid_num + 1 /\ s_pid_num \in Nat
      /\ \A p \in Slots : pid[p] \in Nat
  BY <1>3 DEF CreateNewProcess, SchedulerInv, TypeOK
<1>8. child # IDLE /\ s_pid_num > 0
  <2>1. child # IDLE
    BY <1>2 DEF SchedulerInv, ListsMatchStates
  <2>2. current_proc # IDLE /\ current_proc \in Slots
    BY DEF ForkSucceeds, ForkFailsInCopyUVM, UserMode, SchedulerInv, TypeOK
  <2>3. pid[current_proc] < s_pid_num
    BY <2>2, CurrentRuns DEF SchedulerInv, PidsDistinct
  <2> QED
    BY <1>7, <2>1, <2>2, <2>3
<1>9. PidsDistinct'
  <2>1. pid'[IDLE] = IDLE_PROCESS_PID
    BY <1>7, <1>8, IdleSlot DEF SchedulerInv, PidsDistinct
  <2>2. ASSUME NEW p \in Slots \ {IDLE}, state'[p] # "UNUSED"
        PROVE  pid'[p] > 0 /\ pid'[p] < s_pid_num'
    BY <2>2, <1>6, <1>7, <1>8 DEF SchedulerInv, PidsDistinct
  <2>3. \A p \in Slots : state[p] # "UNUSED" => pid[p] < s_pid_num
    BY <1>8 DEF SchedulerInv, PidsDistinct, IDLE_PROCESS_PID
  <2>4. ASSUME NEW p \in Slots, NEW q \in Slots, state'[p] # "UNUSED",
               state'[q] # "UNUSED", pid'[p] = pid'[q]
        PROVE  p = q
    BY <2>3, <2>4, <1>6, <1>7 DEF SchedulerInv, PidsDistinct
  <2> QED
    BY <2>1, <2>2, <2>4 DEF PidsDistinct
<1>10. CallsMatchStates'
  BY <1>2, <1>4, <1>6, <1>7 DEF SchedulerInv, CallsMatchStates
<1>11. Range(wait_proc_list) \subseteq Slots \ {child}
  BY <1>2 DEF SchedulerInv, ListsMatchStates
<1>12. NoReaperSleeps'
  BY <1>4, <1>7, <1>11 DEF SchedulerInv, NoReaperSleeps
<1>13. NoOverdueSleeper'
  <2>1. \A p \in Slots : Elapsed(p)' = Elapsed(p)
    BY <1>4 DEF Elapsed
  <2> QED
    BY <1>4, <1>11, <2>1 DEF SchedulerInv, NoOverdueSleeper
<1> QED
  BY <1>1, <1>9, <1>10, <1>12, <1>13 DEF SchedulerInv

\* Wait() cleaning up a process keeps the invariant.
LEMMA ReapInv ==
  ASSUME SchedulerInv, TypeOK', WaitReaps
  PROVE  SchedulerInv'
<1>1. ListsMatchStates'
  BY ReapLists DEF SchedulerInv
<1>2. PICK d \in Slots :
           /\ state[d] = "KILLED" /\ d # current_proc /\ d # IDLE
           /\ state' = [state EXCEPT ![d] = "UNUSED"]
           /\ pid' = [pid EXCEPT ![d] = 0]
           /\ wait_id' = [wait_id EXCEPT ![d] = 0]
  BY ReapedProcess DEF SchedulerInv
<1>3. /\ \A p \in Slots : state'[p] = IF p = d THEN "UNUSED" ELSE state[p]
      /\ \A p \in Slots : pid'[p] = IF p = d THEN 0 ELSE pid[p]
      /\ \A p \in Slots : wait_id'[p] = IF p = d THEN 0 ELSE wait_id[p]
  BY <1>2 DEF SchedulerInv, TypeOK
<1>4. /\ UNCHANGED <<ready_proc_list, wait_proc_list, current_proc, s_pid_num,
                     s_system_ticks>>
      /\ Return /\ call[current_proc] = "Wait"
  BY DEF WaitReaps
<1>5. PidsDistinct'
  BY <1>2, <1>3, <1>4, IdleSlot DEF SchedulerInv, PidsDistinct
<1>6. /\ current_proc # IDLE /\ current_proc \in Slots
      /\ state[current_proc] = "RUNNING"
  BY <1>4, CallerIsUser, CurrentRuns DEF SchedulerInv
<1>7. /\ \A p \in Slots : call'[p] = IF p = current_proc THEN "none" ELSE call[p]
      /\ \A p \in Slots : p # current_proc =>
           arg'[p] = arg[p] /\ old_ticks'[p] = old_ticks[p]
  BY <1>4 DEF Return, SchedulerInv, TypeOK
<1>8. CallsMatchStates'
  BY <1>2, <1>3, <1>6, <1>7 DEF SchedulerInv, CallsMatchStates
<1>9. Range(wait_proc_list) \subseteq Slots \ {d, current_proc}
  BY <1>2, <1>6 DEF SchedulerInv, ListsMatchStates
<1>10. NoReaperSleeps'
  <2>1. kill_proc_list # <<>>
    BY <1>2, EmptyQueue DEF SchedulerInv, ListsMatchStates
  <2> QED
    BY <1>3, <1>4, <1>9, <2>1 DEF SchedulerInv, NoReaperSleeps
<1>11. NoOverdueSleeper'
  <2>1. \A p \in Slots : p # current_proc => Elapsed(p)' = Elapsed(p)
    BY <1>4, <1>7 DEF Elapsed
  <2> QED
    BY <1>4, <1>7, <1>9, <2>1 DEF SchedulerInv, NoOverdueSleeper
<1> QED
  BY <1>1, <1>5, <1>8, <1>10, <1>11 DEF SchedulerInv

\* A step that changes nothing keeps the invariant.
LEMMA StutterInv ==
  ASSUME SchedulerInv, UNCHANGED vars
  PROVE  SchedulerInv'
BY DEF SchedulerInv, vars, procVars, listVars, callVars, TypeOK,
       ListsMatchStates, PidsDistinct, CallsMatchStates, NoReaperSleeps,
       NoOverdueSleeper, Elapsed

\* Every step of the process manager keeps the invariant.
LEMMA InvStep == SchedulerInv /\ [Next]_vars => SchedulerInv'
<1> SUFFICES ASSUME SchedulerInv, [Next]_vars PROVE SchedulerInv'
  OBVIOUS
<1>0. TypeOK'
  BY TypeStep DEF SchedulerInv
<1>1. CASE Interrupt
  BY <1>0, <1>1, InterruptInv
<1>2. CASE UserException \/ SysExit \/ SysExec
  BY <1>0, <1>2, ExitInv, StutterInv DEF UserException, SysExit, SysExec
<1>3. CASE SysFork
  <2>1. CASE ForkSucceeds \/ ForkFailsInCopyUVM
    BY <1>0, <2>1, ForkInv
  <2>2. CASE ForkFailsEarly
    BY <2>2, StutterInv DEF ForkFailsEarly
  <2>3. CASE ForkFailsInSetupKVM
    <3>1. /\ UNCHANGED <<procVars, current_proc, listVars, s_system_ticks,
                         callVars>>
          /\ s_pid_num' = s_pid_num + 1 /\ s_pid_num \in Nat
      BY <2>3 DEF ForkFailsInSetupKVM, SchedulerInv, TypeOK
    <3>2. PidsDistinct'
      BY <3>1 DEF procVars, SchedulerInv, PidsDistinct, TypeOK
    <3> QED
      BY <1>0, <3>1, <3>2 DEF SchedulerInv, procVars, listVars, callVars,
           ListsMatchStates, CallsMatchStates, NoReaperSleeps,
           NoOverdueSleeper, Elapsed
  <2> QED
    BY <1>3, <2>1, <2>2, <2>3 DEF SysFork
<1>4. ASSUME NEW n \in SleepTicks, SysSleep(n) PROVE SchedulerInv'
  BY <1>0, <1>4, EnterInv DEF SysSleep
<1>5. ASSUME NEW p \in WaitPids, SysWait(p) PROVE SchedulerInv'
  BY <1>0, <1>5, EnterInv DEF SysWait
<1>6. CASE SysReadKey
  BY <1>0, <1>6, EnterInv DEF SysReadKey
<1>7. CASE SleepLoopBlocks \/ ReadKeyBlocks \/ WaitSleeps
  BY <1>0, <1>7, SleepInv, WaitIdTypes
  DEF SleepLoopBlocks, ReadKeyBlocks, WaitSleeps
<1>8. CASE SleepLoopReturns \/ ReadKeyReturns
  BY <1>0, <1>8, ReturnInv
<1>9. CASE WaitReaps
  BY <1>0, <1>9, ReapInv
<1>10. CASE WaitSpins \/ UNCHANGED vars
  BY <1>10, StutterInv DEF WaitSpins
<1> QED
  BY <1>1, <1>2, <1>3, <1>4, <1>5, <1>6, <1>7, <1>8, <1>9, <1>10
  DEF Next, UserStep, KernelLoop

\* The conjunction is inductive and holds in every reachable state of the process
\* manager.
THEOREM InvHolds == Spec => []SchedulerInv
BY InvInit, InvStep, PTL DEF Spec

\* The ready, wait and kill list hold exactly the processes whose state says so,
\* each once, whatever interrupts, calls and failures occur and in what order:
\* the next field that the lists share is never in two of them.
THEOREM ListsAlwaysMatchStates == Spec => []ListsMatchStates
BY InvHolds, PTL DEF SchedulerInv

\* Pids stay distinct although slots are reused and a failed fork may use up a
\* pid, so Wait() cleans up the process it was asked for.
THEOREM PidsAlwaysDistinct == Spec => []PidsDistinct
BY InvHolds, PTL DEF SchedulerInv

\* A process sleeps on the event its system call waits for, and a slot that Fork
\* hands out is in no system call.
THEOREM CallsAlwaysMatchStates == Spec => []CallsMatchStates
BY InvHolds, PTL DEF SchedulerInv

\* No wakeup is lost between the Exit() of one process and the Wait() of another.
THEOREM NoLostWakeup == Spec => []NoReaperSleeps
BY InvHolds, PTL DEF SchedulerInv

\* Nobody oversleeps in the wait list, for any width of the tick counter.
THEOREM NoOversleeping == Spec => []NoOverdueSleeper
BY InvHolds, PTL DEF SchedulerInv

-----------------------------------------------------------------------------
(* Action properties.                                                      *)

\* Schedule() on a ready list that begins with the current one.
LEMMA ScheduleIsRoundRobin ==
  ASSUME TypeOK, ListsMatchStates, NEW st, NEW q \in Seq(Slots), Schedule(st, q),
         Len(ready_proc_list) <= Len(q),
         \A k \in 1 .. Len(ready_proc_list) : q[k] = ready_proc_list[k]
  PROVE  RoundRobinStep
<1>1. CASE ready_proc_list = <<>>
  BY <1>1 DEF RoundRobinStep
<1>2. CASE ready_proc_list # <<>>
  <2>1. ready_proc_list \in Seq(Slots) /\ Len(ready_proc_list) >= 1
    BY <1>2 DEF TypeOK
  <2>2. q # <<>> /\ Len(q) >= 1
    BY <2>1
  <2>3. /\ current_proc' = ready_proc_list[1]
        /\ ready_proc_list' = Tail(q)
    BY <2>1, <2>2 DEF Schedule
  <2>4. ready_proc_list[1] # current_proc
    <3>1. ready_proc_list[1] \in Range(ready_proc_list)
      BY <2>1 DEF Range
    <3> QED
      BY <3>1, CurrentRuns DEF ListsMatchStates
  <2>5. /\ Len(Tail(q)) = Len(q) - 1
        /\ \A j \in 1 .. Len(q) - 1 : Tail(q)[j] = q[j + 1]
    BY <2>2
  <2>6. ASSUME NEW k \in 2 .. Len(ready_proc_list)
        PROVE  /\ k - 1 <= Len(ready_proc_list')
               /\ ready_proc_list'[k - 1] = ready_proc_list[k]
    <3> DEFINE j == k - 1
    <3>1. j \in 1 .. Len(q) - 1 /\ j + 1 = k /\ k \in 1 .. Len(ready_proc_list)
      BY <2>1
    <3> HIDE DEF j
    <3>2. Tail(q)[j] = ready_proc_list[k] /\ j <= Len(Tail(q))
      BY <2>5, <3>1
    <3> QED
      BY <2>3, <3>2 DEF j
  <2> QED
    BY <2>3, <2>4, <2>6 DEF RoundRobinStep
<1> QED
  BY <1>1, <1>2

\* A list that is only appended to keeps its beginning.
LEMMA ExtendedList ==
  ASSUME NEW q \in Seq(Slots), NEW r \in Seq(Slots)
  PROVE  /\ q \o r \in Seq(Slots) /\ Len(q) <= Len(q \o r)
         /\ \A k \in 1 .. Len(q) : (q \o r)[k] = q[k]
OBVIOUS

\* Every step is a step of round robin.
LEMMA RoundRobinNext ==
  ASSUME SchedulerInv, [Next]_vars
  PROVE  RoundRobinStep
<1> USE DEF SchedulerInv
<1>0. ready_proc_list \in Seq(Slots) /\ current_proc \in Slots
  BY DEF TypeOK
<1>1. CASE UNCHANGED <<ready_proc_list, current_proc>>
  BY <1>0, <1>1 DEF RoundRobinStep
<1>2. \A w : /\ WakeupReady(w) \in Seq(Slots)
             /\ Len(ready_proc_list) <= Len(WakeupReady(w))
             /\ \A k \in 1 .. Len(ready_proc_list) :
                  WakeupReady(w)[k] = ready_proc_list[k]
  <2> TAKE w
  <2>1. Woken(w) \in Seq(Slots)
    BY SelectProperties DEF Woken, TypeOK
  <2> QED
    BY <1>0, <2>1, ExtendedList DEF WakeupReady
<1>3. CASE KeyboardInterrupt
  BY <1>0, <1>2, <1>3 DEF KeyboardInterrupt, RoundRobinStep
<1>4. CASE TimerInterrupt
  <2> DEFINE ready == WakeupReady(NORMAL_PROCESS_WAIT_ID)
             woke == WakeupState(state, NORMAL_PROCESS_WAIT_ID)
  <2>1. Yield(woke, ready)
    BY <1>4 DEF TimerInterrupt
  <2>2. /\ ready \in Seq(Slots) /\ Len(ready_proc_list) <= Len(ready)
        /\ \A k \in 1 .. Len(ready_proc_list) : ready[k] = ready_proc_list[k]
    BY <1>2
  <2> HIDE DEF ready, woke
  <2>3. CASE ready = <<>>
    BY <1>0, <2>1, <2>2, <2>3 DEF Yield, RoundRobinStep
  <2>4. CASE ready # <<>>
    <3> DEFINE rest == IF pid[current_proc] # IDLE_PROCESS_PID
                       THEN Append(ready, current_proc) ELSE ready
    <3>1. Schedule([woke EXCEPT ![current_proc] = "READY"], rest)
      BY <2>1, <2>4 DEF Yield
    <3>2. /\ rest \in Seq(Slots) /\ Len(ready_proc_list) <= Len(rest)
          /\ \A k \in 1 .. Len(ready_proc_list) : rest[k] = ready_proc_list[k]
      BY <1>0, <2>2
    <3> HIDE DEF rest
    <3> QED
      BY <3>1, <3>2, ScheduleIsRoundRobin
  <2> QED
    BY <2>3, <2>4
<1>5. CASE Exit
  BY <1>2, <1>5, ScheduleIsRoundRobin DEF Exit
<1>6. CASE SleepLoopBlocks \/ ReadKeyBlocks \/ WaitSleeps
  <2>1. PICK w : Sleep(w)
    BY <1>6 DEF SleepLoopBlocks, ReadKeyBlocks, WaitSleeps
  <2>2. Schedule([state EXCEPT ![current_proc] = "SLEEPING"], ready_proc_list)
    BY <2>1 DEF Sleep
  <2> QED
    BY <1>0, <2>2, ScheduleIsRoundRobin
<1>7. CASE ForkSucceeds
  <2>1. PICK child \in Slots : child = FindFreeProcessSlot
    BY <1>7, FreeSlotFound DEF ForkSucceeds, FreeSlots
  <2>2. /\ ready_proc_list' = Append(ready_proc_list, child)
        /\ current_proc' = current_proc
    BY <1>7, <2>1 DEF ForkSucceeds
  <2> QED
    BY <1>0, <2>2 DEF RoundRobinStep
<1>8. CASE SleepLoopReturns \/ ReadKeyReturns \/ WaitReaps \/ WaitSpins
  BY <1>1, <1>8 DEF SleepLoopReturns, ReadKeyReturns, WaitReaps, WaitSpins,
                    vars, listVars
<1>9. CASE \/ ForkFailsEarly \/ ForkFailsInSetupKVM \/ ForkFailsInCopyUVM
           \/ SysReadKey \/ UNCHANGED vars
           \/ \E n \in SleepTicks : SysSleep(n)
           \/ \E p \in WaitPids : SysWait(p)
  BY <1>1, <1>9 DEF ForkFailsEarly, ForkFailsInSetupKVM, ForkFailsInCopyUVM,
       SysReadKey, SysSleep, SysWait, Enter, vars, listVars
<1> QED
  BY <1>3, <1>4, <1>5, <1>6, <1>7, <1>8, <1>9
  DEF Next, Interrupt, UserStep, KernelLoop, UserException, SysExit, SysExec,
      SysFork

\* Scheduling is round robin: whatever happens, the processes in the ready list
\* get the CPU in the order in which they stand there.
THEOREM AlwaysRoundRobin == Spec => RoundRobin
<1>1. SchedulerInv /\ [Next]_vars => [RoundRobinStep]_vars
  BY RoundRobinNext
<1> QED
  BY <1>1, InvHolds, PTL DEF Spec, RoundRobin

\* Every step leaves killed processes killed or clears their slot.
LEMMA KilledNext ==
  ASSUME SchedulerInv, [Next]_vars
  PROVE  KilledIsFinalStep
<1> USE DEF SchedulerInv
<1>0. SchedulerInv'
  BY InvStep
<1>1. CASE Range(kill_proc_list) \subseteq Range(kill_proc_list')
  BY <1>0, <1>1 DEF ListsMatchStates, KilledIsFinalStep
<1>2. CASE UNCHANGED kill_proc_list
  BY <1>1, <1>2
<1>3. CASE Exit
  <2>1. Range(kill_proc_list') = Range(kill_proc_list) \cup {current_proc}
    BY <1>3, PushBack DEF Exit, TypeOK
  <2> QED
    BY <1>1, <2>1
<1>4. CASE WaitReaps
  <2>1. PICK d \in Slots : /\ state[d] = "KILLED" /\ d # current_proc
                           /\ pid[d] = arg[current_proc]
                           /\ state' = [state EXCEPT ![d] = "UNUSED"]
    BY <1>4, ReapedProcess
  <2>2. call[current_proc] = "Wait"
    BY <1>4 DEF WaitReaps
  <2> QED
    BY <2>1, <2>2 DEF KilledIsFinalStep, TypeOK
<1>5. \/ UNCHANGED kill_proc_list \/ Exit \/ WaitReaps
  BY DEF Next, Interrupt, UserStep, KernelLoop, UserException, SysExit, SysExec,
         SysFork, TimerInterrupt, KeyboardInterrupt, ForkSucceeds,
         ForkFailsEarly, ForkFailsInSetupKVM, ForkFailsInCopyUVM, SysReadKey,
         SysSleep, SysWait, Enter, SleepLoopBlocks, SleepLoopReturns,
         ReadKeyBlocks, ReadKeyReturns, WaitSleeps, WaitSpins, vars, listVars
<1> QED
  BY <1>2, <1>3, <1>4, <1>5

\* A killed process never runs again, and only the process that waits for its
\* pid clears its slot.
THEOREM KilledAlwaysFinal == Spec => KilledIsFinal
<1>1. SchedulerInv /\ [Next]_vars => [KilledIsFinalStep]_vars
  BY KilledNext
<1> QED
  BY <1>1, InvHolds, PTL DEF Spec, KilledIsFinal

=============================================================================
