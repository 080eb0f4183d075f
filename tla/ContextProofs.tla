---------------------------- MODULE ContextProofs ---------------------------
(***************************************************************************)
(* Theorems about Context, for any number of processes and any calls.      *)
(***************************************************************************)
EXTENDS Context, SchedulerProofs, SequenceTheorems

-----------------------------------------------------------------------------
(* Orders of registers.                                                    *)

\* The names in q differ.
Distinct(q) == /\ Len(q) \in Nat
               /\ \A i, j \in 1 .. Len(q) : q[i] = q[j] => i = j

\* Index finds the only place of a name.
LEMMA IndexOf ==
  ASSUME NEW q, Distinct(q), NEW i \in 1 .. Len(q)
  PROVE  Index(q, q[i]) = i
BY DEF Index, Distinct

\* A name in q is at its index.
LEMMA AtIndex ==
  ASSUME NEW q, DOMAIN q = 1 .. Len(q), NEW r \in Range(q)
  PROVE  Index(q, r) \in 1 .. Len(q) /\ q[Index(q, r)] = r
<1>1. \E i \in 1 .. Len(q) : q[i] = r
  BY DEF Range
<1> QED
  BY <1>1 DEF Index

\* What is pushed in one order and popped in the other comes from the same place.
LEMMA IndexReversed ==
  ASSUME NEW q, NEW s, NEW n \in Nat, Len(q) = n, Len(s) = n,
         DOMAIN q = 1 .. n, DOMAIN s = 1 .. n, Distinct(s),
         \A i \in 1 .. n : s[n + 1 - i] = q[i]
  PROVE  /\ Range(s) = Range(q)
         /\ \A r \in Range(q) : Index(s, r) = n + 1 - Index(q, r)
<1>1. \A i \in 1 .. n : n + 1 - i \in 1 .. n /\ n + 1 - (n + 1 - i) = i
  OBVIOUS
<1>2. \A i \in 1 .. n : s[i] = q[n + 1 - i]
  BY <1>1
<1>3. Range(s) = Range(q)
  BY <1>1, <1>2 DEF Range
<1>4. ASSUME NEW r \in Range(q) PROVE Index(s, r) = n + 1 - Index(q, r)
  <2>1. PICK i \in 1 .. n : i = Index(q, r) /\ q[i] = r
    BY AtIndex
  <2>2. PICK j \in 1 .. n : j = n + 1 - i
    BY <1>1
  <2>3. s[j] = r
    BY <2>1, <2>2
  <2> QED
    BY <2>1, <2>2, <2>3, IndexOf
<1> QED
  BY <1>3, <1>4

\* The orders of trap.asm and of struct TrapFrame.
LEMMA Lengths ==
  /\ Len(PushedByCPU) = 5 /\ DOMAIN PushedByCPU = 1 .. 5
  /\ Len(PushedByTrap) = 15 /\ DOMAIN PushedByTrap = 1 .. 15
  /\ Len(PushedBySwitch) = 6 /\ DOMAIN PushedBySwitch = 1 .. 6
  /\ Len(PoppedByTrapReturn) = 15 /\ DOMAIN PoppedByTrapReturn = 1 .. 15
  /\ Len(PoppedByIret) = 5 /\ DOMAIN PoppedByIret = 1 .. 5
  /\ Len(PoppedBySwitch) = 6 /\ DOMAIN PoppedBySwitch = 1 .. 6
  /\ Len(TrapFrame) = 22 /\ DOMAIN TrapFrame = 1 .. 22
BY DEF PushedByCPU, PushedByTrap, PushedBySwitch, PoppedByTrapReturn, PoppedByIret,
       PoppedBySwitch, TrapFrame

\* No register is pushed twice by the same code, and no field of a frame has two
\* places.
LEMMA NamesDistinct ==
  /\ Distinct(PushedByCPU) /\ Distinct(PushedByTrap) /\ Distinct(PushedBySwitch)
  /\ Distinct(PoppedByTrapReturn) /\ Distinct(PoppedByIret) /\ Distinct(PoppedBySwitch)
  /\ Distinct(TrapFrame)
<1>1. Distinct(PushedByCPU) /\ Distinct(PoppedByIret)
  BY DEF PushedByCPU, PoppedByIret, Distinct
<1>2. Distinct(PushedBySwitch) /\ Distinct(PoppedBySwitch)
  BY DEF PushedBySwitch, PoppedBySwitch, Distinct
<1>3. Distinct(PushedByTrap)
  BY DEF PushedByTrap, Distinct
<1>4. Distinct(PoppedByTrapReturn)
  BY DEF PoppedByTrapReturn, Distinct
<1>5. Distinct(TrapFrame)
  BY DEF TrapFrame, Distinct
<1> QED
  BY <1>1, <1>2, <1>3, <1>4, <1>5

\* Everything is popped in the opposite order.
LEMMA OrdersMatch ==
  /\ \A i \in 1 .. 5 : PoppedByIret[5 + 1 - i] = PushedByCPU[i]
  /\ \A i \in 1 .. 15 : PoppedByTrapReturn[15 + 1 - i] = PushedByTrap[i]
  /\ \A i \in 1 .. 6 : PoppedBySwitch[6 + 1 - i] = PushedBySwitch[i]
<1>1. \A i \in 1 .. 5 : PoppedByIret[5 + 1 - i] = PushedByCPU[i]
  BY DEF PoppedByIret, PushedByCPU
<1>2. \A i \in 1 .. 15 : PoppedByTrapReturn[15 + 1 - i] = PushedByTrap[i]
  BY DEF PoppedByTrapReturn, PushedByTrap
<1>3. \A i \in 1 .. 6 : PoppedBySwitch[6 + 1 - i] = PushedBySwitch[i]
  BY DEF PoppedBySwitch, PushedBySwitch
<1> QED
  BY <1>1, <1>2, <1>3

\* The fields of a frame are where the CPU and Trap push them.
LEMMA FieldsMatch ==
  /\ \A i \in 1 .. 5 : TrapFrame[23 - i] = PushedByCPU[i]
  /\ \A i \in 1 .. 15 : TrapFrame[16 - i] = PushedByTrap[i]
  /\ TrapFrame[16] = "trapno" /\ TrapFrame[17] = "error_code"
<1>1. \A i \in 1 .. 5 : TrapFrame[23 - i] = PushedByCPU[i]
  BY DEF TrapFrame, PushedByCPU
<1>2. \A i \in 1 .. 15 : TrapFrame[16 - i] = PushedByTrap[i]
  BY DEF TrapFrame, PushedByTrap
<1> QED
  BY <1>1, <1>2 DEF TrapFrame

-----------------------------------------------------------------------------
(* Frames.                                                                 *)

\* What a word may be.
Value == Int \cup Results

\* Where a frame on a kernel stack has register r.
Place(r) == IF r \in Range(PushedByCPU) THEN Index(PushedByCPU, r)
            ELSE 7 + Index(PushedByTrap, r)

\* A stack that begins with a frame holding the registers regs.
FrameOf(s, regs) == /\ s \in Seq(Value) /\ Len(s) >= 22
                    /\ \A r \in Registers : s[Place(r)] = regs[r]

\* Registers are pushed by the CPU or by Trap, not by both; what ContextSwitch
\* pushes is some of the latter.
LEMMA RegisterSets ==
  /\ Range(PushedByCPU) = {"ss", "rsp", "rflags", "cs", "rip"}
  /\ Range(PushedByTrap) = {"rax", "rbx", "rcx", "rdx", "rsi", "rdi", "rbp", "r8", "r9",
                            "r10", "r11", "r12", "r13", "r14", "r15"}
  /\ Range(PushedBySwitch) = {"rbx", "rbp", "r12", "r13", "r14", "r15"}
<1>1. Range(PushedByCPU) = {"ss", "rsp", "rflags", "cs", "rip"}
  BY Lengths DEF Range, PushedByCPU
<1>2. Range(PushedByTrap) = {"rax", "rbx", "rcx", "rdx", "rsi", "rdi", "rbp", "r8", "r9",
                            "r10", "r11", "r12", "r13", "r14", "r15"}
  BY Lengths DEF Range, PushedByTrap
<1>3. Range(PushedBySwitch) = {"rbx", "rbp", "r12", "r13", "r14", "r15"}
  BY Lengths DEF Range, PushedBySwitch
<1> QED
  BY <1>1, <1>2, <1>3

\* The two parts of the registers.
LEMMA RegisterParts ==
  /\ Registers = Range(PushedByCPU) \cup Range(PushedByTrap)
  /\ Range(PushedByCPU) \cap Range(PushedByTrap) = {}
  /\ Range(PushedBySwitch) \subseteq Range(PushedByTrap)
  /\ {"rax", "rdi", "rsi"} \subseteq Range(PushedByTrap)
  /\ {"cs", "rip"} \subseteq Range(PushedByCPU)
  /\ "trapno" \notin Registers /\ "error_code" \notin Registers
BY RegisterSets DEF Registers

\* Places are within the frame, and those of different registers differ.
LEMMA Places ==
  /\ \A r \in Range(PushedByCPU) : /\ Place(r) = Index(PushedByCPU, r)
                                   /\ Place(r) \in 1 .. 5
                                   /\ PushedByCPU[Place(r)] = r
  /\ \A r \in Range(PushedByTrap) : /\ Place(r) = 7 + Index(PushedByTrap, r)
                                    /\ Place(r) \in 8 .. 22
                                    /\ PushedByTrap[Place(r) - 7] = r
  /\ \A r \in Registers : Place(r) \in 1 .. 22 /\ 23 - Index(TrapFrame, r) = Place(r)
  /\ \A r \in Registers : Place(r) = Place("rax") => r = "rax"
<1>1. ASSUME NEW r \in Range(PushedByCPU)
      PROVE  /\ Place(r) = Index(PushedByCPU, r) /\ Place(r) \in 1 .. 5
             /\ PushedByCPU[Place(r)] = r
  BY Lengths, AtIndex DEF Place
<1>2. ASSUME NEW r \in Range(PushedByTrap)
      PROVE  /\ Place(r) = 7 + Index(PushedByTrap, r) /\ Place(r) \in 8 .. 22
             /\ PushedByTrap[Place(r) - 7] = r
  <2>0. Len(PushedByTrap) = 15 /\ DOMAIN PushedByTrap = 1 .. 15
    BY Lengths
  <2>1. PICK i \in 1 .. 15 : i = Index(PushedByTrap, r) /\ PushedByTrap[i] = r
    BY <2>0, AtIndex, ZenonT(60)
  <2>2. Place(r) = 7 + i
    BY <2>1, RegisterParts DEF Place
  <2> QED
    BY <2>1, <2>2
<1>3. ASSUME NEW r \in Range(PushedByCPU) PROVE 23 - Index(TrapFrame, r) = Place(r)
  <2>1. PICK i \in 1 .. 5 : i = Place(r) /\ PushedByCPU[i] = r
    BY <1>1
  <2>2. PICK j \in 1 .. 22 : j = 23 - i
    OBVIOUS
  <2>3. TrapFrame[j] = r
    BY <2>1, <2>2, FieldsMatch
  <2>4. Index(TrapFrame, r) = j
    BY <2>3, Lengths, NamesDistinct, IndexOf
  <2> QED
    BY <2>1, <2>2, <2>4
<1>4. ASSUME NEW r \in Range(PushedByTrap) PROVE 23 - Index(TrapFrame, r) = Place(r)
  <2>1. PICK i \in 1 .. 15 : i = Place(r) - 7 /\ PushedByTrap[i] = r
    BY <1>2
  <2>2. PICK j \in 1 .. 22 : j = 16 - i
    OBVIOUS
  <2>3. TrapFrame[j] = r
    BY <2>1, <2>2, FieldsMatch
  <2>4. Index(TrapFrame, r) = j
    BY <2>3, Lengths, NamesDistinct, IndexOf
  <2> QED
    BY <1>2, <2>1, <2>2, <2>4
<1>5. ASSUME NEW r \in Registers, Place(r) = Place("rax") PROVE r = "rax"
  <2>1. "rax" \in Range(PushedByTrap)
    BY RegisterParts
  <2>2. r \in Range(PushedByTrap)
    BY <1>1, <1>2, <1>5, <2>1, RegisterParts
  <2> QED
    BY <1>2, <1>5, <2>1, <2>2
<1> QED
  BY <1>1, <1>2, <1>3, <1>4, <1>5, RegisterParts

\* Numbers are values, and so are results.
LEMMA Values == Int \subseteq Value /\ Results \subseteq Value
BY DEF Value

\* A list of registers, and what Words makes of it.
Names(q)               == /\ Len(q) \in Nat /\ DOMAIN q = 1 .. Len(q)
                          /\ \A i \in 1 .. Len(q) : q[i] \in Registers
Spelled(w, regs, q) == /\ w \in Seq(Value) /\ Len(w) = Len(q)
                       /\ \A i \in 1 .. Len(q) : w[i] = regs[q[i]]

\* The lists of registers that are pushed and popped.
LEMMA AllNames ==
  /\ Names(PushedByCPU) /\ Names(PushedByTrap) /\ Names(PushedBySwitch)
  /\ Names(PoppedByIret) /\ Names(PoppedByTrapReturn) /\ Names(PoppedBySwitch)
<1>1. ASSUME NEW q, Len(q) \in Nat, DOMAIN q = 1 .. Len(q), Range(q) \subseteq Registers
      PROVE  Names(q)
  BY <1>1 DEF Names, Range
<1>2. /\ Range(PushedByCPU) \subseteq Registers /\ Range(PushedByTrap) \subseteq Registers
      /\ Range(PushedBySwitch) \subseteq Registers
  BY RegisterParts
<1>3. Range(PoppedByIret) \subseteq Registers
  BY RegisterSets, Lengths DEF Range, PoppedByIret, Registers
<1>4. Range(PoppedByTrapReturn) \subseteq Registers
  BY RegisterSets, Lengths DEF Range, PoppedByTrapReturn, Registers
<1>5. Range(PoppedBySwitch) \subseteq Registers
  BY RegisterSets, Lengths DEF Range, PoppedBySwitch, Registers
<1>6. Names(PushedByCPU) /\ Names(PushedByTrap) /\ Names(PushedBySwitch)
  BY <1>1, <1>2, Lengths
<1>7. Names(PoppedByIret) /\ Names(PoppedByTrapReturn) /\ Names(PoppedBySwitch)
  BY <1>1, <1>3, <1>4, <1>5, Lengths
<1> QED
  BY <1>6, <1>7

\* The registers of some list of names, as words.
LEMMA WordsOf ==
  ASSUME NEW regs \in [Registers -> Value], NEW q, Names(q)
  PROVE  Spelled(Words(regs, q), regs, q)
<1>1. Words(regs, q) = [i \in 1 .. Len(q) |-> regs[q[i]]]
  BY DEF Words
<1>2. \A i \in 1 .. Len(q) : regs[q[i]] \in Value
  BY DEF Names
<1> QED
  BY <1>1, <1>2 DEF Spelled, Names

\* Two sequences joined.
Joined(a, b, c) == /\ c \in Seq(Value) /\ Len(c) = Len(a) + Len(b)
                   /\ \A i \in 1 .. Len(a) : c[i] = a[i]
                   /\ \A i \in 1 .. Len(b) : c[Len(a) + i] = b[i]

\* Joining keeps the places in the first and moves those of the second.
LEMMA Joining ==
  ASSUME NEW a \in Seq(Value), NEW b \in Seq(Value)
  PROVE  Joined(a, b, a \o b)
<1>1. PICK c : c = a \o b
  OBVIOUS
<1>2. /\ c \in Seq(Value) /\ Len(c) = Len(a) + Len(b)
      /\ \A i \in 1 .. Len(a) + Len(b) : c[i] = IF i <= Len(a) THEN a[i] ELSE b[i - Len(a)]
  BY <1>1, ConcatProperties
<1>3. Len(a) \in Nat /\ Len(b) \in Nat
  BY LenProperties
<1>4. \A i \in 1 .. Len(a) : c[i] = a[i]
  BY <1>2, <1>3
<1>5. ASSUME NEW i \in 1 .. Len(b) PROVE c[Len(a) + i] = b[i]
  <2>1. PICK k \in 1 .. Len(a) + Len(b) : k = Len(a) + i /\ ~ k <= Len(a) /\ k - Len(a) = i
    BY <1>3
  <2> QED
    BY <1>2, <2>1
<1> QED
  BY <1>1, <1>2, <1>4, <1>5 DEF Joined

\* The first words of a stack.
Cut(s, n, c) == /\ c \in Seq(Value) /\ Len(c) = n
                /\ \A i \in 1 .. n : c[i] = s[i]

\* SubSeq from 1 cuts.
LEMMA Cutting ==
  ASSUME NEW s \in Seq(Value), NEW n \in Nat, n <= Len(s)
  PROVE  Cut(s, n, SubSeq(s, 1, n))
<1>1. \A i \in 1 .. n : s[i] \in Value
  BY LenProperties
<1>2. PICK c : c = SubSeq(s, 1, n)
  OBVIOUS
<1>3. /\ c \in Seq(Value) /\ Len(c) = IF 1 <= n THEN n - 1 + 1 ELSE 0
      /\ \A i \in 1 .. n - 1 + 1 : c[i] = s[1 + i - 1]
  BY <1>1, <1>2, SubSeqProperties
<1>4. \A i \in 1 .. n : c[i] = s[i]
  <2>1. ASSUME NEW i \in 1 .. n PROVE c[i] = s[i]
    <3>1. i \in 1 .. n - 1 + 1 /\ 1 + i - 1 = i
      OBVIOUS
    <3> QED
      BY <1>3, <3>1
  <2> QED
    BY <2>1
<1> QED
  BY <1>2, <1>3, <1>4 DEF Cut

\* The stack is empty.
LEMMA CutAll ==
  ASSUME NEW s, NEW c, Cut(s, 0, c)
  PROVE  c = <<>>
BY EmptySeq DEF Cut

\* Sequences that hold the frame for regs in two parts.
Parted(a, c, f, regs) ==
  /\ f \in Seq(Value) /\ Len(f) = 22
  /\ Spelled(a, regs, PushedByCPU) /\ \A i \in 1 .. 5 : f[i] = a[i]
  /\ Spelled(c, regs, PushedByTrap) /\ \A i \in 1 .. 15 : f[7 + i] = c[i]

\* Such a sequence is a frame.
LEMMA FrameOfParts ==
  ASSUME NEW a, NEW c, NEW f, NEW regs, Parted(a, c, f, regs)
  PROVE  FrameOf(f, regs)
<1>1. ASSUME NEW r \in Range(PushedByCPU) PROVE f[Place(r)] = regs[r]
  <2>1. PICK i \in 1 .. 5 : i = Place(r) /\ PushedByCPU[i] = r
    BY Places
  <2>2. a[i] = regs[PushedByCPU[i]]
    BY Lengths DEF Parted, Spelled
  <2>3. f[i] = a[i]
    BY DEF Parted
  <2> QED
    BY <2>1, <2>2, <2>3
<1>2. ASSUME NEW r \in Range(PushedByTrap) PROVE f[Place(r)] = regs[r]
  <2>1. PICK i \in 1 .. 15 : i = Place(r) - 7 /\ PushedByTrap[i] = r
    BY Places
  <2>2. c[i] = regs[PushedByTrap[i]]
    BY Lengths DEF Parted, Spelled
  <2>3. f[7 + i] = c[i]
    BY DEF Parted
  <2>4. 7 + i = Place(r)
    BY <2>1, Places
  <2> QED
    BY <2>1, <2>2, <2>3, <2>4
<1>3. \A r \in Registers : f[Place(r)] = regs[r]
  BY <1>1, <1>2, RegisterParts
<1> QED
  BY <1>3 DEF FrameOf, Parted

\* Frame builds a frame.
LEMMA FrameBuilt ==
  ASSUME NEW regs \in [Registers -> Value], NEW e \in Int, NEW t \in Int
  PROVE  FrameOf(Frame(regs, e, t), regs) /\ Len(Frame(regs, e, t)) = 22
<1>1. PICK a : a = Words(regs, PushedByCPU)
  OBVIOUS
<1>2. PICK c : c = Words(regs, PushedByTrap)
  OBVIOUS
<1>3. PICK b : b = <<e, t>>
  OBVIOUS
<1>4. Spelled(a, regs, PushedByCPU) /\ Spelled(c, regs, PushedByTrap)
  BY <1>1, <1>2, WordsOf, AllNames
<1>5. a \in Seq(Value) /\ Len(a) = 5 /\ c \in Seq(Value) /\ Len(c) = 15
  BY <1>4, Lengths DEF Spelled
<1>6. b \in Seq(Value) /\ Len(b) = 2
  BY <1>3, Values
<1>7. PICK g : g = a \o b
  OBVIOUS
<1>8. Joined(a, b, g)
  BY <1>5, <1>6, <1>7, Joining
<1>9. g \in Seq(Value) /\ Len(g) = 7 /\ \A i \in 1 .. 5 : g[i] = a[i]
  BY <1>5, <1>6, <1>8 DEF Joined
<1>10. PICK f : f = g \o c
  OBVIOUS
<1>11. Joined(g, c, f)
  BY <1>5, <1>9, <1>10, Joining
<1>12. f \in Seq(Value) /\ Len(f) = 22 /\ \A i \in 1 .. 7 : f[i] = g[i]
  BY <1>5, <1>9, <1>11 DEF Joined
<1>13. \A i \in 1 .. 15 : f[7 + i] = c[i]
  BY <1>5, <1>9, <1>11 DEF Joined
<1>14. Parted(a, c, f, regs)
  BY <1>4, <1>9, <1>12, <1>13 DEF Parted
<1>15. f = Frame(regs, e, t)
  BY <1>1, <1>2, <1>3, <1>7, <1>10 DEF Frame
<1> QED
  BY <1>12, <1>14, <1>15, FrameOfParts

\* What is popped above a frame, or pushed, does not change it.
LEMMA FrameCut ==
  ASSUME NEW s, NEW regs, FrameOf(s, regs), NEW n \in Nat, n >= 22, NEW c, Cut(s, n, c)
  PROVE  FrameOf(c, regs)
<1>1. \A r \in Registers : Place(r) \in 1 .. n
  BY Places
<1>2. \A r \in Registers : c[Place(r)] = s[Place(r)]
  BY <1>1 DEF Cut
<1>3. c \in Seq(Value) /\ Len(c) >= 22
  BY DEF Cut
<1> QED
  BY <1>2, <1>3 DEF FrameOf

\* What is pushed on a stack leaves the frame at its bottom alone.
LEMMA FrameJoined ==
  ASSUME NEW s, NEW regs, FrameOf(s, regs), NEW b \in Seq(Value), NEW c, Joined(s, b, c)
  PROVE  FrameOf(c, regs)
<1>1. Len(s) \in Nat /\ Len(b) \in Nat /\ Len(s) >= 22
  BY LenProperties DEF FrameOf
<1>2. c \in Seq(Value) /\ Len(c) >= 22
  BY <1>1 DEF Joined
<1>3. \A r \in Registers : c[Place(r)] = s[Place(r)]
  BY <1>1, Places, SMTT(40) DEF Joined
<1> QED
  BY <1>2, <1>3 DEF FrameOf

\* A frame whose rax is written.
WithRax(s, v) == [s EXCEPT ![Place("rax")] = v]
RaxSet(s, u, regs, v) == /\ FrameOf(u, Returned(regs, v)) /\ Len(u) = Len(s)
                         /\ Returned(regs, v) \in [Registers -> Value]
                         /\ \A i \in 1 .. Len(s) : i # Place("rax") => u[i] = s[i]

\* SetRax changes the rax of the frame and nothing else of it.
LEMMA FrameSetRax ==
  ASSUME NEW s, NEW regs \in [Registers -> Value], FrameOf(s, regs), NEW v \in Value,
         NEW u, u = WithRax(s, v)
  PROVE  RaxSet(s, u, regs, v)
<1>1. "rax" \in Registers /\ Place("rax") \in 1 .. 22
  BY Places, RegisterParts
<1>2. s \in Seq(Value) /\ Len(s) \in Nat /\ Len(s) >= 22
  BY LenProperties DEF FrameOf
<1>3. Place("rax") \in 1 .. Len(s)
  BY <1>1, <1>2
<1>4. u \in Seq(Value) /\ Len(u) = Len(s)
  BY <1>2, <1>3, ExceptSeq DEF WithRax
<1>5. \A i \in 1 .. Len(s) : u[i] = IF i = Place("rax") THEN v ELSE s[i]
  BY <1>2, <1>3, ExceptSeq DEF WithRax
<1>6. \A r \in Registers : Returned(regs, v)[r] = IF r = "rax" THEN v ELSE regs[r]
  BY <1>1 DEF Returned
<1>7. Returned(regs, v) \in [Registers -> Value]
  BY <1>1 DEF Returned
<1>8. ASSUME NEW r \in Registers PROVE u[Place(r)] = Returned(regs, v)[r]
  <2>1. Place(r) \in 1 .. Len(s) /\ (Place(r) = Place("rax") => r = "rax")
    BY <1>2, Places, SMTT(40)
  <2> QED
    BY <1>5, <1>6, <2>1 DEF FrameOf
<1> QED
  BY <1>2, <1>4, <1>5, <1>7, <1>8 DEF FrameOf, RaxSet

\* The registers of a new program and of the idle task.
LEMMA Registers0 ==
  /\ DefaultFrame \in [Registers -> Value] /\ IdleRegisters \in [Registers -> Value]
  /\ DefaultFrame.rax = 0 /\ DefaultFrame.rip = USER_VIRTUAL_ADDRESS_BASE
<1>1. \A r \in Registers : DefaultFrame[r] \in Int
  BY DEF DefaultFrame, USER_CS, USER_SS, USER_STACK_START, USER_VIRTUAL_ADDRESS_BASE
<1>2. ASSUME NEW r \in Range(PushedByTrap) PROVE UserValue(IDLE, r) \in Int
  <2>1. Index(PushedByTrap, r) \in 1 .. 15
    BY Lengths, AtIndex
  <2> QED
    BY <2>1 DEF UserValue, IDLE
<1>3. \A r \in Registers : IdleRegisters[r] \in Int
  BY <1>2 DEF IdleRegisters, KERNEL_CS
<1>4. "rax" \in Registers /\ "rip" \in Registers
  BY RegisterParts
<1>5. DefaultFrame.rax = 0 /\ DefaultFrame.rip = USER_VIRTUAL_ADDRESS_BASE
  BY <1>4 DEF DefaultFrame
<1>6. DefaultFrame \in [Registers -> Value]
  BY <1>1, Values DEF DefaultFrame
<1>7. IdleRegisters \in [Registers -> Value]
  BY <1>3, Values DEF IdleRegisters
<1> QED
  BY <1>5, <1>6, <1>7

\* The frame that CreateNewProcess and Exec write holds these registers.
LEMMA NewFrameBuilt == FrameOf(NewFrame, DefaultFrame) /\ Len(NewFrame) = 22
<1>1. ASSUME NEW r \in Range(PushedByCPU) PROVE TrapFrame[23 - Place(r)] = r
  <2>1. PICK i \in 1 .. 5 : i = Place(r) /\ PushedByCPU[i] = r
    BY Places
  <2> QED
    BY <2>1, FieldsMatch
<1>2. ASSUME NEW r \in Range(PushedByTrap) PROVE TrapFrame[23 - Place(r)] = r
  <2>1. PICK i \in 1 .. 15 : i = Place(r) - 7 /\ PushedByTrap[i] = r
    BY Places
  <2>2. 23 - Place(r) = 16 - i
    BY <2>1, Places
  <2> QED
    BY <2>1, <2>2, FieldsMatch
<1>3. \A r \in Registers : TrapFrame[23 - Place(r)] = r
  BY <1>1, <1>2, RegisterParts
<1>4. PICK g : g = [i \in 1 .. 22 |-> IF TrapFrame[23 - i] \in Registers
                                      THEN DefaultFrame[TrapFrame[23 - i]] ELSE 0]
  OBVIOUS
<1>5. NewFrame = g
  <2>1. Len(TrapFrame) + 1 = 23
    BY Lengths
  <2>2. NewFrame = [i \in 1 .. Len(TrapFrame) |->
                      IF TrapFrame[Len(TrapFrame) + 1 - i] \in Registers
                      THEN DefaultFrame[TrapFrame[Len(TrapFrame) + 1 - i]] ELSE 0]
    BY DEF NewFrame
  <2>3. Len(TrapFrame) = 22
    BY Lengths
  <2> QED
    BY <1>4, <2>1, <2>2, <2>3
<1>6. \A i \in 1 .. 22 : g[i] \in Value
  BY <1>4, Registers0, Values
<1>7. g \in Seq(Value) /\ Len(g) = 22
  BY <1>4, <1>6
<1>8. \A r \in Registers : g[Place(r)] = DefaultFrame[r]
  BY <1>3, <1>4, Places
<1> QED
  BY <1>5, <1>7, <1>8 DEF FrameOf

\* The empty context.
LEMMA EmptyContextBuilt ==
  EmptyContext \in Seq(Value) /\ Len(EmptyContext) = 7 /\ EmptyContext[1] = TRAP_RETURN
<1>1. TRAP_RETURN \in Value /\ 0 \in Value
  BY Values DEF TRAP_RETURN
<1> QED
  BY <1>1 DEF EmptyContext

-----------------------------------------------------------------------------
(* The inductive invariant.                                                *)

\* Whoever can still get the CPU.
Live == {"READY", "SLEEPING", "RUNNING"}
Kept == Range(PushedBySwitch)

\* The kernel stack of a process in the middle of a trap, with registers regs to
\* return to.
InTrap(s, regs) == FrameOf(s, regs) /\ Len(s) = 23 /\ s[23] = TRAP_RETURN

\* The kernel stack of a process that does not run: switched out in a trap, with
\* the registers of its C code, or just created.
SwitchedOut(s, p) == /\ Len(s) = 30 /\ s[24] = SCHEDULE
                     /\ \A r \in Kept : s[24 + Index(PushedBySwitch, r)] = KernelValue(p, r)
Suspended(s, regs, loop, p) ==
  /\ FrameOf(s, regs) /\ s[23] = TRAP_RETURN
  /\ SwitchedOut(s, p) \/ (Len(s) = 29 /\ loop = "none")

ContextTypeOK ==
  /\ cpu \in [Registers -> Value] /\ kstack \in [Slots -> Seq(Value)]
  /\ context = [p \in Slots |-> p] /\ on = current_proc /\ tss = current_proc
  /\ expect \in [Slots -> [Registers -> Value]]
  /\ ustack \in [Slots -> [DOMAIN NoArgs -> Int]]
  /\ asked \in [Slots -> Calls \cup {NotAsked}]

\* The CPU has the registers of the running process, or its call has saved them.
RunningInv ==
  /\ call[current_proc] = "none" =>
       cpu = expect[current_proc] /\ kstack[current_proc] = <<>>
  /\ call[current_proc] # "none" =>
       /\ InTrap(kstack[current_proc], expect[current_proc])
       /\ \A r \in Kept : cpu[r] = KernelValue(current_proc, r)

\* The stack of everybody else who may run has what the switch to it pops.
SuspendedInv ==
  \A p \in Slots : p # current_proc /\ state[p] \in Live =>
    Suspended(kstack[p], expect[p], call[p], p)

\* A process at the int instruction of a wrapper has loaded what it asked for.
Loaded(regs, words, c) ==
  /\ c \in Calls /\ regs.rax = Number[c.fn] /\ regs.rdi = Len(c.args)
  /\ Len(c.args) > 0 => regs.rsi = USER_STACK_START - Len(c.args)
  /\ \A i \in 1 .. Len(c.args) : words[USER_STACK_START - Len(c.args) + i - 1] = c.args[i]

AskedInv ==
  \A p \in Slots : p # IDLE /\ state[p] \in Live /\ expect[p].rip = INT_0x80 =>
    call[p] = "none" /\ Loaded(expect[p], ustack[p], asked[p])

ContextInv == SchedulerInv /\ ContextTypeOK /\ RunningInv /\ SuspendedInv /\ AskedInv

-----------------------------------------------------------------------------
(* Steps of the machine.                                                   *)

MachineType == [cpu : [Registers -> Value], stack : [Slots -> Seq(Value)],
                context : [Slots -> Slots], on : Slots, tss : Slots,
                at : {"C", "TrapReturn"}]

\* Machine k is m but for its registers and the stack of p, which is s.
Differs(m, k, p, s) ==
  /\ k \in MachineType /\ k.context = m.context /\ k.on = m.on /\ k.tss = m.tss
  /\ k.at = m.at
  /\ k.stack[p] = s /\ \A q \in Slots : q # p => k.stack[q] = m.stack[q]

\* Words are pushed.
LEMMA Pushing ==
  ASSUME NEW m \in MachineType, NEW w \in Seq(Value)
  PROVE  /\ Differs(m, Push(m, w), m.on, m.stack[m.on] \o w)
         /\ Push(m, w).cpu = m.cpu
<1>1. m.on \in Slots /\ m.stack \in [Slots -> Seq(Value)] /\ m.cpu \in [Registers -> Value]
  BY DEF MachineType
<1>2. PICK s : s = m.stack[m.on] \o w
  OBVIOUS
<1>3. s \in Seq(Value)
  BY <1>1, <1>2, Joining DEF Joined
<1>4. PICK k : k = Push(m, w)
  OBVIOUS
<1>5. k = [m EXCEPT !.stack = [m.stack EXCEPT ![m.on] = s]]
  BY <1>2, <1>4 DEF Push
<1>6. [m.stack EXCEPT ![m.on] = s] \in [Slots -> Seq(Value)]
  BY <1>1, <1>3
<1>7. k \in MachineType
  BY <1>5, <1>6 DEF MachineType
<1>8. /\ k.context = m.context /\ k.on = m.on /\ k.tss = m.tss /\ k.at = m.at
      /\ k.cpu = m.cpu /\ k.stack = [m.stack EXCEPT ![m.on] = s]
  BY <1>5 DEF MachineType
<1> QED
  BY <1>1, <1>2, <1>4, <1>7, <1>8 DEF Differs

\* Words are dropped.
LEMMA Dropping ==
  ASSUME NEW m \in MachineType, NEW n \in Nat, NEW left \in Nat,
         Len(m.stack[m.on]) = left + n
  PROVE  \E s : /\ Cut(m.stack[m.on], left, s)
                /\ Differs(m, Drop(m, n), m.on, s) /\ Drop(m, n).cpu = m.cpu
<1>1. m.on \in Slots /\ m.stack \in [Slots -> Seq(Value)] /\ m.cpu \in [Registers -> Value]
  BY DEF MachineType
<1>2. PICK t : t = m.stack[m.on]
  OBVIOUS
<1>3. t \in Seq(Value) /\ Len(t) \in Nat /\ Len(t) - n = left /\ left <= Len(t)
  BY <1>1, <1>2, LenProperties
<1>4. PICK s : s = SubSeq(t, 1, left)
  OBVIOUS
<1>5. Cut(t, left, s)
  BY <1>3, <1>4, Cutting
<1>6. s \in Seq(Value)
  BY <1>5 DEF Cut
<1>7. PICK k : k = Drop(m, n)
  OBVIOUS
<1>8. k = [m EXCEPT !.stack = [m.stack EXCEPT ![m.on] = s]]
  BY <1>2, <1>3, <1>4, <1>7 DEF Drop
<1>9. [m.stack EXCEPT ![m.on] = s] \in [Slots -> Seq(Value)]
  BY <1>1, <1>6
<1>10. k \in MachineType
  BY <1>8, <1>9 DEF MachineType
<1>11. /\ k.context = m.context /\ k.on = m.on /\ k.tss = m.tss /\ k.at = m.at
       /\ k.cpu = m.cpu /\ k.stack = [m.stack EXCEPT ![m.on] = s]
  BY <1>8 DEF MachineType
<1>12. Differs(m, k, m.on, s)
  BY <1>1, <1>10, <1>11 DEF Differs
<1> QED
  BY <1>2, <1>5, <1>7, <1>11, <1>12

\* The registers of q come from stack t, the others from old.
Loads(new, old, t, q) ==
  \A r \in Registers : new[r] = IF r \in Range(q) THEN t[Len(t) + 1 - Index(q, r)] ELSE old[r]

\* Registers are popped.
LEMMA Popping ==
  ASSUME NEW m \in MachineType, NEW q, Names(q), NEW left \in Nat,
         Len(m.stack[m.on]) = left + Len(q)
  PROVE  \E s : /\ Cut(m.stack[m.on], left, s) /\ Differs(m, Pop(m, q), m.on, s)
                /\ Loads(Pop(m, q).cpu, m.cpu, m.stack[m.on], q)
<1>1. m.on \in Slots /\ m.stack \in [Slots -> Seq(Value)] /\ m.cpu \in [Registers -> Value]
  BY DEF MachineType
<1>2. PICK t : t = m.stack[m.on]
  OBVIOUS
<1>3. t \in Seq(Value) /\ Len(t) \in Nat /\ Len(q) \in Nat
  BY <1>1, <1>2, LenProperties DEF Names
<1>4. PICK d : d = Drop(m, Len(q))
  OBVIOUS
<1>5. PICK s : Cut(t, left, s) /\ Differs(m, d, m.on, s) /\ d.cpu = m.cpu
  BY <1>2, <1>3, <1>4, Dropping
<1>6. ASSUME NEW r \in Range(q)
      PROVE  /\ Word(m, Index(q, r)) = t[Len(t) + 1 - Index(q, r)]
             /\ Word(m, Index(q, r)) \in Value
  <2>1. PICK i \in 1 .. Len(q) : i = Index(q, r)
    BY AtIndex DEF Names
  <2>2. i <= Len(t) /\ Len(t) + 1 - i \in 1 .. Len(t)
    BY <1>2, <1>3
  <2>3. t[Len(t) + 1 - i] \in Value
    BY <1>3, <2>2, ElementOfSeq
  <2> QED
    BY <1>2, <2>1, <2>2, <2>3 DEF Word
<1>7. PICK c : c = [r \in Registers |-> IF r \in Range(q) THEN Word(m, Index(q, r))
                                        ELSE m.cpu[r]]
  OBVIOUS
<1>8. c \in [Registers -> Value]
  BY <1>1, <1>6, <1>7
<1>9. PICK k : k = Pop(m, q)
  OBVIOUS
<1>10. k = [d EXCEPT !.cpu = c]
  BY <1>4, <1>7, <1>9 DEF Pop
<1>11. d \in MachineType
  BY <1>5 DEF Differs
<1>12. k \in MachineType
  BY <1>8, <1>10, <1>11 DEF MachineType
<1>13. /\ k.context = d.context /\ k.on = d.on /\ k.tss = d.tss /\ k.at = d.at
       /\ k.cpu = c /\ k.stack = d.stack
  BY <1>10, <1>11 DEF MachineType
<1>14. Differs(m, k, m.on, s)
  BY <1>5, <1>12, <1>13 DEF Differs
<1>15. Loads(k.cpu, m.cpu, t, q)
  BY <1>6, <1>7, <1>13 DEF Loads
<1> QED
  BY <1>2, <1>5, <1>9, <1>14, <1>15

\* Where a pop finds a register: 22, 5 and 30 words are on the stack then.
LEMMA PopPlaces ==
  /\ Range(PoppedByTrapReturn) = Range(PushedByTrap)
  /\ \A r \in Range(PushedByTrap) : /\ Index(PoppedByTrapReturn, r) \in 1 .. 15
                                    /\ 23 - Index(PoppedByTrapReturn, r) = Place(r)
  /\ Range(PoppedByIret) = Range(PushedByCPU)
  /\ \A r \in Range(PushedByCPU) : /\ Index(PoppedByIret, r) \in 1 .. 5
                                   /\ 6 - Index(PoppedByIret, r) = Place(r)
  /\ Range(PoppedBySwitch) = Kept
  /\ \A r \in Kept : /\ Index(PushedBySwitch, r) \in 1 .. 6
                     /\ Index(PoppedBySwitch, r) \in 1 .. 6
                     /\ 31 - Index(PoppedBySwitch, r) = 24 + Index(PushedBySwitch, r)
<1>1. /\ Range(PoppedByTrapReturn) = Range(PushedByTrap)
      /\ \A r \in Range(PushedByTrap) :
           Index(PoppedByTrapReturn, r) = 15 + 1 - Index(PushedByTrap, r)
  BY IndexReversed, Lengths, NamesDistinct, OrdersMatch, ZenonT(60)
<1>2. ASSUME NEW r \in Range(PushedByTrap)
      PROVE  /\ Index(PoppedByTrapReturn, r) \in 1 .. 15
             /\ 23 - Index(PoppedByTrapReturn, r) = Place(r)
  <2>1. PICK i \in 1 .. 15 : i = Index(PushedByTrap, r)
    BY Lengths, AtIndex
  <2>2. Place(r) = 7 + i
    BY <2>1, Places
  <2> QED
    BY <1>1, <2>1, <2>2
<1>3. /\ Range(PoppedByIret) = Range(PushedByCPU)
      /\ \A r \in Range(PushedByCPU) :
           Index(PoppedByIret, r) = 5 + 1 - Index(PushedByCPU, r)
  BY IndexReversed, Lengths, NamesDistinct, OrdersMatch, ZenonT(60)
<1>4. ASSUME NEW r \in Range(PushedByCPU)
      PROVE  Index(PoppedByIret, r) \in 1 .. 5 /\ 6 - Index(PoppedByIret, r) = Place(r)
  <2>1. PICK i \in 1 .. 5 : i = Index(PushedByCPU, r)
    BY Lengths, AtIndex
  <2>2. Place(r) = i
    BY <2>1, Places
  <2> QED
    BY <1>3, <2>1, <2>2
<1>5. /\ Range(PoppedBySwitch) = Range(PushedBySwitch)
      /\ \A r \in Range(PushedBySwitch) :
           Index(PoppedBySwitch, r) = 6 + 1 - Index(PushedBySwitch, r)
  BY IndexReversed, Lengths, NamesDistinct, OrdersMatch, ZenonT(60)
<1>6. ASSUME NEW r \in Kept
      PROVE  /\ Index(PushedBySwitch, r) \in 1 .. 6
             /\ Index(PoppedBySwitch, r) \in 1 .. 6
             /\ 31 - Index(PoppedBySwitch, r) = 24 + Index(PushedBySwitch, r)
  <2>1. PICK i \in 1 .. 6 : i = Index(PushedBySwitch, r)
    BY Lengths, AtIndex DEF Kept
  <2> QED
    BY <1>5, <2>1 DEF Kept
<1> QED
  BY <1>1, <1>2, <1>3, <1>4, <1>5, <1>6 DEF Kept

\* The two ways to TrapReturn: from C code, and from a context made by hand.
Returns(m, regs) == /\ m \in MachineType /\ regs \in [Registers -> Value]
                    /\ FrameOf(m.stack[m.on], regs)
                    /\ \/ m.at = "TrapReturn" /\ Len(m.stack[m.on]) = 22
                       \/ m.at = "C" /\ Len(m.stack[m.on]) = 23

\* The frame alone is left when TrapReturn begins to pop.
LEMMA FrameAlone ==
  ASSUME NEW m, NEW regs, Returns(m, regs), NEW k,
         k = IF m.at = "TrapReturn" THEN m ELSE Drop(m, 1)
  PROVE  /\ Differs(m, k, m.on, k.stack[m.on]) /\ Len(k.stack[m.on]) = 22
         /\ FrameOf(k.stack[m.on], regs)
<1>1. m \in MachineType /\ FrameOf(m.stack[m.on], regs)
  BY DEF Returns
<1>2. CASE m.at = "TrapReturn"
  BY <1>1, <1>2 DEF Returns, Differs
<1>3. CASE m.at # "TrapReturn"
  <2>1. Len(m.stack[m.on]) = 22 + 1 /\ k = Drop(m, 1)
    BY <1>3 DEF Returns
  <2>2. PICK s : Cut(m.stack[m.on], 22, s) /\ Differs(m, k, m.on, s)
    BY <1>1, <2>1, Dropping
  <2>3. k.stack[m.on] = s /\ Len(s) = 22
    BY <2>2 DEF Cut, Differs
  <2>4. FrameOf(s, regs)
    BY <1>1, <2>2, FrameCut
  <2> QED
    BY <2>2, <2>3, <2>4
<1> QED
  BY <1>2, <1>3

\* TrapReturn: all registers are back, and the stack is empty.
LEMMA Returning ==
  ASSUME NEW m, NEW regs, Returns(m, regs)
  PROVE  Differs(m, TrapReturn(m), m.on, <<>>) /\ TrapReturn(m).cpu = regs
<1>1. m \in MachineType /\ regs \in [Registers -> Value]
  BY DEF Returns
<1>2. PICK a : a = IF m.at = "TrapReturn" THEN m ELSE Drop(m, 1)
  OBVIOUS
<1>3. PICK f : f = a.stack[m.on]
  OBVIOUS
<1>4. Differs(m, a, m.on, f) /\ Len(f) = 22 /\ FrameOf(f, regs)
  BY <1>2, <1>3, FrameAlone
<1>5. a \in MachineType /\ a.on = m.on
  BY <1>4 DEF Differs
<1>6. PICK b : b = Pop(a, PoppedByTrapReturn)
  OBVIOUS
<1>7. Names(PoppedByTrapReturn) /\ Len(PoppedByTrapReturn) = 15
  BY AllNames, Lengths
<1>8. PICK g : /\ Cut(f, 7, g) /\ Differs(a, b, m.on, g)
               /\ Loads(b.cpu, a.cpu, f, PoppedByTrapReturn)
  <2>1. Len(a.stack[a.on]) = 7 + Len(PoppedByTrapReturn)
    BY <1>3, <1>4, <1>5, <1>7
  <2> QED
    BY <1>3, <1>5, <1>6, <1>7, <2>1, Popping
<1>9. ASSUME NEW r \in Range(PushedByTrap) PROVE b.cpu[r] = regs[r]
  <2>1. r \in Registers /\ r \in Range(PoppedByTrapReturn)
    BY PopPlaces, RegisterParts
  <2>2. Len(f) + 1 - Index(PoppedByTrapReturn, r) = Place(r)
    BY <1>4, PopPlaces
  <2>3. b.cpu[r] = f[Place(r)]
    BY <1>8, <2>1, <2>2 DEF Loads
  <2> QED
    BY <1>4, <2>1, <2>3 DEF FrameOf
<1>10. b \in MachineType /\ b.on = m.on /\ b.stack[m.on] = g /\ Len(g) = 7
  BY <1>5, <1>8 DEF Differs, Cut
<1>11. PICK c : c = Drop(b, 2)
  OBVIOUS
<1>12. PICK h : Cut(g, 5, h) /\ Differs(b, c, m.on, h) /\ c.cpu = b.cpu
  <2>1. Len(b.stack[b.on]) = 5 + 2
    BY <1>10
  <2> QED
    BY <1>10, <1>11, <2>1, Dropping
<1>13. c \in MachineType /\ c.on = m.on /\ c.stack[m.on] = h /\ Len(h) = 5
  BY <1>10, <1>12 DEF Differs, Cut
<1>14. PICK d : d = Pop(c, PoppedByIret)
  OBVIOUS
<1>15. Names(PoppedByIret) /\ Len(PoppedByIret) = 5
  BY AllNames, Lengths
<1>16. PICK j : /\ Cut(h, 0, j) /\ Differs(c, d, m.on, j)
                /\ Loads(d.cpu, c.cpu, h, PoppedByIret)
  <2>1. Len(c.stack[c.on]) = 0 + Len(PoppedByIret)
    BY <1>13, <1>15
  <2> QED
    BY <1>13, <1>14, <1>15, <2>1, Popping
<1>17. d = TrapReturn(m)
  BY <1>2, <1>6, <1>11, <1>14 DEF TrapReturn
<1>18. ASSUME NEW r \in Range(PushedByCPU) PROVE d.cpu[r] = regs[r]
  <2>1. r \in Registers /\ r \in Range(PoppedByIret)
    BY PopPlaces, RegisterParts
  <2>2. Len(h) + 1 - Index(PoppedByIret, r) = Place(r) /\ Place(r) \in 1 .. 5
    BY <1>13, PopPlaces, Places
  <2>3. d.cpu[r] = h[Place(r)]
    BY <1>16, <2>1, <2>2 DEF Loads
  <2>4. h[Place(r)] = g[Place(r)] /\ g[Place(r)] = f[Place(r)]
    BY <1>8, <1>12, <2>2 DEF Cut
  <2> QED
    BY <1>4, <2>1, <2>3, <2>4 DEF FrameOf
<1>19. ASSUME NEW r \in Range(PushedByTrap) PROVE d.cpu[r] = regs[r]
  <2>1. r \in Registers /\ r \notin Range(PoppedByIret)
    BY PopPlaces, RegisterParts
  <2> QED
    BY <1>9, <1>12, <1>16, <2>1 DEF Loads
<1>20. d.cpu \in [Registers -> Value]
  BY <1>16 DEF Differs, MachineType
<1>21. \A r \in Registers : d.cpu[r] = regs[r]
  BY <1>18, <1>19, RegisterParts
<1>22. d.cpu = regs
  BY <1>1, <1>20, <1>21
<1>23. j = <<>>
  BY <1>16, CutAll
<1>24. Differs(m, d, m.on, <<>>)
  BY <1>4, <1>8, <1>12, <1>16, <1>23 DEF Differs
<1> QED
  BY <1>17, <1>22, <1>24

\* A process in the kernel: its C code has its values in the registers.
InKernel(m, c, regs) ==
  /\ m \in MachineType /\ c \in Slots /\ regs \in [Registers -> Value]
  /\ m.context = [p \in Slots |-> p] /\ m.on = c /\ m.at = "C"
  /\ InTrap(m.stack[c], regs)
  /\ \A r \in Kept : m.cpu[r] = KernelValue(c, r)

\* ContextSwitch, first half: c is left as a process that was switched out.
LEMMA SwitchSaves ==
  ASSUME NEW m, NEW c, NEW regs, InKernel(m, c, regs), NEW k,
         k = Push(m, <<SCHEDULE>> \o Words(m.cpu, PushedBySwitch))
  PROVE  /\ Differs(m, k, c, k.stack[c]) /\ k.cpu = m.cpu
         /\ FrameOf(k.stack[c], regs) /\ k.stack[c][23] = TRAP_RETURN
         /\ SwitchedOut(k.stack[c], c)
<1>1. /\ m \in MachineType /\ m.on = c /\ m.cpu \in [Registers -> Value]
      /\ m.stack[c] \in Seq(Value)
  BY DEF InKernel, MachineType
<1>2. PICK w : w = Words(m.cpu, PushedBySwitch)
  OBVIOUS
<1>3. Spelled(w, m.cpu, PushedBySwitch)
  BY <1>1, <1>2, WordsOf, AllNames
<1>4. w \in Seq(Value) /\ Len(w) = 6 /\ \A i \in 1 .. 6 : w[i] = m.cpu[PushedBySwitch[i]]
  BY <1>3, Lengths DEF Spelled
<1>5. PICK a : a = <<SCHEDULE>>
  OBVIOUS
<1>6. a \in Seq(Value) /\ Len(a) = 1 /\ a[1] = SCHEDULE
  BY <1>5, Values DEF SCHEDULE
<1>7. PICK b : b = a \o w
  OBVIOUS
<1>8. Joined(a, w, b)
  BY <1>4, <1>6, <1>7, Joining
<1>9. /\ b \in Seq(Value) /\ Len(b) = 7 /\ b[1] = SCHEDULE
      /\ \A i \in 1 .. 6 : b[1 + i] = w[i]
  BY <1>4, <1>6, <1>8 DEF Joined
<1>10. PICK t : t = m.stack[c]
  OBVIOUS
<1>11. t \in Seq(Value) /\ Len(t) = 23 /\ FrameOf(t, regs) /\ t[23] = TRAP_RETURN
  BY <1>1, <1>10 DEF InKernel, InTrap
<1>12. PICK s : s = t \o b
  OBVIOUS
<1>13. Joined(t, b, s)
  BY <1>9, <1>11, <1>12, Joining
<1>14. Differs(m, k, c, s) /\ k.cpu = m.cpu
  BY <1>1, <1>2, <1>5, <1>7, <1>9, <1>10, <1>12, Pushing
<1>15. k.stack[c] = s
  BY <1>14 DEF Differs
<1>16. FrameOf(s, regs)
  BY <1>9, <1>11, <1>13, FrameJoined
<1>17. Len(s) = 30 /\ s[23] = TRAP_RETURN /\ \A i \in 1 .. 7 : s[23 + i] = b[i]
  BY <1>9, <1>11, <1>13 DEF Joined
<1>18. s[24] = SCHEDULE
  BY <1>9, <1>17
<1>19. ASSUME NEW r \in Kept PROVE s[24 + Index(PushedBySwitch, r)] = KernelValue(c, r)
  <2>0. /\ Len(PushedBySwitch) = 6 /\ DOMAIN PushedBySwitch = 1 .. 6
        /\ r \in Range(PushedBySwitch)
    BY Lengths DEF Kept
  <2>1. PICK i \in 1 .. 6 : i = Index(PushedBySwitch, r) /\ PushedBySwitch[i] = r
    BY <2>0, AtIndex
  <2>2. PICK j \in 1 .. 7 : j = 1 + i
    OBVIOUS
  <2>3. s[23 + j] = b[j] /\ b[j] = w[i] /\ w[i] = m.cpu[r]
    BY <1>4, <1>9, <1>17, <2>1, <2>2
  <2>4. 23 + j = 24 + i
    BY <2>2
  <2> QED
    BY <2>1, <2>3, <2>4 DEF InKernel
<1> QED
  BY <1>14, <1>15, <1>16, <1>17, <1>18, <1>19 DEF SwitchedOut

\* ContextSwitch, second half: n is where it was when it was switched out, or at
\* TrapReturn if it never ran.
Restored(m, n, new, loop) ==
  /\ m \in MachineType /\ n \in Slots /\ new \in [Registers -> Value] /\ m.on = n
  /\ m.context = [p \in Slots |-> p]
  /\ Suspended(m.stack[n], new, loop, n)
Resumed(k, n, new, loop) ==
  /\ Returns(k, new) /\ k.on = n
  /\ loop # "none" => InKernel(k, n, new)

\* The ret at the end of ContextSwitch.
SwitchReturns(a, k) ==
  k = [Drop(a, 1) EXCEPT !.at = IF Word(a, 1) = TRAP_RETURN THEN "TrapReturn" ELSE "C"]

\* ContextSwitch pops what it pushed when n was switched out.
LEMMA SwitchRestores ==
  ASSUME NEW m, NEW n, NEW new, NEW loop, Restored(m, n, new, loop),
         NEW a, a = Pop(m, PoppedBySwitch), NEW k, SwitchReturns(a, k)
  PROVE  /\ Resumed(k, n, new, loop)
         /\ k.context = m.context /\ k.tss = m.tss
         /\ \A q \in Slots : q # n => k.stack[q] = m.stack[q]
<1>1. m \in MachineType /\ m.on = n /\ n \in Slots /\ new \in [Registers -> Value]
  BY DEF Restored
<1>2. PICK t : t = m.stack[n]
  OBVIOUS
<1>3. /\ FrameOf(t, new) /\ t[23] = TRAP_RETURN
      /\ SwitchedOut(t, n) \/ (Len(t) = 29 /\ loop = "none")
  BY <1>2 DEF Restored, Suspended
<1>4. PICK left \in {23, 24} : Len(t) = left + 6
  BY <1>3 DEF SwitchedOut
<1>5. left = 24 <=> SwitchedOut(t, n)
  BY <1>3, <1>4 DEF SwitchedOut
<1>6. left = 23 => loop = "none"
  BY <1>3, <1>5
<1>7. PICK s : /\ Cut(t, left, s) /\ Differs(m, a, n, s)
               /\ Loads(a.cpu, m.cpu, t, PoppedBySwitch)
  <2>1. Len(m.stack[m.on]) = left + Len(PoppedBySwitch)
    BY <1>1, <1>2, <1>4, Lengths
  <2> QED
    BY <1>1, <1>2, <2>1, Popping, AllNames
<1>8. a \in MachineType /\ a.on = n /\ a.stack[n] = s /\ Len(s) = left
  BY <1>1, <1>7 DEF Differs, Cut
<1>9. PICK j \in {22, 23} : left = j + 1
  BY <1>4
<1>10. PICK d : d = Drop(a, 1)
  OBVIOUS
<1>11. PICK u : Cut(s, j, u) /\ Differs(a, d, n, u) /\ d.cpu = a.cpu
  <2>1. j \in Nat /\ Len(a.stack[a.on]) = j + 1
    BY <1>8, <1>9
  <2> QED
    BY <1>8, <1>10, <2>1, Dropping
<1>12. d \in MachineType /\ d.stack[n] = u /\ Len(u) = j
  BY <1>11 DEF Differs, Cut
<1>13. Word(a, 1) = s[left] /\ s[left] = t[left]
  <2>1. s[left] = t[left]
    BY <1>4, <1>7 DEF Cut
  <2>2. 1 <= Len(s) /\ Len(s) + 1 - 1 = left
    BY <1>8
  <2> QED
    BY <1>8, <2>1, <2>2 DEF Word
<1>14. k = [d EXCEPT !.at = IF t[left] = TRAP_RETURN THEN "TrapReturn" ELSE "C"]
  BY <1>10, <1>13 DEF SwitchReturns
<1>15. k \in MachineType
  BY <1>12, <1>14 DEF MachineType
<1>16. /\ k.cpu = d.cpu /\ k.stack = d.stack /\ k.context = d.context /\ k.on = d.on
       /\ k.tss = d.tss /\ k.at = IF t[left] = TRAP_RETURN THEN "TrapReturn" ELSE "C"
  BY <1>12, <1>14 DEF MachineType
<1>17. /\ k.on = n /\ k.context = m.context /\ k.tss = m.tss
       /\ \A q \in Slots : q # n => k.stack[q] = m.stack[q]
  BY <1>1, <1>7, <1>11, <1>16 DEF Differs
<1>18. FrameOf(s, new)
  <2>1. left \in Nat /\ left >= 22
    BY <1>4
  <2> QED
    BY <1>3, <1>7, <2>1, FrameCut
<1>19. FrameOf(u, new) /\ k.stack[n] = u
  BY <1>9, <1>11, <1>12, <1>16, <1>18, FrameCut
<1>20. CASE left = 23
  <2>1. k.at = "TrapReturn" /\ Len(u) = 22 /\ loop = "none"
    BY <1>3, <1>6, <1>9, <1>12, <1>16, <1>20
  <2>2. Returns(k, new)
    BY <1>1, <1>15, <1>17, <1>19, <2>1 DEF Returns
  <2> QED
    BY <1>17, <2>1, <2>2 DEF Resumed
<1>21. CASE left = 24
  <2>1. t[left] = SCHEDULE
    BY <1>5, <1>21 DEF SwitchedOut
  <2>2. k.at = "C" /\ Len(u) = 23
    BY <1>9, <1>12, <1>16, <1>21, <2>1 DEF SCHEDULE, TRAP_RETURN
  <2>3. u[23] = TRAP_RETURN
    <3>1. s[23] = t[23] /\ u[23] = s[23]
      BY <1>7, <1>9, <1>11, <1>21 DEF Cut
    <3> QED
      BY <1>3, <3>1
  <2>4. ASSUME NEW r \in Kept PROVE k.cpu[r] = KernelValue(n, r)
    <3>1. r \in Registers /\ r \in Range(PoppedBySwitch)
      BY PopPlaces, RegisterParts DEF Kept
    <3>2. Len(t) + 1 - Index(PoppedBySwitch, r) = 24 + Index(PushedBySwitch, r)
      BY <1>4, <1>21, PopPlaces
    <3>3. k.cpu[r] = t[24 + Index(PushedBySwitch, r)]
      BY <1>7, <1>11, <1>16, <3>1, <3>2 DEF Loads
    <3> QED
      BY <1>5, <1>21, <3>3 DEF SwitchedOut
  <2>5. InKernel(k, n, new)
    BY <1>1, <1>15, <1>17, <1>19, <2>2, <2>3, <2>4 DEF InKernel, InTrap, Restored
  <2>6. Returns(k, new)
    BY <1>1, <1>15, <1>17, <1>19, <2>2 DEF Returns
  <2> QED
    BY <1>17, <2>5, <2>6 DEF Resumed
<1> QED
  BY <1>4, <1>17, <1>20, <1>21

\* SwitchProcess: c is left where its stack says, n is resumed.
LEMMA Switching ==
  ASSUME NEW m, NEW c, NEW old, InKernel(m, c, old),
         NEW n \in Slots, n # c, NEW new \in [Registers -> Value], NEW loop,
         Suspended(m.stack[n], new, loop, n), NEW k, k = SwitchProcess(m, c, n)
  PROVE  /\ Resumed(k, n, new, loop) /\ k.tss = n /\ k.context = [p \in Slots |-> p]
         /\ FrameOf(k.stack[c], old) /\ k.stack[c][23] = TRAP_RETURN
         /\ SwitchedOut(k.stack[c], c)
         /\ \A q \in Slots : q \notin {c, n} => k.stack[q] = m.stack[q]
<1>1. m \in MachineType /\ c \in Slots /\ m.on = c /\ m.context = [p \in Slots |-> p]
  BY DEF InKernel
<1>2. PICK x : x = SetTSS(m, n)
  OBVIOUS
<1>3. /\ x \in MachineType /\ x.tss = n /\ x.cpu = m.cpu /\ x.stack = m.stack
      /\ x.context = m.context /\ x.on = m.on /\ x.at = m.at
  BY <1>1, <1>2 DEF SetTSS, MachineType
<1>4. InKernel(x, c, old)
  BY <1>3 DEF InKernel
<1>5. PICK y : y = Push(x, <<SCHEDULE>> \o Words(x.cpu, PushedBySwitch))
  OBVIOUS
<1>6. /\ Differs(x, y, c, y.stack[c]) /\ FrameOf(y.stack[c], old)
      /\ y.stack[c][23] = TRAP_RETURN /\ SwitchedOut(y.stack[c], c)
  BY <1>4, <1>5, SwitchSaves
<1>7. /\ y \in MachineType /\ y.on = c /\ y.tss = n /\ y.context = [p \in Slots |-> p]
      /\ \A q \in Slots : q # c => y.stack[q] = m.stack[q]
  BY <1>1, <1>3, <1>6 DEF Differs
<1>8. PICK z : z = [y EXCEPT !.context[c] = y.on, !.on = y.context[n]]
  OBVIOUS
<1>9. [y.context EXCEPT ![c] = y.on] = [p \in Slots |-> p] /\ y.context[n] = n
  BY <1>1, <1>7
<1>10. z = [y EXCEPT !.context = [p \in Slots |-> p], !.on = n]
  BY <1>7, <1>8, <1>9 DEF MachineType
<1>11. /\ z \in MachineType /\ z.on = n /\ z.tss = n /\ z.stack = y.stack
       /\ z.context = [p \in Slots |-> p]
  BY <1>7, <1>10 DEF MachineType
<1>12. z.stack[n] = m.stack[n]
  BY <1>7, <1>11
<1>13. Restored(z, n, new, loop)
  BY <1>11, <1>12 DEF Restored
<1>14. PICK a : a = Pop(z, PoppedBySwitch)
  OBVIOUS
<1>15. SwitchReturns(a, k)
  BY <1>2, <1>5, <1>8, <1>14 DEF SwitchProcess, ContextSwitch, SwitchReturns
<1>16. /\ Resumed(k, n, new, loop) /\ k.context = z.context /\ k.tss = z.tss
       /\ \A q \in Slots : q # n => k.stack[q] = z.stack[q]
  BY <1>13, <1>14, <1>15, SwitchRestores
<1>17. k.stack[c] = y.stack[c]
  BY <1>1, <1>11, <1>16
<1>18. \A q \in Slots : q \notin {c, n} => k.stack[q] = m.stack[q]
  BY <1>7, <1>11, <1>16
<1> QED
  BY <1>6, <1>11, <1>16, <1>17, <1>18

\* The rest of a step: from c in the kernel to n, in its call or in user mode.
Finished(m, k, c, n, old, new, loop) ==
  /\ k \in MachineType /\ k.context = [p \in Slots |-> p] /\ k.on = n /\ k.tss = n
  /\ loop = "none" => k.cpu = new /\ k.stack[n] = <<>>
  /\ loop # "none" => /\ InTrap(k.stack[n], new)
                      /\ \A r \in Kept : k.cpu[r] = KernelValue(n, r)
  /\ n # c => \A any : Suspended(k.stack[c], old, any, c)
  /\ \A q \in Slots : q \notin {c, n} => k.stack[q] = m.stack[q]

\* Every end of a step, with or without a switch, in a call or in user mode.
LEMMA Finishing ==
  ASSUME NEW m, NEW c, NEW old, InKernel(m, c, old), m.tss = c,
         NEW n \in Slots, NEW new \in [Registers -> Value], NEW loop,
         n = c => new = old, n # c => Suspended(m.stack[n], new, loop, n),
         NEW x, x = IF n = c THEN m ELSE SwitchProcess(m, c, n),
         NEW k, k = IF loop = "none" THEN TrapReturn(x) ELSE x
  PROVE  Finished(m, k, c, n, old, new, loop)
<1>1. /\ Resumed(x, n, new, loop) /\ x.tss = n /\ x.context = [p \in Slots |-> p]
      /\ n # c => /\ FrameOf(x.stack[c], old) /\ x.stack[c][23] = TRAP_RETURN
                  /\ SwitchedOut(x.stack[c], c)
      /\ \A q \in Slots : q \notin {c, n} => x.stack[q] = m.stack[q]
  <2>1. CASE n # c
    <3>1. x = SwitchProcess(m, c, n) /\ Suspended(m.stack[n], new, loop, n)
      BY <2>1
    <3> QED
      BY <2>1, <3>1, Switching
  <2>2. CASE n = c
    <3>1. x = m /\ new = old
      BY <2>2
    <3>2. Returns(x, new)
      BY <3>1 DEF InKernel, InTrap, Returns
    <3> QED
      BY <2>2, <3>1, <3>2 DEF InKernel, Resumed
  <2> QED
    BY <2>1, <2>2
<1>2. c \in Slots
  BY DEF InKernel
<1>3. n # c => \A any : Suspended(x.stack[c], old, any, c)
  BY <1>1 DEF Suspended
<1>4. CASE loop = "none"
  <2>1. k = TrapReturn(x)
    BY <1>4
  <2>2. Returns(x, new) /\ x.on = n
    BY <1>1 DEF Resumed
  <2>3. Differs(x, k, n, <<>>) /\ k.cpu = new
    BY <2>1, <2>2, Returning
  <2>4. /\ k \in MachineType /\ k.context = [p \in Slots |-> p] /\ k.on = n /\ k.tss = n
        /\ k.stack[n] = <<>> /\ \A q \in Slots : q # n => k.stack[q] = x.stack[q]
    BY <1>1, <2>2, <2>3 DEF Differs
  <2>5. n # c => k.stack[c] = x.stack[c]
    BY <1>2, <2>4
  <2>6. n # c => \A any : Suspended(k.stack[c], old, any, c)
    BY <1>3, <2>5
  <2>7. \A q \in Slots : q \notin {c, n} => k.stack[q] = m.stack[q]
    BY <1>1, <2>4
  <2> QED
    BY <1>4, <2>3, <2>4, <2>6, <2>7 DEF Finished
<1>5. CASE loop # "none"
  <2>1. k = x
    BY <1>5
  <2>2. InKernel(k, n, new)
    BY <1>1, <1>5, <2>1 DEF Resumed
  <2>3. /\ k \in MachineType /\ k.context = [p \in Slots |-> p] /\ k.on = n /\ k.tss = n
        /\ InTrap(k.stack[n], new) /\ \A r \in Kept : k.cpu[r] = KernelValue(n, r)
    BY <1>1, <2>1, <2>2 DEF InKernel
  <2> QED
    BY <1>1, <1>3, <1>5, <2>1, <2>3 DEF Finished
<1> QED
  BY <1>4, <1>5

-----------------------------------------------------------------------------
(* A step keeps the invariant if everyone else stays as it should be.      *)

\* Everyone else who is live after the step is suspended in m.
Parked(m) == \A p \in Slots : p # current_proc /\ state'[p] \in Live =>
               Suspended(m.stack[p], expect'[p], call'[p], p)

StackInv == /\ cpu \in [Registers -> Value] /\ kstack \in [Slots -> Seq(Value)]
            /\ context = [p \in Slots |-> p] /\ on = current_proc /\ tss = current_proc
            /\ RunningInv /\ SuspendedInv

\* The machine that a step ends with, and what the process had in its frame.
Ending(m, old) == /\ InKernel(m, current_proc, old) /\ m.tss = current_proc
                  /\ Parked(m) /\ Ends(m)
                  /\ state'[current_proc] \in Live => old = expect'[current_proc]

\* A step that ends this way keeps the part of ContextInv about the stacks.
LEMMA EndsInv ==
  ASSUME SchedulerInv', expect' \in [Slots -> [Registers -> Value]],
         NEW m, NEW old, Ending(m, old)
  PROVE  StackInv'
<1>1. PICK c : c = current_proc
  OBVIOUS
<1>2. PICK n : n = current_proc'
  OBVIOUS
<1>3. n \in Slots /\ state'[n] = "RUNNING"
  BY <1>2 DEF SchedulerInv, TypeOK, ListsMatchStates
<1>4. PICK new : new = expect'[n]
  OBVIOUS
<1>5. PICK loop : loop = call'[n]
  OBVIOUS
<1>6. PICK x : x = IF n = c THEN m ELSE SwitchProcess(m, c, n)
  OBVIOUS
<1>7. PICK k : k = IF loop = "none" THEN TrapReturn(x) ELSE x
  OBVIOUS
<1>8. Becomes(k)
  BY <1>1, <1>2, <1>5, <1>6, <1>7 DEF Ending, Ends
<1>9. new \in [Registers -> Value]
  BY <1>3, <1>4
<1>10. InKernel(m, c, old) /\ m.tss = c
  BY <1>1 DEF Ending
<1>11. n = c => new = old
  BY <1>1, <1>3, <1>4 DEF Ending, Live
<1>12. n # c => Suspended(m.stack[n], new, loop, n)
  BY <1>1, <1>3, <1>4, <1>5 DEF Ending, Parked, Live
<1>13. Finished(m, k, c, n, old, new, loop)
  BY <1>3, <1>6, <1>7, <1>9, <1>10, <1>11, <1>12, Finishing
<1>14. /\ cpu' = k.cpu /\ kstack' = k.stack /\ context' = k.context /\ on' = k.on
       /\ tss' = k.tss
  BY <1>8 DEF Becomes
<1>15. k \in MachineType /\ k.context = [p \in Slots |-> p] /\ k.on = n /\ k.tss = n
  BY <1>13 DEF Finished
<1>16. k.cpu \in [Registers -> Value] /\ k.stack \in [Slots -> Seq(Value)]
  BY <1>15 DEF MachineType
<1>17. RunningInv'
  BY <1>2, <1>4, <1>5, <1>13, <1>14 DEF Finished, RunningInv
<1>18. ASSUME NEW p \in Slots, p # n, state'[p] \in Live
       PROVE  Suspended(kstack'[p], expect'[p], call'[p], p)
  <2>1. CASE p = c
    <3>1. old = expect'[p]
      BY <1>1, <1>18, <2>1 DEF Ending
    <3>2. Suspended(k.stack[c], old, call'[p], c)
      BY <1>13, <1>18, <2>1 DEF Finished
    <3> QED
      BY <1>14, <2>1, <3>1, <3>2
  <2>2. CASE p # c
    <3>1. k.stack[p] = m.stack[p]
      BY <1>13, <1>18, <2>2 DEF Finished
    <3>2. Suspended(m.stack[p], expect'[p], call'[p], p)
      BY <1>1, <1>18, <2>2 DEF Ending, Parked
    <3> QED
      BY <1>14, <3>1, <3>2
  <2> QED
    BY <2>1, <2>2
<1>19. SuspendedInv'
  BY <1>2, <1>18 DEF SuspendedInv
<1> QED
  BY <1>2, <1>14, <1>15, <1>16, <1>17, <1>19 DEF StackInv

\* A machine in user mode, or in the idle loop: nothing on the kernel stack.
Outside(m) == /\ m \in MachineType /\ current_proc \in Slots
              /\ m.context = [p \in Slots |-> p] /\ m.on = current_proc
              /\ m.tss = current_proc /\ m.at = "C" /\ m.stack[current_proc] = <<>>

\* What the C code of the kernel has in the registers it preserves is a word.
LEMMA KernelValues ==
  ASSUME NEW p \in Slots, NEW r \in Kept
  PROVE  KernelValue(p, r) \in Value
<1>1. Index(PushedByTrap, r) \in 1 .. 15
  BY Lengths, AtIndex, RegisterParts DEF Kept
<1>2. p \in Int
  BY ProcessAssumption DEF Slots
<1> QED
  BY <1>1, <1>2, Values DEF KernelValue

\* A trap from user mode or the idle loop leaves a frame of the registers.
LEMMA Trapping ==
  ASSUME NEW m, Outside(m), NEW e \in Int, NEW t \in Int, NEW k, k = Trap(m, e, t)
  PROVE  /\ InKernel(k, current_proc, m.cpu) /\ k.tss = current_proc
         /\ \A q \in Slots : q # current_proc => k.stack[q] = m.stack[q]
<1> DEFINE c == current_proc
<1>1. /\ m \in MachineType /\ c \in Slots /\ m.context = [p \in Slots |-> p]
      /\ m.on = c /\ m.tss = c /\ m.at = "C" /\ m.stack[c] = <<>>
      /\ m.cpu \in [Registers -> Value] /\ m.stack \in [Slots -> Seq(Value)]
  BY DEF Outside, MachineType
<1>2. PICK a : a = IF m.cpu.cs = USER_CS
                   THEN [m EXCEPT !.on = m.tss, !.stack[m.tss] = <<>>] ELSE m
  OBVIOUS
<1>3. /\ a \in MachineType /\ a.on = c /\ a.tss = c /\ a.stack = m.stack
      /\ a.context = m.context /\ a.at = m.at
  <2>1. [m.stack EXCEPT ![m.tss] = <<>>] = m.stack
    BY <1>1
  <2>2. CASE m.cpu.cs = USER_CS
    <3>1. a = [m EXCEPT !.on = c, !.stack = m.stack]
      BY <1>1, <1>2, <2>1, <2>2
    <3> QED
      BY <1>1, <3>1 DEF MachineType
  <2>3. CASE m.cpu.cs # USER_CS
    BY <1>1, <1>2, <2>3
  <2> QED
    BY <2>2, <2>3
<1>4. PICK f : f = Frame(m.cpu, e, t)
  OBVIOUS
<1>5. FrameOf(f, m.cpu) /\ Len(f) = 22
  BY <1>1, <1>4, FrameBuilt
<1>6. PICK b : b = <<TRAP_RETURN>>
  OBVIOUS
<1>7. b \in Seq(Value) /\ Len(b) = 1 /\ b[1] = TRAP_RETURN
  BY <1>6, Values DEF TRAP_RETURN
<1>8. PICK w : w = f \o b
  OBVIOUS
<1>9. f \in Seq(Value)
  BY <1>5 DEF FrameOf
<1>10. Joined(f, b, w)
  BY <1>7, <1>8, <1>9, Joining
<1>11. InTrap(w, m.cpu)
  <2>1. FrameOf(w, m.cpu)
    BY <1>5, <1>7, <1>10, FrameJoined
  <2>2. Len(w) = 23 /\ w[22 + 1] = b[1]
    BY <1>5, <1>7, <1>10 DEF Joined
  <2> QED
    BY <1>7, <2>1, <2>2 DEF InTrap
<1>12. w \in Seq(Value)
  BY <1>10 DEF Joined
<1>13. PICK s : s = Push(a, w)
  OBVIOUS
<1>14. Differs(a, s, c, a.stack[c] \o w)
  BY <1>3, <1>12, <1>13, Pushing
<1>15. a.stack[c] \o w = w
  BY <1>1, <1>3, <1>12, ConcatEmptySeq
<1>16. /\ s \in MachineType /\ s.on = c /\ s.tss = c /\ s.at = "C"
       /\ s.context = [p \in Slots |-> p] /\ s.stack[c] = w
       /\ \A q \in Slots : q # c => s.stack[q] = m.stack[q]
  BY <1>1, <1>3, <1>14, <1>15 DEF Differs
<1>17. PICK g : g = [r \in Registers |->
                       IF r = "cs" THEN KERNEL_CS
                       ELSE IF r \in Kept THEN KernelValue(c, r) ELSE 0]
  OBVIOUS
<1>18. g \in [Registers -> Value]
  BY <1>1, <1>17, KernelValues, Values DEF KERNEL_CS
<1>19. \A r \in Kept : g[r] = KernelValue(c, r)
  <2>1. \A r \in Kept : r \in Registers /\ r # "cs"
    BY RegisterParts DEF Kept
  <2> QED
    BY <1>17, <2>1
<1>20. k = [s EXCEPT !.cpu = g]
  BY <1>2, <1>4, <1>6, <1>8, <1>13, <1>17 DEF Trap, Kept
<1>21. /\ k \in MachineType /\ k.cpu = g /\ k.stack = s.stack /\ k.on = s.on
       /\ k.tss = s.tss /\ k.at = s.at /\ k.context = s.context
  BY <1>16, <1>18, <1>20 DEF MachineType
<1> QED
  BY <1>1, <1>11, <1>16, <1>19, <1>21 DEF InKernel

\* Every register has a place in a frame.
LEMMA InFrame == Registers \subseteq Range(TrapFrame)
<1>1. ASSUME NEW r \in Range(PushedByCPU) PROVE r \in Range(TrapFrame)
  <2>1. PICK i \in 1 .. 5 : PushedByCPU[i] = r
    BY Places
  <2>2. 23 - i \in DOMAIN TrapFrame /\ TrapFrame[23 - i] = r
    BY <2>1, Lengths, FieldsMatch
  <2> QED
    BY <2>2 DEF Range
<1>2. ASSUME NEW r \in Range(PushedByTrap) PROVE r \in Range(TrapFrame)
  <2>1. PICK i \in 1 .. 15 : PushedByTrap[i] = r
    BY Places
  <2>2. 16 - i \in DOMAIN TrapFrame /\ TrapFrame[16 - i] = r
    BY <2>1, Lengths, FieldsMatch
  <2> QED
    BY <2>2 DEF Range
<1> QED
  BY <1>1, <1>2, RegisterParts

\* tf->field, in the kernel.
LEMMA TrapField ==
  ASSUME NEW m, NEW c, NEW regs, InKernel(m, c, regs), NEW r \in Registers
  PROVE  tf(m, r) = regs[r]
<1>1. PICK s : s = m.stack[m.on]
  OBVIOUS
<1>2. FrameOf(s, regs) /\ Len(s) = 23
  BY <1>1 DEF InKernel, InTrap
<1>3. PICK i \in 1 .. 22 : i = Place(r) /\ Index(TrapFrame, r) = 23 - i
  <2>1. r \in Range(TrapFrame)
    BY RegisterParts, InFrame
  <2>2. Index(TrapFrame, r) \in 1 .. 22
    BY <2>1, AtIndex, Lengths
  <2> QED
    BY <2>2, Places
<1>4. 1 + Index(TrapFrame, r) <= Len(s) /\ Len(s) + 1 - (1 + Index(TrapFrame, r)) = i
  BY <1>2, <1>3
<1>5. tf(m, r) = s[i]
  BY <1>1, <1>4 DEF tf, Word
<1> QED
  BY <1>2, <1>3, <1>5 DEF FrameOf

\* tf->rax = v.
LEMMA SettingRax ==
  ASSUME NEW m, NEW c, NEW regs, InKernel(m, c, regs), NEW v \in Value,
         NEW k, k = SetRax(m, v)
  PROVE  /\ InKernel(k, c, Returned(regs, v)) /\ k.tss = m.tss
         /\ \A q \in Slots : q # c => k.stack[q] = m.stack[q]
<1>1. /\ m \in MachineType /\ c \in Slots /\ m.on = c /\ m.stack \in [Slots -> Seq(Value)]
      /\ regs \in [Registers -> Value]
  BY DEF InKernel, MachineType
<1>2. PICK s : s = m.stack[c]
  OBVIOUS
<1>3. FrameOf(s, regs) /\ Len(s) = 23 /\ s[23] = TRAP_RETURN
  BY <1>2 DEF InKernel, InTrap
<1>4. "rax" \in Registers /\ Place("rax") \in 1 .. 22
  BY Places, RegisterParts
<1>5. Len(s) - Index(TrapFrame, "rax") = Place("rax")
  BY <1>3, <1>4, Places
<1>6. PICK u : u = WithRax(s, v)
  OBVIOUS
<1>7. RaxSet(s, u, regs, v)
  BY <1>1, <1>3, <1>6, FrameSetRax
<1>8. u[23] = TRAP_RETURN
  BY <1>3, <1>4, <1>7 DEF RaxSet
<1>9. InTrap(u, Returned(regs, v))
  BY <1>3, <1>7, <1>8 DEF InTrap, RaxSet
<1>10. k = [m EXCEPT !.stack = [m.stack EXCEPT ![c] = u]]
  BY <1>1, <1>2, <1>5, <1>6 DEF SetRax, WithRax
<1>11. [m.stack EXCEPT ![c] = u] \in [Slots -> Seq(Value)]
  BY <1>1, <1>7 DEF FrameOf, RaxSet
<1>12. /\ k \in MachineType /\ k.on = m.on /\ k.tss = m.tss /\ k.at = m.at /\ k.cpu = m.cpu
       /\ k.context = m.context /\ k.stack = [m.stack EXCEPT ![c] = u]
  BY <1>1, <1>10, <1>11 DEF MachineType
<1>13. k.stack[c] = u /\ \A q \in Slots : q # c => k.stack[q] = m.stack[q]
  BY <1>1, <1>12
<1> QED
  BY <1>1, <1>7, <1>9, <1>12, <1>13 DEF InKernel, RaxSet

\* The machine in user mode and in the kernel.
LEMMA MachineNow ==
  ASSUME ContextInv
  PROVE  /\ Machine \in MachineType /\ Machine.cpu = cpu /\ Machine.stack = kstack
         /\ Machine.tss = current_proc
         /\ call[current_proc] = "none" => Outside(Machine)
         /\ call[current_proc] # "none" =>
              InKernel(Machine, current_proc, expect[current_proc])
<1>1. current_proc \in Slots
  BY DEF ContextInv, SchedulerInv, TypeOK
<1>2. /\ cpu \in [Registers -> Value] /\ kstack \in [Slots -> Seq(Value)]
      /\ context = [p \in Slots |-> p] /\ on = current_proc /\ tss = current_proc
      /\ expect[current_proc] \in [Registers -> Value]
  BY <1>1 DEF ContextInv, ContextTypeOK
<1>3. /\ Machine.cpu = cpu /\ Machine.stack = kstack /\ Machine.context = context
      /\ Machine.on = on /\ Machine.tss = tss /\ Machine.at = "C"
  BY DEF Machine
<1>4. Machine \in MachineType
  BY <1>1, <1>2 DEF Machine, MachineType
<1>5. call[current_proc] = "none" => Outside(Machine)
  BY <1>1, <1>2, <1>3, <1>4 DEF ContextInv, RunningInv, Outside
<1>6. call[current_proc] # "none" => InKernel(Machine, current_proc, expect[current_proc])
  BY <1>1, <1>2, <1>3, <1>4 DEF ContextInv, RunningInv, InKernel
<1> QED
  BY <1>2, <1>3, <1>4, <1>5, <1>6

-----------------------------------------------------------------------------
(* The others in a step.                                                   *)

\* Nobody but the running process changes its call, and nobody comes to life.
Others == \A p \in Slots : p # current_proc /\ state'[p] \in Live =>
            state[p] \in Live /\ call'[p] = call[p]

\* Steps that hand the CPU on or wake somebody.
LEMMA OthersScheduled ==
  ASSUME SchedulerInv, Next, SameSlotsInUse, UNCHANGED call
  PROVE  Others
<1>1. KilledIsFinalStep
  BY KilledNext
<1>2. ASSUME NEW p \in Slots, state'[p] \in Live PROVE state[p] \in Live
  <2>1. state[p] \notin {"UNUSED", "INITIALIZED"}
    BY <1>2 DEF SameSlotsInUse, Live
  <2>2. state[p] # "KILLED"
    BY <1>1, <1>2 DEF KilledIsFinalStep, Live
  <2>3. state[p] \in ProcessState
    BY DEF SchedulerInv, TypeOK
  <2> QED
    BY <2>1, <2>2, <2>3 DEF ProcessState, Live
<1> QED
  BY <1>2 DEF Others

\* Exit(), the interrupts and Sleep().
LEMMA OthersLeft ==
  ASSUME SchedulerInv,
         \/ (UserMode /\ Exit) \/ TimerInterrupt \/ KeyboardInterrupt
         \/ SleepLoopBlocks \/ ReadKeyBlocks \/ WaitSleeps
  PROVE  Others /\ SchedulerInv' /\ UNCHANGED call
<1>1. Next
  BY DEF Next, Interrupt, UserStep, KernelLoop, SysExit
<1>2. SchedulerInv'
  BY <1>1, InvStep
<1>3. TypeOK /\ ListsMatchStates /\ PidsDistinct
  BY DEF SchedulerInv
<1>4. CASE UserMode /\ Exit
  <2>1. current_proc # IDLE /\ UNCHANGED call
    BY <1>4 DEF UserMode, Exit, callVars
  <2>2. SameSlotsInUse
    BY <1>3, <1>4, <2>1, ExitLists
  <2> QED
    BY <1>1, <1>2, <2>1, <2>2, OthersScheduled
<1>5. CASE TimerInterrupt
  <2>1. SameSlotsInUse
    BY <1>3, <1>5, TimerLists
  <2>2. UNCHANGED call
    BY <1>5 DEF TimerInterrupt, callVars
  <2> QED
    BY <1>1, <1>2, <2>1, <2>2, OthersScheduled
<1>6. CASE KeyboardInterrupt
  <2>1. SameSlotsInUse
    BY <1>3, <1>6, WakeupOnlyLists DEF KeyboardInterrupt
  <2>2. UNCHANGED call
    BY <1>6 DEF KeyboardInterrupt, callVars
  <2> QED
    BY <1>1, <1>2, <2>1, <2>2, OthersScheduled
<1>7. CASE SleepLoopBlocks \/ ReadKeyBlocks \/ WaitSleeps
  <2>1. PICK w : Sleep(w) /\ UNCHANGED <<kill_proc_list, call>>
    BY <1>7 DEF SleepLoopBlocks, ReadKeyBlocks, WaitSleeps, callVars
  <2>2. current_proc # IDLE
    BY <1>7, CallerIsUser DEF SleepLoopBlocks, ReadKeyBlocks, WaitSleeps
  <2>3. SameSlotsInUse
    BY <1>3, <2>1, <2>2, SleepLists
  <2> QED
    BY <1>1, <1>2, <2>1, <2>3, OthersScheduled
<1> QED
  BY <1>4, <1>5, <1>6, <1>7

\* Steps of the running process that keep the CPU and create no process.
LEMMA OthersAlone ==
  ASSUME SchedulerInv,
         \/ UNCHANGED vars \/ ForkFailsEarly \/ ForkFailsInSetupKVM \/ ForkFailsInCopyUVM
         \/ SleepLoopReturns \/ ReadKeyReturns \/ WaitReaps
         \/ \E loop \in {"SysSleep", "Wait", "ReadKeyBuffer"}, a \in Int : Enter(loop, a)
  PROVE  Others /\ SchedulerInv' /\ UNCHANGED current_proc
<1>1. TypeOK
  BY DEF SchedulerInv
<1>2. CASE UNCHANGED vars
  BY <1>2, StutterInv DEF vars, procVars, callVars, Others
<1>3. CASE ForkFailsEarly \/ ForkFailsInSetupKVM \/ ForkFailsInCopyUVM
  <2>1. SchedulerInv'
    BY <1>3, InvStep DEF Next, UserStep, SysFork
  <2>2. UNCHANGED <<call, current_proc>>
    BY <1>3 DEF ForkFailsEarly, ForkFailsInSetupKVM, ForkFailsInCopyUVM, vars, callVars
  <2>3. CASE UNCHANGED state
    BY <2>1, <2>2, <2>3 DEF Others
  <2>4. CASE ForkFailsInCopyUVM
    <3>1. state' = [state EXCEPT ![FindFreeProcessSlot] = "INITIALIZED"]
      BY <2>4 DEF ForkFailsInCopyUVM
    <3>2. \A p \in Slots : state'[p] \in Live => state'[p] = state[p]
      BY <1>1, <3>1 DEF TypeOK, Live
    <3> QED
      BY <2>1, <2>2, <3>2 DEF Others
  <2> QED
    BY <1>3, <2>3, <2>4 DEF ForkFailsEarly, ForkFailsInSetupKVM, vars, procVars
<1>4. CASE SleepLoopReturns \/ ReadKeyReturns
  <2>1. SchedulerInv'
    BY <1>4, InvStep DEF Next, KernelLoop
  <2>2. Return /\ UNCHANGED <<state, current_proc>>
    BY <1>4 DEF SleepLoopReturns, ReadKeyReturns, procVars
  <2> QED
    BY <1>1, <2>1, <2>2 DEF Return, Others, TypeOK
<1>5. CASE WaitReaps
  <2>1. SchedulerInv'
    BY <1>5, InvStep DEF Next, KernelLoop
  <2>2. Return /\ UNCHANGED current_proc
    BY <1>5 DEF WaitReaps
  <2>3. PICK d \in Slots : state' = [state EXCEPT ![d] = "UNUSED"]
    BY <1>1, <1>5, ReapedProcess DEF SchedulerInv
  <2>4. \A p \in Slots : state'[p] \in Live => state'[p] = state[p]
    BY <1>1, <2>3 DEF TypeOK, Live
  <2> QED
    BY <1>1, <2>1, <2>2, <2>4 DEF Return, Others, TypeOK
<1>6. CASE \E loop \in {"SysSleep", "Wait", "ReadKeyBuffer"}, a \in Int : Enter(loop, a)
  <2>1. PICK loop \in {"SysSleep", "Wait", "ReadKeyBuffer"}, a \in Int : Enter(loop, a)
    BY <1>6
  <2>2. TypeOK'
    <3>1. UNCHANGED <<procVars, current_proc, listVars, s_pid_num, s_system_ticks>>
      BY <2>1 DEF Enter
    <3>2. 0 \in 0 .. TickModulus - 1
      BY TickAssumption
    <3>3. /\ call' \in [Slots -> {"none", "SysSleep", "Wait", "ReadKeyBuffer"}]
          /\ arg' \in [Slots -> Int] /\ old_ticks' \in [Slots -> 0 .. TickModulus - 1]
      BY <1>1, <2>1, <3>2 DEF TypeOK, Enter
    <3> QED
      BY <1>1, <3>1, <3>3 DEF TypeOK, procVars, listVars
  <2>3. SchedulerInv'
    BY <2>1, <2>2, EnterInv
  <2>4. \A p \in Slots : p # current_proc => call'[p] = call[p]
    BY <1>1, <2>1 DEF TypeOK, Enter
  <2> QED
    BY <2>1, <2>3, <2>4 DEF Enter, procVars, Others
<1> QED
  BY <1>2, <1>3, <1>4, <1>5, <1>6

\* Nothing that is kept about the others changes.
Calm(m) == \A p \in Slots : p # current_proc /\ state'[p] \in Live =>
             /\ m.stack[p] = kstack[p] /\ expect'[p] = expect[p]
             /\ ustack'[p] = ustack[p] /\ asked'[p] = asked[p]

HistoryOK == /\ expect \in [Slots -> [Registers -> Value]]
             /\ ustack \in [Slots -> [DOMAIN NoArgs -> Int]]
             /\ asked \in [Slots -> Calls \cup {NotAsked}]

\* The running process has left the int instruction, or is still there.
LeavesInt == state'[current_proc] \in Live =>
               \/ expect'[current_proc].rip # INT_0x80
               \/ /\ expect'[current_proc] = expect[current_proc]
                  /\ ustack'[current_proc] = ustack[current_proc]
                  /\ asked'[current_proc] = asked[current_proc]
                  /\ call'[current_proc] = call[current_proc]

\* A process that runs or is ready has been live before.
LEMMA RunningIsLive ==
  ASSUME SchedulerInv
  PROVE  current_proc \in Slots /\ state[current_proc] = "RUNNING"
         /\ state[current_proc] \in Live
BY CurrentRuns DEF SchedulerInv, Live

\* The step of one process keeps the invariant.
LEMMA StepInv ==
  ASSUME ContextInv, SchedulerInv', HistoryOK', NEW m, NEW old,
         InKernel(m, current_proc, old), m.tss = current_proc, Ends(m),
         state'[current_proc] \in Live => old = expect'[current_proc],
         Others, Calm(m), LeavesInt
  PROVE  ContextInv'
<1>1. Parked(m)
  <2>1. ASSUME NEW p \in Slots, p # current_proc, state'[p] \in Live
        PROVE  Suspended(m.stack[p], expect'[p], call'[p], p)
    <3>1. state[p] \in Live /\ call'[p] = call[p]
      BY <2>1 DEF Others
    <3>2. m.stack[p] = kstack[p] /\ expect'[p] = expect[p]
      BY <2>1 DEF Calm
    <3>3. Suspended(kstack[p], expect[p], call[p], p)
      BY <2>1, <3>1 DEF ContextInv, SuspendedInv
    <3> QED
      BY <3>1, <3>2, <3>3
  <2> QED
    BY <2>1 DEF Parked
<1>2. Ending(m, old)
  BY <1>1 DEF Ending
<1>3. StackInv'
  BY <1>2, EndsInv DEF HistoryOK
<1>4. AskedInv'
  <2>1. ASSUME NEW p \in Slots, p # IDLE, state'[p] \in Live, expect'[p].rip = INT_0x80
        PROVE  call'[p] = "none" /\ Loaded(expect'[p], ustack'[p], asked'[p])
    <3>1. state[p] \in Live
      BY <2>1, RunningIsLive DEF Others, ContextInv
    <3>2. /\ expect'[p] = expect[p] /\ ustack'[p] = ustack[p] /\ asked'[p] = asked[p]
          /\ call'[p] = call[p]
      BY <2>1 DEF Others, Calm, LeavesInt
    <3>3. call[p] = "none" /\ Loaded(expect[p], ustack[p], asked[p])
      BY <2>1, <3>1, <3>2 DEF ContextInv, AskedInv
    <3> QED
      BY <3>2, <3>3
  <2> QED
    BY <2>1 DEF AskedInv
<1> QED
  BY <1>3, <1>4 DEF ContextInv, ContextTypeOK, StackInv, HistoryOK

-----------------------------------------------------------------------------
(* The actions.                                                            *)

\* An interrupt.
LEMMA InterruptedInv ==
  ASSUME ContextInv, SchedulerInv', Others, UNCHANGED call, InterruptsEnabled,
         NEW v \in Int, Interrupted(v)
  PROVE  ContextInv'
<1>1. call[current_proc] = "none"
  BY DEF InterruptsEnabled
<1>2. Outside(Machine) /\ Machine.cpu = cpu /\ Machine.stack = kstack
  BY <1>1, MachineNow
<1>3. PICK m : m = Trap(Machine, 0, v)
  OBVIOUS
<1>4. /\ InKernel(m, current_proc, cpu) /\ m.tss = current_proc
      /\ \A q \in Slots : q # current_proc => m.stack[q] = kstack[q]
  BY <1>2, <1>3, Trapping
<1>5. Ends(m) /\ UNCHANGED <<ustack, expect, asked>>
  BY <1>3 DEF Interrupted
<1>6. HistoryOK'
  BY <1>5 DEF ContextInv, ContextTypeOK, HistoryOK
<1>7. cpu = expect'[current_proc]
  BY <1>1, <1>5 DEF ContextInv, RunningInv
<1>8. Calm(m) /\ LeavesInt
  BY <1>4, <1>5 DEF Calm, LeavesInt
<1> QED
  BY <1>4, <1>5, <1>6, <1>7, <1>8, StepInv

\* The timer, the keyboard and a spurious interrupt.
LEMMA InterruptStepInv ==
  ASSUME ContextInv, Timer \/ Key \/ Spurious
  PROVE  ContextInv'
<1>1. SchedulerInv
  BY DEF ContextInv
<1>2. CASE Timer
  <2>1. TimerInterrupt /\ InterruptsEnabled /\ Interrupted(32)
    BY <1>2 DEF Timer, TimerInterrupt
  <2> QED
    BY <1>1, <2>1, OthersLeft, InterruptedInv
<1>3. CASE Key
  <2>1. KeyboardInterrupt /\ InterruptsEnabled /\ Interrupted(33)
    BY <1>3 DEF Key, KeyboardInterrupt
  <2> QED
    BY <1>1, <2>1, OthersLeft, InterruptedInv
<1>4. CASE Spurious
  <2>1. UNCHANGED vars /\ InterruptsEnabled /\ Interrupted(39)
    BY <1>4 DEF Spurious
  <2>2. UNCHANGED call
    BY <2>1 DEF vars, callVars
  <2> QED
    BY <1>1, <2>1, <2>2, OthersAlone, InterruptedInv
<1> QED
  BY <1>2, <1>3, <1>4

\* Exit() leaves a killed process.
LEMMA ExitKills ==
  ASSUME SchedulerInv, UserMode, Exit
  PROVE  state'[current_proc] = "KILLED"
<1>1. SchedulerInv'
  BY OthersLeft
<1>2. Range(kill_proc_list') = Range(kill_proc_list) \cup {current_proc}
  BY PushBack DEF Exit, SchedulerInv, TypeOK
<1> QED
  BY <1>1, <1>2 DEF SchedulerInv, ListsMatchStates

\* The end of a process.
LEMMA ExitedInv ==
  ASSUME ContextInv, UserMode, Exit, NEW m, NEW old, InKernel(m, current_proc, old),
         m.tss = current_proc, \A q \in Slots : q # current_proc => m.stack[q] = kstack[q],
         Ends(m), Forgotten, UNCHANGED ustack
  PROVE  ContextInv'
<1>1. SchedulerInv
  BY DEF ContextInv
<1>2. Others /\ SchedulerInv'
  BY <1>1, OthersLeft
<1>3. state'[current_proc] \notin Live
  BY <1>1, ExitKills DEF Live
<1>4. current_proc \in Slots
  BY <1>1, RunningIsLive
<1>5. HistoryOK'
  BY <1>4, Registers0 DEF ContextInv, ContextTypeOK, HistoryOK, Forgotten
<1>6. \A p \in Slots : p # current_proc => expect'[p] = expect[p] /\ asked'[p] = asked[p]
  BY DEF ContextInv, ContextTypeOK, Forgotten
<1>7. Calm(m) /\ LeavesInt
  BY <1>3, <1>6 DEF Calm, LeavesInt
<1> QED
  BY <1>2, <1>3, <1>5, <1>7, StepInv

\* An exception of user code.
LEMMA ExceptionInv ==
  ASSUME ContextInv, Exception
  PROVE  ContextInv'
<1>1. UserMode /\ Exit /\ Ends(Trap(Machine, 7, 14)) /\ Forgotten /\ UNCHANGED ustack
  BY DEF Exception, UserException
<1>2. Outside(Machine) /\ Machine.cpu = cpu /\ Machine.stack = kstack
  BY <1>1, MachineNow DEF UserMode
<1>3. PICK m : m = Trap(Machine, 7, 14)
  OBVIOUS
<1>4. /\ InKernel(m, current_proc, cpu) /\ m.tss = current_proc
      /\ \A q \in Slots : q # current_proc => m.stack[q] = kstack[q]
  BY <1>2, <1>3, Trapping
<1> QED
  BY <1>1, <1>3, <1>4, ExitedInv

\* The trap of an int instruction.
LEMMA TrappedCall ==
  ASSUME ContextInv, AtInt
  PROVE  /\ InKernel(Trapped, current_proc, Passed) /\ Trapped.tss = current_proc
         /\ \A q \in Slots : q # current_proc => Trapped.stack[q] = kstack[q]
         /\ Passed \in [Registers -> Value]
         /\ Passed.rip # INT_0x80
         /\ \A r \in Registers : r # "rip" => Passed[r] = expect[current_proc][r]
         /\ expect[current_proc].rip = INT_0x80
<1>1. UserMode /\ call[current_proc] = "none" /\ cpu.rip = INT_0x80
  BY DEF AtInt, UserMode
<1>2. Outside(Machine) /\ Machine.cpu = cpu /\ Machine.stack = kstack
  BY <1>1, MachineNow
<1>3. cpu = expect[current_proc] /\ cpu \in [Registers -> Value]
  BY <1>1 DEF ContextInv, RunningInv, ContextTypeOK
<1>4. "rip" \in Registers
  BY RegisterParts
<1>5. Passed = [cpu EXCEPT !.rip = INT_0x80 + 1]
  BY <1>1, <1>3, <1>4 DEF Passed
<1>6. Passed \in [Registers -> Value] /\ Passed.rip = INT_0x80 + 1
  BY <1>3, <1>4, <1>5, Values DEF INT_0x80
<1>7. PICK m : m = [Machine EXCEPT !.cpu.rip = @ + 1]
  OBVIOUS
<1>8. m = [Machine EXCEPT !.cpu = Passed]
  BY <1>1, <1>2, <1>5, <1>7
<1>9. /\ m \in MachineType /\ m.cpu = Passed /\ m.stack = Machine.stack
      /\ m.context = Machine.context /\ m.on = Machine.on /\ m.tss = Machine.tss
      /\ m.at = Machine.at
  BY <1>2, <1>6, <1>8 DEF Outside, MachineType
<1>10. Outside(m)
  BY <1>2, <1>9 DEF Outside
<1>11. Trapped = Trap(m, 0, 128)
  BY <1>7 DEF Trapped
<1>12. /\ InKernel(Trapped, current_proc, Passed) /\ Trapped.tss = current_proc
       /\ \A q \in Slots : q # current_proc => Trapped.stack[q] = kstack[q]
  BY <1>2, <1>9, <1>10, <1>11, Trapping
<1>13. \A r \in Registers : r # "rip" => Passed[r] = expect[current_proc][r]
  BY <1>3, <1>5
<1> QED
  BY <1>1, <1>3, <1>6, <1>12, <1>13 DEF INT_0x80

\* rip is not rax.
LEMMA RipKept ==
  ASSUME NEW regs \in [Registers -> Value], NEW v \in Value
  PROVE  /\ Returned(regs, v).rip = regs.rip
         /\ Returned(regs, v) \in [Registers -> Value]
BY RegisterParts DEF Returned

\* The arguments of a call are numbers.
LEMMA Arguments ==
  ASSUME ContextInv, NEW m, NEW i
  PROVE  Arg(m, i) \in Int
<1>1. current_proc \in Slots
  BY RunningIsLive DEF ContextInv
<1>2. ustack[current_proc] \in [DOMAIN NoArgs -> Int]
  BY <1>1 DEF ContextInv, ContextTypeOK
<1> QED
  BY <1>2 DEF Arg

\* One process gets new registers to return to; it asked nothing new.
LEMMA HistoryChanged ==
  ASSUME ContextInv, NEW regs \in [Registers -> Value],
         expect' = [expect EXCEPT ![current_proc] = regs]
  PROVE  /\ expect' \in [Slots -> [Registers -> Value]] /\ expect'[current_proc] = regs
         /\ \A p \in Slots : p # current_proc => expect'[p] = expect[p]
<1>1. current_proc \in Slots
  BY RunningIsLive DEF ContextInv
<1> QED
  BY <1>1 DEF ContextInv, ContextTypeOK

\* A call that returns at once.
LEMMA ReturnsAtOnceInv ==
  ASSUME ContextInv, SchedulerInv', Others, AtInt, NEW v \in Value, ReturnsAtOnce(v)
  PROVE  ContextInv'
<1>1. PICK old : old = Returned(Passed, v)
  OBVIOUS
<1>2. PICK m : m = SetRax(Trapped, v)
  OBVIOUS
<1>3. /\ InKernel(m, current_proc, old) /\ m.tss = current_proc
      /\ \A q \in Slots : q # current_proc => m.stack[q] = kstack[q]
  BY <1>1, <1>2, TrappedCall, SettingRax
<1>4. old \in [Registers -> Value] /\ old.rip # INT_0x80
  BY <1>1, TrappedCall, RipKept
<1>5. Ends(m) /\ expect' = [expect EXCEPT ![current_proc] = old]
  BY <1>1, <1>2 DEF ReturnsAtOnce
<1>6. UNCHANGED <<ustack, asked>>
  BY DEF ReturnsAtOnce
<1>7. /\ expect' \in [Slots -> [Registers -> Value]] /\ expect'[current_proc] = old
      /\ \A p \in Slots : p # current_proc => expect'[p] = expect[p]
  BY <1>4, <1>5, HistoryChanged
<1>8. HistoryOK'
  BY <1>6, <1>7 DEF ContextInv, ContextTypeOK, HistoryOK
<1>9. Calm(m) /\ LeavesInt
  BY <1>3, <1>4, <1>6, <1>7 DEF Calm, LeavesInt
<1> QED
  BY <1>3, <1>5, <1>7, <1>8, <1>9, StepInv

\* Calls that compute something, are rejected, or fail to fork.
LEMMA CallReturnsInv ==
  ASSUME ContextInv, AtInt, CallComputes \/ CallRejected \/ ForkFailed
  PROVE  ContextInv'
<1>1. SchedulerInv
  BY DEF ContextInv
<1>2. CASE CallComputes
  <2>1. PICK v \in Results : ReturnsAtOnce(v)
    BY <1>2 DEF CallComputes
  <2>2. UNCHANGED vars
    BY <1>2 DEF CallComputes
  <2> QED
    BY <1>1, <2>1, <2>2, OthersAlone, ReturnsAtOnceInv, Values
<1>3. CASE CallRejected
  <2>1. UNCHANGED vars /\ ReturnsAtOnce(-EINVAL) /\ -EINVAL \in Value
    BY <1>3, Values DEF CallRejected, EINVAL
  <2> QED
    BY <1>1, <2>1, OthersAlone, ReturnsAtOnceInv
<1>4. CASE ForkFailed
  <2>1. /\ ForkFailsEarly \/ ForkFailsInSetupKVM \/ ForkFailsInCopyUVM
        /\ ReturnsAtOnce(-12) /\ -12 \in Value
    BY <1>4, Values DEF ForkFailed
  <2> QED
    BY <1>1, <2>1, OthersAlone, ReturnsAtOnceInv
<1> QED
  BY <1>2, <1>3, <1>4

\* Calls that end the process.
LEMMA CallExitsInv ==
  ASSUME ContextInv, AtInt, CallExits \/ ExecFails
  PROVE  ContextInv'
<1>1. UserMode /\ Exit /\ Ends(Trapped) /\ Forgotten /\ UNCHANGED ustack
  BY DEF CallExits, ExecFails, SysExit, AtInt
<1>2. PICK m : m = Trapped
  OBVIOUS
<1>3. /\ InKernel(m, current_proc, Passed) /\ m.tss = current_proc
      /\ \A q \in Slots : q # current_proc => m.stack[q] = kstack[q]
  BY <1>2, TrappedCall
<1> QED
  BY <1>1, <1>2, <1>3, ExitedInv

\* Calls that enter a loop.
LEMMA CallBlocksInv ==
  ASSUME ContextInv, AtInt, CallBlocks
  PROVE  ContextInv'
<1>1. SchedulerInv
  BY DEF ContextInv
<1>2. \E loop \in {"SysSleep", "Wait", "ReadKeyBuffer"}, a \in Int : Enter(loop, a)
  <2>1. Arg(Trapped, 1) \in Int /\ 0 \in Int
    BY Arguments
  <2> QED
    BY <2>1 DEF CallBlocks, SysSleep, SysWait, SysReadKey
<1>3. Others /\ SchedulerInv'
  BY <1>1, <1>2, OthersAlone
<1>4. PICK m : m = Trapped
  OBVIOUS
<1>5. /\ InKernel(m, current_proc, Passed) /\ m.tss = current_proc
      /\ \A q \in Slots : q # current_proc => m.stack[q] = kstack[q]
      /\ Passed \in [Registers -> Value] /\ Passed.rip # INT_0x80
  BY <1>4, TrappedCall
<1>6. /\ Ends(m) /\ expect' = [expect EXCEPT ![current_proc] = Passed]
      /\ UNCHANGED <<ustack, asked>>
  BY <1>4 DEF CallBlocks
<1>7. /\ expect' \in [Slots -> [Registers -> Value]] /\ expect'[current_proc] = Passed
      /\ \A p \in Slots : p # current_proc => expect'[p] = expect[p]
  BY <1>5, <1>6, HistoryChanged
<1>8. HistoryOK'
  BY <1>6, <1>7 DEF ContextInv, ContextTypeOK, HistoryOK
<1>9. Calm(m) /\ LeavesInt
  BY <1>5, <1>6, <1>7 DEF Calm, LeavesInt
<1> QED
  BY <1>3, <1>5, <1>6, <1>7, <1>8, <1>9, StepInv

\* A round of a loop that sleeps.
LEMMA LoopBlocksInv ==
  ASSUME ContextInv, LoopBlocks
  PROVE  ContextInv'
<1>1. SchedulerInv
  BY DEF ContextInv
<1>2. /\ SleepLoopBlocks \/ ReadKeyBlocks \/ WaitSleeps
      /\ Ends(Machine) /\ UNCHANGED <<ustack, expect, asked>>
  BY DEF LoopBlocks
<1>3. Others /\ SchedulerInv' /\ UNCHANGED call
  BY <1>1, <1>2, OthersLeft
<1>4. call[current_proc] # "none"
  BY <1>2 DEF SleepLoopBlocks, ReadKeyBlocks, WaitSleeps
<1>5. PICK m : m = Machine
  OBVIOUS
<1>6. /\ InKernel(m, current_proc, expect[current_proc]) /\ m.tss = current_proc
      /\ m.stack = kstack
  BY <1>4, <1>5, MachineNow
<1>7. HistoryOK'
  BY <1>2 DEF ContextInv, ContextTypeOK, HistoryOK
<1>8. Calm(m) /\ LeavesInt
  BY <1>2, <1>3, <1>6 DEF Calm, LeavesInt
<1>9. expect[current_proc] = expect'[current_proc] /\ Ends(m)
  BY <1>2, <1>5
<1> QED
  BY <1>3, <1>6, <1>7, <1>8, <1>9, StepInv

\* The end of a loop: the call returns v.
LEMMA LoopReturnsInv ==
  ASSUME ContextInv, SleepLoopReturns \/ WaitReaps \/ ReadKeyReturns,
         NEW v \in Value, LoopReturns(v)
  PROVE  ContextInv'
<1>1. SchedulerInv
  BY DEF ContextInv
<1>2. Others /\ SchedulerInv' /\ UNCHANGED current_proc
  BY <1>1, OthersAlone
<1>3. call[current_proc] # "none"
  BY DEF SleepLoopReturns, WaitReaps, ReadKeyReturns
<1>4. /\ InKernel(Machine, current_proc, expect[current_proc])
      /\ Machine.tss = current_proc /\ Machine.stack = kstack /\ Machine \in MachineType
  BY <1>3, MachineNow
<1>5. current_proc \in Slots /\ state[current_proc] \in Live /\ current_proc # IDLE
  BY <1>1, <1>3, RunningIsLive, CallerIsUser
<1>6. state'[current_proc] = "RUNNING"
  BY <1>2 DEF SchedulerInv, ListsMatchStates
<1>7. PICK st : st = [p \in Slots |-> IF state'[p] = "UNUSED" THEN <<>> ELSE kstack[p]]
  OBVIOUS
<1>8. st \in [Slots -> Seq(Value)]
  BY <1>7 DEF ContextInv, ContextTypeOK
<1>9. PICK a : a = [Machine EXCEPT !.stack = st]
  OBVIOUS
<1>10. /\ a \in MachineType /\ a.stack = st /\ a.cpu = Machine.cpu /\ a.on = Machine.on
       /\ a.tss = Machine.tss /\ a.at = Machine.at /\ a.context = Machine.context
  BY <1>4, <1>8, <1>9 DEF MachineType
<1>11. a.stack[current_proc] = Machine.stack[current_proc]
  BY <1>4, <1>5, <1>6, <1>7, <1>10
<1>12. InKernel(a, current_proc, expect[current_proc])
  BY <1>4, <1>10, <1>11 DEF InKernel
<1>13. PICK m : m = SetRax(a, v)
  OBVIOUS
<1>14. PICK old : old = Returned(expect[current_proc], v)
  OBVIOUS
<1>15. /\ InKernel(m, current_proc, old) /\ m.tss = current_proc
       /\ \A q \in Slots : q # current_proc => m.stack[q] = st[q]
  BY <1>4, <1>10, <1>12, <1>13, <1>14, SettingRax
<1>16. /\ Ends(m) /\ expect' = [expect EXCEPT ![current_proc] = old] /\ UNCHANGED asked
       /\ ustack' = [p \in Slots |-> IF state'[p] = "UNUSED" THEN NoArgs ELSE ustack[p]]
  <2>1. expect' = [expect EXCEPT ![current_proc] = Returned(@, v)]
    BY DEF LoopReturns
  <2>2. expect' = [expect EXCEPT ![current_proc] = old]
    BY <1>5, <1>14, <2>1 DEF ContextInv, ContextTypeOK
  <2>3. Ends(m)
    <3>1. Machine.stack = kstack
      BY <1>4
    <3>2. a = [Machine EXCEPT !.stack = [p \in Slots |-> IF state'[p] = "UNUSED" THEN <<>>
                                                         ELSE Machine.stack[p]]]
      BY <1>7, <1>9, <3>1
    <3> QED
      BY <1>13, <3>2 DEF LoopReturns
  <2> QED
    BY <2>2, <2>3 DEF LoopReturns
<1>17. expect[current_proc] \in [Registers -> Value]
  BY <1>5 DEF ContextInv, ContextTypeOK
<1>18. old \in [Registers -> Value] /\ old.rip = expect[current_proc].rip
  BY <1>14, <1>17, RipKept
<1>19. old.rip # INT_0x80
  BY <1>3, <1>5, <1>18 DEF ContextInv, AskedInv
<1>20. /\ expect' \in [Slots -> [Registers -> Value]] /\ expect'[current_proc] = old
       /\ \A p \in Slots : p # current_proc => expect'[p] = expect[p]
  BY <1>16, <1>18, HistoryChanged
<1>21. NoArgs \in [DOMAIN NoArgs -> Int]
  BY DEF NoArgs
<1>22. HistoryOK'
  BY <1>16, <1>20, <1>21 DEF ContextInv, ContextTypeOK, HistoryOK
<1>23. Calm(m)
  BY <1>7, <1>15, <1>16, <1>20 DEF Calm, Live
<1>24. LeavesInt
  BY <1>19, <1>20 DEF LeavesInt
<1> QED
  BY <1>2, <1>15, <1>16, <1>20, <1>22, <1>23, <1>24, StepInv

\* The three calls with a loop return.
LEMMA CallReturnsLaterInv ==
  ASSUME ContextInv, CallReturns
  PROVE  ContextInv'
<1>1. CASE (SleepLoopReturns \/ WaitReaps) /\ LoopReturns(0)
  BY <1>1, LoopReturnsInv, Values
<1>2. CASE ReadKeyReturns /\ LoopReturns(Arg(Machine, 3))
  BY <1>2, LoopReturnsInv, Arguments, Values
<1> QED
  BY <1>1, <1>2 DEF CallReturns

\* Exec writes a new frame where the old one was.
LEMMA CallExecsInv ==
  ASSUME ContextInv, AtInt, CallExecs
  PROVE  ContextInv'
<1>1. SchedulerInv
  BY DEF ContextInv
<1>2. UNCHANGED vars
  BY DEF CallExecs
<1>3. Others /\ SchedulerInv'
  BY <1>1, <1>2, OthersAlone
<1>4. /\ InKernel(Trapped, current_proc, Passed) /\ Trapped.tss = current_proc
      /\ \A q \in Slots : q # current_proc => Trapped.stack[q] = kstack[q]
  BY TrappedCall
<1>5. PICK s : s = Trapped.stack[current_proc]
  OBVIOUS
<1>6. /\ Trapped \in MachineType /\ current_proc \in Slots /\ s \in Seq(Value)
      /\ Len(s) = 23 /\ s[23] = TRAP_RETURN
      /\ Trapped.stack \in [Slots -> Seq(Value)]
  BY <1>4, <1>5 DEF InKernel, InTrap, FrameOf, MachineType
<1>7. PICK b : b = SubSeq(s, 23, 23)
  OBVIOUS
<1>8. b \in Seq(Value) /\ Len(b) = 1 /\ b[1] = TRAP_RETURN
  <2>1. \A i \in 23 .. 23 : s[i] \in Value
    BY <1>6, Values DEF TRAP_RETURN
  <2>2. /\ b \in Seq(Value) /\ Len(b) = IF 23 <= 23 THEN 23 - 23 + 1 ELSE 0
        /\ \A i \in 1 .. 23 - 23 + 1 : b[i] = s[23 + i - 1]
    BY <1>7, <2>1, SubSeqProperties
  <2> QED
    BY <1>6, <2>2
<1>9. PICK w : w = NewFrame \o b
  OBVIOUS
<1>10. FrameOf(NewFrame, DefaultFrame) /\ Len(NewFrame) = 22 /\ NewFrame \in Seq(Value)
  BY NewFrameBuilt DEF FrameOf
<1>11. Joined(NewFrame, b, w)
  BY <1>8, <1>9, <1>10, Joining
<1>12. InTrap(w, DefaultFrame) /\ w \in Seq(Value)
  <2>1. FrameOf(w, DefaultFrame)
    BY <1>8, <1>10, <1>11, FrameJoined
  <2>2. Len(w) = 23 /\ w[22 + 1] = b[1]
    BY <1>8, <1>10, <1>11 DEF Joined
  <2> QED
    BY <1>8, <2>1, <2>2 DEF InTrap, FrameOf
<1>13. PICK a : a = [Trapped EXCEPT !.stack[current_proc] = w]
  OBVIOUS
<1>14. [Trapped.stack EXCEPT ![current_proc] = w] \in [Slots -> Seq(Value)]
  BY <1>6, <1>12
<1>15. /\ a \in MachineType /\ a.on = Trapped.on /\ a.tss = Trapped.tss
       /\ a.at = Trapped.at /\ a.context = Trapped.context /\ a.cpu = Trapped.cpu
       /\ a.stack = [Trapped.stack EXCEPT ![current_proc] = w]
  BY <1>6, <1>13, <1>14 DEF MachineType
<1>16. /\ a.stack[current_proc] = w
       /\ \A q \in Slots : q # current_proc => a.stack[q] = kstack[q]
  BY <1>4, <1>6, <1>15
<1>17. PICK d : d = DefaultFrame
  OBVIOUS
<1>18. InKernel(a, current_proc, d)
  BY <1>4, <1>12, <1>15, <1>16, <1>17, Registers0 DEF InKernel
<1>19. PICK m : m = SetRax(a, 0)
  OBVIOUS
<1>20. 0 \in Value
  BY Values
<1>21. /\ InKernel(m, current_proc, Returned(d, 0)) /\ m.tss = a.tss
       /\ \A q \in Slots : q # current_proc => m.stack[q] = a.stack[q]
  BY <1>19, <1>20, <1>18, SettingRax
<1>22. /\ InKernel(m, current_proc, Returned(DefaultFrame, 0)) /\ m.tss = current_proc
       /\ \A q \in Slots : q # current_proc => m.stack[q] = kstack[q]
  BY <1>4, <1>15, <1>16, <1>17, <1>21
<1>23. Returned(DefaultFrame, 0) = DefaultFrame
  BY Registers0, RegisterParts DEF Returned
<1>24. Ends(m) /\ Forgotten /\ ustack' = [ustack EXCEPT ![current_proc] = NoArgs]
  BY <1>5, <1>6, <1>7, <1>9, <1>13, <1>19, Lengths DEF CallExecs
<1>25. NoArgs \in [DOMAIN NoArgs -> Int]
  BY DEF NoArgs
<1>26. HistoryOK'
  BY <1>6, <1>24, <1>25, Registers0 DEF ContextInv, ContextTypeOK, HistoryOK, Forgotten
<1>27. /\ \A p \in Slots : p # current_proc => /\ expect'[p] = expect[p]
                                               /\ asked'[p] = asked[p]
                                               /\ ustack'[p] = ustack[p]
       /\ expect'[current_proc] = DefaultFrame
  BY <1>6, <1>24 DEF ContextInv, ContextTypeOK, Forgotten
<1>28. DefaultFrame.rip # INT_0x80
  BY Registers0 DEF USER_VIRTUAL_ADDRESS_BASE, INT_0x80
<1>29. Calm(m) /\ LeavesInt
  BY <1>22, <1>27, <1>28 DEF Calm, LeavesInt
<1> QED
  BY <1>3, <1>22, <1>23, <1>24, <1>26, <1>27, <1>29, StepInv

\* Fork: what the child's stack holds.
LEMMA ForkedStack ==
  ASSUME NEW s, NEW regs \in [Registers -> Value], InTrap(s, regs), NEW p,
         NEW w, w = WithRax(SubSeq(s, 1, 22), 0) \o EmptyContext
  PROVE  w \in Seq(Value) /\ Suspended(w, Returned(regs, 0), "none", p)
<1>1. FrameOf(s, regs) /\ Len(s) = 23 /\ s \in Seq(Value)
  BY DEF InTrap, FrameOf
<1>2. PICK f : f = SubSeq(s, 1, 22)
  OBVIOUS
<1>3. PICK n \in Nat : n = 22 /\ n <= Len(s) /\ n >= 22
  BY <1>1
<1>4. Cut(s, n, f)
  BY <1>1, <1>2, <1>3, Cutting
<1>5. FrameOf(f, regs)
  BY <1>1, <1>3, <1>4, FrameCut
<1>6. FrameOf(f, regs) /\ Len(f) = 22
  BY <1>3, <1>4, <1>5 DEF Cut
<1>7. PICK g : g = WithRax(f, 0)
  OBVIOUS
<1>8. 0 \in Value
  BY Values
<1>9. RaxSet(f, g, regs, 0)
  BY <1>6, <1>7, <1>8, FrameSetRax
<1>10. FrameOf(g, Returned(regs, 0)) /\ Len(g) = 22 /\ g \in Seq(Value)
  BY <1>6, <1>9 DEF RaxSet, FrameOf
<1>11. PICK e : e = EmptyContext
  OBVIOUS
<1>12. e \in Seq(Value) /\ Len(e) = 7 /\ e[1] = TRAP_RETURN
  BY <1>11, EmptyContextBuilt
<1>13. Joined(g, e, w)
  BY <1>2, <1>7, <1>10, <1>11, <1>12, Joining
<1>14. FrameOf(w, Returned(regs, 0)) /\ w \in Seq(Value)
  BY <1>10, <1>12, <1>13, FrameJoined DEF Joined
<1>15. Len(w) = 29 /\ w[23] = TRAP_RETURN
  <2>1. \A i \in 1 .. 7 : w[22 + i] = e[i]
    BY <1>10, <1>12, <1>13 DEF Joined
  <2>2. w[23] = e[1]
    <3>1. PICK i \in 1 .. 7 : i = 1 /\ 22 + i = 23
      OBVIOUS
    <3> QED
      BY <2>1, <3>1
  <2>3. Len(w) = 29
    BY <1>10, <1>12, <1>13 DEF Joined
  <2> QED
    BY <1>12, <2>2, <2>3
<1> QED
  BY <1>14, <1>15 DEF Suspended

\* The part of ForkSucceeds about the slots.
LEMMA ChildCreated ==
  ASSUME SchedulerInv, ForkSucceeds, NEW child, child = FindFreeProcessSlot
  PROVE  /\ SchedulerInv' /\ UNCHANGED <<call, current_proc>> /\ s_pid_num \in Nat
         /\ child \in Slots /\ child # current_proc /\ call[child] = "none"
         /\ \A p \in Slots : p # child => state'[p] = state[p]
<1>1. SchedulerInv'
  BY InvStep DEF Next, UserStep, SysFork
<1>2. child \in Slots /\ state[child] = "UNUSED"
  BY FreeSlotFound DEF ForkSucceeds, FreeSlots
<1>3. child # current_proc
  BY <1>2, RunningIsLive
<1>4. call[child] = "none"
  BY <1>2 DEF SchedulerInv, CallsMatchStates
<1>5. UNCHANGED <<call, current_proc>>
  BY DEF ForkSucceeds, callVars
<1>6. \A p \in Slots : p # child => state'[p] = state[p]
  BY <1>2 DEF ForkSucceeds, SchedulerInv, TypeOK
<1> QED
  BY <1>1, <1>2, <1>3, <1>4, <1>5, <1>6 DEF SchedulerInv, TypeOK

\* Fork makes a child that returns from the same call.
LEMMA CallForksInv ==
  ASSUME ContextInv, AtInt, CallForks
  PROVE  ContextInv'
<1>1. SchedulerInv
  BY DEF ContextInv
<1>2. PICK child : child = FindFreeProcessSlot
  OBVIOUS
<1>3. ForkSucceeds
  BY DEF CallForks
<1>4. /\ SchedulerInv' /\ UNCHANGED <<call, current_proc>> /\ s_pid_num \in Nat
      /\ child \in Slots /\ child # current_proc /\ call[child] = "none"
      /\ \A p \in Slots : p # child => state'[p] = state[p]
  BY <1>1, <1>2, <1>3, ChildCreated
<1>5. /\ InKernel(Trapped, current_proc, Passed) /\ Trapped.tss = current_proc
      /\ \A q \in Slots : q # current_proc => Trapped.stack[q] = kstack[q]
      /\ Passed \in [Registers -> Value] /\ Passed.rip # INT_0x80
  BY TrappedCall
<1>6. PICK s : s = Trapped.stack[current_proc]
  OBVIOUS
<1>7. /\ Trapped \in MachineType /\ current_proc \in Slots /\ InTrap(s, Passed)
      /\ Trapped.stack \in [Slots -> Seq(Value)]
      /\ Trapped.context = [p \in Slots |-> p]
  BY <1>5, <1>6 DEF InKernel, MachineType
<1>8. PICK w : w = WithRax(SubSeq(s, 1, 22), 0) \o EmptyContext
  OBVIOUS
<1>9. w \in Seq(Value) /\ Suspended(w, Returned(Passed, 0), "none", child)
  BY <1>5, <1>7, <1>8, ForkedStack
<1>10. PICK a : a = [Trapped EXCEPT !.stack[child] = w, !.context[child] = child]
  OBVIOUS
<1>11. [Trapped.context EXCEPT ![child] = child] = Trapped.context
  BY <1>4, <1>7
<1>12. [Trapped.stack EXCEPT ![child] = w] \in [Slots -> Seq(Value)]
  BY <1>7, <1>9
<1>13. a = [Trapped EXCEPT !.stack = [Trapped.stack EXCEPT ![child] = w],
                           !.context = Trapped.context]
  BY <1>7, <1>10, <1>11 DEF MachineType
<1>14. /\ a \in MachineType /\ a.on = Trapped.on /\ a.tss = Trapped.tss
       /\ a.at = Trapped.at /\ a.context = Trapped.context /\ a.cpu = Trapped.cpu
       /\ a.stack = [Trapped.stack EXCEPT ![child] = w]
  BY <1>7, <1>12, <1>13 DEF MachineType
<1>15. /\ a.stack[current_proc] = s /\ a.stack[child] = w
       /\ \A q \in Slots : q \notin {current_proc, child} => a.stack[q] = kstack[q]
  BY <1>4, <1>5, <1>6, <1>7, <1>14
<1>16. InKernel(a, current_proc, Passed)
  BY <1>5, <1>6, <1>14, <1>15 DEF InKernel
<1>17. PICK v : v = s_pid_num
  OBVIOUS
<1>18. v \in Value /\ 0 \in Value
  BY <1>4, <1>17, Values
<1>19. PICK m : m = SetRax(a, v)
  OBVIOUS
<1>20. PICK old : old = Returned(Passed, v)
  OBVIOUS
<1>21. /\ InKernel(m, current_proc, old) /\ m.tss = a.tss
       /\ \A q \in Slots : q # current_proc => m.stack[q] = a.stack[q]
  BY <1>16, <1>18, <1>19, <1>20, SettingRax
<1>22. PICK new : new = Returned(Passed, 0)
  OBVIOUS
<1>23. /\ old \in [Registers -> Value] /\ old.rip # INT_0x80
       /\ new \in [Registers -> Value] /\ new.rip # INT_0x80
  BY <1>5, <1>18, <1>20, <1>22, RipKept
<1>24. Ends(m)
  <2>1. Len(TrapFrame) + 1 - Index(TrapFrame, "rax") = Place("rax")
    <3>1. "rax" \in Registers /\ "rax" \in Range(TrapFrame)
      BY RegisterParts, InFrame
    <3>2. Index(TrapFrame, "rax") \in 1 .. 22
      BY <3>1, Lengths, AtIndex
    <3> QED
      BY <3>1, <3>2, Places, Lengths
  <2>2. ForkedFrame(Trapped) = SubSeq(s, 1, 22)
    BY <1>6, Lengths DEF ForkedFrame
  <2> QED
    BY <1>2, <1>8, <1>10, <1>17, <1>19, <2>1, <2>2 DEF CallForks, WithRax
<1>25. /\ expect' = [expect EXCEPT ![current_proc] = old, ![child] = new]
       /\ ustack' = [ustack EXCEPT ![child] = ustack[current_proc]]
       /\ asked' = [asked EXCEPT ![child] = NotAsked]
  BY <1>2, <1>17, <1>20, <1>22 DEF CallForks
<1>26. HistoryOK'
  BY <1>4, <1>7, <1>23, <1>25 DEF ContextInv, ContextTypeOK, HistoryOK
<1>27. /\ expect'[current_proc] = old /\ expect'[child] = new
       /\ \A p \in Slots : p \notin {current_proc, child} =>
            /\ expect'[p] = expect[p] /\ ustack'[p] = ustack[p] /\ asked'[p] = asked[p]
  BY <1>4, <1>7, <1>25 DEF ContextInv, ContextTypeOK
<1>28. Parked(m)
  <2>1. Suspended(m.stack[child], expect'[child], call'[child], child)
    BY <1>4, <1>9, <1>15, <1>21, <1>22, <1>27
  <2>2. ASSUME NEW p \in Slots, p # current_proc, p # child, state'[p] \in Live
        PROVE  Suspended(m.stack[p], expect'[p], call'[p], p)
    <3>1. state[p] \in Live /\ m.stack[p] = kstack[p] /\ expect'[p] = expect[p]
      BY <1>4, <1>15, <1>21, <1>27, <2>2
    <3> QED
      BY <1>4, <2>2, <3>1 DEF ContextInv, SuspendedInv
  <2> QED
    BY <2>1, <2>2 DEF Parked
<1>29. Ending(m, old)
  BY <1>5, <1>14, <1>21, <1>24, <1>27, <1>28 DEF Ending
<1>30. StackInv'
  BY <1>4, <1>26, <1>29, EndsInv DEF HistoryOK
<1>31. AskedInv'
  <2>1. ASSUME NEW p \in Slots, p # IDLE, state'[p] \in Live, expect'[p].rip = INT_0x80
        PROVE  call'[p] = "none" /\ Loaded(expect'[p], ustack'[p], asked'[p])
    <3>1. p \notin {current_proc, child}
      BY <1>23, <1>27, <2>1
    <3>2. /\ state[p] \in Live /\ expect'[p] = expect[p] /\ ustack'[p] = ustack[p]
          /\ asked'[p] = asked[p] /\ call'[p] = call[p]
      BY <1>4, <1>27, <2>1, <3>1
    <3> QED
      BY <2>1, <3>2 DEF ContextInv, AskedInv
  <2> QED
    BY <2>1 DEF AskedInv
<1> QED
  BY <1>4, <1>26, <1>30, <1>31 DEF ContextInv, ContextTypeOK, StackInv, HistoryOK

\* A count of arguments is one of 0 to 3.
LEMMA AtMostThree ==
  ASSUME NEW k \in Nat, k <= 3
  PROVE  k \in 0 .. 3
OBVIOUS

\* The same of the arguments of a call.
LEMMA ArgumentCount ==
  ASSUME NEW q \in Seq(Int), Len(q) <= 3
  PROVE  Len(q) \in 0 .. 3
<1>1. Len(q) \in Nat
  BY LenProperties
<1> QED
  BY <1>1, AtMostThree

\* What the wrapper writes below USER_STACK_START is the arguments in order.
LEMMA ArgumentsWritten ==
  ASSUME NEW k \in 0 .. 3, NEW q, NEW w,
         w = [a \in 497 .. 499 |-> IF a >= 500 - k THEN q[a - (500 - k) + 1] ELSE 0]
  PROVE  \A i \in 1 .. k : w[500 - k + i - 1] = q[i]
<1> TAKE i \in 1 .. k
<1>1. /\ 500 - k + i - 1 \in 497 .. 499
      /\ 500 - k + i - 1 >= 500 - k
      /\ 500 - k + i - 1 - (500 - k) + 1 = i
  OBVIOUS
<1> QED
  BY <1>1

\* A wrapper loads the registers and the words that its call needs.
LEMMA WrapperInv ==
  ASSUME ContextInv, NEW c \in Calls, Wrapper(c)
  PROVE  ContextInv'
<1> DEFINE n == Len(c.args)
           rsp == USER_STACK_START - n
<1>1. SchedulerInv
  BY DEF ContextInv
<1>2. UNCHANGED vars /\ UNCHANGED <<kstack, context, on, tss>> /\ UserMode
  BY DEF Wrapper
<1>3. SchedulerInv' /\ UNCHANGED <<state, call, current_proc>>
  BY <1>1, <1>2, StutterInv DEF vars, procVars, callVars
<1>4. c.args \in Seq(Int) /\ n \in 0 .. 3 /\ c.fn \in DOMAIN Number
  <2>1. c.args \in Seq(Int) /\ n <= 3 /\ c.fn \in DOMAIN Number
    BY CallAssumption
  <2> QED
    BY <2>1, ArgumentCount
<1>5. current_proc \in Slots
  BY <1>1, RunningIsLive
<1>6. PICK regs : /\ regs = [r \in Registers |->
                        CASE r = "rax" -> Number[c.fn]
                          [] r = "rdi" -> n
                          [] r = "rsi" /\ n > 0 -> rsp
                          [] r = "rsp" -> rsp
                          [] r = "rip" -> INT_0x80
                          [] r \in {"cs", "ss", "rflags"} -> cpu[r]
                          [] OTHER -> UserValue(current_proc, r)]
                  /\ cpu' = regs /\ expect' = [expect EXCEPT ![current_proc] = regs]
  BY DEF Wrapper
<1>7. PICK words : /\ words = [a \in DOMAIN NoArgs |->
                                 IF a >= rsp THEN c.args[a - rsp + 1] ELSE 0]
                   /\ ustack' = [ustack EXCEPT ![current_proc] = words]
                   /\ asked' = [asked EXCEPT ![current_proc] = c]
  BY DEF Wrapper
<1>8. Number[c.fn] \in Int
  BY <1>4 DEF Number
<1>9. \A r \in Registers : r \notin {"rax", "rdi", "rsp", "rip", "cs", "ss", "rflags"} =>
        UserValue(current_proc, r) \in Int
  <2>1. ASSUME NEW r \in Range(PushedByTrap) PROVE UserValue(current_proc, r) \in Int
    <3>1. Index(PushedByTrap, r) \in 1 .. 15
      BY Lengths, AtIndex
    <3>2. current_proc \in Int
      BY <1>5, ProcessAssumption DEF Slots
    <3> QED
      BY <3>1, <3>2 DEF UserValue
  <2>2. \A r \in Registers : r \notin {"rax", "rdi", "rsp", "rip", "cs", "ss", "rflags"} =>
          r \in Range(PushedByTrap)
    BY RegisterSets DEF Registers
  <2> QED
    BY <2>1, <2>2
<1>10. \A r \in {"cs", "ss", "rflags"} : r \in Registers => cpu[r] \in Value
  BY DEF ContextInv, ContextTypeOK
<1>11. rsp \in Int /\ n \in Int /\ INT_0x80 \in Int
  BY <1>4 DEF USER_STACK_START, INT_0x80
<1>12. regs \in [Registers -> Value]
  <2>1. ASSUME NEW r \in Registers PROVE regs[r] \in Value
    <3>1. CASE r \in {"cs", "ss", "rflags"}
      BY <1>6, <1>10, <3>1
    <3>2. CASE r \notin {"cs", "ss", "rflags"}
      BY <1>6, <1>8, <1>9, <1>11, <3>2, Values
    <3> QED
      BY <3>1, <3>2
  <2> QED
    BY <1>6, <2>1
<1>13. {"rax", "rdi", "rsi", "rip"} \subseteq Registers
  BY RegisterParts
<1>14. /\ regs.rax = Number[c.fn] /\ regs.rdi = n /\ regs.rip = INT_0x80
       /\ n > 0 => regs.rsi = rsp
  BY <1>6, <1>13
<1>15. DOMAIN NoArgs = 497 .. 499
  BY DEF NoArgs, USER_STACK_START
<1>16. words \in [DOMAIN NoArgs -> Int]
  <2>1. ASSUME NEW a \in DOMAIN NoArgs, a >= rsp PROVE c.args[a - rsp + 1] \in Int
    <3>1. a - rsp + 1 \in 1 .. n
      BY <1>4, <1>15, <2>1, SMTT(40) DEF USER_STACK_START
    <3> QED
      BY <1>4, <3>1, ElementOfSeq
  <2> QED
    BY <1>7, <2>1
<1>17. \A i \in 1 .. n : words[rsp + i - 1] = c.args[i]
  <2>1. PICK k \in 0 .. 3 : k = n
    BY <1>4
  <2>2. rsp = 500 - k
    BY <2>1 DEF USER_STACK_START
  <2>3. words = [a \in 497 .. 499 |->
                   IF a >= 500 - k THEN c.args[a - (500 - k) + 1] ELSE 0]
    <3>1. words = [a \in DOMAIN NoArgs |-> IF a >= rsp THEN c.args[a - rsp + 1] ELSE 0]
      BY <1>7
    <3>2. PICK at, D : at = rsp /\ D = DOMAIN NoArgs
      OBVIOUS
    <3>3. words = [a \in D |-> IF a >= at THEN c.args[a - at + 1] ELSE 0]
      BY <3>1, <3>2, Zenon
    <3>4. at = 500 - k /\ D = 497 .. 499
      BY <1>15, <2>2, <3>2
    <3> QED
      BY <3>3, <3>4
  <2>4. \A i \in 1 .. k : words[500 - k + i - 1] = c.args[i]
    BY <2>3, ArgumentsWritten
  <2> HIDE DEF n, rsp
  <2> QED
    BY <2>1, <2>2, <2>4
<1>18. Loaded(regs, words, c)
  BY <1>14, <1>17 DEF Loaded
<1>19. /\ expect' \in [Slots -> [Registers -> Value]] /\ expect'[current_proc] = regs
       /\ \A p \in Slots : p # current_proc => expect'[p] = expect[p]
  BY <1>6, <1>12, HistoryChanged
<1>20. /\ ustack'[current_proc] = words /\ asked'[current_proc] = c
       /\ \A p \in Slots : p # current_proc => /\ ustack'[p] = ustack[p]
                                               /\ asked'[p] = asked[p]
  BY <1>5, <1>7 DEF ContextInv, ContextTypeOK
<1>21. ustack' \in [Slots -> [DOMAIN NoArgs -> Int]]
  BY <1>5, <1>7, <1>16 DEF ContextInv, ContextTypeOK
<1>22. asked' \in [Slots -> Calls \cup {NotAsked}]
  BY <1>5, <1>7 DEF ContextInv, ContextTypeOK
<1>23. ContextTypeOK'
  BY <1>2, <1>3, <1>6, <1>12, <1>19, <1>21, <1>22 DEF ContextInv, ContextTypeOK
<1>24. call[current_proc] = "none"
  BY <1>2 DEF UserMode
<1>25. RunningInv'
  BY <1>2, <1>3, <1>6, <1>19, <1>24 DEF ContextInv, RunningInv
<1>26. SuspendedInv'
  BY <1>2, <1>3, <1>19 DEF ContextInv, SuspendedInv
<1>27. AskedInv'
  BY <1>3, <1>18, <1>19, <1>20, <1>24 DEF ContextInv, AskedInv
<1> QED
  BY <1>3, <1>23, <1>25, <1>26, <1>27 DEF ContextInv

\* A step that changes nothing.
LEMMA ContextStutter ==
  ASSUME ContextInv, UNCHANGED everything
  PROVE  ContextInv'
<1>1. UNCHANGED vars /\ UNCHANGED contextVars
  BY DEF everything
<1>2. SchedulerInv'
  BY <1>1, StutterInv DEF ContextInv
<1> QED
  BY <1>1, <1>2 DEF ContextInv, ContextTypeOK, RunningInv, SuspendedInv, AskedInv, vars,
                    procVars, callVars, contextVars, machineVars

\* InitProcess: the idle task runs and the shell waits for its first switch.
LEMMA ContextInvInit == ContextInit => ContextInv
<1> SUFFICES ASSUME ContextInit PROVE ContextInv
  OBVIOUS
<1>1. Init /\ SchedulerInv
  BY InvInit DEF ContextInit
<1>2. /\ current_proc = IDLE /\ call = [p \in Slots |-> "none"]
      /\ \A p \in Slots : p # IDLE /\ state[p] \in Live => p = SHELL
  BY <1>1 DEF Init, InitIDLEProcess, Live
<1>3. NoArgs \in [DOMAIN NoArgs -> Int]
  BY DEF NoArgs
<1>4. PICK w : w = NewFrame \o EmptyContext
  OBVIOUS
<1>5. w \in Seq(Value) /\ Suspended(w, DefaultFrame, "none", SHELL)
  <2>1. PICK f, e : f = NewFrame /\ e = EmptyContext
    OBVIOUS
  <2>2. /\ FrameOf(f, DefaultFrame) /\ Len(f) = 22 /\ f \in Seq(Value)
        /\ e \in Seq(Value) /\ Len(e) = 7 /\ e[1] = TRAP_RETURN
    BY <2>1, NewFrameBuilt, EmptyContextBuilt DEF FrameOf
  <2>3. Joined(f, e, w)
    BY <1>4, <2>1, <2>2, Joining
  <2>4. FrameOf(w, DefaultFrame) /\ w \in Seq(Value)
    BY <2>2, <2>3, FrameJoined, ZenonT(60) DEF Joined
  <2>5. Len(w) = 29 /\ \A i \in 1 .. 7 : w[22 + i] = e[i]
    BY <2>2, <2>3 DEF Joined
  <2>6. w[23] = TRAP_RETURN
    <3>1. PICK i \in 1 .. 7 : i = 1 /\ 22 + i = 23
      OBVIOUS
    <3> QED
      BY <2>2, <2>5, <3>1
  <2> QED
    BY <2>4, <2>5, <2>6 DEF Suspended
<1>6. kstack = [p \in Slots |-> IF p = SHELL THEN w ELSE <<>>]
  BY <1>4 DEF ContextInit
<1>7. kstack \in [Slots -> Seq(Value)]
  BY <1>5, <1>6
<1>8. /\ expect = [p \in Slots |-> IF p = IDLE THEN IdleRegisters ELSE DefaultFrame]
      /\ cpu = IdleRegisters /\ asked = [p \in Slots |-> NotAsked]
      /\ ustack = [p \in Slots |-> NoArgs] /\ context = [p \in Slots |-> p]
      /\ on = IDLE /\ tss = IDLE
  BY DEF ContextInit
<1>9. ContextTypeOK
  BY <1>2, <1>3, <1>7, <1>8, Registers0 DEF ContextTypeOK
<1>10. RunningInv
  BY <1>2, <1>6, <1>8, IdleSlot DEF RunningInv
<1>11. SuspendedInv
  BY <1>2, <1>5, <1>6, <1>8, IdleSlot DEF SuspendedInv
<1>12. DefaultFrame.rip # INT_0x80
  BY Registers0 DEF USER_VIRTUAL_ADDRESS_BASE, INT_0x80
<1>13. AskedInv
  BY <1>8, <1>12 DEF AskedInv
<1> QED
  BY <1>1, <1>9, <1>10, <1>11, <1>13 DEF ContextInv

\* Every step keeps the invariant.
LEMMA ContextInvStep == ContextInv /\ [ContextNext]_everything => ContextInv'
<1> SUFFICES ASSUME ContextInv, [ContextNext]_everything PROVE ContextInv'
  OBVIOUS
<1>1. CASE \E c \in Calls : Wrapper(c)
  BY <1>1, WrapperInv
<1>2. CASE SystemCall
  <2>1. /\ AtInt
        /\ \/ CallBlocks \/ CallComputes \/ CallRejected \/ CallExits
           \/ CallForks \/ ForkFailed \/ CallExecs \/ ExecFails
    BY <1>2 DEF SystemCall
  <2> QED
    BY <2>1, CallBlocksInv, CallReturnsInv, CallExitsInv, CallForksInv, CallExecsInv
<1>3. CASE Timer \/ Key \/ Spurious
  BY <1>3, InterruptStepInv
<1>4. CASE Exception
  BY <1>4, ExceptionInv
<1>5. CASE LoopBlocks
  BY <1>5, LoopBlocksInv
<1>6. CASE CallReturns
  BY <1>6, CallReturnsLaterInv
<1>7. CASE Spins
  <2>1. UNCHANGED everything
    BY <1>7 DEF Spins, WaitSpins, everything
  <2> QED
    BY <2>1, ContextStutter
<1>8. CASE UNCHANGED everything
  BY <1>8, ContextStutter
<1> QED
  BY <1>1, <1>2, <1>3, <1>4, <1>5, <1>6, <1>7, <1>8 DEF ContextNext

\* The inductive invariant holds, for any number of processes and any calls.
THEOREM ContextInvHolds == ContextSpec => []ContextInv
BY ContextInvInit, ContextInvStep, PTL DEF ContextSpec

\* A process, and the idle task, never notices that it was interrupted or
\* switched out: trap.asm and the frames made in process.c give it back all its
\* registers, but for the result of its own call.
THEOREM UserStateAlwaysSurvives == ContextSpec => []UserStateSurvives
<1>1. ContextInv => UserStateSurvives
  BY DEF ContextInv, RunningInv, UserStateSurvives
<1> QED
  BY <1>1, ContextInvHolds, PTL

\* A process that ContextSwitch brings back in the middle of a call finds the
\* registers that its C code relies on.
THEOREM KernelStateAlwaysSurvives == ContextSpec => []KernelStateSurvives
<1>1. ContextInv => KernelStateSurvives
  BY DEF ContextInv, RunningInv, KernelStateSurvives, Kept
<1> QED
  BY <1>1, ContextInvHolds, PTL

\* The numbers of the wrappers select their handlers.
LEMMA Dispatch ==
  ASSUME NEW fn \in DOMAIN Number
  PROVE  /\ Number[fn] \in Nat
         /\ ServedBy[fn] = IF Number[fn] > MAXIMUM_SYSTEM_CALLS THEN "EINVAL"
                           ELSE s_syscall_table[Number[fn]]
<1>1. Len(InitSystemCall) = 12
  BY DEF InitSystemCall
<1>2. \A n \in 0 .. 11 : s_syscall_table[n] = InitSystemCall[n + 1]
  BY <1>1 DEF s_syscall_table, MAXIMUM_SYSTEM_CALLS
<1>3. fn \in {"write", "sleep", "exit", "wait", "read", "mem", "open", "close", "fork",
              "exec", "lstat", "clrscr", "unknown"}
  BY DEF Number
<1>4. Number[fn] \in Nat
  BY <1>3 DEF Number
<1>5. CASE fn \in {"write", "sleep", "exit", "wait"}
  BY <1>2, <1>5 DEF Number, ServedBy, MAXIMUM_SYSTEM_CALLS, InitSystemCall
<1>6. CASE fn \in {"read", "mem", "open", "close"}
  BY <1>2, <1>6 DEF Number, ServedBy, MAXIMUM_SYSTEM_CALLS, InitSystemCall
<1>7. CASE fn \in {"fork", "exec", "lstat", "clrscr"}
  BY <1>2, <1>7 DEF Number, ServedBy, MAXIMUM_SYSTEM_CALLS, InitSystemCall
<1>8. CASE fn = "unknown"
  BY <1>8 DEF Number, ServedBy, MAXIMUM_SYSTEM_CALLS
<1> QED
  BY <1>3, <1>4, <1>5, <1>6, <1>7, <1>8

\* A system call reaches the handler that user code asked for, with its
\* arguments, whatever happened between loading the registers and the int.
THEOREM HandlerAlwaysGetsCall == ContextSpec => []HandlerGetsCall
<1>1. ASSUME ContextInv PROVE HandlerGetsCall
  <2> SUFFICES ASSUME AtInt
               PROVE  /\ Handler = ServedBy[asked[current_proc].fn]
                      /\ [i \in 1 .. Len(asked[current_proc].args) |-> Arg(Trapped, i)]
                           = asked[current_proc].args
    BY DEF HandlerGetsCall
  <2>1. PICK c : c = asked[current_proc]
    OBVIOUS
  <2>2. current_proc \in Slots /\ current_proc # IDLE /\ state[current_proc] \in Live
    BY <1>1, RunningIsLive DEF ContextInv, AtInt, UserMode
  <2>3. Loaded(expect[current_proc], ustack[current_proc], c)
    BY <1>1, <2>1, <2>2, TrappedCall DEF ContextInv, AskedInv
  <2>4. {"rax", "rdi", "rsi"} \subseteq Registers
    BY RegisterParts
  <2>5. \A r \in {"rax", "rdi", "rsi"} : tf(Trapped, r) = expect[current_proc][r]
    BY <1>1, <2>4, TrapField, TrappedCall
  <2>6. c \in Calls /\ c.fn \in DOMAIN Number /\ c.args \in Seq(Int) /\ Len(c.args) <= 3
    BY <2>3, CallAssumption DEF Loaded
  <2>7. PICK n \in 0 .. 3 : n = Len(c.args)
    BY <2>6, ArgumentCount
  <2>8. /\ tf(Trapped, "rax") = Number[c.fn] /\ tf(Trapped, "rdi") = n
        /\ n > 0 => tf(Trapped, "rsi") = 500 - n
    BY <2>3, <2>5, <2>7 DEF Loaded, USER_STACK_START
  <2>9. Handler = ServedBy[c.fn]
    BY <2>6, <2>8, Dispatch DEF Handler
  <2>10. ASSUME NEW i \in 1 .. n PROVE Arg(Trapped, i) = c.args[i]
    <3>1. PICK a : a = 500 - n + i - 1
      OBVIOUS
    <3>2. a \in 497 .. 499 /\ n > 0
      BY <3>1
    <3>3. a \in DOMAIN NoArgs
      BY <3>2 DEF NoArgs, USER_STACK_START
    <3>4. Arg(Trapped, i) = ustack[current_proc][a]
      BY <2>8, <3>1, <3>2, <3>3 DEF Arg
    <3> QED
      BY <2>3, <2>7, <3>1, <3>4 DEF Loaded, USER_STACK_START
  <2>11. [i \in 1 .. n |-> Arg(Trapped, i)] = c.args
    BY <2>6, <2>7, <2>10
  <2> QED
    BY <2>1, <2>7, <2>9, <2>11
<1> QED
  BY <1>1, ContextInvHolds, PTL

=============================================================================
