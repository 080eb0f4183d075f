-------------------------- MODULE FileTableProofs ---------------------------
(***************************************************************************)
(* Theorems about FileTable, for any number of processes, descriptors,     *)
(* entries and files, any file sizes and any lengths of reads.             *)
(***************************************************************************)
EXTENDS FileTable, SchedulerProofs, FiniteSetTheorems

\* A descriptor is a process and its index there.
Pairs == Slots \X Fds

\* The descriptors of one process, and of all of them.
DescriptorRows == [Fds -> FDEntries \cup {NULL}]
Descriptors    == [Slots -> DescriptorRows]

\* The descriptors that point to entry e, and those that reach file f through
\* the entries' control blocks c.
Refs(F, e)     == {r \in Pairs : F[r[1]][r[2]] = e}
Reach(F, c, f) == {r \in Pairs : F[r[1]][r[2]] # NULL /\ c[F[r[1]][r[2]]] = f}

\* The same for one row of descriptors.
RowRefs(g, e)     == {d \in Fds : g[d] = e}
RowReach(g, c, f) == {d \in Fds : g[d] # NULL /\ c[g[d]] = f}

\* The descriptors of the processes other than p reach the same files.
SameFiles(F, p, c, c2) ==
  \A r \in Pairs : r[1] # p /\ F[r[1]][r[2]] # NULL =>
                      c2[F[r[1]][r[2]]] = c[F[r[1]][r[2]]]

-----------------------------------------------------------------------------
(* The inductive invariant.                                                *)

FileTypeOK ==
  /\ file \in Descriptors
  /\ fcb \in [FDEntries -> Files \cup {NULL}]
  /\ position \in [FDEntries -> Nat]
  /\ open_count \in [FDEntries -> Int]
  /\ fcb_open_count \in [Files -> Int]
  /\ file_size \in [Files -> Nat]
  /\ disk_size \in [Files -> FileSizes]

\* A slot that Fork may hand out, or that a failed fork left behind, has no open
\* files: the child's descriptors are then the parent's and nothing else.
FreeSlotsHoldNothing ==
  \A p \in Slots : state[p] \in {"UNUSED", "INITIALIZED"} =>
    \A d \in Fds : file[p][d] = NULL

FileInv == /\ SchedulerInv /\ FileTypeOK /\ FreeSlotsHoldNothing
           /\ EntriesCounted /\ FilesCounted /\ PositionInFile

-----------------------------------------------------------------------------
(* Counting descriptors.                                                   *)

\* There are finitely many descriptors.
LEMMA FinitelyMany ==
  /\ IsFiniteSet(Slots) /\ IsFiniteSet(Fds) /\ IsFiniteSet(Pairs)
  /\ \A S \in SUBSET Pairs : IsFiniteSet(S) /\ Cardinality(S) \in Nat
  /\ \A D \in SUBSET Fds : IsFiniteSet(D) /\ Cardinality(D) \in Nat
<1>1. IsFiniteSet(Slots)
  BY FS_Interval, ProcessAssumption DEF Slots
<1>2. IsFiniteSet(Fds)
  BY FileAssumption
<1>3. IsFiniteSet(Pairs)
  BY <1>1, <1>2, FS_Product DEF Pairs
<1> QED
  BY <1>1, <1>2, <1>3, FS_Subset, FS_CardinalityType

\* A row counts as many pairs as it has descriptors.
LEMMA RowCount ==
  ASSUME NEW p \in Slots, NEW D \in SUBSET Fds
  PROVE  /\ {p} \X D \in SUBSET Pairs
         /\ Cardinality({p} \X D) = Cardinality(D)
<1>1. IsFiniteSet(D) /\ Cardinality(D) \in Nat
  BY FinitelyMany
<1>2. IsFiniteSet({p}) /\ Cardinality({p}) = 1
  BY FS_Singleton
<1>3. Cardinality({p} \X D) = Cardinality({p}) * Cardinality(D)
  BY <1>1, <1>2, FS_Product
<1>4. Cardinality({p}) * Cardinality(D) = Cardinality(D)
  BY <1>1, <1>2
<1>5. {p} \X D \in SUBSET Pairs
  BY DEF Pairs
<1> QED
  BY <1>3, <1>4, <1>5

\* Two sets of pairs that differ in the row of one process only.
LEMMA RowReplaced ==
  ASSUME NEW S \in SUBSET Pairs, NEW T \in SUBSET Pairs, NEW p \in Slots,
         NEW D \in SUBSET Fds, NEW E \in SUBSET Fds,
         \A r \in Pairs : r[1] # p => (r \in S <=> r \in T),
         \A d \in Fds : <<p, d>> \in S <=> d \in D,
         \A d \in Fds : <<p, d>> \in T <=> d \in E
  PROVE  Cardinality(T) = Cardinality(S) - Cardinality(D) + Cardinality(E)
<1> DEFINE R == S \ ({p} \X D)
<1>1. /\ {p} \X D \in SUBSET Pairs /\ Cardinality({p} \X D) = Cardinality(D)
      /\ {p} \X E \in SUBSET Pairs /\ Cardinality({p} \X E) = Cardinality(E)
  BY RowCount
<1>2. S \cap ({p} \X D) = {p} \X D
  <2>1. ASSUME NEW r \in {p} \X D PROVE r \in S
    <3>1. PICK d \in D : r = <<p, d>>
      OBVIOUS
    <3> QED
      BY <3>1
  <2> QED
    BY <2>1
<1>3. IsFiniteSet(R) /\ Cardinality(R) = Cardinality(S) - Cardinality(D)
  <2>1. IsFiniteSet(S)
    BY FinitelyMany
  <2>2. /\ IsFiniteSet(R)
        /\ Cardinality(R) = Cardinality(S) - Cardinality(S \cap ({p} \X D))
    BY <2>1, FS_Difference
  <2> HIDE DEF R
  <2> QED
    BY <1>1, <1>2, <2>2, Zenon
<1>4. \A r \in Pairs : \E q \in Slots, d \in Fds : r = <<q, d>> /\ r[1] = q
  BY DEF Pairs
<1>5. T = R \cup ({p} \X E)
  <2>1. ASSUME NEW r \in Pairs PROVE r \in T <=> r \in R \/ r \in {p} \X E
    <3>1. PICK q \in Slots, d \in Fds : r = <<q, d>> /\ r[1] = q
      BY <1>4
    <3>2. (r \in {p} \X D <=> q = p /\ d \in D) /\ (r \in {p} \X E <=> q = p /\ d \in E)
      BY <3>1
    <3>3. CASE q = p
      BY <3>1, <3>2, <3>3
    <3>4. CASE q # p
      BY <3>1, <3>2, <3>4
    <3> QED
      BY <3>3, <3>4
  <2> QED
    BY <1>1, <2>1
<1>6. R \cap ({p} \X E) = {}
  <2>1. ASSUME NEW r \in R, r \in {p} \X E PROVE FALSE
    <3>1. PICK d \in E : r = <<p, d>>
      BY <2>1
    <3>2. d \in D
      BY <3>1
    <3> QED
      BY <3>1, <3>2
  <2> QED
    BY <2>1
<1>7. Cardinality(T) = Cardinality(R) + Cardinality({p} \X E)
                        - Cardinality(R \cap ({p} \X E))
  BY <1>1, <1>3, <1>5, FinitelyMany, FS_Union
<1> HIDE DEF R
<1>8. Cardinality({}) = 0
  BY FS_EmptySet
<1>9. /\ Cardinality(S) \in Nat /\ Cardinality(D) \in Nat
      /\ Cardinality(E) \in Nat
  BY FinitelyMany
<1>10. Cardinality(R \cap ({p} \X E)) = 0
  BY <1>6, <1>8, Zenon
<1> QED
  BY <1>1, <1>3, <1>7, <1>9, <1>10

\* How a new row g of process p changes the number of descriptors on entry e.
LEMMA RowRefsCount ==
  ASSUME NEW F \in Descriptors, NEW p \in Slots, NEW g \in DescriptorRows, NEW e
  PROVE  Cardinality(Refs([F EXCEPT ![p] = g], e)) =
           Cardinality(Refs(F, e)) - Cardinality(RowRefs(F[p], e))
             + Cardinality(RowRefs(g, e))
<1> DEFINE G == [F EXCEPT ![p] = g]
<1>1. \A q \in Slots : G[q] = IF q = p THEN g ELSE F[q]
  BY DEF Descriptors
<1> HIDE DEF G
<1>2. \A r \in Pairs : r[1] # p => (r \in Refs(F, e) <=> r \in Refs(G, e))
  BY <1>1 DEF Pairs, Refs
<1>3. \A d \in Fds : /\ <<p, d>> \in Refs(F, e) <=> d \in RowRefs(F[p], e)
                     /\ <<p, d>> \in Refs(G, e) <=> d \in RowRefs(g, e)
  BY <1>1 DEF Pairs, Refs, RowRefs
<1>4. /\ Refs(F, e) \in SUBSET Pairs /\ Refs(G, e) \in SUBSET Pairs
      /\ RowRefs(F[p], e) \in SUBSET Fds /\ RowRefs(g, e) \in SUBSET Fds
  BY DEF Refs, RowRefs
<1>5. \A d \in Fds : <<p, d>> \in Refs(F, e) <=> d \in RowRefs(F[p], e)
  BY <1>3
<1>6. \A d \in Fds : <<p, d>> \in Refs(G, e) <=> d \in RowRefs(g, e)
  BY <1>3
<1>7. Cardinality(Refs(G, e)) = Cardinality(Refs(F, e))
        - Cardinality(RowRefs(F[p], e)) + Cardinality(RowRefs(g, e))
  BY <1>2, <1>4, <1>5, <1>6, RowReplaced
<1> QED
  BY <1>7 DEF G

\* How it changes the number of descriptors that reach file f, if it leaves
\* alone the control blocks that other processes reach.
LEMMA RowReachCount ==
  ASSUME NEW F \in Descriptors, NEW p \in Slots, NEW g \in DescriptorRows,
         NEW c, NEW c2, NEW f, SameFiles(F, p, c, c2)
  PROVE  Cardinality(Reach([F EXCEPT ![p] = g], c2, f)) =
           Cardinality(Reach(F, c, f)) - Cardinality(RowReach(F[p], c, f))
             + Cardinality(RowReach(g, c2, f))
<1> DEFINE G == [F EXCEPT ![p] = g]
<1>1. \A q \in Slots : G[q] = IF q = p THEN g ELSE F[q]
  BY DEF Descriptors
<1> HIDE DEF G
<1>2. \A r \in Pairs : r[1] # p => (r \in Reach(F, c, f) <=> r \in Reach(G, c2, f))
  BY <1>1 DEF Pairs, Reach, SameFiles
<1>3. \A d \in Fds : /\ <<p, d>> \in Reach(F, c, f) <=> d \in RowReach(F[p], c, f)
                     /\ <<p, d>> \in Reach(G, c2, f) <=> d \in RowReach(g, c2, f)
  BY <1>1 DEF Pairs, Reach, RowReach
<1>4. /\ Reach(F, c, f) \in SUBSET Pairs /\ Reach(G, c2, f) \in SUBSET Pairs
      /\ RowReach(F[p], c, f) \in SUBSET Fds /\ RowReach(g, c2, f) \in SUBSET Fds
  BY DEF Reach, RowReach
<1>5. \A d \in Fds : <<p, d>> \in Reach(F, c, f) <=> d \in RowReach(F[p], c, f)
  BY <1>3
<1>6. \A d \in Fds : <<p, d>> \in Reach(G, c2, f) <=> d \in RowReach(g, c2, f)
  BY <1>3
<1>7. Cardinality(Reach(G, c2, f)) = Cardinality(Reach(F, c, f))
        - Cardinality(RowReach(F[p], c, f)) + Cardinality(RowReach(g, c2, f))
  BY <1>2, <1>4, <1>5, <1>6, RowReplaced
<1> QED
  BY <1>7 DEF G

\* The two counting properties in these terms.
LEMMA CountsUnfold ==
  ASSUME NEW F \in Descriptors, NEW c \in [FDEntries -> Files \cup {NULL}],
         NEW f \in Files
  PROVE  UNION {Refs(F, e) : e \in {x \in FDEntries : c[x] = f}} = Reach(F, c, f)
<1>1. \A r \in Pairs : F[r[1]][r[2]] \in FDEntries \cup {NULL}
  BY DEF Pairs, Descriptors, DescriptorRows
<1>2. NULL \notin FDEntries
  BY NullAssumption
<1> QED
  BY <1>1, <1>2 DEF Refs, Reach

\* What the invariant says of entries and control blocks, in these terms.
LEMMA CountsHold ==
  ASSUME FileTypeOK, EntriesCounted, FilesCounted
  PROVE  /\ \A e \in FDEntries : /\ open_count[e] = Cardinality(Refs(file, e))
                                 /\ fcb[e] = NULL <=> Refs(file, e) = {}
         /\ \A f \in Files :
              fcb_open_count[f] = Cardinality(Reach(file, fcb, f))
<1>1. \A e : References(e) = Refs(file, e)
  BY DEF References, Refs, Pairs
<1>2. ASSUME NEW f \in Files
      PROVE  fcb_open_count[f] = Cardinality(Reach(file, fcb, f))
  <2>1. UNION {References(e) : e \in {x \in FDEntries : fcb[x] = f}} =
          UNION {Refs(file, e) : e \in {x \in FDEntries : fcb[x] = f}}
    BY <1>1
  <2> QED
    BY <2>1, CountsUnfold DEF FilesCounted, FileTypeOK
<1> QED
  BY <1>1, <1>2 DEF EntriesCounted

\* And the other way round, for the state after a step.
LEMMA CountsSuffice ==
  ASSUME FileTypeOK',
         \A e \in FDEntries : open_count'[e] = Cardinality(Refs(file', e)),
         \A e \in FDEntries : fcb'[e] = NULL <=> Refs(file', e) = {},
         \A f \in Files : fcb_open_count'[f] = Cardinality(Reach(file', fcb', f))
  PROVE  EntriesCounted' /\ FilesCounted'
<1>1. \A e : References(e)' = Refs(file', e)
  BY DEF References, Refs, Pairs
<1>2. EntriesCounted'
  BY <1>1 DEF EntriesCounted
<1>3. ASSUME NEW f \in Files
      PROVE  fcb_open_count'[f] =
               Cardinality(UNION {References(e)' : e \in {x \in FDEntries : fcb'[x] = f}})
  <2>1. UNION {References(e)' : e \in {x \in FDEntries : fcb'[x] = f}} =
          UNION {Refs(file', e) : e \in {x \in FDEntries : fcb'[x] = f}}
    BY <1>1
  <2> QED
    BY <2>1, CountsUnfold DEF FileTypeOK
<1> QED
  BY <1>2, <1>3 DEF FilesCounted

\* An open descriptor leads to an entry and on to a file.
LEMMA OpenDescriptor ==
  ASSUME FileInv, NEW p \in Slots, NEW d \in Fds, file[p][d] # NULL
  PROVE  /\ file[p][d] \in FDEntries /\ fcb[file[p][d]] \in Files
         /\ open_count[file[p][d]] > 0 /\ fcb_open_count[fcb[file[p][d]]] > 0
<1>0. /\ \A e \in FDEntries : /\ open_count[e] = Cardinality(Refs(file, e))
                              /\ fcb[e] = NULL <=> Refs(file, e) = {}
      /\ \A e \in Files : fcb_open_count[e] = Cardinality(Reach(file, fcb, e))
  <2>1. FileTypeOK /\ EntriesCounted /\ FilesCounted
    BY DEF FileInv
  <2> QED
    BY <2>1, CountsHold
<1> DEFINE e == file[p][d]
           f == fcb[e]
<1>1. e \in FDEntries
  BY DEF FileInv, FileTypeOK, Descriptors, DescriptorRows
<1>2. <<p, d>> \in Refs(file, e)
  BY DEF Refs, Pairs
<1>3. f \in Files
  <2>1. fcb[e] # NULL
    BY <1>0, <1>1, <1>2
  <2> QED
    BY <1>1, <2>1 DEF FileInv, FileTypeOK
<1>4. <<p, d>> \in Reach(file, fcb, f)
  BY DEF Reach, Pairs
<1>5. Refs(file, e) \in SUBSET Pairs /\ Reach(file, fcb, f) \in SUBSET Pairs
  BY DEF Refs, Reach
<1> HIDE DEF e, f
<1>6. Cardinality(Refs(file, e)) > 0 /\ Cardinality(Reach(file, fcb, f)) > 0
  BY <1>2, <1>4, <1>5, FinitelyMany, FS_EmptySet
<1>7. open_count[e] > 0 /\ fcb_open_count[f] > 0
  BY <1>0, <1>1, <1>3, <1>6
<1> QED
  BY <1>1, <1>3, <1>7 DEF e, f

\* The search loops of Open return a free index when there is one.
LEMMA LeastFound == ASSUME NEW S, S \subseteq Nat, S # {} PROVE Least(S) \in S
BY LeastNatural DEF Least

-----------------------------------------------------------------------------
(* Steps that leave the tables alone.                                      *)

\* Every step is a step of the process manager, or leaves it alone.
LEMMA FileStepIsStep == [FileNext]_allVars => [Next]_vars
BY DEF FileNext, allVars, HostWrites, Open, Exec, Close, Read, OpenFails,
       ExecFails, ForkSharesFiles, ForkFails, WaitClosesFiles, Next, Interrupt,
       UserStep, KernelLoop, SysFork, SysExit

\* Only Fork and Wait put slots to use or out of it.
LEMMA SlotsKept ==
  ASSUME SchedulerInv,
         \/ TimerInterrupt \/ SysExit \/ WaitSleeps \/ WaitSpins
         \/ ForkFailsEarly \/ ForkFailsInSetupKVM \/ UNCHANGED vars
         \/ \E p \in WaitPids : SysWait(p)
  PROVE  \A p \in Slots : state'[p] \in {"UNUSED", "INITIALIZED"} =>
                             state[p] \in {"UNUSED", "INITIALIZED"}
<1> USE DEF SchedulerInv
<1>1. CASE TimerInterrupt
  BY <1>1, TimerLists DEF SameSlotsInUse
<1>2. CASE SysExit
  BY <1>2, ExitLists DEF SysExit, UserMode, SameSlotsInUse
<1>3. CASE WaitSleeps
  <2>1. current_proc # IDLE
    BY <1>3, CallerIsUser DEF WaitSleeps
  <2> QED
    BY <1>3, <2>1, SleepLists DEF WaitSleeps, SameSlotsInUse
<1>4. CASE \/ WaitSpins \/ ForkFailsEarly \/ ForkFailsInSetupKVM
           \/ UNCHANGED vars \/ \E p \in WaitPids : SysWait(p)
  BY <1>4 DEF WaitSpins, ForkFailsEarly, ForkFailsInSetupKVM, SysWait, Enter,
              vars, procVars
<1> QED
  BY <1>1, <1>2, <1>3, <1>4

\* A step that leaves the tables alone keeps the invariant.
LEMMA TablesKept ==
  ASSUME FileInv, SchedulerInv', UNCHANGED fileVars,
         \A p \in Slots : state'[p] \in {"UNUSED", "INITIALIZED"} =>
           \A d \in Fds : file[p][d] = NULL
  PROVE  FileInv'
<1>1. UNCHANGED <<file, fcb, position, open_count, fcb_open_count, file_size,
                  disk_size>>
  BY DEF fileVars, fdVars, fcbVars
<1>2. \A e : References(e)' = References(e)
  BY <1>1 DEF References
<1> QED
  BY <1>1, <1>2 DEF FileInv, FileTypeOK, FreeSlotsHoldNothing, EntriesCounted,
                    FilesCounted, PositionInFile

-----------------------------------------------------------------------------
(* Open and Exec.                                                          *)

\* Filling in a control block that nobody has open disturbs no reader, and the
\* block of f then holds a size.
LEMMA FillIsSafe ==
  ASSUME FileInv, NEW f \in Files, FillFCB(f)
  PROVE  /\ file_size' \in [Files -> Nat]
         /\ \A e \in FDEntries : fcb[e] # NULL =>
              file_size'[fcb[e]] = file_size[fcb[e]]
<1>1. disk_size[f] \in Nat
  BY FileAssumption DEF FileInv, FileTypeOK
<1>2. file_size' \in [Files -> Nat]
  BY <1>1 DEF FillFCB, FileInv, FileTypeOK
<1>3. ASSUME NEW e \in FDEntries, fcb[e] # NULL, fcb[e] = f
      PROVE  fcb_open_count[f] > 0
  <2>1. Refs(file, e) # {}
    BY <1>3, CountsHold DEF FileInv
  <2>2. PICK p \in Slots, d \in Fds : file[p][d] = e
    BY <2>1 DEF Refs, Pairs
  <2>3. file[p][d] # NULL
    BY <1>3, <2>2, NullAssumption
  <2> QED
    BY <1>3, <2>2, <2>3, OpenDescriptor
<1>4. ASSUME NEW e \in FDEntries, fcb[e] # NULL
      PROVE  file_size'[fcb[e]] = file_size[fcb[e]]
  BY <1>3, <1>4 DEF FillFCB, FileInv, FileTypeOK
<1> QED
  BY <1>2, <1>4

\* A free entry is pointed to by nobody.
LEMMA FreeEntryUnused ==
  ASSUME FileInv, FreeEntries # {}
  PROVE  /\ Least(FreeEntries) \in FDEntries /\ fcb[Least(FreeEntries)] = NULL
         /\ open_count[Least(FreeEntries)] = 0
         /\ \A p \in Slots, d \in Fds : file[p][d] # Least(FreeEntries)
<1>1. FreeEntries \subseteq FDEntries /\ FreeEntries \subseteq Nat
  BY FileAssumption DEF FreeEntries
<1>2. PICK e \in FreeEntries : e = Least(FreeEntries)
  BY <1>1, LeastFound
<1>3. e \in FDEntries /\ fcb[e] = NULL
  BY <1>2 DEF FreeEntries
<1>4. Refs(file, e) = {} /\ open_count[e] = Cardinality(Refs(file, e))
  BY <1>3, CountsHold DEF FileInv
<1>5. open_count[e] = 0
  BY <1>4, FS_EmptySet
<1>6. ASSUME NEW p \in Slots, NEW d \in Fds, file[p][d] = e PROVE FALSE
  <2>1. <<p, d>> \in Refs(file, e)
    BY <1>6 DEF Refs, Pairs
  <2> QED
    BY <1>4, <2>1
<1> QED
  BY <1>2, <1>3, <1>5, <1>6

\* What a step has to do to the tables when it gives process p the row g of
\* descriptors: count the descriptors gone and the new ones, give back an entry
\* with its last user, and leave the file of the other entries alone.
NewRow(p, g, c) ==
  /\ file' = [file EXCEPT ![p] = g]
  /\ \A e \in FDEntries :
       /\ open_count'[e] = open_count[e] - Cardinality(RowRefs(file[p], e))
                             + Cardinality(RowRefs(g, e))
       /\ fcb'[e] = NULL <=> open_count'[e] = 0
       /\ fcb[e] # NULL => fcb'[e] \in {fcb[e], NULL}
  /\ \A d \in Fds : g[d] # NULL => fcb'[g[d]] \in {c[g[d]], NULL}
  /\ \A f \in Files :
       fcb_open_count'[f] = fcb_open_count[f]
         - Cardinality(RowReach(file[p], fcb, f)) + Cardinality(RowReach(g, c, f))

\* Such a step keeps both counts right.
LEMMA NewRowCounts ==
  ASSUME FileInv, FileTypeOK', NEW p \in Slots, NEW g \in DescriptorRows, NEW c,
         NewRow(p, g, c)
  PROVE  EntriesCounted' /\ FilesCounted'
<1>1. /\ \A e \in FDEntries : /\ open_count[e] = Cardinality(Refs(file, e))
                              /\ fcb[e] = NULL <=> Refs(file, e) = {}
      /\ \A f \in Files : fcb_open_count[f] = Cardinality(Reach(file, fcb, f))
  <2>1. FileTypeOK /\ EntriesCounted /\ FilesCounted
    BY DEF FileInv
  <2> QED
    BY <2>1, CountsHold
<1>2. file \in Descriptors
  BY DEF FileInv, FileTypeOK
<1>3. /\ \A q \in Slots : file'[q] = IF q = p THEN g ELSE file[q]
      /\ file' \in Descriptors
  BY <1>2 DEF Descriptors, NewRow
<1>4. \A e \in FDEntries : open_count'[e] = Cardinality(Refs(file', e))
  <2> SUFFICES ASSUME NEW e \in FDEntries
               PROVE  open_count'[e] = Cardinality(Refs(file', e))
    OBVIOUS
  <2>1. Cardinality(Refs([file EXCEPT ![p] = g], e)) = Cardinality(Refs(file, e))
          - Cardinality(RowRefs(file[p], e)) + Cardinality(RowRefs(g, e))
    BY <1>2, RowRefsCount
  <2>2. Cardinality(Refs(file', e)) = Cardinality(Refs([file EXCEPT ![p] = g], e))
    BY Zenon DEF NewRow
  <2> QED
    BY <1>1, <2>1, <2>2 DEF NewRow
<1>5. \A e \in FDEntries : fcb'[e] = NULL <=> Refs(file', e) = {}
  <2> SUFFICES ASSUME NEW e \in FDEntries
               PROVE  fcb'[e] = NULL <=> Refs(file', e) = {}
    OBVIOUS
  <2>1. Refs(file', e) \in SUBSET Pairs
    BY DEF Refs
  <2>2. Cardinality(Refs(file', e)) = 0 <=> Refs(file', e) = {}
    BY <2>1, FinitelyMany, FS_EmptySet
  <2> QED
    BY <1>4, <2>2 DEF NewRow
<1>6. ASSUME NEW r \in Pairs, file'[r[1]][r[2]] # NULL
      PROVE  file'[r[1]][r[2]] \in FDEntries /\ fcb'[file'[r[1]][r[2]]] # NULL
  <2>1. file'[r[1]][r[2]] \in FDEntries
    BY <1>3, <1>6 DEF Pairs, Descriptors, DescriptorRows
  <2>2. r \in Refs(file', file'[r[1]][r[2]])
    BY DEF Refs
  <2> QED
    BY <1>5, <2>1, <2>2
<1>7. ASSUME NEW r \in Pairs, r[1] # p, file[r[1]][r[2]] # NULL
      PROVE  fcb'[file[r[1]][r[2]]] = fcb[file[r[1]][r[2]]]
  <2>1. file'[r[1]][r[2]] = file[r[1]][r[2]]
    BY <1>3, <1>7 DEF Pairs
  <2>2. file[r[1]][r[2]] \in FDEntries /\ fcb'[file[r[1]][r[2]]] # NULL
    BY <1>6, <1>7, <2>1
  <2>3. r \in Refs(file, file[r[1]][r[2]])
    BY DEF Refs
  <2>4. fcb[file[r[1]][r[2]]] # NULL
    BY <1>1, <2>2, <2>3
  <2> QED
    BY <2>2, <2>4 DEF NewRow
<1>8. ASSUME NEW d \in Fds, g[d] # NULL PROVE fcb'[g[d]] = c[g[d]]
  <2>1. <<p, d>> \in Pairs /\ file'[<<p, d>>[1]][<<p, d>>[2]] = g[d]
    BY <1>3 DEF Pairs
  <2>2. fcb'[g[d]] # NULL
    BY <1>6, <1>8, <2>1
  <2> QED
    BY <1>8, <2>2 DEF NewRow
<1>9. ASSUME NEW f \in Files
      PROVE  fcb_open_count'[f] = Cardinality(Reach(file', fcb', f))
  <2>1. PICK c2 : c2 = fcb'
    OBVIOUS
  <2>2. SameFiles(file, p, fcb, c2)
    BY <1>7, <2>1 DEF SameFiles
  <2>3. Cardinality(Reach([file EXCEPT ![p] = g], c2, f)) =
          Cardinality(Reach(file, fcb, f)) - Cardinality(RowReach(file[p], fcb, f))
            + Cardinality(RowReach(g, c2, f))
    BY <1>2, <2>2, RowReachCount
  <2>4. RowReach(g, c2, f) = RowReach(g, c, f)
    BY <1>8, <2>1 DEF RowReach
  <2>5. Cardinality(Reach(file', fcb', f)) =
          Cardinality(Reach([file EXCEPT ![p] = g], c2, f))
    BY <2>1, Zenon DEF NewRow
  <2> QED
    BY <1>1, <2>3, <2>4, <2>5 DEF NewRow
<1> QED
  BY <1>4, <1>5, <1>9, CountsSuffice

\* What the counts of one entry say.
LEMMA EntryCounts ==
  ASSUME FileInv, NEW e \in FDEntries
  PROVE  /\ open_count[e] \in Nat
         /\ fcb[e] = NULL <=> open_count[e] = 0
         /\ \A p \in Slots, d \in Fds : file[p][d] = e => fcb[e] # NULL
<1>1. open_count[e] = Cardinality(Refs(file, e)) /\ (fcb[e] = NULL <=> Refs(file, e) = {})
  BY CountsHold DEF FileInv
<1>2. Refs(file, e) \in SUBSET Pairs
  BY DEF Refs
<1>3. Cardinality(Refs(file, e)) = 0 <=> Refs(file, e) = {}
  BY <1>2, FinitelyMany, FS_EmptySet
<1>4. ASSUME NEW p \in Slots, NEW d \in Fds, file[p][d] = e PROVE fcb[e] # NULL
  <2>1. <<p, d>> \in Refs(file, e)
    BY <1>4 DEF Refs, Pairs
  <2> QED
    BY <1>1, <2>1
<1> QED
  BY <1>1, <1>2, <1>3, <1>4, FinitelyMany

\* Open keeps the invariant.
LEMMA OpenInv ==
  ASSUME FileInv, SchedulerInv', NEW f \in Files, Open(f)
  PROVE  FileInv'
<1> DEFINE e == Least(FreeEntries)
           d == Least(FreeFds)
           p == current_proc
           g == [file[p] EXCEPT ![d] = e]
<1>1. /\ UserMode /\ FreeFds # {} /\ FreeEntries # {}
      /\ fcb_open_count' = [fcb_open_count EXCEPT ![f] = @ + 1]
      /\ fcb' = [fcb EXCEPT ![e] = f]
      /\ position' = [position EXCEPT ![e] = 0]
      /\ open_count' = [open_count EXCEPT ![e] = 1]
      /\ file' = [file EXCEPT ![p][d] = e]
      /\ FillFCB(f) /\ UNCHANGED <<state, disk_size>>
  BY DEF Open, vars, procVars
<1>2. /\ e \in FDEntries /\ fcb[e] = NULL /\ open_count[e] = 0
      /\ \A q \in Slots, x \in Fds : file[q][x] # e
  BY <1>1, FreeEntryUnused
<1>3. d \in Fds /\ file[p][d] = NULL
  <2>1. FreeFds \subseteq Nat
    BY FileAssumption DEF FreeFds
  <2>2. Least(FreeFds) \in FreeFds
    BY <1>1, <2>1, LeastFound
  <2> QED
    BY <2>2 DEF FreeFds
<1>4. p \in Slots /\ state[p] = "RUNNING"
  BY CurrentRuns DEF FileInv, SchedulerInv
<1>5. f # NULL /\ e # NULL
  BY <1>2, NullAssumption
<1> HIDE DEF e, d
<1>6. /\ file \in Descriptors /\ file[p] \in DescriptorRows
      /\ fcb \in [FDEntries -> Files \cup {NULL}]
      /\ open_count \in [FDEntries -> Int] /\ fcb_open_count \in [Files -> Int]
      /\ position \in [FDEntries -> Nat] /\ disk_size \in [Files -> FileSizes]
  BY <1>4 DEF FileInv, FileTypeOK, Descriptors
<1>7. g \in DescriptorRows /\ \A x \in Fds : g[x] = IF x = d THEN e ELSE file[p][x]
  BY <1>2, <1>3, <1>6 DEF DescriptorRows
<1>8. file' = [file EXCEPT ![p] = g]
  BY <1>1
<1> HIDE DEF g
<1>9. file' \in Descriptors
  BY <1>4, <1>6, <1>7, <1>8 DEF Descriptors
<1>10. FileTypeOK'
  BY <1>1, <1>2, <1>6, <1>9, FillIsSafe DEF FileTypeOK
<1>11. FreeSlotsHoldNothing'
  BY <1>1, <1>4, <1>6, <1>8 DEF FreeSlotsHoldNothing, FileInv, Descriptors
<1>12. PositionInFile'
  <2>1. /\ file_size' \in [Files -> Nat]
        /\ \A x \in FDEntries : fcb[x] # NULL =>
             file_size'[fcb[x]] = file_size[fcb[x]]
    BY <1>1, FillIsSafe
  <2> QED
    BY <1>1, <1>2, <1>6, <2>1 DEF PositionInFile, FileInv
<1>13. ASSUME NEW x \in FDEntries
       PROVE  /\ open_count'[x] = open_count[x] - Cardinality(RowRefs(file[p], x))
                                    + Cardinality(RowRefs(g, x))
              /\ fcb'[x] = NULL <=> open_count'[x] = 0
              /\ fcb[x] # NULL => fcb'[x] \in {fcb[x], NULL}
  <2>1. CASE x = e
    <3>1. RowRefs(file[p], x) = {} /\ RowRefs(g, x) = {d}
      BY <1>2, <1>3, <1>4, <1>7, <2>1 DEF RowRefs
    <3>2. Cardinality(RowRefs(file[p], x)) = 0 /\ Cardinality(RowRefs(g, x)) = 1
      BY <3>1, FS_EmptySet, FS_Singleton
    <3> QED
      BY <1>1, <1>2, <1>5, <1>6, <2>1, <3>2
  <2>2. CASE x # e
    <3>1. RowRefs(g, x) = RowRefs(file[p], x) /\ RowRefs(g, x) \in SUBSET Fds
      BY <1>3, <1>7, <2>2, NullAssumption DEF RowRefs
    <3>2. Cardinality(RowRefs(g, x)) \in Nat
      BY <3>1, FinitelyMany
    <3>3. open_count[x] \in Nat /\ (fcb[x] = NULL <=> open_count[x] = 0)
      BY EntryCounts
    <3>4. open_count'[x] = open_count[x] /\ fcb'[x] = fcb[x]
      BY <1>1, <1>6, <2>2
    <3> QED
      BY <3>1, <3>2, <3>3, <3>4
  <2> QED
    BY <2>1, <2>2
<1>14. ASSUME NEW x \in Files
       PROVE  fcb_open_count'[x] = fcb_open_count[x]
                - Cardinality(RowReach(file[p], fcb, x)) + Cardinality(RowReach(g, fcb', x))
  <2>1. RowReach(g, fcb', x) = IF x = f THEN RowReach(file[p], fcb, x) \cup {d}
                               ELSE RowReach(file[p], fcb, x)
    BY <1>1, <1>2, <1>3, <1>4, <1>5, <1>6, <1>7 DEF RowReach, DescriptorRows
  <2>2. d \notin RowReach(file[p], fcb, x) /\ RowReach(file[p], fcb, x) \in SUBSET Fds
    BY <1>3 DEF RowReach
  <2>3. Cardinality(RowReach(g, fcb', x)) = IF x = f
          THEN Cardinality(RowReach(file[p], fcb, x)) + 1
          ELSE Cardinality(RowReach(file[p], fcb, x))
    BY <2>1, <2>2, FinitelyMany, FS_AddElement
  <2>4. Cardinality(RowReach(file[p], fcb, x)) \in Nat
    BY <2>2, FinitelyMany
  <2> QED
    BY <1>1, <1>6, <2>3, <2>4
<1>15. NewRow(p, g, fcb')
  BY <1>8, <1>13, <1>14 DEF NewRow
<1> HIDE DEF p
<1>16. EntriesCounted' /\ FilesCounted'
  BY <1>4, <1>7, <1>10, <1>15, NewRowCounts
<1> QED
  BY <1>10, <1>11, <1>12, <1>16 DEF FileInv

\* A step that leaves descriptors, entries and their counts alone, whatever it
\* does to positions and sizes, keeps both counts right.
LEMMA CountsKept ==
  ASSUME FileInv, UNCHANGED <<file, fcb, open_count, fcb_open_count>>
  PROVE  EntriesCounted' /\ FilesCounted'
<1>1. \A e : References(e)' = References(e)
  BY DEF References
<1>2. EntriesCounted'
  BY <1>1 DEF FileInv, EntriesCounted
<1>3. \A f \in Files :
        UNION {References(e)' : e \in {x \in FDEntries : fcb'[x] = f}} =
          UNION {References(e) : e \in {x \in FDEntries : fcb[x] = f}}
  BY <1>1
<1>4. FilesCounted'
  BY <1>3 DEF FileInv, FilesCounted
<1> QED
  BY <1>2, <1>4

\* Exec keeps the invariant.
LEMMA ExecInv ==
  ASSUME FileInv, SchedulerInv', NEW f \in Files, Exec(f)
  PROVE  FileInv'
<1> DEFINE e == Least(FreeEntries)
<1>1. /\ FreeEntries # {} /\ FillFCB(f)
      /\ position' = [position EXCEPT ![e] = file_size'[f]]
      /\ open_count' = [open_count EXCEPT ![e] = 0]
      /\ UNCHANGED <<state, file, fcb, fcb_open_count, disk_size>>
  BY DEF Exec, vars, procVars
<1>2. e \in FDEntries /\ fcb[e] = NULL /\ open_count[e] = 0
  BY <1>1, FreeEntryUnused
<1> HIDE DEF e
<1>3. UNCHANGED open_count
  BY <1>1, <1>2 DEF FileInv, FileTypeOK
<1>4. /\ file_size' \in [Files -> Nat]
      /\ \A x \in FDEntries : fcb[x] # NULL =>
           file_size'[fcb[x]] = file_size[fcb[x]]
  BY <1>1, FillIsSafe
<1>5. FileTypeOK' /\ FreeSlotsHoldNothing'
  BY <1>1, <1>3, <1>4 DEF FileInv, FileTypeOK, FreeSlotsHoldNothing
<1>6. PositionInFile'
  BY <1>1, <1>2, <1>4 DEF PositionInFile, FileInv, FileTypeOK
<1> QED
  BY <1>1, <1>3, <1>5, <1>6, CountsKept DEF FileInv

\* Read moves the position on, at most to the end of the file.
LEMMA ReadInv ==
  ASSUME FileInv, SchedulerInv', NEW d \in Fds, NEW n \in ReadSizes, Read(d, n)
  PROVE  FileInv'
<1> DEFINE e == file[current_proc][d]
<1>1. /\ e # NULL
      /\ position' = [position EXCEPT ![e] =
                        @ + ReadSize(@, n, file_size[fcb[e]])]
      /\ UNCHANGED <<state, file, fcb, open_count, fcb_open_count, file_size,
                     disk_size>>
  BY DEF Read, vars, procVars, fcbVars
<1>2. current_proc \in Slots /\ n \in Nat
  BY CurrentRuns, FileAssumption DEF FileInv, SchedulerInv
<1>3. e \in FDEntries /\ fcb[e] \in Files
  BY <1>1, <1>2, OpenDescriptor
<1> HIDE DEF e
<1>4. /\ position[e] \in Nat /\ file_size[fcb[e]] \in Nat
      /\ position[e] <= file_size[fcb[e]]
  BY <1>3, NullAssumption DEF FileInv, FileTypeOK, PositionInFile
<1>5. /\ position'[e] = position[e] + ReadSize(position[e], n, file_size[fcb[e]])
      /\ \A x \in FDEntries \ {e} : position'[x] = position[x]
  BY <1>1, <1>3 DEF FileInv, FileTypeOK
<1>6. position'[e] \in Nat /\ position'[e] <= file_size[fcb[e]]
  BY <1>2, <1>4, <1>5 DEF ReadSize
<1>7. position' \in [FDEntries -> Nat]
  BY <1>1, <1>3, <1>5, <1>6 DEF FileInv, FileTypeOK
<1>8. FileTypeOK' /\ FreeSlotsHoldNothing'
  BY <1>1, <1>7 DEF FileInv, FileTypeOK, FreeSlotsHoldNothing
<1>9. PositionInFile'
  BY <1>1, <1>5, <1>6 DEF PositionInFile, FileInv
<1> QED
  BY <1>1, <1>8, <1>9, CountsKept DEF FileInv

\* What the host writes reaches a control block only when it is filled in.
LEMMA HostInv ==
  ASSUME FileInv, SchedulerInv', NEW f \in Files, NEW n \in FileSizes,
         HostWrites(f, n)
  PROVE  FileInv'
<1>1. /\ disk_size' = [disk_size EXCEPT ![f] = n]
      /\ UNCHANGED <<state, file, fcb, position, open_count, fcb_open_count,
                     file_size>>
  BY DEF HostWrites, vars, procVars, fdVars, fcbVars
<1>2. FileTypeOK' /\ FreeSlotsHoldNothing' /\ PositionInFile'
  BY <1>1 DEF FileInv, FileTypeOK, FreeSlotsHoldNothing, PositionInFile
<1> QED
  BY <1>1, <1>2, CountsKept DEF FileInv

-----------------------------------------------------------------------------
(* Close, and the process manager's part.                                  *)

\* Close keeps the invariant.
LEMMA CloseInv ==
  ASSUME FileInv, SchedulerInv', NEW d \in Fds, Close(d)
  PROVE  FileInv'
<1> DEFINE p == current_proc
           e == file[p][d]
           f == fcb[e]
           g == [file[p] EXCEPT ![d] = NULL]
<1>1. /\ e # NULL
      /\ fcb_open_count' = [fcb_open_count EXCEPT ![f] = @ - 1]
      /\ open_count' = [open_count EXCEPT ![e] = @ - 1]
      /\ fcb' = [fcb EXCEPT ![e] = IF open_count'[e] = 0 THEN NULL ELSE @]
      /\ file' = [file EXCEPT ![p][d] = NULL]
      /\ UNCHANGED <<state, position, file_size, disk_size>>
  BY DEF Close, vars, procVars
<1>2. p \in Slots /\ state[p] = "RUNNING"
  BY CurrentRuns DEF FileInv, SchedulerInv
<1>3. /\ e \in FDEntries /\ f \in Files /\ open_count[e] > 0
  BY <1>1, <1>2, OpenDescriptor
<1>4. /\ file \in Descriptors /\ file[p] \in DescriptorRows
      /\ fcb \in [FDEntries -> Files \cup {NULL}]
      /\ open_count \in [FDEntries -> Int] /\ fcb_open_count \in [Files -> Int]
      /\ position \in [FDEntries -> Nat] /\ disk_size \in [Files -> FileSizes]
      /\ file_size \in [Files -> Nat]
  BY <1>2 DEF FileInv, FileTypeOK, Descriptors
<1>5. g \in DescriptorRows /\ \A x \in Fds : g[x] = IF x = d THEN NULL ELSE file[p][x]
  BY <1>4 DEF DescriptorRows
<1>6. file' = [file EXCEPT ![p] = g] /\ file[p][d] = e /\ fcb[e] = f
  BY <1>1
<1> HIDE DEF g, e, f
<1>7. FileTypeOK'
  <2>1. file' \in Descriptors
    BY <1>2, <1>4, <1>5, <1>6 DEF Descriptors
  <2> QED
    BY <1>1, <1>3, <1>4, <2>1 DEF FileTypeOK
<1>8. FreeSlotsHoldNothing'
  BY <1>1, <1>2, <1>4, <1>6 DEF FreeSlotsHoldNothing, FileInv, Descriptors
<1>9. PositionInFile'
  BY <1>1, <1>3, <1>4 DEF PositionInFile, FileInv
<1>10. ASSUME NEW x \in FDEntries
       PROVE  /\ open_count'[x] = open_count[x] - Cardinality(RowRefs(file[p], x))
                                    + Cardinality(RowRefs(g, x))
              /\ fcb'[x] = NULL <=> open_count'[x] = 0
              /\ fcb'[x] \in {fcb[x], NULL}
  <2>1. /\ RowRefs(g, x) = IF x = e THEN RowRefs(file[p], x) \ {d}
                           ELSE RowRefs(file[p], x)
        /\ RowRefs(file[p], x) \in SUBSET Fds
        /\ x = e => d \in RowRefs(file[p], x)
    BY <1>5, <1>6, NullAssumption DEF RowRefs
  <2>2. /\ Cardinality(RowRefs(g, x)) = IF x = e THEN Cardinality(RowRefs(file[p], x)) - 1
                                        ELSE Cardinality(RowRefs(file[p], x))
        /\ Cardinality(RowRefs(file[p], x)) \in Nat
    BY <2>1, FinitelyMany, FS_RemoveElement
  <2>3. open_count[x] \in Nat /\ (fcb[x] = NULL <=> open_count[x] = 0)
    BY EntryCounts
  <2>4. open_count'[x] = IF x = e THEN open_count[x] - 1 ELSE open_count[x]
    BY <1>1, <1>4
  <2>5. fcb'[x] = IF x = e /\ open_count'[x] = 0 THEN NULL ELSE fcb[x]
    BY <1>1, <1>4
  <2> QED
    BY <1>3, <2>2, <2>3, <2>4, <2>5
<1>11. ASSUME NEW x \in Files
       PROVE  fcb_open_count'[x] = fcb_open_count[x]
                - Cardinality(RowReach(file[p], fcb, x)) + Cardinality(RowReach(g, fcb, x))
  <2>1. /\ RowReach(g, fcb, x) = IF x = f THEN RowReach(file[p], fcb, x) \ {d}
                                 ELSE RowReach(file[p], fcb, x)
        /\ RowReach(file[p], fcb, x) \in SUBSET Fds
        /\ x = f => d \in RowReach(file[p], fcb, x)
    BY <1>1, <1>5, <1>6 DEF RowReach
  <2>2. /\ Cardinality(RowReach(g, fcb, x)) = IF x = f
             THEN Cardinality(RowReach(file[p], fcb, x)) - 1
             ELSE Cardinality(RowReach(file[p], fcb, x))
        /\ Cardinality(RowReach(file[p], fcb, x)) \in Nat
    BY <2>1, FinitelyMany, FS_RemoveElement
  <2> QED
    BY <1>1, <1>4, <2>2
<1>12. \A x \in Fds : g[x] # NULL => fcb'[g[x]] \in {fcb[g[x]], NULL}
  BY <1>5, <1>10 DEF DescriptorRows
<1>13. NewRow(p, g, fcb)
  BY <1>6, <1>10, <1>11, <1>12 DEF NewRow
<1> HIDE DEF p
<1>14. EntriesCounted' /\ FilesCounted'
  BY <1>2, <1>5, <1>7, <1>13, NewRowCounts
<1> QED
  BY <1>7, <1>8, <1>9, <1>14 DEF FileInv

\* Fork: the child's row was empty and is now the parent's.
LEMMA ForkSharesInv ==
  ASSUME FileInv, SchedulerInv', ForkSharesFiles
  PROVE  FileInv'
<1> DEFINE p == current_proc
           g == file[p]
<1>1. PICK child \in Slots : child = FindFreeProcessSlot /\ state[child] = "UNUSED"
  BY FreeSlotFound DEF ForkSharesFiles, ForkSucceeds, FreeSlots
<1>2. /\ file' = [file EXCEPT ![child] = g]
      /\ open_count' = [e \in FDEntries |-> open_count[e] + Users(p, e)]
      /\ fcb_open_count' = [f \in Files |-> fcb_open_count[f]
           + Cardinality({d \in Fds : g[d] # NULL /\ fcb[g[d]] = f})]
      /\ state' = [state EXCEPT ![child] = "READY"]
      /\ UNCHANGED <<fcb, position, file_size, disk_size>>
  BY <1>1 DEF ForkSharesFiles, ForkSucceeds
<1>3. p \in Slots
  BY CurrentRuns DEF FileInv, SchedulerInv
<1>4. /\ file \in Descriptors /\ g \in DescriptorRows
      /\ open_count \in [FDEntries -> Int] /\ fcb_open_count \in [Files -> Int]
      /\ \A x \in Fds : file[child][x] = NULL
      /\ state \in [Slots -> ProcessState]
  BY <1>1, <1>3 DEF FileInv, FileTypeOK, Descriptors, FreeSlotsHoldNothing,
                    SchedulerInv, TypeOK
<1>5. \A e : Users(p, e) = Cardinality(RowRefs(g, e))
  BY DEF Users, RowRefs
<1>6. \A f : Cardinality({d \in Fds : g[d] # NULL /\ fcb[g[d]] = f}) =
               Cardinality(RowReach(g, fcb, f))
  BY DEF RowReach
<1> HIDE DEF p
<1>7. /\ \A e : RowRefs(g, e) \in SUBSET Fds
      /\ \A f : RowReach(g, fcb, f) \in SUBSET Fds
  BY DEF RowRefs, RowReach
<1> HIDE DEF g
<1>8. /\ \A e : Cardinality(RowRefs(g, e)) \in Nat
      /\ \A f : Cardinality(RowReach(g, fcb, f)) \in Nat
  BY <1>7, FinitelyMany
<1>9. FileTypeOK'
  <2>1. file' \in Descriptors
    BY <1>2, <1>4 DEF Descriptors
  <2>2. open_count' \in [FDEntries -> Int]
    <3>1. \A e \in FDEntries : open_count[e] + Users(p, e) \in Int
      BY <1>4, <1>5, <1>8
    <3> QED
      BY <1>2, <3>1
  <2>3. fcb_open_count' \in [Files -> Int]
    <3>1. \A f \in Files : fcb_open_count[f] + Cardinality(
            {d \in Fds : g[d] # NULL /\ fcb[g[d]] = f}) \in Int
      BY <1>4, <1>6, <1>8
    <3> QED
      BY <1>2, <3>1
  <2> QED
    BY <1>2, <2>1, <2>2, <2>3 DEF FileInv, FileTypeOK
<1>10. FreeSlotsHoldNothing'
  BY <1>1, <1>2, <1>4 DEF FreeSlotsHoldNothing, FileInv, Descriptors
<1>11. PositionInFile'
  BY <1>2 DEF PositionInFile, FileInv
<1>12. ASSUME NEW e \in FDEntries
       PROVE  /\ open_count'[e] = open_count[e] - Cardinality(RowRefs(file[child], e))
                                    + Cardinality(RowRefs(g, e))
              /\ fcb'[e] = NULL <=> open_count'[e] = 0
  <2>1. RowRefs(file[child], e) = {}
    BY <1>4, NullAssumption DEF RowRefs
  <2>2. Cardinality(RowRefs(file[child], e)) = 0
    BY <2>1, FS_EmptySet
  <2>3. open_count'[e] = open_count[e] + Cardinality(RowRefs(g, e))
    BY <1>2, <1>5
  <2>4. open_count[e] \in Nat /\ (fcb[e] = NULL <=> open_count[e] = 0)
    BY EntryCounts
  <2>5. fcb[e] = NULL => RowRefs(g, e) = {}
    BY <1>3, EntryCounts DEF RowRefs, g
  <2>6. fcb[e] = NULL => Cardinality(RowRefs(g, e)) = 0
    BY <2>5, FS_EmptySet
  <2> QED
    BY <1>2, <1>8, <2>2, <2>3, <2>4, <2>6
<1>13. ASSUME NEW f \in Files
       PROVE  fcb_open_count'[f] = fcb_open_count[f]
                - Cardinality(RowReach(file[child], fcb, f)) + Cardinality(RowReach(g, fcb, f))
  <2>1. RowReach(file[child], fcb, f) = {}
    BY <1>4 DEF RowReach
  <2>2. Cardinality(RowReach(file[child], fcb, f)) = 0
    BY <2>1, FS_EmptySet
  <2> QED
    BY <1>2, <1>4, <1>6, <1>8, <2>2
<1>14. NewRow(child, g, fcb)
  BY <1>2, <1>12, <1>13 DEF NewRow
<1>15. EntriesCounted' /\ FilesCounted'
  BY <1>4, <1>9, <1>14, NewRowCounts
<1> QED
  BY <1>9, <1>10, <1>11, <1>15 DEF FileInv

\* Wait: the killed process's row becomes empty and its slot free.
LEMMA WaitClosesInv ==
  ASSUME FileInv, SchedulerInv', WaitClosesFiles
  PROVE  FileInv'
<1> DEFINE g == [d \in Fds |-> NULL]
<1>1. PICK p \in Slots : /\ state[p] = "KILLED" /\ pid[p] = arg[current_proc]
                         /\ state' = [state EXCEPT ![p] = "UNUSED"]
  BY ReapedProcess DEF WaitClosesFiles, FileInv, SchedulerInv
<1>2. p = CHOOSE q \in Slots : Matches(q) /\ state[q] = "KILLED"
  <2>1. \A q \in Slots : Matches(q) /\ state[q] = "KILLED" => q = p
    BY <1>1 DEF Matches, FileInv, SchedulerInv, PidsDistinct
  <2>2. Matches(p)
    BY <1>1 DEF Matches
  <2> QED
    BY <1>1, <2>1, <2>2
<1>3. /\ open_count' = [e \in FDEntries |-> open_count[e] - Users(p, e)]
      /\ fcb' = [e \in FDEntries |->
                   IF Users(p, e) > 0 /\ open_count'[e] = 0 THEN NULL ELSE fcb[e]]
      /\ fcb_open_count' = [f \in Files |-> fcb_open_count[f]
           - Cardinality({d \in Fds : file[p][d] # NULL /\ fcb[file[p][d]] = f})]
      /\ file' = [file EXCEPT ![p] = g]
      /\ UNCHANGED <<position, file_size, disk_size>>
  BY <1>2 DEF WaitClosesFiles, DropUsers
<1>4. /\ file \in Descriptors /\ file[p] \in DescriptorRows
      /\ fcb \in [FDEntries -> Files \cup {NULL}]
      /\ open_count \in [FDEntries -> Int] /\ fcb_open_count \in [Files -> Int]
      /\ state \in [Slots -> ProcessState]
  BY <1>1 DEF FileInv, FileTypeOK, Descriptors, SchedulerInv, TypeOK
<1>5. \A e : Users(p, e) = Cardinality(RowRefs(file[p], e))
  BY DEF Users, RowRefs
<1>6. \A f : Cardinality({d \in Fds : file[p][d] # NULL /\ fcb[file[p][d]] = f}) =
               Cardinality(RowReach(file[p], fcb, f))
  BY DEF RowReach
<1>7. /\ \A e : RowRefs(file[p], e) \in SUBSET Fds
      /\ \A f : RowReach(file[p], fcb, f) \in SUBSET Fds
  BY DEF RowRefs, RowReach
<1>8. /\ \A e : Cardinality(RowRefs(file[p], e)) \in Nat
      /\ \A f : Cardinality(RowReach(file[p], fcb, f)) \in Nat
  BY <1>7, FinitelyMany
<1>9. g \in DescriptorRows /\ \A x \in Fds : g[x] = NULL
  BY DEF DescriptorRows
<1> HIDE DEF g
<1>10. FileTypeOK'
  <2>1. file' \in Descriptors
    BY <1>3, <1>4, <1>9 DEF Descriptors
  <2>2. open_count' \in [FDEntries -> Int]
    <3>1. \A e \in FDEntries : open_count[e] - Users(p, e) \in Int
      BY <1>4, <1>5, <1>8
    <3> QED
      BY <1>3, <3>1
  <2>3. fcb_open_count' \in [Files -> Int]
    <3>1. fcb_open_count' = [f \in Files |-> fcb_open_count[f]
                               - Cardinality(RowReach(file[p], fcb, f))]
      BY <1>3 DEF RowReach
    <3>2. \A f \in Files :
            fcb_open_count[f] - Cardinality(RowReach(file[p], fcb, f)) \in Int
      BY <1>4, <1>8
    <3> QED
      BY <3>1, <3>2
  <2>4. fcb' \in [FDEntries -> Files \cup {NULL}]
    BY <1>3, <1>4
  <2> QED
    BY <1>3, <2>1, <2>2, <2>3, <2>4 DEF FileInv, FileTypeOK
<1>11. FreeSlotsHoldNothing'
  BY <1>1, <1>3, <1>4, <1>9 DEF FreeSlotsHoldNothing, FileInv, Descriptors
<1>12. PositionInFile'
  BY <1>3 DEF PositionInFile, FileInv
<1>13. ASSUME NEW e \in FDEntries
       PROVE  /\ open_count'[e] = open_count[e] - Cardinality(RowRefs(file[p], e))
                                    + Cardinality(RowRefs(g, e))
              /\ fcb'[e] = NULL <=> open_count'[e] = 0
              /\ fcb'[e] \in {fcb[e], NULL}
  <2>1. RowRefs(g, e) = {}
    BY <1>9, NullAssumption DEF RowRefs
  <2>2. Cardinality(RowRefs(g, e)) = 0
    BY <2>1, FS_EmptySet
  <2>3. /\ open_count'[e] = open_count[e] - Cardinality(RowRefs(file[p], e))
        /\ fcb'[e] = IF Cardinality(RowRefs(file[p], e)) > 0 /\ open_count'[e] = 0
                     THEN NULL ELSE fcb[e]
    BY <1>3, <1>5
  <2>4. open_count[e] \in Nat /\ (fcb[e] = NULL <=> open_count[e] = 0)
    BY EntryCounts
  <2>5. fcb[e] = NULL => RowRefs(file[p], e) = {}
    BY EntryCounts DEF RowRefs
  <2>6. fcb[e] = NULL => Cardinality(RowRefs(file[p], e)) = 0
    BY <2>5, FS_EmptySet
  <2> QED
    BY <1>8, <2>2, <2>3, <2>4, <2>6
<1>14. ASSUME NEW f \in Files
       PROVE  fcb_open_count'[f] = fcb_open_count[f]
                - Cardinality(RowReach(file[p], fcb, f)) + Cardinality(RowReach(g, fcb, f))
  <2>1. RowReach(g, fcb, f) = {}
    BY <1>9 DEF RowReach
  <2>2. Cardinality(RowReach(g, fcb, f)) = 0
    BY <2>1, FS_EmptySet
  <2> QED
    BY <1>3, <1>4, <1>6, <1>8, <2>2
<1>15. NewRow(p, g, fcb)
  BY <1>3, <1>9, <1>13, <1>14 DEF NewRow
<1>16. EntriesCounted' /\ FilesCounted'
  BY <1>9, <1>10, <1>15, NewRowCounts
<1> QED
  BY <1>10, <1>11, <1>12, <1>16 DEF FileInv

-----------------------------------------------------------------------------
(* The theorems.                                                           *)

\* The tables are empty at first.
LEMMA FileInvInit == FileInit => FileInv
<1> SUFFICES ASSUME FileInit PROVE FileInv
  OBVIOUS
<1>1. SchedulerInv
  BY InvInit DEF FileInit
<1>2. FileTypeOK /\ FreeSlotsHoldNothing
  BY FileAssumption DEF FileInit, FileTypeOK, FreeSlotsHoldNothing, Descriptors,
                        DescriptorRows
<1>3. \A e \in FDEntries : References(e) = {}
  BY NullAssumption DEF FileInit, References
<1>4. EntriesCounted
  BY <1>3, FS_EmptySet DEF EntriesCounted, FileInit
<1>5. ASSUME NEW f \in Files
      PROVE  UNION {References(e) : e \in {x \in FDEntries : fcb[x] = f}} = {}
  BY <1>3
<1>6. FilesCounted
  BY <1>5, FS_EmptySet DEF FilesCounted, FileInit
<1>7. PositionInFile
  BY DEF PositionInFile, FileInit
<1> QED
  BY <1>1, <1>2, <1>4, <1>6, <1>7 DEF FileInv

\* Every step of the system keeps the invariant.
LEMMA FileInvStep == FileInv /\ [FileNext]_allVars => FileInv'
<1> SUFFICES ASSUME FileInv, [FileNext]_allVars PROVE FileInv'
  OBVIOUS
<1>1. SchedulerInv'
  BY FileStepIsStep, InvStep DEF FileInv
<1>2. ASSUME NEW f \in Files, NEW n \in FileSizes, HostWrites(f, n) PROVE FileInv'
  BY <1>1, <1>2, HostInv
<1>3. ASSUME NEW f \in Files, Open(f) PROVE FileInv'
  BY <1>1, <1>3, OpenInv
<1>4. ASSUME NEW f \in Files, Exec(f) PROVE FileInv'
  BY <1>1, <1>4, ExecInv
<1>5. ASSUME NEW d \in Fds, Close(d) PROVE FileInv'
  BY <1>1, <1>5, CloseInv
<1>6. ASSUME NEW d \in Fds, NEW n \in ReadSizes, Read(d, n) PROVE FileInv'
  BY <1>1, <1>6, ReadInv
<1>7. CASE ForkSharesFiles
  BY <1>1, <1>7, ForkSharesInv
<1>8. CASE WaitClosesFiles
  BY <1>1, <1>8, WaitClosesInv
<1>9. CASE ForkFailsInCopyUVM /\ UNCHANGED fileVars
  <2>1. PICK child \in Slots : child = FindFreeProcessSlot /\ state[child] = "UNUSED"
    BY <1>9, FreeSlotFound DEF ForkFailsInCopyUVM, FreeSlots
  <2>2. state' = [state EXCEPT ![child] = "INITIALIZED"]
    BY <1>9, <2>1 DEF ForkFailsInCopyUVM
  <2>3. \A p \in Slots : state'[p] \in {"UNUSED", "INITIALIZED"} =>
          \A d \in Fds : file[p][d] = NULL
    BY <2>1, <2>2 DEF FileInv, FreeSlotsHoldNothing, SchedulerInv, TypeOK
  <2> QED
    BY <1>1, <1>9, <2>3, TablesKept
<1>10. ASSUME \/ TimerInterrupt \/ SysExit \/ WaitSleeps \/ WaitSpins
              \/ ForkFailsEarly \/ ForkFailsInSetupKVM \/ UNCHANGED vars
              \/ \E p \in WaitPids : SysWait(p),
              UNCHANGED fileVars
       PROVE  FileInv'
  <2>1. \A p \in Slots : state'[p] \in {"UNUSED", "INITIALIZED"} =>
          state[p] \in {"UNUSED", "INITIALIZED"}
    BY <1>10, SlotsKept DEF FileInv
  <2>2. \A p \in Slots : state'[p] \in {"UNUSED", "INITIALIZED"} =>
          \A d \in Fds : file[p][d] = NULL
    BY <2>1 DEF FileInv, FreeSlotsHoldNothing
  <2> QED
    BY <1>1, <1>10, <2>2, TablesKept
<1>11. CASE OpenFails \/ UNCHANGED allVars
  BY <1>10, <1>11 DEF OpenFails, allVars
<1>12. CASE ExecFails
  BY <1>10, <1>12 DEF ExecFails, SysExit
<1>13. CASE ForkFails
  BY <1>9, <1>10, <1>13 DEF ForkFails
<1> QED
  BY <1>2, <1>3, <1>4, <1>5, <1>6, <1>7, <1>8, <1>10, <1>11, <1>12, <1>13
     DEF FileNext

\* The invariant holds in every reachable state.
THEOREM FileInvHolds == FileSpec => []FileInv
<1> QED
  BY FileInvInit, FileInvStep, PTL DEF FileSpec

\* Every entry counts its descriptors and is free exactly when there are none,
\* through any sequence of open, close, fork, exit and wait (CloseFile and
\* OpenFile in kernel/file.c, Fork and Wait in kernel/process.c).
THEOREM EntriesAlwaysCounted == FileSpec => []EntriesCounted
<1>1. FileInv => EntriesCounted
  BY DEF FileInv
<1> QED
  BY <1>1, FileInvHolds, PTL

\* Every control block counts the descriptors that reach it, so the assertions
\* of Close never fail.
THEOREM FilesAlwaysCounted == FileSpec => []FilesCounted
<1>1. FileInv => FilesCounted
  BY DEF FileInv
<1> QED
  BY <1>1, FileInvHolds, PTL

\* No position passes the size in its control block, so the unsigned
\* subtraction in Read never wraps.
THEOREM PositionAlwaysInFile == FileSpec => []PositionInFile
<1>1. FileInv => PositionInFile
  BY DEF FileInv
<1> QED
  BY <1>1, FileInvHolds, PTL

\* A descriptor that stays open stays on its file.
THEOREM DescriptorsStayOnFile == FileSpec => DescriptorStable
<1>1. ASSUME FileInv, FileInv', [FileNext]_allVars PROVE DescriptorStableStep
  <2> SUFFICES ASSUME NEW p \in Slots, NEW d \in Fds, file[p][d] # NULL,
                      file'[p][d] = file[p][d]
               PROVE  fcb'[file[p][d]] = fcb[file[p][d]]
    BY DEF DescriptorStableStep
  <2> DEFINE e == file[p][d]
  <2>1. e \in FDEntries /\ fcb[e] # NULL
    BY <1>1, OpenDescriptor, NullAssumption
  <2>2. fcb'[e] # NULL
    <3>1. <<p, d>> \in References(e)'
      BY DEF References
    <3> QED
      BY <1>1, <2>1, <3>1 DEF FileInv, EntriesCounted
  <2>3. fcb'[e] \in {fcb[e], NULL}
    <3> HIDE DEF e
    <3>1. fcb \in [FDEntries -> Files \cup {NULL}]
      BY <1>1 DEF FileInv, FileTypeOK
    <3>2. ASSUME NEW f \in Files, Open(f) PROVE fcb'[e] = fcb[e]
      <4>1. e # Least(FreeEntries)
        BY <1>1, <2>1, <3>2, FreeEntryUnused DEF Open
      <4> QED
        BY <2>1, <3>1, <3>2, <4>1 DEF Open
    <3>3. ASSUME NEW x \in Fds, Close(x) PROVE fcb'[e] \in {fcb[e], NULL}
      BY <2>1, <3>1, <3>3 DEF Close
    <3>4. CASE WaitClosesFiles
      BY <2>1, <3>4 DEF WaitClosesFiles, DropUsers
    <3> QED
      BY <1>1, <3>2, <3>3, <3>4 DEF FileNext, HostWrites, Exec, Read, OpenFails,
         ExecFails, ForkSharesFiles, ForkFails, allVars, fileVars, fdVars
  <2> QED
    BY <2>2, <2>3
<1> QED
  BY <1>1, FileInvHolds, PTL DEF FileSpec, DescriptorStable

=============================================================================
