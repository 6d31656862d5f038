---------------------------- MODULE QlibcProofs ----------------------------
(***************************************************************************)
(* Proofs about two parts of qlibc that others are built on.               *)
(* The semaphore, QSem, for every set of processes and every MaxWait and   *)
(* MaxLocked: its type invariant, mutual exclusion until the first forced  *)
(* unlock, that until then it implements the abstract lock Mutex, and that *)
(* after it permits are neither lost nor heaped up.  Then QSemTimed, for   *)
(* all times: how long a stuck section stays exclusive, and how many       *)
(* sections of others it takes to make an unlock be forced.                *)
(* The hash table, QHashTbl, for all keys, hashes and numbers of chains:   *)
(* it counts its objects, implements the abstract map Dictionary, and a    *)
(* walk sees each key once.                                                *)
(***************************************************************************)
EXTENDS QSemTimed, QHashTbl, FiniteSetTheorems, SequenceTheorems, WellFoundedInduction, TLAPS

\* The semaphore agrees with the processes as long as no unlock was forced:
\* a process has one permit while it is inside, none otherwise, and the value
\* is the permit nobody has.
Agrees ==
  /\ sem.set = "live"
  /\ \A p \in Proc : pc[p] \notin {"force", "retry"}
  /\ \A p \in Proc : ~(pc[p] = "in" /\ nested[p])
  /\ \A p \in Proc : sem.adj[p] = IF Inside(p) THEN 1 ELSE 0
  /\ \A p \in Proc : Inside(p) => sem.val = 0
  /\ (\A p \in Proc : ~Inside(p)) => sem.val = 1

\* The inductive invariant: types, and agreement until the first forced unlock.
IInv == TypeOK /\ (~forced => Agrees /\ MutualExclusion)

-----------------------------------------------------------------------------
\* The operations on a semaphore return a semaphore: entering takes a permit
\* that is there, and neither a leave nor an undo makes the value negative.
LEMMA SemOps ==
  ASSUME NEW S \in SemaphoreType, NEW p \in Proc
  PROVE  /\ SemInit \in SemaphoreType
         /\ CanEnter(S) => SemEnter(S, p) \in SemaphoreType
         /\ SemLeave(S, p) \in SemaphoreType
         /\ SemUndo(S, p) \in SemaphoreType
         /\ SemFree(S) \in SemaphoreType
<1> USE DEF SemaphoreType
<1>0. S.val \in Nat /\ S.adj[p] \in Int
  OBVIOUS
<1>a. ASSUME NEW v \in Nat, NEW a \in Int
      PROVE  [S EXCEPT !.val = v, !.adj[p] = a] \in SemaphoreType
  OBVIOUS
<1>1. SemInit \in SemaphoreType
  BY DEF SemInit
<1>2. ASSUME CanEnter(S) PROVE SemEnter(S, p) \in SemaphoreType
  <2>1. S.val - 1 \in Nat /\ S.adj[p] + 1 \in Int
    BY <1>0, <1>2 DEF CanEnter
  <2> QED
    BY <1>a, <2>1 DEF SemEnter
<1>3. SemLeave(S, p) \in SemaphoreType
  <2>1. S.val + 1 \in Nat /\ S.adj[p] - 1 \in Int
    BY <1>0
  <2> QED
    BY <1>a, <2>1 DEF SemLeave
<1>4. SemUndo(S, p) \in SemaphoreType
  <2>1. (IF S.val + S.adj[p] < 0 THEN 0 ELSE S.val + S.adj[p]) \in Nat
    BY <1>0
  <2>2. [S.adj EXCEPT ![p] = 0] \in [Proc -> Int]
    OBVIOUS
  <2> QED
    BY <2>1, <2>2 DEF SemUndo
<1>5. SemFree(S) \in SemaphoreType
  BY <1>0 DEF SemFree
<1> QED
  BY <1>1, <1>2, <1>3, <1>4, <1>5

\* The initial state is typed and agrees: val is 1 and nobody is inside.
LEMMA InitIInv == Init => IInv
<1> SUFFICES ASSUME Init PROVE IInv
  OBVIOUS
<1>1. TypeOK
  <2>1. SemInit \in SemaphoreType
    BY DEF SemInit, SemaphoreType
  <2>2. pc \in [Proc -> PCs] /\ nested \in [Proc -> BOOLEAN] /\ forced \in BOOLEAN
    BY Zenon DEF Init, PCs
  <2>3. wait \in [Proc -> 0 .. MaxWait] /\ lockCnt \in 0 .. MaxLocked
    BY QSemAssumption DEF Init
  <2> QED
    BY <2>1, <2>2, <2>3 DEF Init, TypeOK
<1>2. Agrees /\ MutualExclusion
  BY DEF Init, Agrees, MutualExclusion, Inside, SemInit
<1> QED
  BY <1>1, <1>2 DEF IInv

\* TypeOK is inductive by itself.
LEMMA TypeStep == TypeOK /\ [Next]_vars => TypeOK'
<1> SUFFICES ASSUME TypeOK, [Next]_vars PROVE TypeOK'
  OBVIOUS
<1> USE QSemAssumption DEF TypeOK, PCs, Goto
<1>1. ASSUME NEW p \in Proc, Begin(p) PROVE TypeOK'
  BY <1>1 DEF Begin
<1>2. ASSUME NEW p \in Proc, PollEnter(p) PROVE TypeOK'
  BY <1>2, SemOps DEF PollEnter
<1>3. ASSUME NEW p \in Proc, PollFail(p) PROVE TypeOK'
  BY <1>3 DEF PollFail
<1>4. ASSUME NEW p \in Proc, ForceLeave(p) PROVE TypeOK'
  BY <1>4, SemOps DEF ForceLeave
<1>5. ASSUME NEW p \in Proc, Retry(p) PROVE TypeOK'
  BY <1>5, SemOps DEF Retry
<1>6. ASSUME NEW p \in Proc, TryEnter(p) PROVE TypeOK'
  BY <1>6, SemOps DEF TryEnter
<1>7. ASSUME NEW p \in Proc, Leave(p) PROVE TypeOK'
  BY <1>7, SemOps DEF Leave
<1>8. ASSUME NEW p \in Proc, Interrupt(p) PROVE TypeOK'
  BY <1>8 DEF Interrupt
<1>9. ASSUME NEW p \in Proc, LeaveAndExit(p) PROVE TypeOK'
  BY <1>9, SemOps DEF LeaveAndExit
<1>10. ASSUME NEW p \in Proc, Die(p) PROVE TypeOK'
  BY <1>10, SemOps DEF Die
<1>11. ASSUME NEW p \in Proc, Respawn(p) PROVE TypeOK'
  BY <1>11 DEF Respawn
<1>12. ASSUME Watchdog PROVE TypeOK'
  <2>1. sem' = sem \/ sem' = SemLeave(sem, Daemon)
    BY <1>12 DEF Watchdog
  <2>2. sem' \in SemaphoreType
    BY <2>1, SemOps
  <2>3. lockCnt' \in 0 .. MaxLocked
    <3>1. lockCnt + 1 <= MaxLocked => lockCnt + 1 \in 0 .. MaxLocked
      OBVIOUS
    <3> QED
      BY <1>12, <3>1 DEF Watchdog
  <2>4. UNCHANGED <<pc, wait, nested>>
    BY <1>12 DEF Watchdog
  <2>5. /\ pc' \in [Proc -> PCs] /\ wait' \in [Proc -> 0 .. MaxWait]
        /\ nested' \in [Proc -> BOOLEAN]
    BY <2>4, Zenon
  <2>6. forced' \in BOOLEAN
    BY <1>12, Zenon DEF Watchdog
  <2> QED
    BY <2>2, <2>3, <2>5, <2>6, Zenon
<1>13. ASSUME End PROVE TypeOK'
  BY <1>13, SemOps DEF End
<1>14. CASE UNCHANGED vars
  BY <1>14 DEF vars
<1> QED
  BY <1>1, <1>2, <1>3, <1>4, <1>5, <1>6, <1>7, <1>8, <1>9, <1>10, <1>11,
     <1>12, <1>13, <1>14 DEF Next, Step

\* The type invariant of QSem: in particular the value of the semaphore is
\* never negative.
THEOREM TypeCorrect == Spec => []TypeOK
<1>1. Init => TypeOK
  BY InitIInv DEF IInv
<1> QED
  BY <1>1, TypeStep, PTL DEF Spec

-----------------------------------------------------------------------------
\* Agreement and mutual exclusion are kept by every step that forces nothing:
\* only a process that found the permit enters, and only a process that has
\* it gives it back, by leaving or through SEM_UNDO.
LEMMA AgreesStep ==
  ASSUME TypeOK, ~forced, Agrees, MutualExclusion, [Next]_vars, ~forced'
  PROVE  Agrees' /\ MutualExclusion'
<1> USE QSemAssumption DEF TypeOK, PCs, Goto, Agrees, MutualExclusion, Inside,
                           SemaphoreType
<1>1. ASSUME NEW p \in Proc, Begin(p) PROVE Agrees' /\ MutualExclusion'
  BY <1>1 DEF Begin
<1>2. ASSUME NEW p \in Proc, PollEnter(p) PROVE Agrees' /\ MutualExclusion'
  <2>1. sem.val = 1 /\ \A q \in Proc : ~Inside(q)
    BY <1>2 DEF PollEnter, CanEnter
  <2> QED
    BY <1>2, <2>1 DEF PollEnter, CanEnter, SemEnter
<1>3. ASSUME NEW p \in Proc, PollFail(p) PROVE Agrees' /\ MutualExclusion'
  BY <1>3 DEF PollFail
<1>4. ASSUME NEW p \in Proc, ForceLeave(p) PROVE FALSE
  BY <1>4 DEF ForceLeave
<1>5. ASSUME NEW p \in Proc, Retry(p) PROVE FALSE
  BY <1>5 DEF Retry
<1>6. ASSUME NEW p \in Proc, TryEnter(p) PROVE Agrees' /\ MutualExclusion'
  <2>1. sem.val = 1 /\ \A q \in Proc : ~Inside(q)
    BY <1>6 DEF TryEnter, CanEnter
  <2> QED
    BY <1>6, <2>1 DEF TryEnter, CanEnter, SemEnter
<1>7. ASSUME NEW p \in Proc, Leave(p) PROVE Agrees' /\ MutualExclusion'
  <2>1. \A q \in Proc \ {p} : ~Inside(q)
    BY <1>7 DEF Leave
  <2> QED
    BY <1>7, <2>1 DEF Leave, SemLeave
<1>8. ASSUME NEW p \in Proc, Interrupt(p) PROVE Agrees' /\ MutualExclusion'
  BY <1>8 DEF Interrupt
<1>9. ASSUME NEW p \in Proc, LeaveAndExit(p) PROVE FALSE
  BY <1>9 DEF LeaveAndExit
<1>10. ASSUME NEW p \in Proc, Die(p) PROVE Agrees' /\ MutualExclusion'
  <2>1. CASE Inside(p)
    <3>1. \A q \in Proc \ {p} : ~Inside(q)
      BY <2>1
    <3> QED
      BY <1>10, <2>1, <3>1 DEF Die, SemUndo
  <2>2. CASE ~Inside(p)
    BY <1>10, <2>2 DEF Die, SemUndo
  <2> QED
    BY <2>1, <2>2
<1>11. ASSUME NEW p \in Proc, Respawn(p) PROVE Agrees' /\ MutualExclusion'
  BY <1>11 DEF Respawn
<1>12. ASSUME Watchdog PROVE Agrees' /\ MutualExclusion'
  BY <1>12 DEF Watchdog
<1>13. ASSUME End PROVE FALSE
  BY <1>13 DEF End
<1>14. CASE UNCHANGED vars
  BY <1>14 DEF vars
<1> QED
  BY <1>1, <1>2, <1>3, <1>4, <1>5, <1>6, <1>7, <1>8, <1>9, <1>10, <1>11,
     <1>12, <1>13, <1>14 DEF Next, Step

\* A forced unlock is never forgotten.
LEMMA ForcedStable == [Next]_vars => (forced => forced')
  BY DEF Next, Step, vars, Begin, PollEnter, PollFail, ForceLeave, Retry,
         TryEnter, Leave, Interrupt, LeaveAndExit, Die, Respawn, Watchdog, End

\* Every step of the lock keeps it.
LEMMA IInvStep == IInv /\ [Next]_vars => IInv'
<1> SUFFICES ASSUME IInv, [Next]_vars PROVE IInv'
  OBVIOUS
<1>1. TypeOK'
  BY TypeStep DEF IInv
<1>2. ASSUME ~forced' PROVE Agrees' /\ MutualExclusion'
  BY <1>2, ForcedStable, AgreesStep DEF IInv
<1> QED
  BY <1>1, <1>2 DEF IInv

\* Mutual exclusion of the section between qsem_enter_force (or
\* qsem_enter_nowait) and qsem_leave, with any number of processes, until an
\* unlock is forced; children may be killed or interrupted anywhere.
THEOREM MutexCorrect == Spec => []MutualExclusion
<1>1. IInv => MutualExclusion
  BY DEF IInv, MutualExclusion
<1> QED
  BY <1>1, InitIInv, IInvStep, PTL DEF Spec

-----------------------------------------------------------------------------
\* Owner is the process inside, if there is one, and NoProc if there is none.
OwnerIsInside ==
  /\ \A p \in Proc : Inside(p) => Owner = p
  /\ (\A p \in Proc : ~Inside(p)) => Owner = NoProc

\* Until the first forced unlock the owner of the abstract lock is whoever is inside.
LEMMA OwnerIs == MutualExclusion /\ ~forced => OwnerIsInside
<1> SUFFICES ASSUME MutualExclusion, ~forced PROVE OwnerIsInside
  OBVIOUS
<1>1. ASSUME NEW p \in Proc, Inside(p) PROVE Owner = p
  <2>1. (CHOOSE q \in Proc : Inside(q)) \in Proc
        /\ Inside(CHOOSE q \in Proc : Inside(q))
    BY <1>1
  <2> QED
    BY <1>1, <2>1 DEF Owner, MutualExclusion
<1>2. (\A p \in Proc : ~Inside(p)) => Owner = NoProc
  BY DEF Owner
<1> QED
  BY <1>1, <1>2 DEF OwnerIsInside

\* One step of the semaphore, nothing forced: nobody is inside and somebody
\* enters, the one inside leaves or dies, or the owner does not change.
LEMMA RefineStep ==
  IInv /\ [Next]_vars => (~forced' => M!MutexNext \/ UNCHANGED Owner)
<1> SUFFICES ASSUME IInv, [Next]_vars, ~forced'
             PROVE  M!MutexNext \/ UNCHANGED Owner
  OBVIOUS
<1>a. ~forced /\ TypeOK /\ Agrees /\ MutualExclusion
  BY ForcedStable DEF IInv
<1>b. OwnerIsInside
  BY <1>a, OwnerIs
<1>c. (MutualExclusion /\ ~forced => OwnerIsInside)'
  BY OwnerIs, PTL
<1>d. Agrees' /\ MutualExclusion' /\ OwnerIsInside'
  BY <1>a, <1>c, AgreesStep
<1> USE DEF TypeOK, PCs, Goto, Agrees, Inside, SemaphoreType
<1>1. ASSUME NEW p \in Proc, PollEnter(p) \/ TryEnter(p) PROVE M!Acquire(p)
  <2>1. \A q \in Proc : ~Inside(q)
    BY <1>1, <1>a DEF PollEnter, TryEnter, CanEnter
  <2>2. pc'[p] = "in"
    BY <1>1, <1>a DEF PollEnter, TryEnter
  <2> QED
    BY <1>b, <1>d, <2>1, <2>2 DEF OwnerIsInside, M!Acquire
<1>2. ASSUME NEW p \in Proc, Leave(p) \/ Die(p), Inside(p) PROVE M!Release(p)
  <2>1. \A q \in Proc \ {p} : ~Inside(q)
    BY <1>2, <1>a DEF MutualExclusion
  <2>2. \A q \in Proc : ~Inside(q)'
    BY <1>2, <1>a, <2>1 DEF Leave, Die
  <2> QED
    BY <1>2, <1>b, <1>d, <2>2 DEF OwnerIsInside, M!Release
<1>3. ASSUME \A q \in Proc : Inside(q)' = Inside(q) PROVE UNCHANGED Owner
  BY <1>3, <1>b, <1>d DEF OwnerIsInside
<1>4. ASSUME NEW p \in Proc, Step(p)
      PROVE  \/ PollEnter(p) \/ TryEnter(p)
             \/ (Leave(p) \/ Die(p)) /\ Inside(p)
             \/ \A q \in Proc : Inside(q)' = Inside(q)
  <2>1. ~ForceLeave(p) /\ ~Retry(p) /\ ~LeaveAndExit(p)
    BY <1>a DEF ForceLeave, Retry, LeaveAndExit
  <2>2. CASE Begin(p) \/ PollFail(p) \/ Interrupt(p) \/ Respawn(p)
    BY <2>2, <1>a DEF Begin, PollFail, Interrupt, Respawn
  <2>3. CASE Die(p) /\ ~Inside(p)
    BY <2>3, <1>a DEF Die
  <2>4. Leave(p) => Inside(p)
    BY DEF Leave
  <2> QED
    BY <1>4, <2>1, <2>2, <2>3, <2>4 DEF Step
<1>5. CASE Watchdog \/ UNCHANGED vars
  <2>1. UNCHANGED <<pc, nested>>
    BY <1>5 DEF Watchdog, vars
  <2> QED
    BY <1>3, <2>1
<1>6. ~End
  BY DEF End
<1> QED
  BY <1>1, <1>2, <1>3, <1>4, <1>5, <1>6 DEF Next, M!MutexNext

\* Until an unlock is forced the semaphore implements the abstract lock.
THEOREM RefinementCorrect == Spec => RefinesMutex
<1>1. IInv /\ [Next]_vars
      => [~forced' => M!MutexNext \/ UNCHANGED Owner]_vars
  BY RefineStep
<1> QED
  BY <1>1, InitIInv, IInvStep, PTL DEF Spec, RefinesMutex

-----------------------------------------------------------------------------
(* The permits of the semaphore, when unlocks are forced *)

\* The sections p is in: the one it runs and the one it was interrupted in.
Held(p) == (IF pc[p] = "in" THEN 1 ELSE 0) + (IF nested[p] THEN 1 ELSE 0)

\* What each process owes the two permits it may have at most, one by one: how
\* many there are is the sum, over the processes, of 2 - adj[p].
Debts(adj) == {x \in Proc \X Int : adj[x[1]] < x[2] /\ x[2] <= 2}

\* SEM_UNDO never takes more than it gives: val and all of adj make at least 1.
Covered(S) ==
  /\ IsFiniteSet(Debts(S.adj))
  /\ S.val + 2 * Cardinality(Proc) > Cardinality(Debts(S.adj))

\* The children that were interrupted inside.
Nested == {p \in Proc : nested[p]}

\* Those that add a permit next, inside the section or at the end of their polls.
Loaded == {p \in Proc : pc[p] \in {"in", "force"} \/ (pc[p] = "poll" /\ wait[p] = MaxWait)}

\* An undo gives back no more than the sections its process is in.
Shape ==
  /\ ~nested[Daemon]
  /\ \A p \in Proc : nested[p] => pc[p] \in {"poll", "force", "retry", "in"}
  /\ sem.set = "live" => \A p \in Proc : sem.adj[p] <= Held(p)

\* A surplus permit is there because somebody's polls ran out, at most two for each.
Heap ==
  /\ sem.set = "live" => sem.val + Cardinality(Nested) + Cardinality(Loaded) < 2 * Cardinality(Proc)
  /\ sem.val <= 2 * Cardinality(Proc)

\* The three together.
PermitsInv == Shape /\ Heap /\ (sem.set = "live" => Covered(sem))

-----------------------------------------------------------------------------
\* What one process owes.
LEMMA OneDebt ==
  ASSUME NEW p, NEW n \in Int, n <= 2
  PROVE  IsFiniteSet({p} \X (n + 1 .. 2)) /\ Cardinality({p} \X (n + 1 .. 2)) = 2 - n
<1>1. IsFiniteSet({p}) /\ Cardinality({p}) = 1
  BY FS_Singleton
<1>2. IsFiniteSet(n + 1 .. 2) /\ Cardinality(n + 1 .. 2) = IF n + 1 > 2 THEN 0 ELSE 2 - (n + 1) + 1
  BY FS_Interval
<1>3. /\ IsFiniteSet({p} \X (n + 1 .. 2))
      /\ Cardinality({p} \X (n + 1 .. 2)) = 1 * Cardinality(n + 1 .. 2)
  <2>1. /\ IsFiniteSet({p} \X (n + 1 .. 2))
        /\ Cardinality({p} \X (n + 1 .. 2)) = Cardinality({p}) * Cardinality(n + 1 .. 2)
    BY <1>1, <1>2, FS_Product
  <2>2. QED
    BY <2>1, <1>1
<1>4. QED
  BY <1>2, <1>3

\* Only what p owes changes when only adj[p] does.
LEMMA DebtsMove ==
  ASSUME NEW a \in [Proc -> Int], NEW b \in [Proc -> Int], NEW p \in Proc,
         \A q \in Proc \ {p} : b[q] = a[q], a[p] <= 2, b[p] <= 2, IsFiniteSet(Debts(a))
  PROVE  IsFiniteSet(Debts(b)) /\ Cardinality(Debts(b)) = Cardinality(Debts(a)) + a[p] - b[p]
<1> DEFINE O == {x \in Debts(a) : x[1] # p}
           A == {p} \X (a[p] + 1 .. 2)
           B == {p} \X (b[p] + 1 .. 2)
<1>1. a[p] \in Int /\ b[p] \in Int
  OBVIOUS
<1>2. IsFiniteSet(O) /\ Cardinality(O) \in Nat
  BY FS_Subset, FS_CardinalityType
<1>3. IsFiniteSet(A) /\ Cardinality(A) = 2 - a[p]
  BY <1>1, OneDebt
<1>4. IsFiniteSet(B) /\ Cardinality(B) = 2 - b[p]
  BY <1>1, OneDebt
<1>5. Debts(a) = O \cup A
  BY <1>1 DEF Debts
<1>6. Debts(b) = O \cup B
  BY <1>1 DEF Debts
<1>7. O \cap A = {} /\ O \cap B = {}
  OBVIOUS
<1>8. Cardinality({}) = 0
  BY FS_EmptySet
<1> HIDE DEF O, A, B
<1>9. Cardinality(O \cup A) = Cardinality(O) + Cardinality(A) - Cardinality(O \cap A)
  BY <1>2, <1>3, FS_Union
<1>10. IsFiniteSet(O \cup B) /\ Cardinality(O \cup B) = Cardinality(O) + Cardinality(B) - Cardinality(O \cap B)
  BY <1>2, <1>4, FS_Union
<1>11. Cardinality(Debts(a)) = Cardinality(O) + (2 - a[p])
  BY <1>2, <1>3, <1>5, <1>7, <1>8, <1>9, <1>1
<1>12. IsFiniteSet(Debts(b)) /\ Cardinality(Debts(b)) = Cardinality(O) + (2 - b[p])
  BY <1>2, <1>4, <1>6, <1>7, <1>8, <1>10, <1>1
<1>13. QED
  BY <1>11, <1>12, <1>1, <1>2

\* A change of val and of adj[p] that adds up covers what is owed.
LEMMA CoveredMoves ==
  ASSUME NEW S \in SemaphoreType, NEW T \in SemaphoreType, NEW p \in Proc, Covered(S),
         \A q \in Proc \ {p} : T.adj[q] = S.adj[q], S.adj[p] <= 2, T.adj[p] <= 2,
         T.val + T.adj[p] >= S.val + S.adj[p]
  PROVE  Covered(T)
<1>1. /\ S.adj \in [Proc -> Int] /\ T.adj \in [Proc -> Int] /\ S.val \in Nat /\ T.val \in Nat
      /\ S.adj[p] \in Int /\ T.adj[p] \in Int
  BY DEF SemaphoreType
<1>2. IsFiniteSet(Debts(T.adj)) /\ Cardinality(Debts(T.adj)) = Cardinality(Debts(S.adj)) + S.adj[p] - T.adj[p]
  BY <1>1, DebtsMove DEF Covered
<1>3. Cardinality(Debts(S.adj)) \in Nat /\ Cardinality(Proc) \in Nat
  BY FS_CardinalityType, QSemAssumption DEF Covered
<1>4. QED
  BY <1>1, <1>2, <1>3 DEF Covered

\* What the operations do to val and adj.
LEMMA SemFacts ==
  ASSUME NEW S \in SemaphoreType, NEW p \in Proc, S.set = "live"
  PROVE  /\ S.val \in Nat /\ S.adj \in [Proc -> Int] /\ \A q \in Proc : S.adj[q] \in Int
         /\ SemEnter(S, p).set = "live" /\ SemEnter(S, p).val = S.val - 1
         /\ \A q \in Proc : SemEnter(S, p).adj[q] = IF q = p THEN S.adj[q] + 1 ELSE S.adj[q]
         /\ SemLeave(S, p).set = "live" /\ SemLeave(S, p).val = S.val + 1
         /\ \A q \in Proc : SemLeave(S, p).adj[q] = IF q = p THEN S.adj[q] - 1 ELSE S.adj[q]
         /\ SemUndo(S, p).set = "live"
         /\ SemUndo(S, p).val = IF S.val + S.adj[p] < 0 THEN 0 ELSE S.val + S.adj[p]
         /\ \A q \in Proc : SemUndo(S, p).adj[q] = IF q = p THEN 0 ELSE S.adj[q]
<1> USE DEF SemaphoreType
<1>1. S.val \in Nat /\ S.adj \in [Proc -> Int] /\ \A q \in Proc : S.adj[q] \in Int
  OBVIOUS
<1>2. /\ SemEnter(S, p).set = "live" /\ SemEnter(S, p).val = S.val - 1
      /\ \A q \in Proc : SemEnter(S, p).adj[q] = IF q = p THEN S.adj[q] + 1 ELSE S.adj[q]
  BY DEF SemEnter
<1>3. /\ SemLeave(S, p).set = "live" /\ SemLeave(S, p).val = S.val + 1
      /\ \A q \in Proc : SemLeave(S, p).adj[q] = IF q = p THEN S.adj[q] - 1 ELSE S.adj[q]
  BY DEF SemLeave
<1>4. /\ SemUndo(S, p).set = "live"
      /\ SemUndo(S, p).val = IF S.val + S.adj[p] < 0 THEN 0 ELSE S.val + S.adj[p]
      /\ \A q \in Proc : SemUndo(S, p).adj[q] = IF q = p THEN 0 ELSE S.adj[q]
  BY DEF SemUndo
<1>5. QED
  BY <1>1, <1>2, <1>3, <1>4

\* On a semaphore that was removed they do nothing.
LEMMA SemGone ==
  ASSUME NEW S \in SemaphoreType, NEW p \in Proc, S.set # "live"
  PROVE  ~CanEnter(S) /\ SemLeave(S, p) = S /\ SemUndo(S, p) = S
  BY DEF CanEnter, SemLeave, SemUndo
-----------------------------------------------------------------------------
\* The daemon is never interrupted inside the section, and a process has no more
\* to be undone than the sections it is in; it may have less, having forced.
LEMMA ShapeStep ==
  ASSUME TypeOK, Shape, [Next]_vars
  PROVE  Shape'
<1> USE QSemAssumption DEF TypeOK, PCs, Goto, Shape, Held
<1>1. ASSUME NEW p \in Proc, Begin(p) PROVE Shape'
  BY <1>1 DEF Begin
<1>2. ASSUME NEW p \in Proc, PollEnter(p) \/ TryEnter(p) PROVE Shape'
  <2>1. sem.set = "live" /\ sem' = SemEnter(sem, p)
    BY <1>2 DEF PollEnter, TryEnter, CanEnter
  <2>2. QED
    BY <1>2, <2>1, SemFacts DEF PollEnter, TryEnter
<1>3. ASSUME NEW p \in Proc, PollFail(p) PROVE Shape'
  BY <1>3 DEF PollFail
<1>4. ASSUME NEW p \in Proc, ForceLeave(p) PROVE Shape'
  <2>1. CASE sem.set = "live"
    BY <1>4, <2>1, SemFacts DEF ForceLeave
  <2>2. CASE sem.set # "live"
    BY <1>4, <2>2, SemGone DEF ForceLeave
  <2>3. QED
    BY <2>1, <2>2
<1>5. ASSUME NEW p \in Proc, Retry(p) PROVE Shape'
  <2>1. CASE CanEnter(sem)
    <3>1. sem.set = "live" /\ sem' = SemEnter(sem, p)
      BY <1>5, <2>1 DEF Retry, CanEnter
    <3>2. QED
      BY <1>5, <2>1, <3>1, SemFacts DEF Retry
  <2>2. CASE ~CanEnter(sem)
    BY <1>5, <2>2 DEF Retry
  <2>3. QED
    BY <2>1, <2>2
<1>6. ASSUME NEW p \in Proc, Leave(p) PROVE Shape'
  <2>1. CASE sem.set = "live"
    BY <1>6, <2>1, SemFacts DEF Leave
  <2>2. CASE sem.set # "live"
    BY <1>6, <2>2, SemGone DEF Leave
  <2>3. QED
    BY <2>1, <2>2
<1>7. ASSUME NEW p \in Proc, Interrupt(p) PROVE Shape'
  BY <1>7 DEF Interrupt, Children
<1>8. ASSUME NEW p \in Proc, LeaveAndExit(p) PROVE Shape'
  <2>1. SemLeave(sem, p) \in SemaphoreType
    BY SemOps
  <2>2. CASE sem.set = "live"
    <3>1. SemLeave(sem, p).set = "live"
      BY <2>2, SemFacts
    <3>2. \A q \in Proc : sem'.adj[q] = IF q = p THEN 0 ELSE sem.adj[q]
      BY <1>8, <2>1, <2>2, <3>1, SemFacts DEF LeaveAndExit
    <3>3. sem'.set = "live"
      BY <1>8, <2>1, <2>2, <3>1, SemFacts DEF LeaveAndExit
    <3>4. QED
      BY <1>8, <2>2, <3>2, <3>3 DEF LeaveAndExit
  <2>3. CASE sem.set # "live"
    BY <1>8, <2>3, SemGone DEF LeaveAndExit
  <2>4. QED
    BY <2>2, <2>3
<1>9. ASSUME NEW p \in Proc, Die(p) PROVE Shape'
  <2>1. CASE sem.set = "live"
    BY <1>9, <2>1, SemFacts DEF Die
  <2>2. CASE sem.set # "live"
    BY <1>9, <2>2, SemGone DEF Die
  <2>3. QED
    BY <2>1, <2>2
<1>10. ASSUME NEW p \in Proc, Respawn(p) PROVE Shape'
  BY <1>10 DEF Respawn
<1>11. ASSUME Watchdog PROVE Shape'
  <2>1. UNCHANGED <<pc, nested>> /\ (sem' = sem \/ sem' = SemLeave(sem, Daemon))
    BY <1>11 DEF Watchdog
  <2>2. CASE sem' = sem
    BY <2>1, <2>2
  <2>3. CASE sem' = SemLeave(sem, Daemon)
    <3>1. CASE sem.set = "live"
      BY <2>1, <2>3, <3>1, SemFacts
    <3>2. CASE sem.set # "live"
      BY <2>1, <2>3, <3>2, SemGone
    <3>3. QED
      BY <3>1, <3>2
  <2>4. QED
    BY <2>1, <2>2, <2>3
<1>12. ASSUME End PROVE Shape'
  <2>1. sem'.set = "removed"
    <3>1. SemLeave(sem, Daemon) \in SemaphoreType
      BY SemOps
    <3>2. QED
      BY <1>12, <3>1 DEF End, SemFree, SemaphoreType
  <2>2. QED
    BY <1>12, <2>1 DEF End
<1>13. CASE UNCHANGED vars
  BY <1>13 DEF vars
<1>14. QED
  BY <1>1, <1>2, <1>3, <1>4, <1>5, <1>6, <1>7, <1>8, <1>9, <1>10, <1>11, <1>12, <1>13 DEF Next, Step

\* Every operation gives and takes as much as it records, and SEM_UNDO gives at
\* least what it takes out of the records.
LEMMA CoveredStep ==
  ASSUME TypeOK, Shape, sem.set = "live" => Covered(sem), [Next]_vars
  PROVE  sem'.set = "live" => Covered(sem')
<1> USE QSemAssumption
<1>1. sem \in SemaphoreType /\ sem' \in SemaphoreType
  BY TypeStep DEF TypeOK
<1>2. sem.set = "live" => \A p \in Proc : sem.adj[p] \in Int /\ sem.adj[p] <= 2
  <2>1. \A p \in Proc : Held(p) \in Int /\ Held(p) <= 2
    BY DEF Held
  <2>2. QED
    BY <2>1, <1>1, SemFacts DEF Shape
<1>3. \A p \in Proc : SemLeave(sem, p) \in SemaphoreType
  BY <1>1, SemOps
<1>4. ASSUME sem.set = "live", NEW p \in Proc, sem.adj[p] < 2, sem' = SemEnter(sem, p) PROVE Covered(sem')
  BY <1>1, <1>2, <1>4, SemFacts, CoveredMoves
<1>5. ASSUME sem.set = "live", NEW p \in Proc PROVE Covered(SemLeave(sem, p))
  BY <1>1, <1>2, <1>3, <1>5, SemFacts, CoveredMoves
<1>6. ASSUME NEW S \in SemaphoreType, NEW p \in Proc, S.set = "live", S.adj[p] <= 2, Covered(S)
      PROVE  Covered(SemUndo(S, p))
  <2>1. SemUndo(S, p) \in SemaphoreType
    BY <1>6, SemOps
  <2>2. QED
    BY <2>1, <1>6, SemFacts, CoveredMoves
<1>7. CASE sem.set # "live"
  <2>1. sem'.set # "live"
    <3>1. ASSUME NEW p \in Proc
          PROVE  ~CanEnter(sem) /\ SemLeave(sem, p) = sem /\ SemUndo(sem, p) = sem
      BY <1>1, <1>7, SemGone
    <3>2. SemFree(sem).set = "removed"
      BY <1>1 DEF SemFree, SemaphoreType
    <3>3. sem' = sem \/ sem' = SemFree(sem)
      BY <3>1 DEF Next, Step, vars, Begin, PollEnter, PollFail, ForceLeave, Retry,
             TryEnter, Leave, Interrupt, LeaveAndExit, Die, Respawn, Watchdog, End
    <3>4. QED
      BY <1>7, <3>2, <3>3
  <2>2. QED
    BY <2>1
<1>8. CASE sem.set = "live"
  <2>1. Covered(sem)
    BY <1>8
  <2>2. ASSUME NEW p \in Proc, PollEnter(p) \/ TryEnter(p) \/ Retry(p) PROVE Covered(sem')
    <3>1. CASE sem' = sem
      BY <2>1, <3>1
    <3>2. CASE sem' # sem
      <4>1. sem' = SemEnter(sem, p)
        BY <2>2, <3>2 DEF PollEnter, TryEnter, Retry
      <4>2. sem.adj[p] < 2
        <5>1. pc[p] # "in"
          BY <2>2 DEF PollEnter, TryEnter, Retry
        <5>2. Held(p) <= 1 /\ Held(p) \in Int
          BY <5>1 DEF Held
        <5>3. QED
          BY <1>2, <1>8, <5>2 DEF Shape
      <4>3. QED
        BY <1>4, <1>8, <4>1, <4>2
    <3>3. QED
      BY <3>1, <3>2
  <2>3. ASSUME NEW p \in Proc, ForceLeave(p) \/ Leave(p) PROVE Covered(sem')
    BY <1>5, <1>8, <2>3 DEF ForceLeave, Leave
  <2>4. ASSUME NEW p \in Proc, LeaveAndExit(p) PROVE Covered(sem')
    <3>1. SemLeave(sem, p).set = "live" /\ SemLeave(sem, p).adj[p] <= 2
      BY <1>1, <1>2, <1>8, SemFacts
    <3>2. Covered(SemLeave(sem, p))
      BY <1>5, <1>8
    <3>3. Covered(SemUndo(SemLeave(sem, p), p))
      BY <1>3, <1>6, <3>1, <3>2
    <3>4. QED
      BY <2>4, <3>3 DEF LeaveAndExit
  <2>5. ASSUME NEW p \in Proc, Die(p) PROVE Covered(sem')
    <3>1. Covered(SemUndo(sem, p))
      BY <1>1, <1>2, <1>6, <1>8, <2>1
    <3>2. QED
      BY <2>5, <3>1 DEF Die
  <2>6. ASSUME Watchdog PROVE Covered(sem')
    <3>1. sem' = sem \/ sem' = SemLeave(sem, Daemon)
      BY <2>6 DEF Watchdog
    <3>2. QED
      BY <1>5, <1>8, <2>1, <3>1
  <2>7. ASSUME End PROVE sem'.set # "live"
    BY <1>3, <2>7 DEF End, SemFree, SemaphoreType
  <2>8. ASSUME NEW p \in Proc, Begin(p) \/ PollFail(p) \/ Interrupt(p) \/ Respawn(p) PROVE Covered(sem')
    BY <2>1, <2>8 DEF Begin, PollFail, Interrupt, Respawn
  <2>9. CASE UNCHANGED vars
    BY <2>1, <2>9 DEF vars
  <2>10. QED
    BY <2>2, <2>3, <2>4, <2>5, <2>6, <2>7, <2>8, <2>9 DEF Next, Step
<1>9. QED
  BY <1>7, <1>8
-----------------------------------------------------------------------------
\* A set that changes at p only.
LEMMA CountMoves ==
  ASSUME NEW A, NEW B, NEW p, IsFiniteSet(A), \A q : q # p => (q \in A <=> q \in B)
  PROVE  Cardinality(B) + (IF p \in A THEN 1 ELSE 0) = Cardinality(A) + (IF p \in B THEN 1 ELSE 0)
<1>1. Cardinality(A) \in Nat
  BY FS_CardinalityType
<1>2. CASE p \in A /\ p \notin B
  <2>1. B = A \ {p}
    BY <1>2
  <2>2. Cardinality(A \ {p}) = Cardinality(A) - 1
    BY <1>2, FS_RemoveElement
  <2>3. Cardinality(B) + 1 = Cardinality(A) + 0
    BY <1>1, <2>1, <2>2
  <2>4. QED
    BY <1>2, <2>3
<1>3. CASE p \notin A /\ p \in B
  <2>1. B = A \cup {p}
    BY <1>3
  <2>2. Cardinality(A \cup {p}) = Cardinality(A) + 1
    BY <1>3, FS_AddElement
  <2>3. Cardinality(B) + 0 = Cardinality(A) + 1
    BY <1>1, <2>1, <2>2
  <2>4. QED
    BY <1>3, <2>3
<1>4. CASE p \in A <=> p \in B
  <2>1. A = B
    BY <1>4
  <2>2. QED
    BY <1>4, <2>1
<1>5. QED
  BY <1>2, <1>3, <1>4

\* How many are interrupted inside the section, the daemon never, and how many add
\* a permit next.
LEMMA Loads ==
  ASSUME Shape
  PROVE  /\ IsFiniteSet(Nested) /\ Cardinality(Nested) \in Nat /\ Cardinality(Nested) < Cardinality(Proc)
         /\ IsFiniteSet(Loaded) /\ Cardinality(Loaded) \in Nat /\ Cardinality(Loaded) <= Cardinality(Proc)
         /\ Cardinality(Proc) \in Nat
         /\ Daemon \notin Loaded => Cardinality(Loaded) < Cardinality(Proc)
<1> USE QSemAssumption
<1>1. Cardinality(Proc) \in Nat
  BY FS_CardinalityType
<1>2. IsFiniteSet(Proc \ {Daemon}) /\ Cardinality(Proc \ {Daemon}) = Cardinality(Proc) - 1
  BY FS_RemoveElement
<1>3. Nested \in SUBSET (Proc \ {Daemon})
  BY DEF Nested, Shape
<1>4. Loaded \in SUBSET Proc
  BY DEF Loaded
<1>5. IsFiniteSet(Nested) /\ Cardinality(Nested) <= Cardinality(Proc \ {Daemon})
  BY <1>2, <1>3, FS_Subset
<1>6. IsFiniteSet(Loaded) /\ Cardinality(Loaded) <= Cardinality(Proc)
  BY <1>4, FS_Subset
<1>7. Cardinality(Nested) \in Nat /\ Cardinality(Loaded) \in Nat
  BY <1>5, <1>6, FS_CardinalityType
<1>8. ASSUME Daemon \notin Loaded PROVE Cardinality(Loaded) <= Cardinality(Proc \ {Daemon})
  <2>1. Loaded \in SUBSET (Proc \ {Daemon})
    BY <1>4, <1>8
  <2>2. QED
    BY <1>2, <2>1, FS_Subset
<1>9. QED
  BY <1>1, <1>2, <1>5, <1>6, <1>7, <1>8

\* A step of p that adds a permit is one p was loaded for, and it becomes loaded
\* again by entering, or when there is no permit.
LEMMA HeapMoves ==
  ASSUME TypeOK, Shape, sem.set = "live", NEW p \in Proc, Step(p)
  PROVE  /\ \A q \in Proc \ {p} : pc'[q] = pc[q] /\ wait'[q] = wait[q] /\ nested'[q] = nested[q]
         /\ sem'.set = "live" /\ sem.val \in Nat /\ sem'.val \in Nat
         /\ sem'.val = 0
            \/ sem'.val + (IF p \in Nested' THEN 1 ELSE 0) + (IF p \in Loaded' THEN 1 ELSE 0)
                 <= sem.val + (IF p \in Nested THEN 1 ELSE 0) + (IF p \in Loaded THEN 1 ELSE 0)
<1> USE QSemAssumption DEF TypeOK, PCs, Goto, Shape, Held
<1>1. /\ sem \in SemaphoreType /\ sem.val \in Nat /\ sem.adj[p] \in Int
      /\ SemLeave(sem, p) \in SemaphoreType /\ SemLeave(sem, p).set = "live"
  BY SemOps, SemFacts
<1>2. p \in Nested <=> nested[p]
  BY DEF Nested
<1>3. p \in Nested' <=> nested'[p]
  BY DEF Nested
<1>4. p \in Loaded <=> pc[p] \in {"in", "force"} \/ (pc[p] = "poll" /\ wait[p] = MaxWait)
  BY DEF Loaded
<1>5. p \in Loaded' <=> pc'[p] \in {"in", "force"} \/ (pc'[p] = "poll" /\ wait'[p] = MaxWait)
  BY DEF Loaded
<1>6. CASE Begin(p)
  BY <1>1, <1>2, <1>3, <1>4, <1>5, <1>6 DEF Begin
<1>7. CASE PollEnter(p) \/ TryEnter(p)
  <2>1. sem.val > 0 /\ sem' = SemEnter(sem, p)
    BY <1>7 DEF PollEnter, TryEnter, CanEnter
  <2>2. sem'.set = "live" /\ sem'.val = sem.val - 1
    BY <1>1, <2>1, SemFacts
  <2>3. p \notin Loaded
    BY <1>4, <1>7 DEF PollEnter, TryEnter
  <2>4. QED
    BY <1>1, <1>2, <1>3, <1>5, <1>7, <2>1, <2>2, <2>3 DEF PollEnter, TryEnter
<1>8. CASE PollFail(p)
  <2>1. sem' = sem /\ sem.val = 0
    BY <1>1, <1>8 DEF PollFail, CanEnter
  <2>2. QED
    BY <1>8, <2>1 DEF PollFail
<1>9. CASE ForceLeave(p)
  <2>1. sem'.set = "live" /\ sem'.val = sem.val + 1
    BY <1>1, <1>9, SemFacts DEF ForceLeave
  <2>2. p \in Loaded /\ p \notin Loaded'
    BY <1>4, <1>5, <1>9 DEF ForceLeave
  <2>3. QED
    BY <1>1, <1>2, <1>3, <1>9, <2>1, <2>2 DEF ForceLeave
<1>10. CASE Retry(p)
  <2>1. CASE CanEnter(sem)
    <3>1. sem.val > 0 /\ sem' = SemEnter(sem, p)
      BY <1>10, <2>1 DEF Retry, CanEnter
    <3>2. sem'.set = "live" /\ sem'.val = sem.val - 1
      BY <1>1, <3>1, SemFacts
    <3>3. QED
      BY <1>1, <1>2, <1>3, <1>4, <1>5, <1>10, <2>1, <3>1, <3>2 DEF Retry
  <2>2. CASE ~CanEnter(sem)
    <3>1. sem' = sem /\ sem.val = 0
      BY <1>1, <1>10, <2>2 DEF Retry, CanEnter
    <3>2. QED
      BY <1>10, <2>2, <3>1 DEF Retry
  <2>3. QED
    BY <2>1, <2>2
<1>11. CASE Leave(p)
  <2>1. sem'.set = "live" /\ sem'.val = sem.val + 1
    BY <1>1, <1>11, SemFacts DEF Leave
  <2>2. p \in Loaded /\ p \notin Loaded'
    BY <1>4, <1>5, <1>11 DEF Leave
  <2>3. QED
    BY <1>1, <1>2, <1>3, <1>11, <2>1, <2>2 DEF Leave
<1>12. CASE Interrupt(p)
  <2>1. p \in Loaded /\ p \notin Loaded' /\ p \notin Nested /\ p \in Nested'
    BY <1>2, <1>3, <1>4, <1>5, <1>12 DEF Interrupt
  <2>2. QED
    BY <1>1, <1>12, <2>1 DEF Interrupt
<1>13. CASE LeaveAndExit(p)
  <2> DEFINE L == SemLeave(sem, p)
  <2>1. L \in SemaphoreType /\ L.set = "live" /\ L.val = sem.val + 1 /\ L.adj[p] = sem.adj[p] - 1
    BY <1>1, SemFacts
  <2>2. sem' = SemUndo(L, p)
    BY <1>13 DEF LeaveAndExit
  <2> HIDE DEF L
  <2>3. SemUndo(L, p).set = "live" /\ SemUndo(L, p).val = IF L.val + L.adj[p] < 0 THEN 0 ELSE L.val + L.adj[p]
    BY <2>1, SemFacts
  <2>4. L.val + L.adj[p] = sem.val + sem.adj[p]
    BY <1>1, <2>1
  <2>5. sem'.set = "live" /\ sem'.val = IF sem.val + sem.adj[p] < 0 THEN 0 ELSE sem.val + sem.adj[p]
    BY <2>2, <2>3, <2>4
  <2>6. p \in Loaded /\ p \in Nested /\ p \notin Loaded' /\ p \notin Nested'
    BY <1>2, <1>3, <1>4, <1>5, <1>13 DEF LeaveAndExit
  <2>7. sem.adj[p] <= 2
    BY <1>1
  <2>8. \A q \in Proc \ {p} : pc'[q] = pc[q] /\ wait'[q] = wait[q] /\ nested'[q] = nested[q]
    BY <1>13 DEF LeaveAndExit
  <2>9. QED
    BY <1>1, <2>5, <2>6, <2>7, <2>8
<1>14. CASE Die(p)
  <2>1. sem'.set = "live" /\ sem'.val = IF sem.val + sem.adj[p] < 0 THEN 0 ELSE sem.val + sem.adj[p]
    BY <1>1, <1>14, SemFacts DEF Die
  <2>2. p \notin Loaded' /\ p \notin Nested'
    BY <1>3, <1>5, <1>14 DEF Die
  <2>3. sem.adj[p] <= (IF p \in Nested THEN 1 ELSE 0) + (IF p \in Loaded THEN 1 ELSE 0)
    BY <1>1, <1>2, <1>4
  <2>4. \A q \in Proc \ {p} : pc'[q] = pc[q] /\ wait'[q] = wait[q] /\ nested'[q] = nested[q]
    BY <1>14 DEF Die
  <2>5. QED
    BY <1>1, <2>1, <2>2, <2>3, <2>4
<1>15. CASE Respawn(p)
  BY <1>1, <1>2, <1>3, <1>4, <1>5, <1>15 DEF Respawn
<1>16. QED
  BY <1>6, <1>7, <1>8, <1>9, <1>10, <1>11, <1>12, <1>13, <1>14, <1>15 DEF Step

\* Permits do not heap up: what is there, and what those who are loaded will add,
\* stays below two for each process.
LEMMA HeapStep ==
  ASSUME TypeOK, Shape, Heap, Shape', [Next]_vars
  PROVE  Heap'
<1> USE QSemAssumption
<1>1. sem \in SemaphoreType /\ sem' \in SemaphoreType /\ sem.val \in Nat /\ sem'.val \in Nat
  BY TypeStep DEF TypeOK, SemaphoreType
<1>2. /\ IsFiniteSet(Nested) /\ Cardinality(Nested) \in Nat /\ Cardinality(Nested) < Cardinality(Proc)
      /\ IsFiniteSet(Loaded) /\ Cardinality(Loaded) \in Nat /\ Cardinality(Loaded) <= Cardinality(Proc)
      /\ Cardinality(Proc) \in Nat
      /\ Daemon \notin Loaded => Cardinality(Loaded) < Cardinality(Proc)
  BY Loads
<1>3. /\ IsFiniteSet(Nested') /\ Cardinality(Nested') \in Nat /\ Cardinality(Nested') < Cardinality(Proc)
      /\ IsFiniteSet(Loaded') /\ Cardinality(Loaded') \in Nat /\ Cardinality(Loaded') <= Cardinality(Proc)
  <2>1. (Shape => /\ IsFiniteSet(Nested) /\ Cardinality(Nested) \in Nat /\ Cardinality(Nested) < Cardinality(Proc)
                  /\ IsFiniteSet(Loaded) /\ Cardinality(Loaded) \in Nat /\ Cardinality(Loaded) <= Cardinality(Proc))'
    BY Loads, PTL
  <2>2. QED
    BY <2>1
<1>4. CASE sem.set # "live"
  <2>1. ASSUME NEW p \in Proc
        PROVE  ~CanEnter(sem) /\ SemLeave(sem, p) = sem /\ SemUndo(sem, p) = sem
    BY <1>1, <1>4, SemGone
  <2>2. SemFree(sem).set = "removed" /\ SemFree(sem).val = sem.val
    BY <1>1 DEF SemFree, SemaphoreType
  <2>3. sem' = sem \/ sem' = SemFree(sem)
    BY <2>1 DEF Next, Step, vars, Begin, PollEnter, PollFail, ForceLeave, Retry,
           TryEnter, Leave, Interrupt, LeaveAndExit, Die, Respawn, Watchdog, End
  <2>4. QED
    BY <1>4, <2>2, <2>3 DEF Heap
<1>5. CASE sem.set = "live"
  <2>1. sem.val + Cardinality(Nested) + Cardinality(Loaded) < 2 * Cardinality(Proc)
    BY <1>5 DEF Heap
  <2>2. ASSUME sem'.val + Cardinality(Nested') + Cardinality(Loaded') < 2 * Cardinality(Proc)
        PROVE  Heap'
    BY <1>1, <1>2, <1>3, <2>2 DEF Heap
  <2>3. ASSUME NEW p \in Proc, Step(p) PROVE Heap'
    <3>1. /\ \A q \in Proc \ {p} : pc'[q] = pc[q] /\ wait'[q] = wait[q] /\ nested'[q] = nested[q]
          /\ sem'.val = 0
             \/ sem'.val + (IF p \in Nested' THEN 1 ELSE 0) + (IF p \in Loaded' THEN 1 ELSE 0)
                  <= sem.val + (IF p \in Nested THEN 1 ELSE 0) + (IF p \in Loaded THEN 1 ELSE 0)
      BY <1>5, <2>3, HeapMoves
    <3>2. \A q : q # p => (q \in Nested <=> q \in Nested')
      BY <3>1 DEF Nested
    <3>3. \A q : q # p => (q \in Loaded <=> q \in Loaded')
      BY <3>1 DEF Loaded
    <3>4. Cardinality(Nested') + (IF p \in Nested THEN 1 ELSE 0) = Cardinality(Nested) + (IF p \in Nested' THEN 1 ELSE 0)
      BY <1>2, <3>2, CountMoves
    <3>5. Cardinality(Loaded') + (IF p \in Loaded THEN 1 ELSE 0) = Cardinality(Loaded) + (IF p \in Loaded' THEN 1 ELSE 0)
      BY <1>2, <3>3, CountMoves
    <3>6. sem'.val + Cardinality(Nested') + Cardinality(Loaded') < 2 * Cardinality(Proc)
      BY <1>1, <1>2, <1>3, <2>1, <3>1, <3>4, <3>5
    <3>7. QED
      BY <2>2, <3>6
  <2>4. ASSUME UNCHANGED <<pc, wait, nested>> PROVE Nested' = Nested /\ Loaded' = Loaded
    BY <2>4 DEF Nested, Loaded
  <2>5. ASSUME Watchdog PROVE Heap'
    <3>1. UNCHANGED <<pc, wait, nested>>
      BY <2>5 DEF Watchdog
    <3>2. CASE sem' = sem
      BY <2>1, <2>2, <2>4, <3>1, <3>2
    <3>3. CASE sem' # sem
      <4>1. sem.val = 0 /\ sem' = SemLeave(sem, Daemon)
        BY <2>5, <3>3 DEF Watchdog, SemLocked
      <4>2. sem'.val = 1
        BY <1>1, <1>5, <4>1, SemFacts
      <4>3. Daemon \notin Loaded
        BY <2>5 DEF Watchdog, Loaded
      <4>4. QED
        BY <1>2, <2>2, <2>4, <3>1, <4>2, <4>3
    <3>4. QED
      BY <3>2, <3>3
  <2>6. ASSUME End PROVE Heap'
    <3>1. SemLeave(sem, Daemon).val = sem.val + 1 /\ SemLeave(sem, Daemon) \in SemaphoreType
      BY <1>1, <1>5, SemFacts, SemOps
    <3>2. sem'.set = "removed" /\ sem'.val = sem.val + 1
      BY <2>6, <3>1 DEF End, SemFree, SemaphoreType
    <3>3. QED
      BY <1>1, <1>2, <2>1, <3>2 DEF Heap
  <2>7. CASE UNCHANGED vars
    <3>1. UNCHANGED <<pc, wait, nested>> /\ sem' = sem
      BY <2>7 DEF vars
    <3>2. QED
      BY <2>1, <2>2, <2>4, <3>1
  <2>8. QED
    BY <2>3, <2>5, <2>6, <2>7 DEF Next
<1>6. QED
  BY <1>4, <1>5

\* Two permits for each process.
LEMMA TwoEach ==
  /\ IsFiniteSet(Proc \X (1 .. 2))
  /\ Cardinality(Proc \X (1 .. 2)) = 2 * Cardinality(Proc)
<1> DEFINE lo == 1
           hi == 2
<1>1. IsFiniteSet(1 .. 2) /\ Cardinality(1 .. 2) = 2
  <2>1. lo \in Int /\ hi \in Int /\ lo <= hi /\ hi - lo + 1 = 2
    OBVIOUS
  <2> HIDE DEF lo, hi
  <2>2. IsFiniteSet(lo .. hi) /\ Cardinality(lo .. hi) = IF lo > hi THEN 0 ELSE hi - lo + 1
    BY <2>1, FS_Interval
  <2>3. IsFiniteSet(lo .. hi) /\ Cardinality(lo .. hi) = 2
    BY <2>1, <2>2
  <2>4. QED
    BY <2>3 DEF lo, hi
<1>2. IsFiniteSet(Proc) /\ Cardinality(Proc) \in Nat
  BY FS_CardinalityType, QSemAssumption
<1>3. /\ IsFiniteSet(Proc \X (1 .. 2))
      /\ Cardinality(Proc \X (1 .. 2)) = Cardinality(Proc) * Cardinality(1 .. 2)
  BY <1>1, <1>2, FS_Product
<1>4. QED
  BY <1>1, <1>2, <1>3

\* At first nobody owes anything.
LEMMA PermitsInit ==
  ASSUME Init
  PROVE  PermitsInv
<1> USE QSemAssumption
<1>1. sem.val = 1 /\ sem.set = "live" /\ \A p \in Proc : sem.adj[p] = 0
  BY DEF Init, SemInit
<1>2. \A p \in Proc : pc[p] = "out" /\ ~nested[p]
  BY DEF Init
<1>3. Shape
  <2>1. ASSUME NEW p \in Proc PROVE Held(p) = 0
    BY <1>2 DEF Held
  <2>2. QED
    BY <1>1, <1>2, <2>1 DEF Shape
<1>4. Cardinality(Proc) \in Nat /\ Cardinality(Proc) # 0
  BY FS_CardinalityType, FS_EmptySet
<1>5. Nested = {} /\ Loaded = {}
  BY <1>2 DEF Nested, Loaded
<1>6. Heap
  BY <1>1, <1>4, <1>5, FS_EmptySet DEF Heap
<1>7. Debts(sem.adj) = Proc \X (1 .. 2)
  BY <1>1 DEF Debts
<1>10. Covered(sem)
  BY <1>1, <1>4, <1>7, TwoEach DEF Covered
<1>11. QED
  BY <1>3, <1>6, <1>10 DEF PermitsInv

\* Every step of the lock keeps its permits, and does not heap them up.
LEMMA PermitsStep == TypeOK /\ PermitsInv /\ [Next]_vars => PermitsInv'
<1> SUFFICES ASSUME TypeOK, PermitsInv, [Next]_vars PROVE PermitsInv'
  OBVIOUS
<1>1. Shape'
  BY ShapeStep DEF PermitsInv
<1>2. Heap'
  BY <1>1, HeapStep DEF PermitsInv
<1>3. sem'.set = "live" => Covered(sem')
  BY CoveredStep DEF PermitsInv
<1>4. QED
  BY <1>1, <1>2, <1>3 DEF PermitsInv, Covered

\* With nobody inside nothing will be undone, so what is covered is in the value.
LEMMA PermitsHold == TypeOK /\ PermitsInv => PermitsKept
<1> SUFFICES ASSUME TypeOK, PermitsInv PROVE PermitsKept
  OBVIOUS
<1> USE QSemAssumption
<1>1. PermitsBounded
  BY DEF PermitsInv, Heap, PermitsBounded
<1>2. ASSUME sem.set = "live", \A p \in Proc : ~Inside(p) PROVE sem.val >= 1
  <2>1. ASSUME NEW p \in Proc PROVE sem.adj[p] \in Int /\ sem.adj[p] <= 0
    <3>1. pc[p] # "in" /\ ~nested[p]
      BY <1>2, Zenon DEF Inside
    <3>2. Held(p) = 0
      BY <3>1 DEF Held
    <3>3. sem.adj[p] <= Held(p)
      BY <1>2 DEF PermitsInv, Shape
    <3>4. sem.adj[p] \in Int
      BY DEF TypeOK, SemaphoreType
    <3>5. QED
      BY <3>2, <3>3, <3>4
  <2>2. Proc \X (1 .. 2) \in SUBSET Debts(sem.adj)
    BY <2>1 DEF Debts
  <2>3. IsFiniteSet(Debts(sem.adj)) /\ sem.val + 2 * Cardinality(Proc) > Cardinality(Debts(sem.adj))
    BY <1>2 DEF PermitsInv, Covered
  <2>4. Cardinality(Proc \X (1 .. 2)) <= Cardinality(Debts(sem.adj))
    BY <2>2, <2>3, FS_Subset
  <2>5. Cardinality(Proc) \in Nat /\ Cardinality(Debts(sem.adj)) \in Nat /\ sem.val \in Nat
    BY <2>3, FS_CardinalityType DEF TypeOK, SemaphoreType
  <2>6. QED
    BY <2>3, <2>4, <2>5, TwoEach
<1>3. QED
  BY <1>1, <1>2 DEF PermitsKept, NoLostPermit

\* However many processes there are, wherever they die or are interrupted and
\* however often an unlock is forced: a semaphore that nobody is inside can be
\* entered, and there are never more than two permits for each process (qsem.c
\* with SEM_UNDO, the forced unlock of qsem_enter_force, the watchdog and the
\* end of the daemon).
THEOREM PermitsCorrect == Spec => []PermitsKept
<1>1. Init => TypeOK /\ PermitsInv
  BY InitIInv, PermitsInit DEF IInv
<1>2. TypeOK /\ PermitsInv /\ [Next]_vars => TypeOK' /\ PermitsInv'
  BY TypeStep, PermitsStep
<1>3. QED
  BY <1>1, <1>2, PermitsHold, PTL DEF Spec

-----------------------------------------------------------------------------
(* The lock in time *)

\* How long the watchdog has looked at a locked semaphore.
Watched == Period * lockCnt + Period - alarm

\* How long a child has been inside: since then the watchdog has looked on or put
\* off its sample, or the daemon has polled, which it does once a tick.
HeldFor(p) ==
  \/ pc[Daemon] = "out" /\ hold[p] <= Watched + skipped
  \/ /\ pc[Daemon] = "poll"
     /\ hold[p] + (IF Daemon \in due THEN 0 ELSE 1) <= Watched + skipped + wait[Daemon]

\* The inductive invariant of the lock in time.
TimedInv ==
  /\ IInv /\ TTypeOK
  /\ pc[Daemon] # "dead" /\ (pc[Daemon] = "poll" /\ wait[Daemon] = 0 => Daemon \in due)
  /\ ~forced => \A p \in Children : pc[p] = "in" => HeldFor(p)

\* A step in time is a step of the lock.
LEMMA TimedIsStep == [TNext]_tvars => [Next]_vars
  BY DEF TNext, tvars, Next, Step, TBegin, TPoll, TForce, TLeave, TWatchdog, Tick

\* The types are kept, and nobody gets stuck that was not to.
LEMMA TimedTypes ==
  ASSUME IInv, TTypeOK, [TNext]_tvars
  PROVE  IInv' /\ TTypeOK' /\ stuck' = stuck
<1>1. IInv'
  BY TimedIsStep, IInvStep
<1>2. TypeOK'
  BY <1>1 DEF IInv
<1>3. /\ Period \in Nat /\ MaxHold \in Nat /\ MaxStuck \in Nat /\ MinPeriod \in Nat
      /\ MaxWait \in Nat /\ MaxLocked \in Nat
  BY TimedAssumption, QSemAssumption
<1>4. stuck' = stuck /\ \A p \in Proc : Limit(p)' = Limit(p) /\ Limit(p) \in Nat
  BY <1>3 DEF TNext, tvars, Limit
<1>5. ASSUME NEW p \in Proc
      PROVE  hold[p] \in Nat /\ hold[p] <= Limit(p) /\ overtook[p] \in 0 .. MaxWait
  BY DEF TTypeOK
<1> DEFINE Times == /\ hold' \in [Proc -> Nat] /\ \A p \in Proc : hold'[p] <= Limit(p)
                    /\ due' \in SUBSET Proc /\ alarm' \in 0 .. Period
                    /\ busy' \in BOOLEAN /\ skipped' \in Nat
           Counts == overtook' \in [Proc -> 0 .. MaxWait] /\ runs' \in 0 .. MaxLocked
<1>6. Times /\ Counts
  <2> USE DEF TTypeOK, history
  <2>1. ASSUME NEW p \in Proc, TBegin(p) \/ TPoll(p) \/ TForce(p) \/ TLeave(p)
        PROVE  Times /\ Counts
    <3>1. hold' = hold \/ hold' = [hold EXCEPT ![p] = 0]
      BY <2>1 DEF TBegin, TPoll, TForce, TLeave
    <3>2. hold' \in [Proc -> Nat] /\ \A q \in Proc : hold'[q] <= Limit(q)
      BY <1>4, <1>5, <3>1
    <3>3. due' \in SUBSET Proc /\ alarm' \in 0 .. Period /\ busy' \in BOOLEAN
      BY <1>3, <2>1 DEF TBegin, TPoll, TForce, TLeave
    <3>4. ASSUME Entered(p) PROVE Counts /\ skipped' \in Nat
      <4>1. CASE pc'[p] = "in"
        <5>1. \A q \in Proc : (CASE q = p \/ pc[q] # "poll" -> 0
                                 [] q # p /\ pc[q] = "poll" /\ overtook[q] < MaxWait -> overtook[q] + 1
                                 [] OTHER -> overtook[q]) \in 0 .. MaxWait
          BY <1>3, <1>5
        <5>2. (IF runs < MaxLocked THEN runs + 1 ELSE runs) \in 0 .. MaxLocked
          BY <1>3
        <5> QED
          BY <3>4, <4>1, <5>1, <5>2 DEF Entered
      <4>2. CASE pc'[p] # "in"
        BY <3>4, <4>2 DEF Entered
      <4>3. QED
        BY <4>1, <4>2
    <3>5. CASE TBegin(p)
      BY <1>3, <3>2, <3>3, <3>5 DEF TBegin
    <3>6. CASE TLeave(p)
      BY <3>2, <3>3, <3>6 DEF TLeave
    <3>7. QED
      BY <2>1, <3>2, <3>3, <3>4, <3>5, <3>6 DEF TPoll, TForce
  <2>2. CASE TWatchdog
    BY <1>3, <2>2 DEF TWatchdog
  <2>3. CASE Tick
    <3>1. \A p \in Proc : (IF pc[p] = "in" THEN hold[p] + 1 ELSE 0) \in Nat
      BY <1>5
    <3>2. \A p \in Proc : (IF pc[p] = "in" THEN hold[p] + 1 ELSE 0) <= Limit(p)
      BY <1>4, <1>5, <2>3 DEF Tick
    <3>3. skipped' \in Nat
      BY <2>3 DEF Tick
    <3>4. hold' \in [Proc -> Nat] /\ \A p \in Proc : hold'[p] <= Limit(p)
      BY <2>3, <3>1, <3>2 DEF Tick
    <3>6. due' \in SUBSET Proc /\ alarm' \in 0 .. Period /\ busy' \in BOOLEAN /\ Counts
      BY <1>3, <2>3 DEF Tick
    <3>7. QED
      BY <3>3, <3>4, <3>6
  <2>4. CASE UNCHANGED tvars
    BY <2>4 DEF tvars
  <2>5. QED
    BY <2>1, <2>2, <2>3, <2>4 DEF TNext
<1>7. stuck' \subseteq Children
  BY <1>4 DEF TTypeOK
<1>8. QED
  BY <1>2, <1>1, <1>4, <1>6, <1>7 DEF TTypeOK

\* What is known of the lock while a child is inside and nothing was forced.
LEMMA ChildInside ==
  ASSUME IInv, ~forced, NEW p \in Children, pc[p] = "in"
  PROVE  /\ sem.set = "live" /\ sem.val = 0
         /\ \A q \in Proc \ {p} : pc[q] # "in"
<1> USE DEF IInv, Agrees, MutualExclusion, Inside, Children
<1>1. sem.set = "live" /\ sem.val = 0
  OBVIOUS
<1>2. QED
  BY <1>1

\* Every step keeps it; the watchdog's sample and the tick are what HeldFor counts.
LEMMA TimedStep ==
  ASSUME TimedInv, [TNext]_tvars
  PROVE  TimedInv'
<1>1. IInv' /\ TTypeOK'
  BY TimedTypes DEF TimedInv
<1>2. /\ Period \in Nat \ {0} /\ lockCnt \in Nat /\ alarm \in Nat /\ alarm <= Period /\ Period * lockCnt \in Nat
      /\ alarm' \in Nat /\ alarm' <= Period /\ lockCnt' \in Nat
      /\ \A p \in Proc : hold[p] \in Nat /\ wait[p] \in Nat
      /\ Daemon \in Proc /\ Children \subseteq Proc /\ Daemon \notin Children
      /\ pc \in [Proc -> PCs] /\ wait \in [Proc -> 0 .. MaxWait] /\ hold \in [Proc -> Nat]
      /\ MaxWait \in Nat \ {0} /\ due \subseteq Proc /\ skipped \in Nat
  <2>1. Period \in Nat \ {0} /\ MaxHold \in Nat /\ MaxLocked \in Nat /\ MaxWait \in Nat \ {0}
    BY QSemAssumption, TimedAssumption
  <2>2. lockCnt \in Nat /\ alarm \in Nat /\ alarm <= Period /\ alarm' \in Nat /\ alarm' <= Period /\ lockCnt' \in Nat
    BY <1>1, <2>1 DEF TimedInv, TTypeOK, TypeOK
  <2>3. Period * lockCnt \in Nat
    BY <2>1, <2>2
  <2>4. QED
    BY <2>1, <2>2, <2>3, QSemAssumption DEF TimedInv, TTypeOK, TypeOK, Children
<1>3. pc'[Daemon] # "dead" /\ (pc'[Daemon] = "poll" /\ wait'[Daemon] = 0 => Daemon \in due')
  <2> USE DEF Goto
  <2>1. ASSUME NEW p \in Proc, TBegin(p) \/ TPoll(p) \/ TForce(p) \/ TLeave(p)
        PROVE  pc'[Daemon] # "dead" /\ (pc'[Daemon] = "poll" /\ wait'[Daemon] = 0 => Daemon \in due')
    <3>1. CASE p # Daemon
      BY <1>2, <2>1, <3>1 DEF TimedInv, TBegin, TPoll, TForce, TLeave, Begin, PollEnter, PollFail, ForceLeave, Retry, Leave
    <3>2. CASE p = Daemon
      BY <1>2, <2>1, <3>2 DEF TimedInv, TBegin, TPoll, TForce, TLeave, Begin, PollEnter, PollFail, ForceLeave, Retry, Leave
    <3>3. QED
      BY <3>1, <3>2
  <2>2. CASE TWatchdog
    BY <2>2 DEF TimedInv, TWatchdog, Watchdog
  <2>3. CASE Tick
    BY <1>2, <2>3 DEF TimedInv, Tick, vars
  <2>4. CASE UNCHANGED tvars
    BY <2>4 DEF TimedInv, tvars, vars
  <2>5. QED
    BY <2>1, <2>2, <2>3, <2>4 DEF TNext
<1>4. ASSUME ~forced', NEW p \in Children, pc'[p] = "in" PROVE HeldFor(p)'
  <2>1. ~forced /\ p \in Proc /\ p # Daemon
    BY <1>2, <1>4, TimedIsStep, ForcedStable
  <2>2. ASSUME pc[p] = "in" PROVE HeldFor(p) /\ sem.set = "live" /\ sem.val = 0 /\ pc[Daemon] # "in"
    BY <1>2, <2>1, <2>2, ChildInside DEF TimedInv
  <2>3. \A q \in Proc : pc[q] \notin {"force", "retry"}
    BY <2>1 DEF TimedInv, IInv, Agrees
  <2>4. Watched \in Nat /\ skipped \in Nat
    BY <1>2 DEF Watched
  <2>5. ASSUME NEW q \in Proc \ {p, Daemon}, TBegin(q) \/ TPoll(q) \/ TForce(q) \/ TLeave(q)
        PROVE  HeldFor(p)'
    <3>1. /\ pc'[p] = pc[p] /\ pc'[Daemon] = pc[Daemon] /\ hold'[p] = hold[p] /\ wait'[Daemon] = wait[Daemon]
          /\ lockCnt' = lockCnt /\ alarm' = alarm /\ (Daemon \in due' <=> Daemon \in due)
      BY <1>2, <2>1, <2>5 DEF TBegin, TPoll, TForce, TLeave, Begin, PollEnter, PollFail, ForceLeave, Retry, Leave, Goto
    <3>2. HeldFor(p) /\ ~CanEnter(sem) /\ pc[q] # "in"
      BY <1>2, <1>4, <2>1, <2>2, <3>1, ChildInside DEF CanEnter, TimedInv
    <3>4. pc'[q] # "in"
      BY <1>2, <2>3, <2>5, <3>2
         DEF TBegin, TPoll, TForce, TLeave, Begin, PollEnter, PollFail, ForceLeave, Retry, Leave, Goto
    <3>5. skipped' = skipped
      BY <2>5, <3>2, <3>4 DEF TBegin, TPoll, TForce, TLeave, Leave, Entered
    <3>3. QED
      BY <3>1, <3>2, <3>5 DEF HeldFor, Watched
  <2>6. ASSUME TBegin(p) \/ TPoll(p) \/ TForce(p) \/ TLeave(p) PROVE HeldFor(p)'
    <3>1. TPoll(p) /\ PollEnter(p)
      BY <1>2, <1>4, <2>1, <2>3, <2>6 DEF TBegin, TPoll, TForce, TLeave, Begin, PollFail, ForceLeave, Retry, Leave, Goto
    <3>2. /\ hold'[p] = 0 /\ pc'[Daemon] = pc[Daemon] /\ wait'[Daemon] = wait[Daemon] /\ skipped' \in Nat
          /\ lockCnt' = lockCnt /\ alarm' = alarm /\ (Daemon \in due' <=> Daemon \in due)
      BY <1>1, <1>2, <2>1, <3>1 DEF TPoll, PollEnter, Goto, TTypeOK
    <3>3. pc[Daemon] # "in"
      <4>1. sem.val > 0
        BY <3>1 DEF PollEnter, CanEnter
      <4>2. QED
        BY <1>2, <2>1, <4>1 DEF TimedInv, IInv, Agrees, Inside
    <3>4. pc[Daemon] = "out" \/ pc[Daemon] = "poll"
      BY <1>2, <2>3, <3>3 DEF TimedInv, PCs
    <3>5. wait[Daemon] \in Nat /\ (pc[Daemon] = "poll" /\ wait[Daemon] = 0 => Daemon \in due)
      BY <1>2 DEF TimedInv
    <3>6. Watched' = Watched
      BY <3>2 DEF Watched
    <3>7. CASE pc[Daemon] = "out"
      BY <2>4, <3>2, <3>6, <3>7 DEF HeldFor
    <3>8. CASE pc[Daemon] = "poll"
      <4>1. 0 + (IF Daemon \in due THEN 0 ELSE 1) <= wait[Daemon]
        BY <3>5, <3>8
      <4>2. 0 + (IF Daemon \in due' THEN 0 ELSE 1) <= Watched' + skipped' + wait'[Daemon]
        BY <2>4, <3>2, <3>5, <3>6, <4>1
      <4>3. QED
        BY <3>2, <3>8, <4>2 DEF HeldFor
    <3>9. QED
      BY <3>4, <3>7, <3>8
  <2>7. ASSUME TBegin(Daemon) \/ TPoll(Daemon) \/ TForce(Daemon) \/ TLeave(Daemon) PROVE HeldFor(p)'
    <3>1. pc[p] = "in"
      BY <1>2, <1>4, <2>1, <2>7 DEF TBegin, TPoll, TForce, TLeave, Begin, PollEnter, PollFail, ForceLeave, Retry, Leave, Goto
    <3>2. HeldFor(p) /\ ~CanEnter(sem) /\ pc[Daemon] # "in"
      BY <2>2, <3>1 DEF CanEnter
    <3>3. lockCnt' = lockCnt /\ alarm' = alarm /\ skipped' = skipped
      <4>1. lockCnt' = lockCnt /\ alarm' = alarm
        BY <2>7 DEF TBegin, TPoll, TForce, TLeave, Begin, PollEnter, PollFail, ForceLeave, Retry, Leave
      <4>2. pc'[Daemon] # "in"
        BY <1>2, <2>3, <2>7, <3>2
           DEF TBegin, TPoll, TForce, TLeave, Begin, PollEnter, PollFail, ForceLeave, Retry, Leave, Goto
      <4>3. QED
        BY <2>7, <3>2, <4>1, <4>2 DEF TBegin, TPoll, TForce, TLeave, Leave, Entered
    <3>4. CASE TBegin(Daemon)
      <4>1. pc[Daemon] = "out" /\ pc'[Daemon] = "poll" /\ wait'[Daemon] = 0 /\ Daemon \in due' /\ hold'[p] = hold[p]
        BY <1>2, <3>4 DEF TBegin, Begin, Goto
      <4>2. QED
        BY <1>2, <2>4, <3>2, <3>3, <4>1 DEF HeldFor, Watched
    <3>5. CASE TPoll(Daemon)
      <4>1. Daemon \in due /\ Daemon \notin due' /\ hold'[p] = hold[p] /\ pc[Daemon] = "poll" /\ PollFail(Daemon)
        BY <1>2, <2>1, <3>2, <3>5 DEF TPoll, PollEnter, PollFail
      <4>2. pc'[Daemon] = "poll" /\ wait'[Daemon] = wait[Daemon] + 1
        BY <1>2, <4>1 DEF PollFail
      <4>3. hold[p] <= Watched + skipped + wait[Daemon] /\ hold[p] \in Nat /\ wait[Daemon] \in Nat
        BY <1>2, <2>1, <3>2, <4>1 DEF HeldFor
      <4>4. Watched' = Watched
        BY <3>3 DEF Watched
      <4>5. hold[p] + 1 <= Watched + skipped + (wait[Daemon] + 1)
        BY <2>4, <4>3
      <4>6. QED
        BY <3>3, <4>1, <4>2, <4>4, <4>5 DEF HeldFor
    <3>6. ~TForce(Daemon)
      BY <1>2, <1>4, <2>3 DEF TForce, ForceLeave, Retry
    <3>7. ~TLeave(Daemon)
      BY <3>2 DEF TLeave, Leave
    <3>8. QED
      BY <2>7, <3>4, <3>5, <3>6, <3>7
  <2>8. ASSUME TWatchdog PROVE HeldFor(p)'
    <3>1. /\ pc[p] = "in" /\ pc[Daemon] = "out" /\ pc' = pc /\ hold' = hold /\ alarm' = Period
          /\ skipped' = skipped
      BY <1>4, <2>8 DEF TWatchdog, Watchdog
    <3>2. SemLocked(sem) /\ HeldFor(p)
      BY <2>2, <3>1 DEF SemLocked
    <3>3. lockCnt' = lockCnt + 1
      BY <1>4, <2>8, <3>2 DEF TWatchdog, Watchdog
    <3>4. Period * (lockCnt + 1) = Period * lockCnt + Period
      BY <1>2
    <3>5. Watched <= Watched' /\ Watched' \in Nat
      <4>1. Watched' = Period * (lockCnt + 1) + Period - Period
        BY <3>1, <3>3 DEF Watched
      <4>2. Watched = Period * lockCnt + Period - alarm
        BY DEF Watched
      <4>3. QED
        BY <1>2, <3>4, <4>1, <4>2
    <3>6. hold[p] <= Watched + skipped /\ hold[p] \in Nat
      BY <1>2, <2>1, <3>1, <3>2 DEF HeldFor
    <3>7. hold[p] <= Watched' + skipped
      BY <2>4, <3>5, <3>6
    <3>8. QED
      BY <3>1, <3>7 DEF HeldFor
  <2>9. ASSUME Tick PROVE HeldFor(p)'
    <3>1. /\ pc[p] = "in" /\ pc' = pc /\ wait' = wait /\ lockCnt' = lockCnt
          /\ hold'[p] = hold[p] + 1 /\ Daemon \notin due /\ (pc[Daemon] = "poll" => Daemon \in due')
          /\ alarm' = IF alarm > 0 THEN alarm - 1 ELSE 0
          /\ skipped' = IF alarm = 0 /\ pc[Daemon] = "out" THEN skipped + 1 ELSE skipped
      BY <1>2, <1>4, <2>1, <2>9 DEF Tick, vars
    <3>2. HeldFor(p) /\ hold[p] \in Nat /\ wait[Daemon] \in Nat
      BY <1>2, <2>1, <2>2, <3>1
    <3>3. Watched' = (IF alarm > 0 THEN Watched + 1 ELSE Watched)
      BY <1>2, <3>1 DEF Watched
    <3>4. CASE pc[Daemon] = "out"
      BY <1>2, <2>4, <3>1, <3>2, <3>3, <3>4 DEF HeldFor
    <3>5. CASE pc[Daemon] = "poll"
      BY <1>2, <2>4, <3>1, <3>2, <3>3, <3>5 DEF HeldFor
    <3>6. QED
      BY <3>2, <3>4, <3>5 DEF HeldFor
  <2>10. CASE UNCHANGED tvars
    <3>1. /\ pc' = pc /\ hold' = hold /\ wait' = wait /\ lockCnt' = lockCnt /\ alarm' = alarm /\ due' = due
          /\ skipped' = skipped
      BY <2>10 DEF tvars, vars
    <3>2. QED
      BY <1>4, <2>2, <3>1 DEF HeldFor, Watched
  <2>11. QED
    BY <2>5, <2>6, <2>7, <2>8, <2>9, <2>10 DEF TNext
<1>5. QED
  BY <1>1, <1>3, <1>4 DEF TimedInv

\* At first nobody is inside.
LEMMA TimedStart ==
  ASSUME TInit
  PROVE  TimedInv
<1>1. IInv
  BY InitIInv DEF TInit
<1>2. TTypeOK
  <2>1. hold \in [Proc -> Nat] /\ \A p \in Proc : hold[p] <= Limit(p)
    BY TimedAssumption DEF TInit, Limit
  <2>2. overtook \in [Proc -> 0 .. MaxWait] /\ runs \in 0 .. MaxLocked
    BY QSemAssumption DEF TInit
  <2>3. alarm \in 0 .. Period /\ skipped \in Nat
    BY TimedAssumption DEF TInit
  <2>4. stuck \subseteq Children /\ due \subseteq Proc /\ busy \in BOOLEAN
    BY Zenon DEF TInit
  <2>5. QED
    BY <1>1, <2>1, <2>2, <2>3, <2>4 DEF TTypeOK, IInv
<1>3. \A p \in Proc : pc[p] = "out"
  BY Zenon DEF TInit, Init
<1>4. QED
  BY <1>1, <1>2, <1>3, QSemAssumption DEF TimedInv, Children

\* However many children there are and whatever the times: a section of a child
\* that does not end is no longer exclusive when the time for one sample more than
\* the watchdog allows has passed, not counting the time for which the daemon put
\* off a sample that was due, or when the daemon itself has polled to the end
\* (MAX_SEMAPHORES_LOCK_SECS of daemon.c, maxwaitms of qsem_enter_force).
THEOREM OverrunCorrect == TSpec => [](TTypeOK /\ OverrunBounded)
<1>1. TInit => TimedInv
  BY TimedStart
<1>2. TimedInv /\ [TNext]_tvars => TimedInv'
  BY TimedStep
<1>3. TimedInv => TTypeOK /\ OverrunBounded
  <2>1. SUFFICES ASSUME TimedInv, ~forced, NEW p \in Children, pc[p] = "in"
                 PROVE  hold[p] <= Period * (MaxLocked + 1) + MaxWait + skipped
    BY DEF TimedInv, OverrunBounded
  <2>2. /\ Period \in Nat /\ lockCnt \in Nat /\ MaxLocked \in Nat /\ lockCnt <= MaxLocked
        /\ alarm \in Nat /\ MaxWait \in Nat /\ skipped \in Nat
    BY <2>1, QSemAssumption, TimedAssumption DEF TimedInv, TTypeOK, TypeOK
  <2>3. wait[Daemon] \in 0 .. MaxWait /\ hold[p] \in Nat
    BY <2>1, QSemAssumption DEF TimedInv, TTypeOK, TypeOK, Children
  <2>4. HeldFor(p)
    BY <2>1 DEF TimedInv
  <2>5. PICK d \in Nat : MaxLocked = lockCnt + d
    <3>1. MaxLocked - lockCnt \in Nat /\ MaxLocked = lockCnt + (MaxLocked - lockCnt)
      BY <2>2
    <3>2. QED
      BY <3>1
  <2>6. Period * lockCnt \in Nat /\ Period * d \in Nat
    BY <2>2, <2>5
  <2>7. Period * (MaxLocked + 1) = Period * lockCnt + Period * d + Period
    BY <2>2, <2>5
  <2>8. hold[p] <= Period * lockCnt + Period - alarm + MaxWait + skipped
    BY <2>2, <2>3, <2>4, <2>6 DEF HeldFor, Watched
  <2>9. QED
    BY <2>2, <2>3, <2>5, <2>6, <2>7, <2>8
<1>4. QED
  BY <1>1, <1>2, <1>3, PTL DEF TSpec

-----------------------------------------------------------------------------
(* Who makes an unlock be forced *)

\* The sections that took a poll from p: those that overtook it, and the one that
\* is there or was when it came, which took as many as the ticks it has lasted.
Overtaken ==
  \A p \in Proc : pc[p] = "poll" =>
    IF \A q \in Proc : pc[q] # "in"
    THEN wait[p] <= (MaxHold + 1) * overtook[p] + (MaxHold + 1)
    ELSE \A q \in Proc : pc[q] = "in" =>
           wait[p] <= (MaxHold + 1) * overtook[p] + (hold[q] + IF p \in due THEN 0 ELSE 1)

\* Those that were seen by a sample of the watchdog; the one that is there was, if
\* the last sample is not older than it.
Sampled ==
  IF \A q \in Proc : pc[q] # "in"
  THEN lockCnt <= runs + 1
  ELSE \A q \in Proc : pc[q] = "in" =>
         lockCnt <= runs + IF Period - alarm <= hold[q] THEN 1 ELSE 0

\* The inductive invariant.
CrowdInv ==
  /\ IInv /\ TTypeOK /\ \A p \in Proc : ~nested[p]
  /\ ~forced /\ stuck = {} => Overtaken /\ (MaxHold < MinPeriod => Sampled)

\* The numbers that are multiplied.
LEMMA Sections ==
  ASSUME NEW m \in Nat, NEW n \in Nat
  PROVE  (m + 1) * n \in Nat /\ (m + 1) * (n + 1) = (m + 1) * n + (m + 1) /\ n <= (m + 1) * n
<1>1. (m + 1) * n = m * n + n /\ m * n \in Nat
  OBVIOUS
<1>2. (m + 1) * (n + 1) = m * (n + 1) + (n + 1) /\ m * (n + 1) = m * n + m
  OBVIOUS
<1>3. QED
  BY <1>1, <1>2

\* What the types say of one process while nobody is stuck.
LEMMA CrowdTypes ==
  ASSUME IInv, TTypeOK, stuck = {}
  PROVE  /\ \A p \in Proc : /\ wait[p] \in Nat /\ wait[p] <= MaxWait
                            /\ hold[p] \in Nat /\ hold[p] <= MaxHold
                            /\ overtook[p] \in Nat /\ overtook[p] <= MaxWait
                            /\ (MaxHold + 1) * overtook[p] \in Nat
         /\ alarm \in Nat /\ alarm <= Period /\ lockCnt \in Nat /\ lockCnt <= MaxLocked
         /\ runs \in Nat /\ runs <= MaxLocked
         /\ Period \in Nat /\ MinPeriod \in Nat /\ MinPeriod <= Period /\ MaxHold \in Nat
         /\ MaxWait \in Nat /\ MaxLocked \in Nat
<1> USE QSemAssumption, TimedAssumption DEF IInv, TTypeOK, TypeOK, Limit
<1>1. /\ Period \in Nat /\ MinPeriod \in Nat /\ MinPeriod <= Period /\ MaxHold \in Nat
      /\ MaxWait \in Nat /\ MaxLocked \in Nat
  OBVIOUS
<1>2. ASSUME NEW p \in Proc
      PROVE  /\ wait[p] \in Nat /\ wait[p] <= MaxWait /\ hold[p] \in Nat /\ hold[p] <= MaxHold
             /\ overtook[p] \in Nat /\ overtook[p] <= MaxWait
             /\ (MaxHold + 1) * overtook[p] \in Nat
  <2>1. wait[p] \in 0 .. MaxWait /\ overtook[p] \in 0 .. MaxWait /\ hold[p] \in 0 .. MaxHold
    OBVIOUS
  <2>2. QED
    BY <1>1, <2>1, Sections
<1>3. alarm \in 0 .. Period /\ lockCnt \in 0 .. MaxLocked /\ runs \in 0 .. MaxLocked
  OBVIOUS
<1>4. QED
  BY <1>1, <1>2, <1>3

\* One is inside at most, and a semaphore that can be entered has nobody inside.
LEMMA OneInside ==
  ASSUME IInv, ~forced, \A p \in Proc : ~nested[p]
  PROVE  /\ \A p, q \in Proc : pc[p] = "in" /\ pc[q] = "in" => p = q
         /\ CanEnter(sem) <=> \A p \in Proc : pc[p] # "in"
         /\ SemLocked(sem) <=> ~CanEnter(sem)
         /\ \A p \in Proc : pc[p] \notin {"force", "retry"}
<1>1. /\ \A p, q \in Proc : pc[p] = "in" /\ pc[q] = "in" => p = q
      /\ \A p \in Proc : pc[p] \notin {"force", "retry"}
  BY DEF IInv, Agrees, MutualExclusion, Inside
<1>2. (\A p \in Proc : pc[p] # "in") => sem.val = 1
  BY DEF IInv, Agrees, Inside
<1>3. \A p \in Proc : pc[p] = "in" => sem.val = 0
  BY DEF IInv, Agrees, Inside
<1>4. sem.set = "live"
  BY DEF IInv, Agrees
<1>5. QED
  BY <1>1, <1>2, <1>3, <1>4 DEF CanEnter, SemLocked

\* A section that begins overtakes all who wait.
LEMMA EnterCrowd ==
  ASSUME CrowdInv, IInv', TTypeOK', stuck' = stuck, ~forced, stuck = {},
         NEW p \in Proc, TPoll(p), PollEnter(p)
  PROVE  Overtaken' /\ (MaxHold < MinPeriod => Sampled)'
<1> USE DEF CrowdInv
<1>1. /\ \A q \in Proc : pc[q] # "in"
      /\ pc' = [pc EXCEPT ![p] = "in"] /\ pc'[p] = "in" /\ UNCHANGED <<wait, lockCnt, alarm>>
      /\ hold'[p] = 0 /\ due' = due \ {p} /\ Entered(p)
  BY OneInside DEF TPoll, PollEnter, Goto, IInv, TypeOK, TTypeOK
<1>2. \A q \in Proc : pc'[q] = "in" <=> q = p
  BY <1>1 DEF IInv, TypeOK
<1>3. ASSUME NEW q \in Proc, pc'[q] = "poll"
      PROVE  wait'[q] <= (MaxHold + 1) * overtook'[q] + (hold'[p] + IF q \in due' THEN 0 ELSE 1)
  <2>1. q # p /\ pc[q] = "poll"
    BY <1>1, <1>2, <1>3 DEF IInv, TypeOK
  <2>2. wait[q] <= (MaxHold + 1) * overtook[q] + (MaxHold + 1)
    BY <1>1, <2>1 DEF Overtaken
  <2>3. overtook'[q] = IF overtook[q] < MaxWait THEN overtook[q] + 1 ELSE overtook[q]
    BY <1>1, <2>1 DEF Entered
  <2>4. wait[q] <= (MaxHold + 1) * overtook'[q] /\ (MaxHold + 1) * overtook'[q] \in Nat
    <3>1. CASE overtook[q] < MaxWait
      BY <2>2, <2>3, <3>1, CrowdTypes, Sections
    <3>2. CASE ~(overtook[q] < MaxWait)
      <4>1. overtook[q] = MaxWait /\ overtook'[q] = MaxWait
        <5>1. overtook[q] \in Nat /\ MaxWait \in Nat /\ overtook[q] <= MaxWait
          BY CrowdTypes
        <5>2. QED
          BY <2>3, <3>2, <5>1
      <4>2. MaxWait <= (MaxHold + 1) * MaxWait /\ (MaxHold + 1) * MaxWait \in Nat
        BY CrowdTypes, Sections
      <4>3. QED
        BY <4>1, <4>2, CrowdTypes
    <3>3. QED
      BY <3>1, <3>2
  <2>5. QED
    BY <1>1, <2>4, CrowdTypes
<1>4. Overtaken'
  BY <1>2, <1>3 DEF Overtaken
<1>5. ASSUME MaxHold < MinPeriod PROVE Sampled'
  <2>1. lockCnt <= runs + 1
    BY <1>1, <1>5 DEF Sampled
  <2>2. runs' = IF runs < MaxLocked THEN runs + 1 ELSE runs
    BY <1>1 DEF Entered
  <2>3. lockCnt' <= runs' + 0 /\ lockCnt' <= runs' + 1
    BY <1>1, <2>1, <2>2, CrowdTypes
  <2>4. QED
    <3>1. pc'[p] = "in" /\ \A q \in Proc : pc'[q] = "in" => q = p
      BY <1>2
    <3>2. lockCnt' <= runs' + IF Period - alarm' <= hold'[p] THEN 1 ELSE 0
      <4>1. CASE Period - alarm' <= hold'[p]
        BY <2>3, <4>1
      <4>2. CASE ~(Period - alarm' <= hold'[p])
        BY <2>3, <4>2
      <4>3. QED
        BY <4>1, <4>2
    <3>3. QED
      BY <3>1, <3>2 DEF Sampled
<1>6. QED
  BY <1>4, <1>5

\* A call that begins has not been overtaken yet.
LEMMA BeginCrowd ==
  ASSUME CrowdInv, ~forced, stuck = {}, NEW p \in Proc, TBegin(p)
  PROVE  Overtaken' /\ (MaxHold < MinPeriod => Sampled)'
<1> USE DEF CrowdInv
<1>1. /\ pc' = [pc EXCEPT ![p] = "poll"] /\ pc[p] = "out" /\ wait' = [wait EXCEPT ![p] = 0]
      /\ overtook' = [overtook EXCEPT ![p] = 0] /\ due' = due \cup {p}
      /\ UNCHANGED <<hold, alarm, runs, lockCnt>>
  BY DEF TBegin, Begin, Goto
<1>2. \A q \in Proc : /\ pc'[q] = "in" <=> pc[q] = "in"
                      /\ q # p => pc'[q] = pc[q] /\ wait'[q] = wait[q] /\ overtook'[q] = overtook[q]
                                  /\ (q \in due' <=> q \in due)
  BY <1>1 DEF IInv, TypeOK, TTypeOK
<1>3. wait'[p] = 0 /\ overtook'[p] = 0 /\ (MaxHold + 1) * 0 = 0
  BY <1>1, CrowdTypes DEF IInv, TypeOK, TTypeOK
<1>4. ASSUME NEW q \in Proc, pc'[q] = "poll", \A r \in Proc : pc'[r] # "in"
      PROVE  wait'[q] <= (MaxHold + 1) * overtook'[q] + (MaxHold + 1)
  <2>1. CASE q = p
    BY <1>3, <2>1, CrowdTypes
  <2>2. CASE q # p
    BY <1>2, <1>4, <2>2 DEF Overtaken
  <2>3. QED
    BY <2>1, <2>2
<1>5. ASSUME NEW q \in Proc, pc'[q] = "poll", NEW r \in Proc, pc'[r] = "in"
      PROVE  wait'[q] <= (MaxHold + 1) * overtook'[q] + (hold'[r] + IF q \in due' THEN 0 ELSE 1)
  <2>1. CASE q = p
    BY <1>1, <1>3, <2>1, CrowdTypes
  <2>2. CASE q # p
    BY <1>1, <1>2, <1>5, <2>2 DEF Overtaken
  <2>3. QED
    BY <2>1, <2>2
<1>6. Overtaken'
  BY <1>4, <1>5 DEF Overtaken
<1>7. (MaxHold < MinPeriod => Sampled)'
  BY <1>1, <1>2 DEF Sampled
<1>8. QED
  BY <1>6, <1>7

\* A poll that fails is one that the section that is there has taken.
LEMMA FailCrowd ==
  ASSUME CrowdInv, ~forced, stuck = {}, NEW p \in Proc, TPoll(p), PollFail(p)
  PROVE  Overtaken' /\ (MaxHold < MinPeriod => Sampled)'
<1> USE DEF CrowdInv
<1>1. /\ pc[p] = "poll" /\ wait' = [wait EXCEPT ![p] = @ + 1] /\ p \in due /\ due' = due \ {p}
      /\ hold' = [hold EXCEPT ![p] = 0] /\ pc' = pc /\ ~CanEnter(sem) /\ UNCHANGED <<alarm, lockCnt, history>>
  BY DEF TPoll, PollFail, Entered
<1>2. PICK o \in Proc : pc[o] = "in"
  BY <1>1, OneInside
<1>3. \A r \in Proc : pc[r] = "in" => r # p /\ hold'[r] = hold[r]
  BY <1>1 DEF TTypeOK
<1>4. ASSUME NEW q \in Proc, pc'[q] = "poll", NEW r \in Proc, pc'[r] = "in"
      PROVE  wait'[q] <= (MaxHold + 1) * overtook'[q] + (hold'[r] + IF q \in due' THEN 0 ELSE 1)
  <2>1. /\ wait[q] <= (MaxHold + 1) * overtook[q] + (hold[r] + IF q \in due THEN 0 ELSE 1)
        /\ hold'[r] = hold[r] /\ overtook' = overtook
    BY <1>1, <1>3, <1>4 DEF Overtaken, history
  <2>2. CASE q = p
    <3>1. wait'[q] = wait[q] + 1 /\ q \in due /\ q \notin due'
      BY <1>1, <2>2 DEF IInv, TypeOK
    <3>2. QED
      BY <2>1, <3>1, CrowdTypes
  <2>3. CASE q # p
    <3>1. wait'[q] = wait[q] /\ (q \in due' <=> q \in due)
      BY <1>1, <2>3 DEF IInv, TypeOK
    <3>2. QED
      BY <2>1, <3>1
  <2>4. QED
    BY <2>2, <2>3
<1>5. Overtaken'
  BY <1>1, <1>2, <1>4 DEF Overtaken
<1>6. (MaxHold < MinPeriod => Sampled)'
  BY <1>1, <1>2, <1>3 DEF Sampled, history
<1>7. QED
  BY <1>5, <1>6

\* A section that ends has lasted MaxHold ticks at most.
LEMMA LeaveCrowd ==
  ASSUME CrowdInv, ~forced, stuck = {}, NEW p \in Proc, TLeave(p)
  PROVE  Overtaken' /\ (MaxHold < MinPeriod => Sampled)'
<1> USE DEF CrowdInv
<1>1. /\ pc[p] = "in" /\ pc' = [pc EXCEPT ![p] = "out"]
      /\ UNCHANGED <<wait, due, alarm, lockCnt, history>>
  BY DEF TLeave, Leave, Goto
<1>2. (\A q \in Proc : pc'[q] # "in") /\ \A q \in Proc : pc'[q] = "poll" => pc[q] = "poll"
  BY <1>1, OneInside DEF IInv, TypeOK
<1>3. ASSUME NEW q \in Proc, pc'[q] = "poll"
      PROVE  wait'[q] <= (MaxHold + 1) * overtook'[q] + (MaxHold + 1)
  <2>1. wait[q] <= (MaxHold + 1) * overtook[q] + (hold[p] + IF q \in due THEN 0 ELSE 1)
    BY <1>1, <1>2, <1>3 DEF Overtaken
  <2>2. QED
    BY <1>1, <2>1, CrowdTypes DEF history
<1>4. Overtaken'
  BY <1>2, <1>3 DEF Overtaken
<1>5. ASSUME MaxHold < MinPeriod PROVE Sampled'
  <2>1. lockCnt <= runs + IF Period - alarm <= hold[p] THEN 1 ELSE 0
    BY <1>1, <1>5 DEF Sampled
  <2>2. lockCnt' <= runs' + 1
    BY <1>1, <2>1, CrowdTypes DEF history
  <2>3. QED
    BY <1>2, <2>2 DEF Sampled
<1>6. QED
  BY <1>4, <1>5

\* A locked sample is of a section that began after the last one.
LEMMA WatchdogCrowd ==
  ASSUME CrowdInv, ~forced, ~forced', stuck = {}, TWatchdog
  PROVE  Overtaken' /\ (MaxHold < MinPeriod => Sampled)'
<1> USE DEF CrowdInv
<1>1. /\ UNCHANGED <<pc, wait, hold, due, overtook>> /\ alarm' = Period /\ alarm <= Period - MinPeriod
      /\ runs' = IF lockCnt' = 0 THEN 0 ELSE runs
  BY DEF TWatchdog, Watchdog
<1>2. Overtaken'
  BY <1>1 DEF Overtaken
<1>3. ASSUME MaxHold < MinPeriod PROVE Sampled'
  <2>1. CASE SemLocked(sem)
    <3>1. lockCnt' = lockCnt + 1 /\ runs' = runs
      <4>1. lockCnt' = lockCnt + 1
        BY <2>1 DEF TWatchdog, Watchdog
      <4>2. QED
        BY <1>1, <4>1, CrowdTypes
    <3>2. ASSUME NEW q \in Proc, pc[q] = "in"
          PROVE  lockCnt + 1 <= runs + IF Period - Period <= hold[q] THEN 1 ELSE 0
      <4>1. lockCnt <= runs + IF Period - alarm <= hold[q] THEN 1 ELSE 0
        BY <1>3, <3>2 DEF Sampled
      <4>2. ~(Period - alarm <= hold[q])
        BY <1>1, <1>3, CrowdTypes
      <4>3. QED
        BY <4>1, <4>2, CrowdTypes
    <3>3. \E q \in Proc : pc[q] = "in"
      BY <2>1, OneInside
    <3>4. QED
      BY <1>1, <3>1, <3>2, <3>3 DEF Sampled
  <2>2. CASE ~SemLocked(sem)
    <3>1. lockCnt' = 0 /\ runs' = 0
      BY <1>1, <2>2 DEF TWatchdog, Watchdog
    <3>2. \A q \in Proc : pc'[q] # "in"
      BY <1>1, <2>2, OneInside
    <3>3. QED
      BY <3>1, <3>2 DEF Sampled
  <2>3. QED
    BY <2>1, <2>2
<1>4. QED
  BY <1>2, <1>3

\* A tick allows every waiter one more poll, and the section one more tick.
LEMMA TickCrowd ==
  ASSUME CrowdInv, ~forced, stuck = {}, Tick
  PROVE  Overtaken' /\ (MaxHold < MinPeriod => Sampled)'
<1> USE DEF CrowdInv
<1>1. /\ due = {} /\ UNCHANGED <<pc, wait, lockCnt, history>> /\ due' = {p \in Proc : pc[p] = "poll"}
      /\ alarm' = IF alarm > 0 THEN alarm - 1 ELSE 0
      /\ \A q \in Proc : pc[q] = "in" => hold'[q] = hold[q] + 1
  BY DEF Tick, vars
<1>2. ASSUME NEW q \in Proc, pc'[q] = "poll", NEW r \in Proc, pc'[r] = "in"
      PROVE  wait'[q] <= (MaxHold + 1) * overtook'[q] + (hold'[r] + IF q \in due' THEN 0 ELSE 1)
  <2>1. wait[q] <= (MaxHold + 1) * overtook[q] + (hold[r] + 1)
    BY <1>1, <1>2 DEF Overtaken
  <2>2. hold'[r] = hold[r] + 1 /\ q \in due' /\ wait' = wait /\ overtook' = overtook
    BY <1>1, <1>2 DEF history
  <2>3. QED
    BY <2>1, <2>2, CrowdTypes
<1>3. ASSUME NEW q \in Proc, pc'[q] = "poll", \A r \in Proc : pc'[r] # "in"
      PROVE  wait'[q] <= (MaxHold + 1) * overtook'[q] + (MaxHold + 1)
  BY <1>1, <1>3 DEF Overtaken, history
<1>4. Overtaken'
  BY <1>2, <1>3 DEF Overtaken
<1>5. ASSUME MaxHold < MinPeriod PROVE Sampled'
  <2>1. ASSUME NEW q \in Proc, pc[q] = "in"
        PROVE  lockCnt' <= runs' + IF Period - alarm' <= hold'[q] THEN 1 ELSE 0
    <3>1. lockCnt <= runs + IF Period - alarm <= hold[q] THEN 1 ELSE 0
      BY <1>5, <2>1 DEF Sampled
    <3>2. Period - alarm <= hold[q] => Period - alarm' <= hold'[q]
      BY <1>1, <2>1, CrowdTypes
    <3>3. QED
      BY <1>1, <3>1, <3>2, CrowdTypes DEF history
  <2>2. QED
    BY <1>1, <1>5, <2>1 DEF Sampled, history
<1>6. QED
  BY <1>4, <1>5

\* Every step keeps it.
LEMMA CrowdStep ==
  ASSUME CrowdInv, [TNext]_tvars
  PROVE  CrowdInv'
<1> USE DEF CrowdInv
<1>1. IInv' /\ TTypeOK' /\ stuck' = stuck
  BY TimedTypes
<1>2. \A p \in Proc : ~nested'[p]
  <2>1. nested' = nested
    BY DEF TNext, tvars, vars, TBegin, TPoll, TForce, TLeave, TWatchdog, Tick,
           Begin, PollEnter, PollFail, ForceLeave, Retry, Leave, Watchdog
  <2>2. QED
    BY <2>1
<1>3. ASSUME ~forced', stuck = {} PROVE Overtaken' /\ (MaxHold < MinPeriod => Sampled)'
  <2>1. ~forced
    BY <1>3, TimedIsStep, ForcedStable
  <2>2. ASSUME NEW p \in Proc, TPoll(p) PROVE Overtaken' /\ (MaxHold < MinPeriod => Sampled)'
    <3>1. CASE PollEnter(p)
      BY <1>1, <1>3, <2>1, <2>2, <3>1, EnterCrowd
    <3>2. CASE PollFail(p)
      BY <1>3, <2>1, <2>2, <3>2, FailCrowd
    <3>3. QED
      BY <2>2, <3>1, <3>2 DEF TPoll
  <2>3. ASSUME NEW p \in Proc PROVE ~TForce(p)
    BY <1>3, <2>1, OneInside DEF TForce, ForceLeave, Retry
  <2>4. CASE UNCHANGED tvars
    <3>1. UNCHANGED <<pc, wait, overtook, hold, due, alarm, lockCnt, runs>>
      BY <2>4 DEF tvars, vars, history
    <3>2. Overtaken /\ (MaxHold < MinPeriod => Sampled)
      BY <1>3, <2>1
    <3>3. QED
      BY <3>1, <3>2 DEF Overtaken, Sampled
  <2>5. QED
    BY <1>3, <2>1, <2>2, <2>3, <2>4, BeginCrowd, LeaveCrowd, WatchdogCrowd, TickCrowd DEF TNext
<1>4. QED
  BY <1>1, <1>2, <1>3

\* However many children there are and whatever the times: while nobody gets stuck
\* inside, a waiter's polls fail at most MaxHold + 1 times for each section that
\* overtook it and the one that it found, and the samples that the watchdog finds
\* locked in a row are of as many sections, if these are shorter than the time
\* between samples (qsem_enter_force, MAX_SEMAPHORES_LOCK_SECS of daemon.c).
THEOREM ForcedByCrowdCorrect == TSpec => []ForcedByCrowd
<1>1. TInit => CrowdInv
  <2>1. SUFFICES ASSUME TInit PROVE CrowdInv
    OBVIOUS
  <2>2. IInv /\ TTypeOK
    BY <2>1, TimedStart DEF TimedInv
  <2>3. (\A p \in Proc : pc[p] = "out" /\ ~nested[p]) /\ lockCnt = 0 /\ runs = 0
    BY <2>1, Zenon DEF TInit, Init
  <2>4. QED
    BY <2>2, <2>3 DEF CrowdInv, Overtaken, Sampled
<1>2. CrowdInv /\ [TNext]_tvars => CrowdInv'
  BY CrowdStep
<1>3. CrowdInv => ForcedByCrowd
  <2>1. SUFFICES ASSUME CrowdInv, ~forced, stuck = {}
                 PROVE  /\ \A p \in Proc :
                             pc[p] = "poll" => wait[p] <= (MaxHold + 1) * (overtook[p] + 1)
                        /\ MaxHold < MinPeriod => lockCnt <= runs + 1
    BY DEF ForcedByCrowd
  <2>2. ASSUME NEW p \in Proc, pc[p] = "poll"
        PROVE  wait[p] <= (MaxHold + 1) * (overtook[p] + 1)
    <3>1. wait[p] <= (MaxHold + 1) * overtook[p] + (MaxHold + 1)
      <4>1. CASE \A q \in Proc : pc[q] # "in"
        BY <2>1, <2>2, <4>1 DEF CrowdInv, Overtaken
      <4>2. ASSUME NEW q \in Proc, pc[q] = "in"
            PROVE  wait[p] <= (MaxHold + 1) * overtook[p] + (MaxHold + 1)
        <5>1. wait[p] <= (MaxHold + 1) * overtook[p] + (hold[q] + IF p \in due THEN 0 ELSE 1)
          BY <2>1, <2>2, <4>2 DEF CrowdInv, Overtaken
        <5>2. QED
          BY <2>1, <5>1, CrowdTypes DEF CrowdInv
      <4>3. QED
        BY <4>1, <4>2
    <3>2. QED
      BY <2>1, <3>1, CrowdTypes, Sections DEF CrowdInv
  <2>3. ASSUME MaxHold < MinPeriod PROVE lockCnt <= runs + 1
    <3>1. CASE \A q \in Proc : pc[q] # "in"
      BY <2>1, <2>3, <3>1 DEF CrowdInv, Sampled
    <3>2. ASSUME NEW q \in Proc, pc[q] = "in" PROVE lockCnt <= runs + 1
      <4>1. lockCnt <= runs + IF Period - alarm <= hold[q] THEN 1 ELSE 0
        BY <2>1, <2>3, <3>2 DEF CrowdInv, Sampled
      <4>2. QED
        BY <2>1, <4>1, CrowdTypes DEF CrowdInv
    <3>3. QED
      BY <3>1, <3>2
  <2>4. QED
    BY <2>2, <2>3
<1>4. QED
  BY <1>1, <1>2, <1>3, PTL DEF TSpec

-----------------------------------------------------------------------------
(* Sets of numbers and sequences *)

\* A nonempty set of natural numbers has a least element.
LEMMA LeastNumber ==
  ASSUME NEW S \in SUBSET Nat, S # {}
  PROVE  \E m \in S : \A n \in S : m <= n
<1> DEFINE T == {0 .. m : m \in S}
           LessThan == StrictSubsetOrdering(Nat)
<1>1. T \subseteq FiniteSubsetsOf(Nat)
  <2>1. SUFFICES ASSUME NEW m \in S PROVE 0 .. m \in FiniteSubsetsOf(Nat)
    OBVIOUS
  <2>2. IsFiniteSet(0 .. m)
    BY FS_Interval
  <2>3. 0 .. m \subseteq Nat
    OBVIOUS
  <2> QED
    BY <2>2, <2>3, Zenon DEF FiniteSubsetsOf
<1>2. IsWellFoundedOn(LessThan, FiniteSubsetsOf(Nat))
  BY FS_StrictSubsetOrderingWellFounded, Zenon
<1>3. T # {}
  OBVIOUS
<1>4. PICK t \in T : \A u \in T : <<u, t>> \notin LessThan
  BY <1>1, <1>2, <1>3, WFMin, Zenon
<1>5. PICK m \in S : t = 0 .. m
  OBVIOUS
<1>6. ASSUME NEW n \in S, n < m PROVE FALSE
  <2>1. 0 .. n \in T
    OBVIOUS
  <2>2. 0 .. n \subseteq 0 .. m
    BY <1>6
  <2>3. m \in 0 .. m /\ m \notin 0 .. n
    BY <1>6
  <2>4. 0 .. n \in SUBSET Nat /\ 0 .. m \in SUBSET Nat
    OBVIOUS
  <2>5. <<0 .. n, 0 .. m>> \in LessThan
    BY <2>2, <2>3, <2>4 DEF StrictSubsetOrdering
  <2> QED
    BY <2>1, <2>5, <1>4, <1>5
<1> QED
  BY <1>6

\* What is left when one element is removed from a sequence.
LEMMA RemoveFacts ==
  ASSUME NEW S, NEW s \in Seq(S), NEW i \in 1 .. Len(s)
  PROVE  /\ RemoveAt(s, i) \in Seq(S) /\ Len(RemoveAt(s, i)) = Len(s) - 1
         /\ \A k \in 1 .. Len(s) - 1 : RemoveAt(s, i)[k] = IF k < i THEN s[k] ELSE s[k + 1]
<1> DEFINE a == SubSeq(s, 1, i - 1)
           b == SubSeq(s, i + 1, Len(s))
<1>1. /\ Len(s) \in Nat /\ i \in Int /\ i - 1 \in Int /\ i + 1 \in Int /\ i >= 1 /\ i <= Len(s)
      /\ \A k \in 1 .. Len(s) : s[k] \in S
  <2>1. Len(s) \in Nat
    BY LenProperties
  <2>2. \A k \in 1 .. Len(s) : s[k] \in S
    BY ElementOfSeq
  <2>3. i \in Int /\ i - 1 \in Int /\ i + 1 \in Int /\ i >= 1 /\ i <= Len(s)
    BY <2>1, SMT
  <2>4. QED
    BY <2>1, <2>2, <2>3
<1>2. a \in Seq(S) /\ Len(a) = i - 1 /\ \A k \in 1 .. i - 1 : a[k] = s[k]
  <2>1. \A k \in 1 .. i - 1 : s[k] \in S
    BY <1>1, SMT
  <2>2. /\ a \in Seq(S) /\ Len(a) = IF 1 <= i - 1 THEN i - 1 - 1 + 1 ELSE 0
        /\ \A k \in 1 .. i - 1 - 1 + 1 : a[k] = s[1 + k - 1]
    BY <1>1, <2>1, SubSeqProperties, SMT
  <2> HIDE DEF a
  <2>3. QED
    BY <1>1, <2>2, SMT
<1>3. b \in Seq(S) /\ Len(b) = Len(s) - i /\ \A k \in 1 .. Len(s) - i : b[k] = s[i + k]
  <2>1. \A k \in i + 1 .. Len(s) : s[k] \in S
    BY <1>1, SMT
  <2>2. /\ b \in Seq(S) /\ Len(b) = IF i + 1 <= Len(s) THEN Len(s) - (i + 1) + 1 ELSE 0
        /\ \A k \in 1 .. Len(s) - (i + 1) + 1 : b[k] = s[(i + 1) + k - 1]
    <3>1. PICK m \in Int, n \in Int : m = i + 1 /\ n = Len(s)
      BY <1>1
    <3>2. \A k \in m .. n : s[k] \in S
      BY <2>1, <3>1
    <3>3. /\ SubSeq(s, m, n) \in Seq(S)
          /\ Len(SubSeq(s, m, n)) = IF m <= n THEN n - m + 1 ELSE 0
          /\ \A k \in 1 .. n - m + 1 : SubSeq(s, m, n)[k] = s[m + k - 1]
      BY <3>2, SubSeqProperties
    <3>4. QED
      BY <3>1, <3>3
  <2> HIDE DEF b
  <2>3. Len(b) = Len(s) - i
    BY <1>1, <2>2, SMT
  <2>4. ASSUME NEW k \in 1 .. Len(s) - i
        PROVE  b[k] = s[i + k]
    <3>1. k \in 1 .. Len(s) - (i + 1) + 1 /\ (i + 1) + k - 1 = i + k
      BY <1>1, SMT
    <3>2. b[k] = s[(i + 1) + k - 1]
      BY <2>2, <3>1
    <3>3. QED
      BY <3>1, <3>2
  <2>5. QED
    BY <2>2, <2>3, <2>4
<1>4. RemoveAt(s, i) = a \o b
  BY DEF RemoveAt
<1> HIDE DEF a, b
<1>5. /\ a \o b \in Seq(S) /\ Len(a \o b) = Len(a) + Len(b)
      /\ \A k \in 1 .. Len(a) + Len(b) : (a \o b)[k] = IF k <= Len(a) THEN a[k] ELSE b[k - Len(a)]
  BY <1>2, <1>3, ConcatProperties
<1> DEFINE r == a \o b
<1> HIDE DEF r
<1>6. /\ r \in Seq(S) /\ Len(r) = i - 1 + (Len(s) - i)
      /\ \A k \in 1 .. i - 1 + (Len(s) - i) : r[k] = IF k <= i - 1 THEN a[k] ELSE b[k - (i - 1)]
  BY <1>2, <1>3, <1>5 DEF r
<1>7. i - 1 + (Len(s) - i) = Len(s) - 1
  BY <1>1, SMT
<1>8. ASSUME NEW k \in 1 .. Len(s) - 1
      PROVE  r[k] = IF k < i THEN s[k] ELSE s[k + 1]
  <2>1. CASE k < i
    <3>1. k \in 1 .. i - 1 /\ k <= i - 1
      BY <1>1, <2>1, SMT
    <3>2. QED
      BY <1>2, <1>6, <1>7, <2>1, <3>1
  <2>2. CASE ~(k < i)
    <3>1. k - (i - 1) \in 1 .. Len(s) - i /\ i + (k - (i - 1)) = k + 1 /\ ~(k <= i - 1)
      BY <1>1, <2>2, SMT
    <3>2. r[k] = b[k - (i - 1)]
      BY <1>6, <1>7, <3>1
    <3>3. QED
      BY <1>3, <2>2, <3>1, <3>2
  <2>3. QED
    BY <2>1, <2>2
<1>9. QED
  BY <1>4, <1>6, <1>7, <1>8 DEF r

-----------------------------------------------------------------------------
(* qhashtbl: chains *)

Entry == [name : Key, data : Value]

\* A chain has a name once.
IsChain(c) ==
  /\ c \in Seq(Entry)
  /\ \A p, q \in 1 .. Len(c) : c[p].name = c[q].name => p = q

\* The data of a name in a chain, or none.
Look(c, k) == IF PlaceIn(c, k) = 0 THEN <<>> ELSE c[PlaceIn(c, k)].data

\* A key leads to a chain.
LEMMA Homes ==
  ASSUME HashTblAssumption, NEW k \in Key
  PROVE  IndexOf(k) \in Slot
<1>1. Hash[k] \in Nat /\ Range_ \in Nat \ {0}
  BY DEF HashTblAssumption
<1>2. \A a \in Nat, b \in Nat \ {0} : a % b \in 0 .. b - 1
  BY SMT
<1>3. QED
  BY <1>1, <1>2 DEF IndexOf, Slot

\* The place of a key is the one that has its name.
LEMMA PlaceIs ==
  ASSUME NEW c, IsChain(c), NEW k \in Key
  PROVE  /\ PlaceIn(c, k) \in 0 .. Len(c)
         /\ \A p \in 1 .. Len(c) : c[p].name = k <=> PlaceIn(c, k) = p
<1> DEFINE same == {p \in 1 .. Len(c) : Hash[c[p].name] = Hash[k] /\ c[p].name = k}
<1>1. Len(c) \in Nat /\ PlaceIn(c, k) = IF same = {} THEN 0 ELSE CHOOSE p \in same : \A q \in same : p <= q
  BY LenProperties DEF IsChain, PlaceIn
<1>2. \A p : p \in same <=> p \in 1 .. Len(c) /\ c[p].name = k
  OBVIOUS
<1>3. \A p, q \in same : p = q
  BY <1>2, Zenon DEF IsChain
<1> HIDE DEF same
<1>4. CASE same = {}
  <2>1. PlaceIn(c, k) = 0
    BY <1>1, <1>4
  <2>2. \A p \in 1 .. Len(c) : c[p].name # k /\ p # 0
    BY <1>2, <1>4, <1>1, SMT
  <2>3. QED
    BY <2>1, <2>2, <1>1, SMT
<1>5. CASE same # {}
  <2>1. PICK x \in same : TRUE
    BY <1>5
  <2>2. x \in 1 .. Len(c) /\ c[x].name = k /\ x <= x
    BY <2>1, <1>2, <1>1, SMT
  <2>3. \A q \in same : x <= q
    BY <2>1, <2>2, <1>3, Zenon
  <2>4. (CHOOSE p \in same : \A q \in same : p <= q) = x
    BY <2>1, <2>3, <1>3, Zenon
  <2>5. PlaceIn(c, k) = x
    BY <1>1, <1>5, <2>4
  <2>6. \A p \in 1 .. Len(c) : c[p].name = k <=> p = x
    BY <2>1, <2>2, <1>2, <1>3, Zenon
  <2>7. QED
    BY <2>2, <2>5, <2>6, <1>1, SMT
<1>6. QED
  BY <1>4, <1>5

\* What is found is what a place with the name has; without one, nothing.
LEMMA LookIs ==
  ASSUME NEW c, IsChain(c), NEW k \in Key
  PROVE  /\ \A p \in 1 .. Len(c) : c[p].name = k => Look(c, k) = c[p].data
         /\ (\A p \in 1 .. Len(c) : c[p].name # k) => Look(c, k) = <<>> /\ PlaceIn(c, k) = 0
         /\ PlaceIn(c, k) # 0 => PlaceIn(c, k) \in 1 .. Len(c) /\ c[PlaceIn(c, k)].name = k
<1>1. /\ PlaceIn(c, k) \in 0 .. Len(c) /\ Len(c) \in Nat
      /\ \A p \in 1 .. Len(c) : c[p].name = k <=> PlaceIn(c, k) = p
  BY PlaceIs, LenProperties DEF IsChain
<1>2. \A p \in 1 .. Len(c) : p # 0
  BY <1>1, SMT
<1>3. PlaceIn(c, k) # 0 => PlaceIn(c, k) \in 1 .. Len(c)
  BY <1>1, SMT
<1>4. ASSUME NEW p \in 1 .. Len(c), c[p].name = k
      PROVE  Look(c, k) = c[p].data
  BY <1>1, <1>2, <1>4 DEF Look
<1>5. ASSUME \A p \in 1 .. Len(c) : c[p].name # k
      PROVE  Look(c, k) = <<>> /\ PlaceIn(c, k) = 0
  BY <1>1, <1>3, <1>5 DEF Look
<1>6. PlaceIn(c, k) # 0 => PlaceIn(c, k) \in 1 .. Len(c) /\ c[PlaceIn(c, k)].name = k
  BY <1>1, <1>3
<1>7. QED
  BY <1>4, <1>5, <1>6

\* Two chains have the same object of a name, or both none.
Alike(c, d, k) ==
  /\ \A p \in 1 .. Len(c) : c[p].name = k => \E q \in 1 .. Len(d) : d[q] = c[p]
  /\ \A q \in 1 .. Len(d) : d[q].name = k => \E p \in 1 .. Len(c) : c[p] = d[q]

\* Then they answer the same.
LEMMA LookSame ==
  ASSUME NEW c, IsChain(c), NEW d, IsChain(d), NEW k \in Key, Alike(c, d, k)
  PROVE  Look(d, k) = Look(c, k)
<1>1. CASE \E p \in 1 .. Len(c) : c[p].name = k
  <2>1. PICK p \in 1 .. Len(c) : c[p].name = k
    BY <1>1
  <2>2. PICK q \in 1 .. Len(d) : d[q] = c[p]
    BY <2>1 DEF Alike
  <2>3. Look(c, k) = c[p].data
    BY <2>1, LookIs
  <2>4. d[q].name = k
    BY <2>1, <2>2
  <2>5. Look(d, k) = d[q].data
    BY <2>4, LookIs
  <2>6. QED
    BY <2>2, <2>3, <2>5
<1>2. CASE \A p \in 1 .. Len(c) : c[p].name # k
  <2>1. \A q \in 1 .. Len(d) : d[q].name # k
    <3>1. SUFFICES ASSUME NEW q \in 1 .. Len(d), d[q].name = k PROVE FALSE
      OBVIOUS
    <3>2. PICK p \in 1 .. Len(c) : c[p] = d[q]
      BY <3>1 DEF Alike
    <3>3. QED
      BY <3>1, <3>2, <1>2
  <2>2. Look(c, k) = <<>>
    BY <1>2, LookIs
  <2>3. Look(d, k) = <<>>
    BY <2>1, LookIs
  <2>4. QED
    BY <2>2, <2>3
<1>3. QED
  BY <1>1, <1>2

\* Chain d is chain c but for the key k, to which it answers v.
Changed(c, d, k, v) ==
  /\ IsChain(d) /\ Look(d, k) = v
  /\ \A q \in 1 .. Len(d) : d[q].name = k \/ \E p \in 1 .. Len(c) : d[q].name = c[p].name
  /\ \A j \in Key \ {k} : Look(d, j) = Look(c, j)

\* A new object at the head of a chain that does not have its name.
LEMMA PushChain ==
  ASSUME NEW c, IsChain(c), NEW k \in Key, PlaceIn(c, k) = 0, NEW e \in Entry, e.name = k,
         NEW d, d = <<e>> \o c
  PROVE  Changed(c, d, k, e.data) /\ Len(d) = Len(c) + 1
<1>1. c \in Seq(Entry) /\ Len(c) \in Nat /\ e.name \in Key
  BY LenProperties DEF IsChain, Entry
<1>2. <<e>> \in Seq(Entry) /\ Len(<<e>>) = 1 /\ <<e>>[1] = e
  OBVIOUS
<1>3. /\ d \in Seq(Entry) /\ Len(d) = 1 + Len(c)
      /\ \A q \in 1 .. 1 + Len(c) : d[q] = IF q <= 1 THEN <<e>>[q] ELSE c[q - 1]
  BY <1>1, <1>2, ConcatProperties
<1>4. Len(d) = Len(c) + 1 /\ 1 \in 1 .. Len(d) /\ d[1] = e
  BY <1>1, <1>2, <1>3, SMT
<1>5. \A q \in 1 .. Len(d) : q = 1 \/ (q - 1 \in 1 .. Len(c) /\ d[q] = c[q - 1])
  BY <1>1, <1>3, SMT
<1>6. \A p \in 1 .. Len(c) : p + 1 \in 1 .. Len(d) /\ d[p + 1] = c[p] /\ p + 1 - 1 = p
  BY <1>1, <1>3, SMT
<1>7. \A p \in 1 .. Len(c) : c[p].name # e.name
  <2>1. \A p \in 1 .. Len(c) : c[p].name = e.name <=> PlaceIn(c, e.name) = p
    BY <1>1, PlaceIs
  <2>2. \A p \in 1 .. Len(c) : p # 0
    BY <1>1, SMT
  <2>3. QED
    BY <2>1, <2>2
<1>8. IsChain(d)
  <2>1. SUFFICES ASSUME NEW p \in 1 .. Len(d), NEW q \in 1 .. Len(d), d[p].name = d[q].name
                 PROVE  p = q
    BY <1>3 DEF IsChain
  <2>2. CASE p = 1 \/ q = 1
    BY <1>4, <1>5, <1>7, <2>1, <2>2
  <2>3. CASE p # 1 /\ q # 1
    <3>1. /\ p - 1 \in 1 .. Len(c) /\ d[p] = c[p - 1]
          /\ q - 1 \in 1 .. Len(c) /\ d[q] = c[q - 1]
      BY <1>5, <2>3
    <3>2. p - 1 = q - 1
      BY <2>1, <3>1 DEF IsChain
    <3>3. QED
      BY <3>2, <1>1, <1>4, SMT
  <2>4. QED
    BY <2>2, <2>3
<1>9. \A q \in 1 .. Len(d) : d[q] = e \/ \E p \in 1 .. Len(c) : d[q] = c[p]
  BY <1>4, <1>5
<1>10. Look(d, k) = e.data
  <2>1. \A j \in Key : \A q \in 1 .. Len(d) : d[q].name = j => Look(d, j) = d[q].data
    BY <1>8, LookIs
  <2>2. QED
    BY <1>1, <1>4, <2>1
<1>11. ASSUME NEW j \in Key \ {k}
       PROVE  Look(d, j) = Look(c, j)
  <2>1. \A p \in 1 .. Len(c) : c[p].name = j => \E q \in 1 .. Len(d) : d[q] = c[p]
    BY <1>6
  <2>2. \A q \in 1 .. Len(d) : d[q].name = j => \E p \in 1 .. Len(c) : c[p] = d[q]
    BY <1>9, <1>11
  <2>3. Alike(c, d, j)
    BY <2>1, <2>2 DEF Alike
  <2>4. QED
    BY <1>8, <1>11, <2>3, LookSame
<1>12. QED
  BY <1>4, <1>8, <1>9, <1>10, <1>11 DEF Changed

\* Other data for a name that is in a chain.
LEMMA SetChain ==
  ASSUME NEW c, IsChain(c), NEW k \in Key, PlaceIn(c, k) # 0, NEW v \in Value,
         NEW d, d = [c EXCEPT ![PlaceIn(c, k)].data = v]
  PROVE  Changed(c, d, k, v) /\ Len(d) = Len(c)
<1> DEFINE x == PlaceIn(c, k)
<1>1. c \in Seq(Entry) /\ Len(c) \in Nat /\ x \in 1 .. Len(c) /\ c[x].name = k
  BY LookIs, LenProperties DEF IsChain
<1>2. d = [c EXCEPT ![x] = [c[x] EXCEPT !.data = v]]
  OBVIOUS
<1> HIDE DEF x
<1>3. c[x] \in Entry /\ [c[x] EXCEPT !.data = v] \in Entry
  <2>1. c[x] \in Entry
    BY <1>1, ElementOfSeq
  <2>2. QED
    BY <2>1 DEF Entry
<1> DEFINE e == [c[x] EXCEPT !.data = v]
<1>4. e \in Entry /\ e.name = k /\ e.data = v
  BY <1>1, <1>3 DEF Entry
<1>5. d = [c EXCEPT ![x] = e]
  BY <1>2
<1> HIDE DEF e
<1>6. /\ d \in Seq(Entry) /\ Len(d) = Len(c)
      /\ \A q \in 1 .. Len(c) : d[q] = IF q = x THEN e ELSE c[q]
  <2>1. /\ [c EXCEPT ![x] = e] \in Seq(Entry) /\ Len([c EXCEPT ![x] = e]) = Len(c)
        /\ \A q \in 1 .. Len(c) : [c EXCEPT ![x] = e][q] = IF q = x THEN e ELSE c[q]
    BY <1>1, <1>4, ExceptSeq
  <2>2. QED
    BY <1>5, <2>1
<1>7. \A q \in 1 .. Len(d) : d[q].name = c[q].name
  BY <1>1, <1>4, <1>6
<1>8. IsChain(d)
  BY <1>6, <1>7 DEF IsChain
<1>9. Look(d, k) = v
  <2>1. \A q \in 1 .. Len(d) : d[q].name = k => Look(d, k) = d[q].data
    BY <1>8, LookIs
  <2>2. x \in 1 .. Len(d) /\ d[x] = e
    BY <1>1, <1>6
  <2>3. QED
    BY <1>4, <2>1, <2>2
<1>10. ASSUME NEW j \in Key \ {k}
       PROVE  Look(d, j) = Look(c, j)
  <2>1. \A p \in 1 .. Len(c) : c[p].name = j => d[p] = c[p]
    BY <1>1, <1>6, <1>10
  <2>2. \A p \in 1 .. Len(c) : c[p].name = j => \E q \in 1 .. Len(d) : d[q] = c[p]
    BY <1>6, <2>1
  <2>3. \A q \in 1 .. Len(d) : d[q].name = j => \E p \in 1 .. Len(c) : c[p] = d[q]
    BY <1>6, <1>7, <2>1
  <2>4. Alike(c, d, j)
    BY <2>2, <2>3 DEF Alike
  <2>5. QED
    BY <1>8, <1>10, <2>4, LookSame
<1>11. QED
  BY <1>6, <1>7, <1>8, <1>9, <1>10 DEF Changed

\* A chain without one of its names.
LEMMA CutChain ==
  ASSUME NEW c, IsChain(c), NEW k \in Key, PlaceIn(c, k) # 0,
         NEW d, d = RemoveAt(c, PlaceIn(c, k))
  PROVE  Changed(c, d, k, <<>>) /\ Len(d) = Len(c) - 1 /\ Len(c) \in Nat \ {0}
<1> DEFINE x == PlaceIn(c, k)
<1>1. c \in Seq(Entry) /\ Len(c) \in Nat /\ x \in 1 .. Len(c) /\ c[x].name = k
  BY LookIs, LenProperties DEF IsChain
<1>2. d = RemoveAt(c, x)
  OBVIOUS
<1> HIDE DEF x
<1>3. /\ d \in Seq(Entry) /\ Len(d) = Len(c) - 1
      /\ \A q \in 1 .. Len(c) - 1 : d[q] = IF q < x THEN c[q] ELSE c[q + 1]
  BY <1>1, <1>2, RemoveFacts
<1> DEFINE old == [q \in 1 .. Len(d) |-> IF q < x THEN q ELSE q + 1]
<1>4. \A q \in 1 .. Len(d) : old[q] \in 1 .. Len(c) /\ old[q] # x /\ d[q] = c[old[q]]
  BY <1>1, <1>3, SMT
<1>5. \A p, q \in 1 .. Len(d) : old[p] = old[q] => p = q
  BY <1>1, <1>3, SMT
<1>6. \A p \in 1 .. Len(c) : p # x => \E q \in 1 .. Len(d) : old[q] = p
  <2>1. SUFFICES ASSUME NEW p \in 1 .. Len(c), p # x
                 PROVE  \E q \in 1 .. Len(d) : old[q] = p
    OBVIOUS
  <2>2. CASE p < x
    <3>1. p \in 1 .. Len(d) /\ old[p] = p
      BY <1>1, <1>3, <2>2, SMT
    <3>2. QED
      BY <3>1
  <2>3. CASE ~(p < x)
    <3>1. PICK r : r = p - 1
      OBVIOUS
    <3>2. r \in 1 .. Len(d) /\ ~(r < x) /\ r + 1 = p
      BY <1>1, <1>3, <2>1, <2>3, <3>1, SMT
    <3>3. old[r] = p
      BY <3>2
    <3>4. QED
      BY <3>2, <3>3
  <2>4. QED
    BY <2>2, <2>3
<1> HIDE DEF old
<1>7. \A p \in 1 .. Len(c) : c[p].name = k => p = x
  BY <1>1 DEF IsChain
<1>8. IsChain(d)
  <2>1. SUFFICES ASSUME NEW p \in 1 .. Len(d), NEW q \in 1 .. Len(d), d[p].name = d[q].name
                 PROVE  p = q
    BY <1>3 DEF IsChain
  <2>2. old[p] = old[q]
    BY <1>4, <2>1 DEF IsChain
  <2>3. QED
    BY <1>5, <2>2
<1>9. \A q \in 1 .. Len(d) : d[q].name # k
  BY <1>4, <1>7
<1>10. Look(d, k) = <<>>
  BY <1>8, <1>9, LookIs
<1>11. ASSUME NEW j \in Key \ {k}
       PROVE  Look(d, j) = Look(c, j)
  <2>1. \A p \in 1 .. Len(c) : c[p].name = j => \E q \in 1 .. Len(d) : d[q] = c[p]
    BY <1>1, <1>4, <1>6, <1>11
  <2>2. \A q \in 1 .. Len(d) : d[q].name = j => \E p \in 1 .. Len(c) : c[p] = d[q]
    BY <1>4
  <2>3. Alike(c, d, j)
    BY <2>1, <2>2 DEF Alike
  <2>4. QED
    BY <1>8, <1>11, <2>3, LookSame
<1>12. \A q \in 1 .. Len(d) : \E p \in 1 .. Len(c) : d[q] = c[p]
  BY <1>4
<1>13. Len(c) \in Nat \ {0}
  BY <1>1, SMT
<1>14. QED
  BY <1>3, <1>8, <1>10, <1>11, <1>12, <1>13 DEF Changed

-----------------------------------------------------------------------------
(* qhashtbl: the table *)

\* Each object is in the chain of its name.
Homed(s) ==
  /\ s \in [Slot -> Seq(Entry)]
  /\ \A i \in Slot : IsChain(s[i]) /\ \A p \in 1 .. Len(s[i]) : IndexOf(s[i][p].name) = i

\* What the chains answer for each key.
Answers(s) == [k \in Key |-> Look(s[IndexOf(k)], k)]

\* The table is sound: its objects are where they belong, and num counts them.
Sound(t) ==
  /\ t \in [slots : [Slot -> Seq(Entry)], num : Nat]
  /\ Homed(t.slots)
  /\ IsFiniteSet(Objects(t)) /\ t.num = Cardinality(Objects(t))

\* One chain is replaced by another of the same names and perhaps one more or one
\* less: nothing else changes.
LEMMA OtherChain ==
  ASSUME HashTblAssumption, NEW s, Homed(s), NEW k \in Key, NEW d, NEW v,
         Changed(s[IndexOf(k)], d, k, v)
  PROVE  /\ Homed([s EXCEPT ![IndexOf(k)] = d])
         /\ Answers([s EXCEPT ![IndexOf(k)] = d]) = [Answers(s) EXCEPT ![k] = v]
<1>a. /\ IsChain(d) /\ Look(d, k) = v
      /\ \A j \in Key \ {k} : Look(d, j) = Look(s[IndexOf(k)], j)
  BY DEF Changed
<1>b. \A q \in 1 .. Len(d) : IndexOf(d[q].name) = IndexOf(k)
  <2>1. SUFFICES ASSUME NEW q \in 1 .. Len(d), d[q].name # k
                 PROVE  IndexOf(d[q].name) = IndexOf(k)
    OBVIOUS
  <2>2. PICK p \in 1 .. Len(s[IndexOf(k)]) : d[q].name = s[IndexOf(k)][p].name
    BY <2>1 DEF Changed
  <2>3. IndexOf(s[IndexOf(k)][p].name) = IndexOf(k)
    BY Homes DEF Homed
  <2>4. QED
    BY <2>2, <2>3
<1> DEFINE i == IndexOf(k)
           u == [s EXCEPT ![i] = d]
<1>1. i \in Slot /\ s \in [Slot -> Seq(Entry)]
  BY Homes DEF Homed
<1>2. d \in Seq(Entry)
  BY <1>a DEF IsChain
<1> HIDE DEF i
<1>3. u \in [Slot -> Seq(Entry)] /\ u[i] = d /\ \A j \in Slot : j # i => u[j] = s[j]
  BY <1>1, <1>2
<1>4. IndexOf(k) = i
  BY DEF i
<1> HIDE DEF u
<1>5. Homed(u)
  <2>1. SUFFICES ASSUME NEW j \in Slot
                 PROVE  IsChain(u[j]) /\ \A p \in 1 .. Len(u[j]) : IndexOf(u[j][p].name) = j
    BY <1>3 DEF Homed
  <2>2. CASE j = i
    BY <1>3, <1>4, <1>a, <1>b, <2>2
  <2>3. CASE j # i
    BY <1>3, <2>3 DEF Homed
  <2>4. QED
    BY <2>2, <2>3
<1>6. ASSUME NEW j \in Key
      PROVE  Look(u[IndexOf(j)], j) = IF j = k THEN Look(d, k) ELSE Look(s[IndexOf(j)], j)
  <2>1. IndexOf(j) \in Slot
    BY Homes
  <2>2. CASE j = k
    BY <1>3, <1>4, <2>2
  <2>3. CASE j # k /\ IndexOf(j) = i
    <3>1. Look(d, j) = Look(s[i], j)
      BY <1>4, <1>6, <1>a, <2>3
    <3>2. QED
      BY <1>3, <2>3, <3>1
  <2>4. CASE j # k /\ IndexOf(j) # i
    BY <1>3, <2>1, <2>4
  <2>5. QED
    BY <2>2, <2>3, <2>4
<1>7. Answers(u) = [Answers(s) EXCEPT ![k] = Look(d, k)]
  BY <1>6 DEF Answers
<1>8. QED
  BY <1>5, <1>7, <1>a DEF u, i

\* Where one chain is longer by one object, there is one object more.
LEMMA OneMore ==
  ASSUME NEW t, NEW u, t.slots \in [Slot -> Seq(Entry)], u.slots \in [Slot -> Seq(Entry)],
         NEW i \in Slot, Len(u.slots[i]) = Len(t.slots[i]) + 1,
         \A j \in Slot : j # i => Len(u.slots[j]) = Len(t.slots[j]),
         IsFiniteSet(Objects(t)) \/ IsFiniteSet(Objects(u))
  PROVE  /\ IsFiniteSet(Objects(t)) /\ IsFiniteSet(Objects(u))
         /\ Cardinality(Objects(u)) = Cardinality(Objects(t)) + 1
         /\ Cardinality(Objects(t)) \in Nat
<1> DEFINE o == <<i, Len(u.slots[i])>>
<1>1. \A j \in Slot : Len(t.slots[j]) \in Nat /\ Len(u.slots[j]) \in Nat
  BY LenProperties
<1>2. \A j, p : <<j, p>> \in Objects(t) <=> j \in Slot /\ p \in 1 .. Len(t.slots[j])
  BY DEF Objects
<1>3. \A j, p : <<j, p>> \in Objects(u) <=> j \in Slot /\ p \in 1 .. Len(u.slots[j])
  BY DEF Objects
<1>4. o \notin Objects(t)
  <2>1. Len(u.slots[i]) \notin 1 .. Len(t.slots[i])
    BY <1>1, SMT
  <2>2. QED
    BY <1>2, <2>1
<1>5. 1 .. Len(u.slots[i]) = (1 .. Len(t.slots[i])) \cup {Len(u.slots[i])}
  BY <1>1, SMT
<1>6. \A j, p : <<j, p>> \in Objects(u) <=> <<j, p>> \in Objects(t) \/ <<j, p>> = o
  <2>1. SUFFICES ASSUME NEW j, NEW p
                 PROVE  <<j, p>> \in Objects(u) <=> <<j, p>> \in Objects(t) \/ <<j, p>> = o
    OBVIOUS
  <2>2. CASE j = i
    <3>1. p \in 1 .. Len(u.slots[i]) <=> p \in 1 .. Len(t.slots[i]) \/ p = Len(u.slots[i])
      BY <1>5, Zenon
    <3>2. <<j, p>> = o <=> p = Len(u.slots[i])
      BY <2>2
    <3>3. QED
      BY <1>2, <1>3, <2>2, <3>1, <3>2
  <2>3. CASE j # i
    <3>1. <<j, p>> # o
      BY <2>3
    <3>2. j \in Slot => Len(u.slots[j]) = Len(t.slots[j])
      BY <2>3
    <3>3. QED
      BY <1>2, <1>3, <3>1, <3>2
  <2>4. QED
    BY <2>2, <2>3
<1>7. /\ \A x \in Objects(t) : \E j, p : x = <<j, p>>
      /\ \A x \in Objects(u) : \E j, p : x = <<j, p>>
  BY DEF Objects
<1> DEFINE T == Objects(t)
           U == Objects(u)
<1>8. U = T \cup {o}
  <2>1. ASSUME NEW x \in U
        PROVE  x \in T \/ x = o
    <3>1. PICK j, p : x = <<j, p>>
      BY <1>7
    <3>2. QED
      BY <1>6, <3>1
  <2>2. ASSUME NEW x \in T
        PROVE  x \in U
    <3>1. PICK j, p : x = <<j, p>>
      BY <1>7
    <3>2. QED
      BY <1>6, <3>1
  <2>3. o \in U
    BY <1>6, Zenon
  <2>4. QED
    BY <2>1, <2>2, <2>3, Zenon
<1> HIDE DEF o, T, U
<1>9. IsFiniteSet(T)
  <2>1. IsFiniteSet(T) \/ IsFiniteSet(U)
    BY DEF T, U
  <2>2. T \subseteq U
    BY <1>8
  <2>3. QED
    BY <2>1, <2>2, FS_Subset
<1>10. /\ IsFiniteSet(U)
       /\ Cardinality(U) = Cardinality(T) + 1 /\ Cardinality(T) \in Nat
  <2>1. o \notin T
    BY <1>4 DEF T
  <2>2. QED
    BY <1>8, <1>9, <2>1, FS_AddElement, FS_CardinalityType
<1>11. QED
  BY <1>9, <1>10 DEF T, U

\* Where no chain changes its length, the objects are the same.
LEMMA SameObjects ==
  ASSUME NEW t, NEW u, \A j \in Slot : Len(u.slots[j]) = Len(t.slots[j])
  PROVE  Objects(u) = Objects(t)
<1>1. \A j \in Slot : {j} \X (1 .. Len(u.slots[j])) = {j} \X (1 .. Len(t.slots[j]))
  OBVIOUS
<1>2. {{j} \X (1 .. Len(u.slots[j])) : j \in Slot} = {{j} \X (1 .. Len(t.slots[j])) : j \in Slot}
  BY <1>1, Zenon
<1>3. QED
  BY <1>2, Zenon DEF Objects

-----------------------------------------------------------------------------
(* qhashtbl: calls *)

\* The contents of the table are what its chains answer.
LEMMA ContentsAre ==
  Contents = Answers(tbl.slots)
BY DEF Contents, Answers, Look, Find

\* There is nothing for a key exactly when it has no place.
LEMMA NothingThere ==
  ASSUME HashTblAssumption, NEW s, Homed(s), NEW k \in Key
  PROVE  Look(s[IndexOf(k)], k) = <<>> <=> PlaceIn(s[IndexOf(k)], k) = 0
<1> DEFINE c == s[IndexOf(k)]
<1>1. IsChain(c)
  BY Homes DEF Homed
<1> HIDE DEF c
<1>2. PlaceIn(c, k) = 0 => Look(c, k) = <<>>
  BY DEF Look
<1>3. PlaceIn(c, k) # 0 => Look(c, k) # <<>>
  <2> HAVE PlaceIn(c, k) # 0
  <2>1. PlaceIn(c, k) \in 1 .. Len(c) /\ c \in Seq(Entry)
    BY <1>1, LookIs DEF IsChain
  <2>2. c[PlaceIn(c, k)] \in Entry
    BY <2>1, ElementOfSeq
  <2>3. Look(c, k) \in Value
    BY <2>2 DEF Look, Entry
  <2>4. QED
    BY <2>3 DEF HashTblAssumption
<1>4. QED
  BY <1>2, <1>3 DEF c

\* An empty table is sound, and has nothing.
LEMMA EmptyIsSound ==
  ASSUME HashTblAssumption
  PROVE  Sound(NoEntries) /\ Answers(NoEntries.slots) = [k \in Key |-> <<>>]
<1> DEFINE s == [i \in Slot |-> <<>>]
<1>1. NoEntries = [slots |-> s, num |-> 0]
  BY DEF NoEntries
<1>2. s \in [Slot -> Seq(Entry)] /\ \A i \in Slot : s[i] = <<>>
  OBVIOUS
<1>3. IsChain(<<>>)
  BY DEF IsChain
<1>4. Homed(s)
  BY <1>2, <1>3 DEF Homed
<1>5. ASSUME NEW k \in Key
      PROVE  Look(s[IndexOf(k)], k) = <<>>
  <2>1. s[IndexOf(k)] = <<>>
    BY Homes
  <2>2. \A p \in 1 .. Len(<<>>) : <<>>[p].name # k
    OBVIOUS
  <2>3. QED
    BY <1>3, <2>1, <2>2, LookIs
<1> HIDE DEF s
<1>6. NoEntries.slots = s /\ NoEntries.num = 0 /\ NoEntries \in [slots : [Slot -> Seq(Entry)], num : Nat]
  BY <1>1, <1>2
<1>7. Objects(NoEntries) = {}
  <2>1. \A i \in Slot : {i} \X (1 .. Len(NoEntries.slots[i])) = {}
    BY <1>2, <1>6
  <2>2. QED
    BY <2>1, Zenon DEF Objects
<1>8. IsFiniteSet({}) /\ Cardinality({}) = 0
  BY FS_EmptySet
<1>9. Sound(NoEntries)
  BY <1>4, <1>6, <1>7, <1>8 DEF Sound
<1>10. Answers(s) = [k \in Key |-> <<>>]
  BY <1>5 DEF Answers
<1>11. QED
  BY <1>6, <1>9, <1>10

\* put keeps the table sound, and changes what it answers for its key only.
LEMMA PutStep ==
  ASSUME HashTblAssumption, Sound(tbl), NEW k \in Key, NEW v \in Value, Put(k, v)
  PROVE  Sound(tbl') /\ Answers(tbl'.slots) = [Answers(tbl.slots) EXCEPT ![k] = v]
<1> DEFINE s == tbl.slots
           i == IndexOf(k)
           c == s[i]
           e == [name |-> k, data |-> v]
<1>1. /\ tbl = [slots |-> s, num |-> tbl.num] /\ tbl.num \in Nat
      /\ Homed(s) /\ IsFiniteSet(Objects(tbl)) /\ tbl.num = Cardinality(Objects(tbl))
  BY DEF Sound
<1>2. i \in Slot /\ IsChain(c) /\ (\A p \in 1 .. Len(c) : IndexOf(c[p].name) = i) /\ s \in [Slot -> Seq(Entry)]
  BY <1>1, Homes DEF Homed
<1>3. CASE Find(k) = 0
  <2> DEFINE d == <<e>> \o c
  <2>1. tbl' = [slots |-> [s EXCEPT ![i] = d], num |-> tbl.num + 1]
    BY <1>1, <1>3, Zenon DEF Put
  <2>2. e \in Entry /\ e.name = k /\ e.data = v /\ PlaceIn(c, k) = 0
    BY <1>3 DEF Entry, Find
  <2> HIDE DEF e, c
  <2>d. d = <<e>> \o c
    OBVIOUS
  <2> HIDE DEF d
  <2>3. Changed(c, d, k, e.data) /\ Len(d) = Len(c) + 1
    <3>1. IsChain(c) /\ e \in Entry /\ e.name = k /\ PlaceIn(c, k) = 0
      BY <1>2, <2>2
    <3> HIDE DEF s, i
    <3>2. QED
      BY <2>d, <3>1, PushChain
  <2>4. s[IndexOf(k)] = c
    BY DEF c
  <2>5. /\ Homed([s EXCEPT ![i] = d])
        /\ Answers([s EXCEPT ![i] = d]) = [Answers(s) EXCEPT ![k] = e.data]
    <3> DEFINE u == [s EXCEPT ![IndexOf(k)] = d]
    <3>1. Homed(s) /\ Changed(s[IndexOf(k)], d, k, e.data)
      BY <1>1, <2>3, <2>4
    <3>2. Homed(u) /\ Answers(u) = [Answers(s) EXCEPT ![k] = e.data]
      <4> HIDE DEF s
      <4>1. QED
        BY <3>1, OtherChain
    <3>3. QED
      BY <3>2
  <2> HIDE DEF s, i
  <2>6. tbl'.slots = [s EXCEPT ![i] = d] /\ tbl'.num = tbl.num + 1 /\ tbl.slots = s
    BY <2>1 DEF s
  <2>7. tbl'.slots \in [Slot -> Seq(Entry)] /\ tbl'.slots[i] = d
        /\ \A j \in Slot : j # i => tbl'.slots[j] = tbl.slots[j]
    BY <1>2, <2>3, <2>6 DEF IsChain, Changed
  <2>8. /\ IsFiniteSet(Objects(tbl'))
        /\ Cardinality(Objects(tbl')) = Cardinality(Objects(tbl)) + 1
    <3>1. Len(tbl'.slots[i]) = Len(tbl.slots[i]) + 1
      BY <2>3, <2>6, <2>7 DEF c
    <3>2. \A j \in Slot : j # i => Len(tbl'.slots[j]) = Len(tbl.slots[j])
      BY <2>7
    <3>3. QED
      BY <1>1, <1>2, <2>6, <2>7, <3>1, <3>2, OneMore
  <2>9. Sound(tbl')
    <3>1. tbl' \in [slots : [Slot -> Seq(Entry)], num : Nat]
      BY <1>1, <2>1, <2>6, <2>7
    <3>2. QED
      BY <1>1, <2>5, <2>6, <2>8, <3>1 DEF Sound
  <2>10. QED
    BY <2>2, <2>3, <2>5, <2>6, <2>9
<1>4. CASE Find(k) # 0
  <2> DEFINE d == [c EXCEPT ![PlaceIn(c, k)].data = v]
  <2>1. tbl' = [slots |-> [s EXCEPT ![i] = d], num |-> tbl.num]
    <3>1. tbl' = [tbl EXCEPT !.slots[i][Find(k)].data = v]
      BY <1>4 DEF Put
    <3>2. tbl' = [tbl EXCEPT !.slots = [s EXCEPT ![i] = d]]
      BY <3>1 DEF Find
    <3>3. QED
      BY <1>1, <3>2
  <2>2. PlaceIn(c, k) # 0
    BY <1>4 DEF Find
  <2> HIDE DEF c
  <2>d. d = [c EXCEPT ![PlaceIn(c, k)].data = v]
    OBVIOUS
  <2> HIDE DEF d
  <2>3. Changed(c, d, k, v) /\ Len(d) = Len(c)
    <3>1. IsChain(c) /\ PlaceIn(c, k) # 0
      BY <1>2, <2>2
    <3> HIDE DEF s, i
    <3>2. QED
      BY <2>d, <3>1, SetChain
  <2>4. s[IndexOf(k)] = c
    BY DEF c
  <2>5. /\ Homed([s EXCEPT ![i] = d])
        /\ Answers([s EXCEPT ![i] = d]) = [Answers(s) EXCEPT ![k] = v]
    <3> DEFINE u == [s EXCEPT ![IndexOf(k)] = d]
    <3>1. Homed(s) /\ Changed(s[IndexOf(k)], d, k, v)
      BY <1>1, <2>3, <2>4
    <3>2. Homed(u) /\ Answers(u) = [Answers(s) EXCEPT ![k] = v]
      <4> HIDE DEF s
      <4>1. QED
        BY <3>1, OtherChain
    <3>3. QED
      BY <3>2
  <2> HIDE DEF s, i
  <2>6. tbl'.slots = [s EXCEPT ![i] = d] /\ tbl'.num = tbl.num /\ tbl.slots = s
    BY <2>1 DEF s
  <2>7. tbl'.slots \in [Slot -> Seq(Entry)] /\ tbl'.slots[i] = d
        /\ \A j \in Slot : j # i => tbl'.slots[j] = tbl.slots[j]
    BY <1>2, <2>3, <2>6 DEF IsChain, Changed
  <2>8. Objects(tbl') = Objects(tbl)
    <3>1. \A j \in Slot : Len(tbl'.slots[j]) = Len(tbl.slots[j])
      BY <2>3, <2>6, <2>7 DEF c
    <3>2. QED
      BY <3>1, SameObjects
  <2>9. Sound(tbl')
    <3>1. tbl' \in [slots : [Slot -> Seq(Entry)], num : Nat]
      BY <1>1, <2>1, <2>6, <2>7
    <3>2. QED
      BY <1>1, <2>5, <2>6, <2>8, <3>1 DEF Sound
  <2>10. QED
    BY <2>3, <2>5, <2>6, <2>9
<1>5. QED
  BY <1>3, <1>4

\* remove keeps the table sound, and takes its key away if it is there.
LEMMA DeleteStep ==
  ASSUME HashTblAssumption, Sound(tbl), NEW k \in Key, Delete(k)
  PROVE  /\ Sound(tbl')
         /\ Answers(tbl'.slots) = [Answers(tbl.slots) EXCEPT ![k] = <<>>]
         /\ call' = <<"remove", k, IF Answers(tbl.slots)[k] = <<>> THEN Failed ELSE Done>>
<1> DEFINE s == tbl.slots
           i == IndexOf(k)
           c == s[i]
<1>1. /\ tbl = [slots |-> s, num |-> tbl.num] /\ tbl.num \in Nat
      /\ Homed(s) /\ IsFiniteSet(Objects(tbl)) /\ tbl.num = Cardinality(Objects(tbl))
  BY DEF Sound
<1>2. i \in Slot /\ IsChain(c) /\ (\A p \in 1 .. Len(c) : IndexOf(c[p].name) = i) /\ s \in [Slot -> Seq(Entry)]
  BY <1>1, Homes DEF Homed
<1>3. Answers(s)[k] = <<>> <=> Find(k) = 0
  <2>1. Answers(s)[k] = Look(c, k)
    BY DEF Answers
  <2>2. Look(c, k) = <<>> <=> PlaceIn(c, k) = 0
    BY <1>1, NothingThere
  <2>3. QED
    BY <2>1, <2>2 DEF Find
<1>4. CASE Find(k) = 0
  <2>1. tbl' = tbl /\ call' = <<"remove", k, Failed>>
    BY <1>4 DEF Delete
  <2>2. [Answers(s) EXCEPT ![k] = <<>>] = Answers(s)
    BY <1>3, <1>4 DEF Answers
  <2>3. QED
    BY <1>3, <1>4, <2>1, <2>2
<1>5. CASE Find(k) # 0
  <2> DEFINE d == RemoveAt(c, PlaceIn(c, k))
  <2>1. /\ tbl' = [slots |-> [s EXCEPT ![i] = d], num |-> tbl.num - 1]
        /\ call' = <<"remove", k, Done>>
    <3>1. /\ tbl' = [tbl EXCEPT !.slots[i] = RemoveAt(@, Find(k)), !.num = @ - 1]
          /\ call' = <<"remove", k, Done>>
      BY <1>5, Zenon DEF Delete
    <3>2. tbl' = [tbl EXCEPT !.slots = [s EXCEPT ![i] = d], !.num = tbl.num - 1]
      BY <3>1 DEF Find
    <3>3. QED
      BY <1>1, <3>1, <3>2
  <2>2. PlaceIn(c, k) # 0
    BY <1>5 DEF Find
  <2> HIDE DEF c
  <2>d. d = RemoveAt(c, PlaceIn(c, k))
    OBVIOUS
  <2> HIDE DEF d
  <2>3. Changed(c, d, k, <<>>) /\ Len(d) = Len(c) - 1 /\ Len(c) \in Nat \ {0}
    <3>1. IsChain(c) /\ PlaceIn(c, k) # 0
      BY <1>2, <2>2
    <3> HIDE DEF s, i
    <3>2. QED
      BY <2>d, <3>1, CutChain
  <2>4. s[IndexOf(k)] = c
    BY DEF c
  <2>5. /\ Homed([s EXCEPT ![i] = d])
        /\ Answers([s EXCEPT ![i] = d]) = [Answers(s) EXCEPT ![k] = <<>>]
    <3> DEFINE u == [s EXCEPT ![IndexOf(k)] = d]
    <3>1. Homed(s) /\ Changed(s[IndexOf(k)], d, k, <<>>)
      BY <1>1, <2>3, <2>4
    <3>2. Homed(u) /\ Answers(u) = [Answers(s) EXCEPT ![k] = <<>>]
      <4> HIDE DEF s
      <4>1. QED
        BY <3>1, OtherChain
    <3>3. QED
      BY <3>2
  <2> HIDE DEF s, i
  <2>6. tbl'.slots = [s EXCEPT ![i] = d] /\ tbl'.num = tbl.num - 1 /\ tbl.slots = s
    BY <2>1 DEF s
  <2>7. tbl'.slots \in [Slot -> Seq(Entry)] /\ tbl'.slots[i] = d
        /\ \A j \in Slot : j # i => tbl'.slots[j] = tbl.slots[j]
    BY <1>2, <2>3, <2>6 DEF IsChain, Changed
  <2>8. /\ IsFiniteSet(Objects(tbl'))
        /\ Cardinality(Objects(tbl)) = Cardinality(Objects(tbl')) + 1
        /\ Cardinality(Objects(tbl')) \in Nat
    <3>1. Len(tbl.slots[i]) = Len(tbl'.slots[i]) + 1
      <4>1. tbl.slots[i] = c
        BY <2>6 DEF c
      <4>2. QED
        BY <2>3, <2>7, <4>1, SMT
    <3>2. \A j \in Slot : j # i => Len(tbl.slots[j]) = Len(tbl'.slots[j])
      BY <2>7
    <3>3. tbl.slots \in [Slot -> Seq(Entry)] /\ (IsFiniteSet(Objects(tbl')) \/ IsFiniteSet(Objects(tbl)))
      BY <1>1, <1>2, <2>6
    <3>4. i \in Slot
      BY <1>2
    <3>5. QED
      BY <2>7, <3>1, <3>2, <3>3, <3>4, OneMore
  <2>9. Sound(tbl')
    <3>1. tbl'.num = Cardinality(Objects(tbl')) /\ tbl'.num \in Nat
      BY <1>1, <2>6, <2>8, SMT
    <3>2. tbl' \in [slots : [Slot -> Seq(Entry)], num : Nat]
      BY <2>1, <2>6, <2>7, <3>1
    <3>3. QED
      BY <2>5, <2>6, <2>8, <3>1, <3>2 DEF Sound
  <2>10. Answers(tbl.slots)[k] # <<>>
    BY <1>3, <1>5, <2>6
  <2>11. QED
    BY <2>1, <2>3, <2>5, <2>6, <2>9, <2>10
<1>6. QED
  BY <1>4, <1>5

\* clear leaves an empty table: num is not 0 before the last object is gone.
LEMMA ClearStep ==
  ASSUME HashTblAssumption, Sound(tbl), Clear
  PROVE  tbl' = NoEntries
<1> DEFINE s == tbl.slots
           N == Objects(tbl)
           Below(i) == {o \in N : o[1] < i}
           E == Emptied(tbl)
           G == {o \in N : o[1] \in E}
<1>1. /\ s \in [Slot -> Seq(Entry)] /\ tbl.num \in Nat
      /\ IsFiniteSet(N) /\ tbl.num = Cardinality(N)
  BY DEF Sound, Homed
<1>2. \A i, p : <<i, p>> \in N <=> i \in Slot /\ p \in 1 .. Len(s[i])
  BY DEF Objects
<1>3. \A o \in N : o[1] \in Slot /\ s[o[1]] # <<>>
  <2>1. SUFFICES ASSUME NEW i \in Slot, NEW p \in 1 .. Len(s[i])
                 PROVE  s[i] # <<>>
    BY DEF Objects
  <2>2. 1 .. Len(<<>>) = {}
    OBVIOUS
  <2>3. QED
    BY <2>1, <2>2
<1>4. \A i \in Slot : i \in E <=> Cardinality(Below(i)) < tbl.num
  BY DEF Emptied
<1>5. tbl' = [slots |-> [i \in Slot |-> IF i \in E THEN <<>> ELSE s[i]], num |-> tbl.num - Cardinality(G)]
  BY DEF Clear
<1>6. E \subseteq Slot
  BY DEF Emptied
<1> HIDE DEF N, E
<1>7. ASSUME NEW i \in Slot, s[i] # <<>>
      PROVE  i \in E
  <2>1. Len(s[i]) \in Nat \ {0}
    BY <1>1, <1>7, EmptySeq, LenProperties
  <2>2. 1 \in 1 .. Len(s[i])
    BY <2>1, SMT
  <2>3. <<i, 1>> \in N
    BY <1>2, <2>2
  <2>4. <<i, 1>>[1] = i /\ ~(i < i)
    BY DEF Slot
  <2>5. <<i, 1>> \notin Below(i)
    BY <2>4
  <2>6. Below(i) \subseteq N /\ Below(i) # N
    BY <2>3, <2>5
  <2> HIDE DEF Below
  <2>7. Cardinality(Below(i)) < Cardinality(N)
    <3> DEFINE B == Below(i)
    <3> HIDE DEF B
    <3>1. B \in SUBSET N /\ B # N
      BY <2>6 DEF B
    <3>2. /\ IsFiniteSet(B) /\ Cardinality(B) <= Cardinality(N)
          /\ Cardinality(N) = Cardinality(B) => N = B
      BY <1>1, <3>1, FS_Subset
    <3>3. Cardinality(B) \in Nat /\ Cardinality(N) \in Nat
      BY <1>1, <3>2, FS_CardinalityType
    <3>4. Cardinality(B) < Cardinality(N)
      BY <3>1, <3>2, <3>3, SMT
    <3>5. QED
      BY <3>4 DEF B
  <2>8. QED
    BY <1>1, <1>4, <2>7
<1>8. [i \in Slot |-> IF i \in E THEN <<>> ELSE s[i]] = [i \in Slot |-> <<>>]
  BY <1>7
<1>9. G = N
  BY <1>3, <1>7
<1>10. tbl.num - Cardinality(G) = 0
  <2>1. Cardinality(G) = tbl.num
    BY <1>1, <1>9
  <2> HIDE DEF G
  <2>2. QED
    BY <1>1, <2>1, SMT
<1>11. QED
  BY <1>5, <1>8, <1>10 DEF NoEntries

-----------------------------------------------------------------------------
(* qhashtbl: walks *)

\* A place in a chain is where its name is found.
LEMMA FindIs ==
  ASSUME HashTblAssumption, Sound(tbl)
  PROVE  /\ \A j \in Key : /\ Find(j) \in 0 .. Len(tbl.slots[IndexOf(j)])
                           /\ Find(j) # 0 => tbl.slots[IndexOf(j)][Find(j)].name = j
         /\ \A i \in Slot : \A p \in 1 .. Len(tbl.slots[i]) :
              /\ tbl.slots[i][p].name \in Key
              /\ IndexOf(tbl.slots[i][p].name) = i /\ Find(tbl.slots[i][p].name) = p
<1>1. \A i \in Slot : IsChain(tbl.slots[i]) /\ \A p \in 1 .. Len(tbl.slots[i]) : IndexOf(tbl.slots[i][p].name) = i
  BY DEF Sound, Homed
<1>2. ASSUME NEW j \in Key
      PROVE  /\ Find(j) \in 0 .. Len(tbl.slots[IndexOf(j)])
             /\ Find(j) # 0 => tbl.slots[IndexOf(j)][Find(j)].name = j
  <2>1. IsChain(tbl.slots[IndexOf(j)])
    BY <1>1, Homes
  <2>2. QED
    BY <2>1, PlaceIs, LookIs DEF Find
<1>3. ASSUME NEW i \in Slot, NEW p \in 1 .. Len(tbl.slots[i])
      PROVE  /\ tbl.slots[i][p].name \in Key
             /\ IndexOf(tbl.slots[i][p].name) = i /\ Find(tbl.slots[i][p].name) = p
  <2> DEFINE c == tbl.slots[i]
  <2>1. IsChain(c) /\ IndexOf(c[p].name) = i
    BY <1>1
  <2>2. c[p] \in Entry
    BY <2>1, ElementOfSeq DEF IsChain
  <2>3. c[p].name \in Key
    BY <2>2 DEF Entry
  <2> HIDE DEF c
  <2>4. \A j \in Key : \A q \in 1 .. Len(c) : c[q].name = j <=> PlaceIn(c, j) = q
    BY <2>1, PlaceIs
  <2>5. p \in 1 .. Len(c)
    BY DEF c
  <2>6. PlaceIn(c, c[p].name) = p
    BY <2>3, <2>4, <2>5
  <2>7. QED
    BY <2>1, <2>3, <2>6 DEF c, Find
<1>4. QED
  BY <1>2, <1>3

\* The keys a walk has passed when it is at k.
Upto(k) ==
  {j \in Names : \/ IndexOf(j) < IndexOf(k)
                 \/ IndexOf(j) = IndexOf(k) /\ Find(j) <= Find(k)}

\* The same, of the chains s.
PlaceAt(s, k) == PlaceIn(s[IndexOf(k)], k)
Passed(s, k) ==
  {j \in Key : /\ PlaceAt(s, j) # 0
               /\ \/ IndexOf(j) < IndexOf(k)
                  \/ IndexOf(j) = IndexOf(k) /\ PlaceAt(s, j) <= PlaceAt(s, k)}

\* They are the same of the chains of the table.
LEMMA PassedIs ==
  ASSUME NEW k
  PROVE  PlaceAt(tbl.slots, k) = Find(k) /\ Passed(tbl.slots, k) = Upto(k)
<1>1. \A j : PlaceAt(tbl.slots, j) = Find(j)
  BY DEF PlaceAt, Find
<1>2. Passed(tbl.slots, k) = Upto(k)
  BY <1>1 DEF Passed, Upto, Names
<1>3. QED
  BY <1>1, <1>2

\* A walk over a table that nobody changed is at a key, its link leads to the next
\* in the chain, and it saw the keys up to there, each of them once.
WalkInv ==
  /\ walk \in [at : Key \cup {None}, next : Key \cup {None}, seen : Seq(Key), intact : BOOLEAN]
  /\ walk.at = None => walk = NoWalk
  /\ walk.at # None /\ ~walk.intact => walk.seen = <<>>
  /\ walk.at # None /\ walk.intact =>
       /\ PlaceAt(tbl.slots, walk.at) # 0
       /\ walk.next = NextOf(tbl.slots[IndexOf(walk.at)], PlaceAt(tbl.slots, walk.at))
       /\ ToSet(walk.seen) = Passed(tbl.slots, walk.at)
  /\ IsFiniteSet(ToSet(walk.seen)) /\ Cardinality(ToSet(walk.seen)) = Len(walk.seen)

\* Nothing seen.
LEMMA NothingSeen ==
  /\ <<>> \in Seq(Key) /\ ToSet(<<>>) = {} /\ IsFiniteSet(ToSet(<<>>))
  /\ Cardinality(ToSet(<<>>)) = Len(<<>>)
<1>1. <<>> \in Seq(Key) /\ Len(<<>>) = 0 /\ DOMAIN <<>> = {}
  OBVIOUS
<1>2. ToSet(<<>>) = {}
  BY <1>1 DEF ToSet
<1>3. QED
  BY <1>1, <1>2, FS_EmptySet

\* One key more is seen.
LEMMA SeenMore ==
  ASSUME NEW s \in Seq(Key), NEW g \in Key, g \notin ToSet(s),
         IsFiniteSet(ToSet(s)), Cardinality(ToSet(s)) = Len(s)
  PROVE  /\ Append(s, g) \in Seq(Key) /\ ToSet(Append(s, g)) = ToSet(s) \cup {g}
         /\ IsFiniteSet(ToSet(Append(s, g)))
         /\ Cardinality(ToSet(Append(s, g))) = Len(Append(s, g))
<1> DEFINE t == Append(s, g)
<1>1. /\ t \in Seq(Key) /\ Len(t) = Len(s) + 1 /\ t[Len(s) + 1] = g
      /\ \A i \in 1 .. Len(s) : t[i] = s[i]
  BY AppendProperties
<1>2. Len(s) \in Nat /\ DOMAIN s = 1 .. Len(s) /\ DOMAIN t = 1 .. Len(t)
  BY <1>1, LenProperties
<1> HIDE DEF t
<1>3. DOMAIN t = DOMAIN s \cup {Len(s) + 1}
  BY <1>1, <1>2, SMT
<1>4. ToSet(t) = ToSet(s) \cup {g}
  <2>1. \A x \in ToSet(t) : x \in ToSet(s) \/ x = g
    <3>1. SUFFICES ASSUME NEW i \in DOMAIN t PROVE t[i] \in ToSet(s) \/ t[i] = g
      BY DEF ToSet
    <3>2. CASE i \in DOMAIN s
      BY <1>1, <1>2, <3>2 DEF ToSet
    <3>3. CASE i = Len(s) + 1
      BY <1>1, <3>3
    <3>4. QED
      BY <1>3, <3>1, <3>2, <3>3
  <2>2. \A x \in ToSet(s) : x \in ToSet(t)
    <3>1. SUFFICES ASSUME NEW i \in DOMAIN s PROVE s[i] \in ToSet(t)
      BY DEF ToSet
    <3>2. i \in DOMAIN t /\ t[i] = s[i]
      BY <1>1, <1>2, <1>3
    <3>3. QED
      BY <3>2 DEF ToSet
  <2>3. g \in ToSet(t)
    <3>1. Len(s) + 1 \in DOMAIN t
      BY <1>3
    <3>2. QED
      BY <1>1, <3>1 DEF ToSet
  <2>4. QED
    BY <2>1, <2>2, <2>3, Zenon
<1>5. IsFiniteSet(ToSet(t)) /\ Cardinality(ToSet(t)) = Cardinality(ToSet(s)) + 1
  <2> DEFINE S == ToSet(s)
  <2>1. IsFiniteSet(S) /\ g \notin S /\ ToSet(t) = S \cup {g}
    BY <1>4
  <2> HIDE DEF S
  <2>2. IsFiniteSet(S \cup {g}) /\ Cardinality(S \cup {g}) = Cardinality(S) + 1
    BY <2>1, FS_AddElement
  <2>3. QED
    BY <2>1, <2>2 DEF S
<1>6. QED
  BY <1>1, <1>4, <1>5 DEF t

\* Where getnext goes to.
From == IF walk.at = None THEN 0 ELSE IndexOf(walk.at) + 1
Used == {i \in From .. Range_ - 1 : tbl.slots[i] # <<>>}
First == CHOOSE i \in Used : \A j \in Used : i <= j
NextKey == IF walk.next # None THEN walk.next
        ELSE IF Used = {} THEN None ELSE tbl.slots[First][1].name

\* From is a number of a chain or of one behind the last; the first chain in use
\* from there on is one, and those between are empty.
LEMMA FirstUsed ==
  ASSUME HashTblAssumption, Sound(tbl), walk.at \in Key \cup {None}
  PROVE  /\ From \in Nat /\ Used \subseteq Slot
         /\ Used # {} => First \in Used /\ \A j \in Used : First <= j
         /\ Used # {} => 1 \in 1 .. Len(tbl.slots[First])
<1>1. From \in Nat
  BY Homes, SMT DEF From, Slot
<1>2. Range_ \in Nat \ {0}
  BY DEF HashTblAssumption
<1>3. Used \subseteq Slot /\ Used \subseteq Nat
  BY <1>1, <1>2, SMT DEF Used, Slot
<1>4. ASSUME Used # {}
      PROVE  First \in Used /\ \A j \in Used : First <= j
  <2>1. \E i \in Used : \A j \in Used : i <= j
    BY <1>3, <1>4, LeastNumber
  <2>2. QED
    BY <2>1 DEF First
<1>5. ASSUME Used # {}
      PROVE  1 \in 1 .. Len(tbl.slots[First])
  <2>1. First \in Slot /\ tbl.slots[First] # <<>>
    BY <1>3, <1>4, <1>5 DEF Used
  <2>2. tbl.slots[First] \in Seq(Entry)
    BY <2>1 DEF Sound, Homed
  <2>3. Len(tbl.slots[First]) \in Nat \ {0}
    BY <2>1, <2>2, EmptySeq, LenProperties
  <2>4. QED
    BY <2>3, SMT
<1>6. QED
  BY <1>1, <1>3, <1>4, <1>5

\* What getnext does, told with these.
LEMMA GetNextIs ==
  ASSUME GetNext
  PROVE  /\ walk' = IF NextKey = None THEN NoWalk
                    ELSE [walk EXCEPT !.at = NextKey,
                            !.next = NextOf(tbl.slots[IndexOf(NextKey)], Find(NextKey)),
                            !.seen = IF walk.intact THEN Append(@, NextKey) ELSE @]
         /\ tbl' = tbl /\ call' = call
BY Zenon DEF GetNext, NextKey, Used, First, From, Find

\* It goes to a key of the table; its link, to the next of its chain or nowhere.
LEMMA NextKeyIs ==
  ASSUME HashTblAssumption, Sound(tbl), WalkInv
  PROVE  /\ NextKey \in Key \cup {None}
         /\ NextKey # None => NextOf(tbl.slots[IndexOf(NextKey)], Find(NextKey)) \in Key \cup {None}
<1>1. walk.next \in Key \cup {None} /\ walk.at \in Key \cup {None}
  BY DEF WalkInv
<1>2. NextKey \in Key \cup {None}
  <2>1. CASE walk.next # None
    BY <1>1, <2>1 DEF NextKey
  <2>2. CASE walk.next = None /\ Used = {}
    BY <2>2 DEF NextKey
  <2>3. CASE walk.next = None /\ Used # {}
    <3>1. First \in Slot /\ 1 \in 1 .. Len(tbl.slots[First])
      BY <1>1, <2>3, FirstUsed
    <3>2. tbl.slots[First][1].name \in Key
      BY <3>1, FindIs
    <3>3. QED
      BY <2>3, <3>2 DEF NextKey
  <2>4. QED
    BY <2>1, <2>2, <2>3
<1>3. ASSUME NextKey # None
      PROVE  NextOf(tbl.slots[IndexOf(NextKey)], Find(NextKey)) \in Key \cup {None}
  <2> DEFINE g == NextKey
             c == tbl.slots[IndexOf(g)]
  <2>1. g \in Key /\ IndexOf(g) \in Slot
    BY <1>2, <1>3, Homes
  <2>2. Find(g) \in 0 .. Len(c) /\ Len(c) \in Nat
    <3>1. c \in Seq(Entry)
      BY <2>1 DEF Sound, Homed
    <3>2. QED
      BY <2>1, <3>1, FindIs, LenProperties
  <2>3. CASE Find(g) < Len(c)
    <3>1. Find(g) + 1 \in 1 .. Len(c)
      BY <2>2, <2>3, SMT
    <3>2. c[Find(g) + 1].name \in Key
      BY <2>1, <3>1, FindIs
    <3>3. QED
      BY <2>3, <3>2 DEF NextOf
  <2>4. CASE ~(Find(g) < Len(c))
    BY <2>4 DEF NextOf
  <2>5. QED
    BY <2>3, <2>4
<1>4. QED
  BY <1>2, <1>3

\* From a key of an unchanged table it goes to the one that is next.
LEMMA NextKeyNext ==
  ASSUME HashTblAssumption, Sound(tbl), WalkInv, walk.at # None, walk.intact
  PROVE  /\ NextKey # None => /\ Find(NextKey) # 0 /\ NextKey \notin Upto(walk.at)
                           /\ Upto(NextKey) = Upto(walk.at) \cup {NextKey}
         /\ NextKey = None => Upto(walk.at) = Names
<1> DEFINE a == walk.at
           i == IndexOf(a)
           c == tbl.slots[i]
           p == Find(a)
<1>1. a \in Key /\ p # 0 /\ walk.next = NextOf(c, p)
  BY PassedIs DEF WalkInv
<1>2. i \in Slot /\ c \in Seq(Entry) /\ Len(c) \in Nat /\ p \in 1 .. Len(c) /\ c[p].name = a
  <2>1. i \in Slot
    BY <1>1, Homes
  <2>2. c \in Seq(Entry)
    BY <2>1 DEF Sound, Homed
  <2>3. Len(c) \in Nat
    BY <2>2, LenProperties
  <2>4. p \in 0 .. Len(c) /\ c[p].name = a
    BY <1>1, FindIs
  <2>5. QED
    BY <1>1, <2>1, <2>2, <2>3, <2>4, SMT
<1>3. \A s \in Slot : s \in Nat /\ s <= Range_ - 1
  BY DEF Slot, HashTblAssumption
\* Of a key of the table.
<1>4. ASSUME NEW j \in Names
      PROVE  /\ j \in Key /\ IndexOf(j) \in Slot
             /\ Find(j) \in 1 .. Len(tbl.slots[IndexOf(j)])
             /\ tbl.slots[IndexOf(j)][Find(j)].name = j /\ tbl.slots[IndexOf(j)] # <<>>
  <2>1. j \in Key /\ Find(j) # 0 /\ IndexOf(j) \in Slot
    BY Homes DEF Names
  <2>2. Find(j) \in 0 .. Len(tbl.slots[IndexOf(j)]) /\ tbl.slots[IndexOf(j)][Find(j)].name = j
    BY <2>1, FindIs
  <2>3. tbl.slots[IndexOf(j)] \in Seq(Entry)
    BY <2>1 DEF Sound, Homed
  <2>4. Find(j) \in 1 .. Len(tbl.slots[IndexOf(j)])
    BY <2>1, <2>2, <2>3, LenProperties, SMT
  <2>5. 1 .. Len(<<>>) = {}
    OBVIOUS
  <2>6. QED
    BY <2>1, <2>2, <2>4, <2>5
<1>5. Upto(a) \subseteq Names
  BY DEF Upto
<1>6. From = i + 1
  BY <1>1 DEF From, HashTblAssumption, None
<1>7. CASE p < Len(c)
  <2>1. walk.next = c[p + 1].name
    BY <1>1, <1>7 DEF NextOf
  <2>2. p + 1 \in 1 .. Len(c)
    BY <1>2, <1>7, SMT
  <2> DEFINE g == c[p + 1].name
  <2>3. g \in Key /\ IndexOf(g) = i /\ Find(g) = p + 1
    BY <1>2, <2>2, FindIs
  <2>4. g # None /\ NextKey = g
    BY <2>1, <2>3 DEF NextKey, HashTblAssumption, None
  <2> HIDE DEF g
  <2>5. Find(g) # 0 /\ g \in Names
    BY <1>2, <2>3, SMT DEF Names
  <2>6. g \notin Upto(a)
    <3>1. ~(IndexOf(g) < i) /\ ~(Find(g) <= p)
      BY <1>2, <1>3, <2>3, SMT
    <3>2. QED
      BY <3>1 DEF Upto
  <2>7. ASSUME NEW j \in Names
        PROVE  j \in Upto(g) <=> j \in Upto(a) \/ j = g
    <3>1. CASE IndexOf(j) = i
      <4>1. Find(j) \in 1 .. Len(c) /\ c[Find(j)].name = j
        BY <1>4, <3>1
      <4>2. Find(j) <= p + 1 <=> Find(j) <= p \/ Find(j) = p + 1
        BY <1>2, <4>1, SMT
      <4>3. Find(j) = p + 1 <=> j = g
        BY <2>3, <4>1 DEF g
      <4>4. ~(IndexOf(j) < i)
        BY <1>2, <1>3, <3>1, SMT
      <4>5. QED
        BY <2>3, <3>1, <4>2, <4>3, <4>4 DEF Upto
    <3>2. CASE IndexOf(j) # i
      BY <2>3, <3>2 DEF Upto
    <3>3. QED
      BY <3>1, <3>2
  <2>8. Upto(g) \subseteq Names
    BY DEF Upto
  <2>9. Upto(g) = Upto(a) \cup {g}
    BY <1>5, <2>5, <2>7, <2>8
  <2>10. QED
    BY <2>4, <2>5, <2>6, <2>9
<1>8. CASE ~(p < Len(c))
  <2>1. walk.next = None /\ p = Len(c)
    BY <1>1, <1>2, <1>8, SMT DEF NextOf
  \* All that is in this chain has been seen.
  <2>2. ASSUME NEW j \in Names
        PROVE  j \in Upto(a) <=> IndexOf(j) < i + 1
    <3>1. CASE IndexOf(j) = i
      <4>1. Find(j) \in 1 .. Len(c)
        BY <1>4, <3>1
      <4>2. Find(j) <= p /\ i < i + 1
        BY <1>2, <1>3, <2>1, <4>1, SMT
      <4>3. QED
        BY <3>1, <4>2 DEF Upto
    <3>2. CASE IndexOf(j) # i
      <4>1. IndexOf(j) < i <=> IndexOf(j) < i + 1
        BY <1>2, <1>3, <1>4, <3>2, SMT
      <4>2. QED
        BY <3>2, <4>1 DEF Upto
    <3>3. QED
      BY <3>1, <3>2
  <2>3. ASSUME NEW j \in Names, ~(IndexOf(j) < i + 1)
        PROVE  IndexOf(j) \in Used
    <3>1. IndexOf(j) \in From .. Range_ - 1
      BY <1>2, <1>3, <1>4, <1>6, <2>3, SMT
    <3>2. QED
      BY <1>4, <3>1 DEF Used
  <2>4. CASE Used = {}
    <3>1. NextKey = None
      BY <2>1, <2>4 DEF NextKey
    <3>2. Names \subseteq Upto(a)
      BY <2>2, <2>3, <2>4
    <3>3. QED
      BY <1>5, <3>1, <3>2
  <2>5. CASE Used # {}
    <3> DEFINE f == First
               g == tbl.slots[f][1].name
    <3>1. f \in Used /\ f \in Slot /\ (\A u \in Used : f <= u) /\ 1 \in 1 .. Len(tbl.slots[f])
      BY <1>1, <2>5, FirstUsed
    <3>2. g \in Key /\ IndexOf(g) = f /\ Find(g) = 1
      BY <3>1, FindIs
    <3>3. g # None /\ NextKey = g
      BY <2>1, <2>5, <3>2 DEF NextKey, HashTblAssumption, None
    <3>4. f >= i + 1 /\ f \in Nat /\ i \in Nat
      <4>1. f \in From .. Range_ - 1 /\ From = i + 1
        BY <1>6, <3>1 DEF Used
      <4>2. i \in Nat /\ f \in Nat
        BY <1>2, <1>3, <3>1
      <4> HIDE DEF f, i
      <4>3. QED
        BY <4>1, <4>2, SMT
    <3>5. tbl.slots[f][1].name = g
      OBVIOUS
    <3> HIDE DEF f, g
    <3>6. g \in Names /\ Find(g) # 0
      BY <3>2 DEF Names
    <3>7. g \notin Upto(a)
      <4>1. ~(IndexOf(g) < i + 1)
        BY <3>2, <3>4, SMT
      <4>2. QED
        BY <2>2, <3>6, <4>1
    <3>8. ASSUME NEW j \in Names
          PROVE  j \in Upto(g) <=> j \in Upto(a) \/ j = g
      <4>1. CASE IndexOf(j) = f
        <5>1. Find(j) \in 1 .. Len(tbl.slots[f]) /\ tbl.slots[f][Find(j)].name = j
          BY <1>4, <4>1
        <5>2. Find(j) <= 1 <=> Find(j) = 1
          BY <5>1, SMT
        <5>3. Find(j) = 1 <=> j = g
          BY <3>2, <3>5, <5>1
        <5>4. ~(f < i + 1) /\ ~(f < f)
          BY <3>4, SMT
        <5>5. j \notin Upto(a)
          BY <2>2, <4>1, <5>4
        <5>6. QED
          BY <3>2, <4>1, <5>2, <5>3, <5>4, <5>5 DEF Upto
      <4>2. CASE IndexOf(j) # f
        <5>1. IndexOf(j) < f <=> IndexOf(j) < i + 1
          <6>1. IndexOf(j) \in Nat
            BY <1>3, <1>4
          <6>2. IndexOf(j) < i + 1 => IndexOf(j) < f
            BY <3>4, <6>1, SMT
          <6>3. ~(IndexOf(j) < i + 1) => ~(IndexOf(j) < f)
            <7>1. ~(IndexOf(j) < i + 1) => f <= IndexOf(j)
              BY <2>3, <3>1
            <7>2. QED
              BY <3>4, <6>1, <7>1, SMT
          <6>4. QED
            BY <6>2, <6>3
        <5>2. j # g
          BY <3>2, <4>2
        <5>3. QED
          BY <2>2, <3>2, <4>2, <5>1, <5>2 DEF Upto
      <4>3. QED
        BY <4>1, <4>2
    <3>9. Upto(g) \subseteq Names
      BY DEF Upto
    <3>10. Upto(g) = Upto(a) \cup {g}
      BY <1>5, <3>6, <3>8, <3>9
    <3>11. QED
      BY <3>3, <3>6, <3>7, <3>10
  <2>6. QED
    BY <2>4, <2>5
<1>9. QED
  BY <1>7, <1>8

\* A walk begins at the first key of all.
LEMMA NextKeyFirst ==
  ASSUME HashTblAssumption, Sound(tbl), walk = NoWalk, NextKey # None
  PROVE  Find(NextKey) # 0 /\ Upto(NextKey) = {NextKey}
<1> DEFINE f == First
           g == tbl.slots[f][1].name
<1>1. walk.at = None /\ walk.next = None /\ From = 0
  BY DEF NoWalk, From
<1>2. Used # {} /\ NextKey = g
  BY <1>1 DEF NextKey
<1>3. f \in Used /\ f \in Slot /\ (\A u \in Used : f <= u) /\ 1 \in 1 .. Len(tbl.slots[f])
  BY <1>1, <1>2, FirstUsed
<1>4. g \in Key /\ IndexOf(g) = f /\ Find(g) = 1
  BY <1>3, FindIs
<1>5. tbl.slots[f][1].name = g
  OBVIOUS
<1> HIDE DEF f, g
<1>6. g \in Names
  BY <1>4 DEF Names
<1>7. ASSUME NEW j \in Names
      PROVE  j \in Upto(g) <=> j = g
  <2>1. j \in Key /\ Find(j) # 0 /\ IndexOf(j) \in Slot
    BY Homes DEF Names
  <2> DEFINE c == tbl.slots[IndexOf(j)]
  <2>2. c \in Seq(Entry)
    BY <2>1 DEF Sound, Homed
  <2>3. Find(j) \in 1 .. Len(c) /\ c[Find(j)].name = j
    <3>1. Find(j) \in 0 .. Len(c) /\ c[Find(j)].name = j
      BY <2>1, FindIs
    <3>2. QED
      BY <2>1, <2>2, <3>1, LenProperties, SMT
  <2>4. IndexOf(j) \in Used
    <3>1. 1 .. Len(<<>>) = {}
      OBVIOUS
    <3>2. c # <<>>
      BY <2>3, <3>1
    <3>3. IndexOf(j) \in From .. Range_ - 1
      BY <1>1, <2>1 DEF Slot
    <3>4. QED
      BY <3>2, <3>3 DEF Used
  <2>5. f <= IndexOf(j) /\ f \in Nat /\ IndexOf(j) \in Nat
    BY <1>3, <2>1, <2>4 DEF Slot
  <2>6. ~(IndexOf(j) < f)
    BY <2>5, SMT
  <2>7. IndexOf(j) = f /\ Find(j) <= 1 <=> j = g
    <3>1. Find(j) <= 1 <=> Find(j) = 1
      BY <2>3, SMT
    <3>2. IndexOf(j) = f /\ Find(j) = 1 => j = g
      BY <1>5, <2>3
    <3>3. QED
      BY <1>4, <3>1, <3>2
  <2>8. QED
    BY <1>4, <2>6, <2>7 DEF Upto
<1>8. Upto(g) \subseteq Names
  BY DEF Upto
<1>9. Upto(g) = {g}
  BY <1>6, <1>7, <1>8
<1>10. QED
  BY <1>2, <1>4, <1>9

\* getnext sees each key once: it keeps what is known of a walk.
LEMMA GetNextWalks ==
  ASSUME HashTblAssumption, Sound(tbl), WalkInv, GetNext
  PROVE  WalkInv' /\ WalkStep
<1>1. /\ walk' = IF NextKey = None THEN NoWalk
                 ELSE [walk EXCEPT !.at = NextKey,
                         !.next = NextOf(tbl.slots[IndexOf(NextKey)], Find(NextKey)),
                         !.seen = IF walk.intact THEN Append(@, NextKey) ELSE @]
      /\ tbl' = tbl
  BY GetNextIs
<1>2. /\ walk \in [at : Key \cup {None}, next : Key \cup {None}, seen : Seq(Key), intact : BOOLEAN]
      /\ walk.at = None => walk = NoWalk
      /\ walk.at # None /\ ~walk.intact => walk.seen = <<>>
      /\ walk.at # None /\ walk.intact => ToSet(walk.seen) = Upto(walk.at)
      /\ IsFiniteSet(ToSet(walk.seen)) /\ Cardinality(ToSet(walk.seen)) = Len(walk.seen)
  BY PassedIs DEF WalkInv
<1>5. CASE NextKey = None
  <2>1. walk' = NoWalk
    BY <1>1, <1>5
  <2>2. /\ NoWalk.at = None /\ NoWalk.seen = <<>>
        /\ NoWalk \in [at : Key \cup {None}, next : Key \cup {None}, seen : Seq(Key), intact : BOOLEAN]
    BY NothingSeen DEF NoWalk
  <2>3. WalkInv'
    BY <2>1, <2>2, NothingSeen DEF WalkInv
  <2>4. walk.at # None /\ walk.intact => ToSet(walk.seen) = Names
    <3>1. walk.at # None /\ walk.intact => Upto(walk.at) = Names
      BY <1>5, NextKeyNext
    <3>2. QED
      BY <1>2, <3>1
  <2>5. Len(walk'.seen) = Cardinality(ToSet(walk'.seen))
    BY <2>1, <2>2, NothingSeen
  <2>6. QED
    BY <2>3, <2>4, <2>5 DEF WalkStep
<1>6. CASE NextKey # None
  <2>g. PICK g : g = NextKey
    OBVIOUS
  <2>n. PICK n : n = NextOf(tbl.slots[IndexOf(g)], Find(g))
    OBVIOUS
  <2>1. g \in Key /\ n \in Key \cup {None}
    BY <1>6, <2>g, <2>n, NextKeyIs
  <2>2. walk' = [walk EXCEPT !.at = g, !.next = n, !.seen = IF walk.intact THEN Append(@, g) ELSE @]
    BY <1>1, <1>6, <2>g, <2>n
  <2>3. walk.intact => /\ Find(g) # 0 /\ g \notin ToSet(walk.seen)
                       /\ ToSet(walk.seen) \cup {g} = Upto(g)
    <3>1. CASE walk.intact /\ walk.at # None
      BY <1>2, <1>6, <2>g, <3>1, NextKeyNext
    <3>2. CASE walk.at = None
      <4>1. walk = NoWalk /\ walk.seen = <<>>
        BY <1>2, <3>2 DEF NoWalk
      <4>2. Find(g) # 0 /\ Upto(g) = {g}
        BY <1>6, <2>g, <4>1, NextKeyFirst
      <4>3. ToSet(walk.seen) = {}
        BY <4>1, NothingSeen
      <4>4. QED
        BY <4>2, <4>3
    <3>3. QED
      BY <3>1, <3>2
  <2>4. g # None
    BY <1>6, <2>g
  <2>5. CASE walk.intact
    <3> DEFINE s == Append(walk.seen, g)
    <3>1. /\ s \in Seq(Key) /\ ToSet(s) = ToSet(walk.seen) \cup {g}
          /\ IsFiniteSet(ToSet(s)) /\ Cardinality(ToSet(s)) = Len(s)
      BY <1>2, <2>1, <2>3, <2>5, SeenMore
    <3>2. walk'.at = g /\ walk'.next = n /\ walk'.seen = s /\ walk'.intact
      BY <1>2, <2>2, <2>5
    <3> HIDE DEF s
    <3>3. walk' \in [at : Key \cup {None}, next : Key \cup {None}, seen : Seq(Key), intact : BOOLEAN]
      BY <1>2, <2>1, <2>2, <2>5, <3>1 DEF s
    <3>4. /\ PlaceAt(tbl'.slots, g) # 0
          /\ n = NextOf(tbl'.slots[IndexOf(g)], PlaceAt(tbl'.slots, g))
          /\ ToSet(s) = Passed(tbl'.slots, g)
      BY <1>1, <2>n, <2>3, <2>5, <3>1, PassedIs
    <3>5. WalkInv'
      BY <2>4, <3>1, <3>2, <3>3, <3>4 DEF WalkInv
    <3>6. QED
      BY <2>4, <3>1, <3>2, <3>5 DEF WalkStep
  <2>6. CASE ~walk.intact
    <3>1. walk.at # None /\ walk.seen = <<>>
      BY <1>2, <2>6 DEF NoWalk
    <3>2. walk'.at = g /\ walk'.seen = <<>> /\ ~walk'.intact
      BY <1>2, <2>2, <2>6, <3>1
    <3>3. walk' \in [at : Key \cup {None}, next : Key \cup {None}, seen : Seq(Key), intact : BOOLEAN]
      BY <1>2, <2>1, <2>2, <2>6
    <3>4. WalkInv'
      BY <2>4, <3>2, <3>3, NothingSeen DEF WalkInv
    <3>5. QED
      BY <2>4, <3>2, <3>4, NothingSeen DEF WalkStep
  <2>7. QED
    BY <2>5, <2>6
<1>7. QED
  BY <1>5, <1>6

\* When the table changes, a walk over it has no more to say.
LEMMA DisturbWalks ==
  ASSUME WalkInv, Disturb
  PROVE  WalkInv' /\ WalkStep
<1>1. /\ walk \in [at : Key \cup {None}, next : Key \cup {None}, seen : Seq(Key), intact : BOOLEAN]
      /\ walk.at = None => walk = NoWalk
  BY DEF WalkInv
<1>2. walk' = [walk EXCEPT !.intact = (walk.at = None), !.seen = <<>>]
  BY DEF Disturb
<1>3. /\ walk' \in [at : Key \cup {None}, next : Key \cup {None}, seen : Seq(Key), intact : BOOLEAN]
      /\ walk'.at = walk.at /\ walk'.next = walk.next /\ walk'.seen = <<>>
      /\ walk'.intact <=> walk.at = None
  BY <1>1, <1>2, NothingSeen
<1>4. walk'.at = None => walk' = NoWalk
  <2>1. SUFFICES ASSUME walk.at = None PROVE walk' = NoWalk
    BY <1>3
  <2>2. walk = NoWalk /\ walk.intact /\ walk.seen = <<>>
    BY <1>1, <2>1 DEF NoWalk
  <2>3. walk' = [walk EXCEPT !.intact = TRUE, !.seen = <<>>]
    BY <1>2, <2>1
  <2>4. QED
    BY <2>2, <2>3 DEF NoWalk
<1>5. WalkInv'
  BY <1>3, <1>4, NothingSeen DEF WalkInv
<1>6. QED
  BY <1>3, <1>5, NothingSeen DEF WalkStep

-----------------------------------------------------------------------------
(* qhashtbl: every call *)

\* The inductive invariant.
TableInv == Sound(tbl) /\ WalkInv

\* It holds of a new table.
LEMMA TableInitially ==
  ASSUME HashTblAssumption, HashTblInit
  PROVE  TableInv
<1>1. Sound(tbl)
  BY EmptyIsSound DEF HashTblInit
<1>2. walk = NoWalk
  BY DEF HashTblInit
<1>3. /\ NoWalk.at = None /\ NoWalk.seen = <<>>
      /\ NoWalk \in [at : Key \cup {None}, next : Key \cup {None}, seen : Seq(Key), intact : BOOLEAN]
  BY NothingSeen DEF NoWalk
<1>4. WalkInv
  BY <1>2, <1>3, NothingSeen DEF WalkInv
<1>5. QED
  BY <1>1, <1>4 DEF TableInv

\* Where neither the table nor the walk changes there is nothing to show.
LEMMA TableSame ==
  ASSUME TableInv, UNCHANGED <<tbl, walk>>
  PROVE  TableInv' /\ WalkStep
<1>1. tbl' = tbl /\ walk' = walk
  OBVIOUS
<1>2. TableInv'
  BY <1>1 DEF TableInv, WalkInv
<1>3. WalkStep
  BY <1>1 DEF TableInv, WalkInv, WalkStep
<1>4. QED
  BY <1>2, <1>3

\* A call is one of a dictionary.
LEMMA DictStep ==
  /\ \A k \in Key, v \in Value :
       /\ call' = <<"put", k, Done>> /\ Contents' = [Contents EXCEPT ![k] = v] => Map!DictNext
  /\ \A k \in Key :
       /\ call' = <<"get", k, Contents[k]>> /\ Contents' = Contents => Map!DictNext
       /\ call' = <<"remove", k, IF Contents[k] = <<>> THEN Failed ELSE Done>>
          /\ Contents' = [Contents EXCEPT ![k] = <<>>] => Map!DictNext
  /\ call' = <<"clear", 0, Done>> /\ Contents' = [k \in Key |-> <<>>] => Map!DictNext
<1>1. ASSUME NEW k \in Key, NEW v \in Value,
             call' = <<"put", k, Done>>, Contents' = [Contents EXCEPT ![k] = v]
      PROVE  Map!DictNext
  <2>1. Map!Put(k, v)
    BY <1>1 DEF Map!Put, Map!Done, Done
  <2>2. QED
    BY <2>1 DEF Map!DictNext
<1>2. ASSUME NEW k \in Key, call' = <<"get", k, Contents[k]>>, Contents' = Contents
      PROVE  Map!DictNext
  <2>1. Map!Get(k)
    BY <1>2 DEF Map!Get
  <2>2. QED
    BY <2>1 DEF Map!DictNext
<1>3. ASSUME NEW k \in Key,
             call' = <<"remove", k, IF Contents[k] = <<>> THEN Failed ELSE Done>>,
             Contents' = [Contents EXCEPT ![k] = <<>>]
      PROVE  Map!DictNext
  <2>1. Map!Delete(k)
    BY <1>3 DEF Map!Delete, Map!Failed, Map!Done, Failed, Done
  <2>2. QED
    BY <2>1 DEF Map!DictNext
<1>4. ASSUME call' = <<"clear", 0, Done>>, Contents' = [k \in Key |-> <<>>]
      PROVE  Map!DictNext
  <2>1. Map!Wipe
    BY <1>4 DEF Map!Wipe, Map!Done, Done
  <2>2. QED
    BY <2>1 DEF Map!DictNext
<1>5. QED
  BY <1>1, <1>2, <1>3, <1>4

\* Every call keeps the invariant, is one of a dictionary, and lets a walk see
\* each key once.
LEMMA TableSteps ==
  ASSUME HashTblAssumption, TableInv, [HashTblNext]_hashTblVars
  PROVE  TableInv' /\ MapStep /\ WalkStep
<1>1. Sound(tbl) /\ WalkInv
  BY DEF TableInv
<1>2. Contents = Answers(tbl.slots) /\ Contents' = Answers(tbl'.slots)
  BY ContentsAre DEF Contents, Answers, Look, Find
<1>3. ASSUME NEW k \in Key, Get(k)
      PROVE  TableInv' /\ MapStep /\ WalkStep
  <2>1. TableInv' /\ WalkStep
    BY <1>3, TableSame DEF Get
  <2>2. Contents' = Contents
    BY <1>2, <1>3 DEF Get
  <2>3. call' = <<"get", k, Contents[k]>>
    BY <1>3 DEF Get, Contents, Failed
  <2>4. Map!DictNext
    BY <2>2, <2>3, DictStep
  <2>5. QED
    BY <2>1, <2>4 DEF MapStep
<1>4. ASSUME NEW k \in Key, Delete(k)
      PROVE  TableInv' /\ MapStep /\ WalkStep
  <2>1. /\ Sound(tbl') /\ Contents' = [Contents EXCEPT ![k] = <<>>]
        /\ call' = <<"remove", k, IF Contents[k] = <<>> THEN Failed ELSE Done>>
    BY <1>1, <1>2, <1>4, DeleteStep
  <2>2. Map!DictNext
    BY <2>1, DictStep
  <2>3. CASE Find(k) = 0
    <3>1. TableInv' /\ WalkStep
      BY <1>4, <2>3, TableSame DEF Delete
    <3>2. QED
      BY <2>2, <3>1 DEF MapStep
  <2>4. CASE Find(k) # 0
    <3>1. WalkInv' /\ WalkStep
      BY <1>1, <1>4, <2>4, DisturbWalks DEF Delete
    <3>2. QED
      BY <2>1, <2>2, <3>1 DEF MapStep, TableInv, Sound
  <2>5. QED
    BY <2>3, <2>4
<1>5. ASSUME NEW k \in Key, NEW v \in Value, Put(k, v)
      PROVE  TableInv' /\ MapStep /\ WalkStep
  <2>1. Sound(tbl') /\ Contents' = [Contents EXCEPT ![k] = v]
    BY <1>1, <1>2, <1>5, PutStep
  <2>2. Map!DictNext
    BY <1>5, <2>1, DictStep DEF Put
  <2>3. WalkInv' /\ WalkStep
    BY <1>1, <1>5, DisturbWalks DEF Put
  <2>4. QED
    BY <2>1, <2>2, <2>3 DEF MapStep, TableInv, Sound
<1>6. CASE Clear
  <2>1. tbl' = NoEntries
    BY <1>1, <1>6, ClearStep
  <2>2. Sound(tbl') /\ Contents' = [k \in Key |-> <<>>]
    BY <1>2, <2>1, EmptyIsSound
  <2>3. Map!DictNext
    BY <1>6, <2>2, DictStep DEF Clear
  <2>4. WalkInv' /\ WalkStep
    BY <1>1, <1>6, DisturbWalks DEF Clear
  <2>5. QED
    BY <2>2, <2>3, <2>4 DEF MapStep, TableInv, Sound
<1>7. CASE GetNext
  <2>1. WalkInv' /\ WalkStep
    BY <1>1, <1>7, GetNextWalks
  <2>2. tbl' = tbl /\ call' = call
    BY <1>7, GetNextIs
  <2>3. Sound(tbl')
    BY <1>1, <2>2
  <2>4. QED
    BY <2>1, <2>2, <2>3 DEF MapStep, TableInv, Sound
<1>8. CASE UNCHANGED hashTblVars
  <2>1. TableInv' /\ WalkStep
    BY <1>8, TableSame DEF hashTblVars
  <2>2. QED
    BY <1>8, <2>1 DEF MapStep, hashTblVars
<1>9. QED
  BY <1>3, <1>4, <1>5, <1>6, <1>7, <1>8 DEF HashTblNext

\* It counts its objects, and a key has one of them, in the chain of its hash:
\* after whatever calls, for all keys, hashes and numbers of chains.
THEOREM HashTblCounted == HashTblAssumption => (HashTblSpec => []Counted)
<1> SUFFICES ASSUME HashTblAssumption PROVE HashTblSpec => []Counted
  OBVIOUS
<1>1. HashTblInit => TableInv
  BY TableInitially
<1>2. TableInv /\ [HashTblNext]_hashTblVars => TableInv'
  BY TableSteps
<1>3. TableInv => Counted
  BY DEF TableInv, Sound, Homed, IsChain, Counted
<1>4. QED
  BY <1>1, <1>2, <1>3, PTL DEF HashTblSpec

\* However its keys collide, the table is a dictionary, and a walk over one that
\* nobody changes sees each key once.
THEOREM HashTblIsMap == HashTblAssumption => (HashTblSpec => [][MapStep /\ WalkStep]_hashTblVars)
<1> SUFFICES ASSUME HashTblAssumption PROVE HashTblSpec => [][MapStep /\ WalkStep]_hashTblVars
  OBVIOUS
<1>1. HashTblInit => TableInv
  BY TableInitially
<1>2. TableInv /\ [HashTblNext]_hashTblVars => TableInv'
  BY TableSteps
<1>3. TableInv /\ [HashTblNext]_hashTblVars => MapStep /\ WalkStep
  BY TableSteps
<1>4. QED
  BY <1>1, <1>2, <1>3, PTL DEF HashTblSpec

\* So it implements the abstract map: it starts empty, and every step is one of the
\* map or changes nothing of it.
THEOREM HashTblRefines == HashTblAssumption => (HashTblSpec => Map!DictSpec)
<1> SUFFICES ASSUME HashTblAssumption PROVE HashTblSpec => Map!DictSpec
  OBVIOUS
<1>1. HashTblInit => TableInv /\ Map!DictInit
  <2>1. SUFFICES ASSUME HashTblInit PROVE TableInv /\ Map!DictInit
    OBVIOUS
  <2>2. TableInv
    BY <2>1, TableInitially
  <2>3. Contents = [k \in Key |-> <<>>]
    BY <2>1, ContentsAre, EmptyIsSound DEF HashTblInit
  <2>4. Map!DictInit
    BY <2>1, <2>3 DEF HashTblInit, Map!DictInit, Map!Done, Done
  <2>5. QED
    BY <2>2, <2>4
<1>2. TableInv /\ [HashTblNext]_hashTblVars => TableInv' /\ [Map!DictNext]_Map!dictVars
  <2>1. SUFFICES ASSUME TableInv, [HashTblNext]_hashTblVars
                 PROVE  TableInv' /\ [Map!DictNext]_Map!dictVars
    OBVIOUS
  <2>2. TableInv' /\ MapStep
    BY <2>1, TableSteps
  <2>3. tbl' = tbl => Contents' = Contents
    BY DEF Contents, Find
  <2>4. UNCHANGED <<tbl, call>> => UNCHANGED Map!dictVars
    BY <2>3 DEF Map!dictVars
  <2>5. QED
    BY <2>2, <2>4 DEF MapStep
<1>3. QED
  BY <1>1, <1>2, PTL DEF HashTblSpec, Map!DictSpec
=============================================================================
