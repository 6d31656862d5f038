----------------------------- MODULE PoolProofs -----------------------------
(***************************************************************************)
(* Proofs about the pool, for any number of children and slots, any        *)
(* configuration, and any number of deaths at any point:                   *)
(*   TypeCorrect       types                                               *)
(*   OneSlotCorrect    no child is in two slots      (also when unlocks    *)
(*   NoGhostCorrect    no slot is lost                are forced)          *)
(*   SlotOwnedCorrect  a registered child keeps its slot                   *)
(*   RegistryCorrect   the pool implements the abstract registry           *)
(*   CountersCorrect   the counters agree with the slots                   *)
(***************************************************************************)
EXTENDS Pool, FiniteSetTheorems, WellFoundedInduction, TLAPS

-----------------------------------------------------------------------------
(* Lemmas about the operators *)

\* A nonempty set of natural numbers has a least element.
LEMMA LeastElement ==
  ASSUME NEW S \in SUBSET Nat, S # {}
  PROVE  \E m \in S : \A n \in S : m <= n
<1> DEFINE T == {0 .. m : m \in S}
           LessThan == StrictSubsetOrdering(Nat)
<1>1. T \subseteq FiniteSubsetsOf(Nat)
  <2>1. SUFFICES ASSUME NEW m \in S PROVE 0 .. m \in FiniteSubsetsOf(Nat)
    OBVIOUS
  <2>2. IsFiniteSet(0 .. m)
    BY FS_Interval
  <2>3. 0 .. m \subseteq Nat
    OBVIOUS
  <2> QED
    BY <2>2, <2>3, Zenon DEF FiniteSubsetsOf
<1>2. IsWellFoundedOn(LessThan, FiniteSubsetsOf(Nat))
  BY FS_StrictSubsetOrderingWellFounded, Zenon
<1>3. T # {}
  OBVIOUS
<1>4. PICK t \in T : \A u \in T : <<u, t>> \notin LessThan
  BY <1>1, <1>2, <1>3, WFMin, Zenon
<1>5. PICK m \in S : t = 0 .. m
  OBVIOUS
<1>6. ASSUME NEW n \in S, n < m PROVE FALSE
  <2>1. 0 .. n \in T
    OBVIOUS
  <2>2. 0 .. n \subseteq 0 .. m
    BY <1>6
  <2>3. m \in 0 .. m /\ m \notin 0 .. n
    BY <1>6
  <2>4. 0 .. n \in SUBSET Nat /\ 0 .. m \in SUBSET Nat
    OBVIOUS
  <2>5. <<0 .. n, 0 .. m>> \in LessThan
    BY <2>2, <2>3, <2>4 DEF StrictSubsetOrdering
  <2> QED
    BY <2>1, <2>5, <1>4, <1>5
<1> QED
  BY <1>6

\* FindSlot finds a slot with the pid if there is one, and NoSlot if not.
LEMMA FindSlotFinds ==
  ASSUME NEW q
  PROVE  /\ FindSlot(q) \in Slot \cup {NoSlot}
         /\ FindSlot(q) = NoSlot => \A s \in Slot : nPid[s] # q
         /\ FindSlot(q) # NoSlot => nPid[FindSlot(q)] = q
<1> DEFINE S == {s \in Slot : nPid[s] = q}
<1>1. CASE S = {}
  BY <1>1 DEF FindSlot
<1>2. CASE S # {}
  <2>1. S \in SUBSET Nat
    BY PoolAssumption DEF Slot
  <2>2. \E s \in S : \A t \in S : s <= t
    BY <1>2, <2>1, LeastElement, Zenon
  <2>3. FindSlot(q) = CHOOSE s \in S : \A t \in S : s <= t
    BY <1>2 DEF FindSlot
  <2>4. FindSlot(q) \in S
    BY <2>2, <2>3, Zenon
  <2>5. NoSlot \notin Slot
    BY PoolAssumption DEF Slot, NoSlot
  <2> QED
    BY <2>4, <2>5, Zenon
<1> QED
  BY <1>1, <1>2

\* Slots are finitely many, so they can be counted.
LEMMA CountsAreNatural ==
  /\ IsFiniteSet(Occupied) /\ Cardinality(Occupied) \in Nat
  /\ IsFiniteSet(Connected) /\ Cardinality(Connected) \in Nat
<1>1. IsFiniteSet(Slot)
  BY PoolAssumption, FS_Interval DEF Slot
<1>2. Connected \subseteq Occupied /\ Occupied \subseteq Slot
  BY DEF Connected, Occupied
<1> QED
  BY <1>1, <1>2, FS_Subset, FS_CardinalityType

-----------------------------------------------------------------------------
(* Types *)

Numbers ==
  /\ nTotalLaunched \in Nat /\ nTotalConnected \in Nat
  /\ nRunningChilds \in Int /\ nWorkingChilds \in Int
  /\ nTotalRequests \in Nat /\ faults \in Nat
  /\ slotRequests \in [Slot -> Nat] /\ connRequests \in [Slot -> Nat]
  /\ seen \in [Pid -> Nat]

Others ==
  /\ nPid \in [Slot -> Pid \cup {NoPid}]
  /\ bExit \in [Slot -> BOOLEAN] /\ bConnected \in [Slot -> BOOLEAN]
  /\ pc \in [Pid -> PCs]
  /\ mySlot \in [Pid -> Slot \cup {NoSlot}]
  /\ \A p \in Pid : Registered(p) \/ pc[p] \in {"reg2", "reg3", "reg4"}
                      => mySlot[p] # NoSlot
  /\ dpc \in {"idle", "reap", "reap1", "reap2"}
  /\ victim \in Pid \cup {NoPid}
  /\ inside \subseteq Pid \cup {Daemon}
  /\ overrun \in BOOLEAN /\ torn \in BOOLEAN /\ leaked \in BOOLEAN

TypeInv == Numbers /\ Others

\* The types hold at first.
LEMMA InitTypeInv ==
  ASSUME Init
  PROVE  TypeInv
<1>1. Numbers
  BY DEF Init, Numbers
<1>2. Others
  BY PoolAssumption DEF Init, Others, PCs, Registered, Serving, InSet, InClr,
     Slot, NoSlot
<1> QED
  BY <1>1, <1>2 DEF TypeInv

\* Every action keeps the counters numbers ...
LEMMA NumbersStep ==
  ASSUME TypeInv, [Next]_vars
  PROVE  Numbers'
<1> USE PoolAssumption
    DEF TypeInv, Numbers, lockVars, counters, slotVars, reqVars, daemonVars,
       history
<1>1. ASSUME NEW p \in Pid, Child(p) PROVE Numbers'
  <2>1. CASE RegEnter(p)
    BY <2>1 DEF RegEnter
  <2>2. CASE RegFull(p)
    BY <2>2 DEF RegFull
  <2>3. CASE RegFind(p)
    BY <2>3 DEF RegFind
  <2>4. CASE RegSlot(p)
    BY <2>4 DEF RegSlot
  <2>5. CASE RegLaunched(p)
    BY <2>5 DEF RegLaunched
  <2>6. CASE RegRunning(p)
    BY <2>6 DEF RegRunning
  <2>7. CASE LoopHead(p)
    BY <2>7 DEF LoopHead
  <2>8. CASE NoConnection(p)
    BY <2>8 DEF NoConnection
  <2>9. CASE ConnEnter(p)
    BY <2>9 DEF ConnEnter
  <2>10. CASE ConnSlot(p)
    BY <2>10 DEF ConnSlot
  <2>11. CASE ConnCount(p)
    BY <2>11 DEF ConnCount
  <2>12. CASE RequestCount(p)
    BY <2>12 DEF RequestCount
  <2>13. CASE Reply(p)
    BY <2>13 DEF Reply
  <2>14. CASE Decide(p)
    BY <2>14 DEF Decide
  <2>15. CASE NoRequest(p)
    BY <2>15 DEF NoRequest
  <2>16. CASE ClearEnter(p)
    BY <2>16 DEF ClearEnter
  <2>17. CASE ClearSlot(p)
    BY <2>17 DEF ClearSlot
  <2>18. CASE ClearCount(p)
    BY <2>18 DEF ClearCount
  <2>19. CASE DelEnter(p)
    BY <2>19 DEF DelEnter
  <2>20. CASE DelNothing(p)
    BY <2>20 DEF DelNothing
  <2>21. CASE DelSlot(p)
    BY <2>21 DEF DelSlot
  <2>22. CASE DelCount(p)
    BY <2>22 DEF DelCount
  <2>23. CASE ForceSelf(p)
    BY <2>23 DEF ForceSelf
  <2>24. CASE LeaveIdle(p)
    BY <2>24 DEF LeaveIdle
  <2>25. CASE CheckIdle(p)
    BY <2>25, CountsAreNatural DEF CheckIdle, Recount
  <2>26. CASE WaitInterrupted(p)
    BY <2>26 DEF WaitInterrupted
  <2>27. CASE Accept(p)
    BY <2>27 DEF Accept
  <2>28. CASE SetExitRequest(p)
    BY <2>28 DEF SetExitRequest
  <2>29. CASE PeerGone(p)
    BY <2>29 DEF PeerGone
  <2>30. CASE RequestSlot(p)
    <3>1. mySlot[p] \in Slot
      BY <2>30 DEF RequestSlot, Others, Registered, Serving
    <3> QED
      BY <2>30, <3>1 DEF RequestSlot
  <2>31. CASE Kill(p)
    BY <2>31 DEF Kill
  <2>32. CASE Term(p)
    BY <2>32 DEF Term
  <2> QED
    BY <1>1, <2>1, <2>2, <2>3, <2>4, <2>5, <2>6, <2>7, <2>8, <2>9, <2>10,
       <2>11, <2>12, <2>13, <2>14, <2>15, <2>16, <2>17, <2>18, <2>19, <2>20,
       <2>21, <2>22, <2>23, <2>24, <2>25, <2>26, <2>27, <2>28, <2>29, <2>30,
       <2>31, <2>32 DEF Child, Advance, Suffer
<1>2. ASSUME NEW p \in Pid, Fork(p) PROVE Numbers'
  BY <1>2 DEF Fork
<1>3. ASSUME NEW p \in Pid, Reap(p) PROVE Numbers'
  BY <1>3 DEF Reap
<1>4. CASE ReapEnter
  BY <1>4 DEF ReapEnter
<1>5. CASE ReapNothing
  BY <1>5 DEF ReapNothing
<1>6. CASE ReapSlot
  BY <1>6 DEF ReapSlot
<1>7. CASE ReapCount
  BY <1>7 DEF ReapCount
<1>8. CASE Check
  BY <1>8, CountsAreNatural DEF Check, Recount
<1>9. ASSUME NEW n \in 1 .. MaxChild, SetIdleExit(n) PROVE Numbers'
  BY <1>9 DEF SetIdleExit
<1>10. CASE SetExitAll
  BY <1>10 DEF SetExitAll
<1>11. CASE UNCHANGED vars
  BY <1>11 DEF vars
<1> QED
  BY <1>1, <1>2, <1>3, <1>4, <1>5, <1>6, <1>7, <1>8, <1>9, <1>10, <1>11 DEF
     Next, DaemonStep, Reaping

\* ... and the rest typed.
LEMMA OthersStep ==
  ASSUME TypeInv, [Next]_vars
  PROVE  Others'
<1> USE PoolAssumption
    DEF TypeInv, Others, lockVars, counters, slotVars, reqVars, daemonVars,
       history, Slot, NoSlot, PCs, InReg, InSet, InClr, InDel, Serving,
       Section, Registered, Goto, Lock, Unlock, LockedOnce
<1>1. ASSUME NEW p \in Pid, Child(p) PROVE Others'
  <2>1. CASE RegEnter(p)
    BY <2>1 DEF RegEnter
  <2>2. CASE RegFull(p)
    BY <2>2 DEF RegFull
  <2>3. CASE RegFind(p)
    BY <2>3, FindSlotFinds DEF RegFind
  <2>4. CASE RegSlot(p)
    BY <2>4 DEF RegSlot
  <2>5. CASE RegLaunched(p)
    BY <2>5 DEF RegLaunched
  <2>6. CASE RegRunning(p)
    BY <2>6 DEF RegRunning
  <2>7. CASE LoopHead(p)
    BY <2>7 DEF LoopHead
  <2>8. CASE NoConnection(p)
    BY <2>8 DEF NoConnection
  <2>9. CASE ConnEnter(p)
    BY <2>9 DEF ConnEnter
  <2>10. CASE ConnSlot(p)
    BY <2>10 DEF ConnSlot
  <2>11. CASE ConnCount(p)
    BY <2>11 DEF ConnCount
  <2>12. CASE RequestCount(p)
    BY <2>12 DEF RequestCount
  <2>13. CASE Reply(p)
    BY <2>13 DEF Reply
  <2>14. CASE Decide(p)
    BY <2>14 DEF Decide
  <2>15. CASE NoRequest(p)
    BY <2>15 DEF NoRequest
  <2>16. CASE ClearEnter(p)
    BY <2>16 DEF ClearEnter
  <2>17. CASE ClearSlot(p)
    BY <2>17 DEF ClearSlot
  <2>18. CASE ClearCount(p)
    BY <2>18 DEF ClearCount
  <2>19. CASE DelEnter(p)
    BY <2>19 DEF DelEnter
  <2>20. CASE DelNothing(p)
    BY <2>20 DEF DelNothing
  <2>21. CASE DelSlot(p)
    BY <2>21 DEF DelSlot
  <2>22. CASE DelCount(p)
    BY <2>22 DEF DelCount
  <2>23. CASE ForceSelf(p)
    BY <2>23 DEF ForceSelf
  <2>24. CASE LeaveIdle(p)
    BY <2>24 DEF LeaveIdle
  <2>25. CASE CheckIdle(p)
    BY <2>25 DEF CheckIdle, Recount
  <2>26. CASE WaitInterrupted(p)
    BY <2>26 DEF WaitInterrupted
  <2>27. CASE Accept(p)
    BY <2>27 DEF Accept
  <2>28. CASE SetExitRequest(p)
    BY <2>28 DEF SetExitRequest
  <2>29. CASE PeerGone(p)
    BY <2>29 DEF PeerGone
  <2>30. CASE RequestSlot(p)
    BY <2>30 DEF RequestSlot
  <2>31. CASE Kill(p)
    BY <2>31 DEF Kill
  <2>32. CASE Term(p)
    BY <2>32 DEF Term
  <2> QED
    BY <1>1, <2>1, <2>2, <2>3, <2>4, <2>5, <2>6, <2>7, <2>8, <2>9, <2>10,
       <2>11, <2>12, <2>13, <2>14, <2>15, <2>16, <2>17, <2>18, <2>19, <2>20,
       <2>21, <2>22, <2>23, <2>24, <2>25, <2>26, <2>27, <2>28, <2>29, <2>30,
       <2>31, <2>32 DEF Child, Advance, Suffer
<1>2. ASSUME NEW p \in Pid, Fork(p) PROVE Others'
  BY <1>2 DEF Fork
<1>3. ASSUME NEW p \in Pid, Reap(p) PROVE Others'
  BY <1>3 DEF Reap
<1>4. CASE ReapEnter
  BY <1>4 DEF ReapEnter
<1>5. CASE ReapNothing
  BY <1>5 DEF ReapNothing
<1>6. CASE ReapSlot
  BY <1>6 DEF ReapSlot
<1>7. CASE ReapCount
  BY <1>7 DEF ReapCount
<1>8. CASE Check
  BY <1>8 DEF Check, Recount
<1>9. ASSUME NEW n \in 1 .. MaxChild, SetIdleExit(n) PROVE Others'
  BY <1>9 DEF SetIdleExit
<1>10. CASE SetExitAll
  BY <1>10 DEF SetExitAll
<1>11. CASE UNCHANGED vars
  BY <1>11 DEF vars
<1> QED
  BY <1>1, <1>2, <1>3, <1>4, <1>5, <1>6, <1>7, <1>8, <1>9, <1>10, <1>11 DEF
     Next, DaemonStep, Reaping

\* Every reachable state of the pool is typed: in particular a registered
\* child has a slot inside the array, so the writes of pool.c through
\* m_nMySlotId stay inside the shared memory.
THEOREM TypeCorrect == Spec => []TypeOK
<1>1. TypeInv /\ [Next]_vars => TypeInv'
  BY NumbersStep, OthersStep DEF TypeInv
<1>2. TypeInv => TypeOK
  BY DEF TypeInv, Numbers, Others, TypeOK
<1> QED
  BY <1>1, <1>2, InitTypeInv, PTL DEF Spec

-----------------------------------------------------------------------------
(* One slot per child, and no ghosts, whether or not unlocks are forced *)

\* A child here holds no slot, unless it was reaped and is being deleted.
Absent == {"none", "born", "reg1", "reg2", "del2"}

\* Who may hold a slot.
HeldBy ==
  \A s \in Slot : nPid[s] # NoPid =>
    pc[nPid[s]] \notin Absent \/ (victim = nPid[s] /\ dpc \in {"reap", "reap1"})

\* A child that knows a slot holds no other.
OnlyMine ==
  \A s \in Slot, p \in Pid :
    nPid[s] = p /\ mySlot[p] # NoSlot /\ pc[p] \notin {"none", "zombie"}
      => s = mySlot[p]

\* The child that the daemon is deleting no longer exists.
VictimGone ==
  IF dpc = "idle" THEN victim = NoPid ELSE victim \in Pid /\ pc[victim] = "none"

SlotsInv == OneSlot /\ HeldBy /\ OnlyMine /\ VictimGone

\* p goes on, without newly being without a slot, and begins to work only
\* when its registration ends.
Moves(p) ==
  /\ pc[p] # "none"
  /\ \E l \in PCs \ {"none"} :
       /\ l \in Absent => pc[p] \in Absent
       /\ l \in {"loop", "wait"} \cup Serving => Registered(p) \/ pc[p] = "reg4"
       /\ pc' = [pc EXCEPT ![p] = l]
  /\ UNCHANGED nPid

\* A step of p that touches neither slots nor what the daemon does.
Quiet(p) == Moves(p) /\ pc[p] # "zombie" /\ UNCHANGED <<mySlot, dpc, victim>>

\* All steps of a child but four are quiet ...
LEMMA QuietSteps ==
  ASSUME NEW p \in Pid, Child(p)
  PROVE  \/ Quiet(p)
         \/ RegFind(p) \/ RegSlot(p) \/ DelSlot(p) \/ Term(p)
         \/ UNCHANGED <<nPid, mySlot, dpc, victim, pc>>
<1> USE DEF Quiet, Moves, Absent, Goto, slotVars, daemonVars, PCs, Registered,
        InReg, InSet, InClr, InDel, Serving
<1>1. CASE RegEnter(p) \/ RegFull(p) \/ RegLaunched(p) \/ RegRunning(p)
  BY <1>1 DEF RegEnter, RegFull, RegLaunched, RegRunning
<1>2. CASE LoopHead(p) \/ NoConnection(p) \/ LeaveIdle(p) \/ WaitInterrupted(p)
             \/ Accept(p) \/ PeerGone(p)
  BY <1>2 DEF LoopHead, NoConnection, LeaveIdle, WaitInterrupted, Accept,
              PeerGone
<1>3. CASE ConnEnter(p) \/ ConnSlot(p) \/ ConnCount(p)
             \/ RequestSlot(p) \/ RequestCount(p)
  BY <1>3 DEF ConnEnter, ConnSlot, ConnCount, RequestSlot, RequestCount
<1>4. CASE Reply(p) \/ Decide(p) \/ NoRequest(p)
  BY <1>4 DEF Reply, Decide, NoRequest
<1>5. CASE ClearEnter(p) \/ ClearSlot(p) \/ ClearCount(p)
  BY <1>5 DEF ClearEnter, ClearSlot, ClearCount
<1>6. CASE DelEnter(p) \/ DelNothing(p) \/ DelCount(p)
  BY <1>6 DEF DelEnter, DelNothing, DelCount
<1>7. CASE ForceSelf(p) \/ Kill(p)
  BY <1>7 DEF ForceSelf, Kill
<1>8. CASE SetExitRequest(p) \/ CheckIdle(p)
  BY <1>8 DEF SetExitRequest, CheckIdle, Recount
<1> QED
  BY <1>1, <1>2, <1>3, <1>4, <1>5, <1>6, <1>7, <1>8
     DEF Child, Advance, Suffer

\* ... and preserve the invariant.
LEMMA QuietKeeps ==
  ASSUME TypeInv, SlotsInv, NEW p \in Pid, Quiet(p)
  PROVE  SlotsInv'
<1> USE PoolAssumption DEF TypeInv, Others, Quiet, Moves, SlotsInv
<1>1. OneSlot'
  BY DEF OneSlot
<1>2. HeldBy'
  BY DEF HeldBy, VictimGone
<1>3. OnlyMine'
  BY DEF OnlyMine
<1>4. VictimGone'
  BY DEF VictimGone
<1> QED
  BY <1>1, <1>2, <1>3, <1>4

\* Each step keeps what is said of slots.
LEMMA SlotsStep ==
  ASSUME TypeInv, SlotsInv, [Next]_vars
  PROVE  SlotsInv'
<1> USE PoolAssumption
    DEF TypeInv, Others, SlotsInv, OneSlot, HeldBy, OnlyMine, VictimGone,
        Absent, Goto, slotVars, daemonVars
<1>1. ASSUME NEW p \in Pid, Child(p) PROVE SlotsInv'
  <2>1. CASE Quiet(p)
    BY <2>1, QuietKeeps
  <2>2. CASE RegFind(p)
    BY <2>2, FindSlotFinds DEF RegFind
  <2>3. CASE RegSlot(p)
    BY <2>3 DEF RegSlot
  <2>4. CASE DelSlot(p)
    BY <2>4 DEF DelSlot
  <2>5. CASE Term(p)
    BY <2>5 DEF Term, InReg, InDel, InSet, InClr, Section, PCs, Serving
  <2>6. CASE UNCHANGED <<nPid, mySlot, dpc, victim, pc>>
    BY <2>6
  <2> QED
    BY <1>1, <2>1, <2>2, <2>3, <2>4, <2>5, <2>6, QuietSteps
<1>2. ASSUME NEW p \in Pid, Fork(p) PROVE SlotsInv'
  BY <1>2 DEF Fork
<1>3. ASSUME NEW p \in Pid, Reap(p) PROVE SlotsInv'
  BY <1>3 DEF Reap
<1>4. CASE ReapEnter
  BY <1>4 DEF ReapEnter
<1>5. CASE ReapNothing
  BY <1>5, FindSlotFinds DEF ReapNothing
<1>6. CASE ReapSlot
  BY <1>6, FindSlotFinds DEF ReapSlot
<1>7. CASE ReapCount
  BY <1>7 DEF ReapCount
<1>8. CASE Check \/ SetExitAll \/ (\E n \in 1 .. MaxChild : SetIdleExit(n))
  BY <1>8 DEF Check, Recount, SetExitAll, SetIdleExit
<1>9. CASE UNCHANGED vars
  BY <1>9 DEF vars
<1> QED
  BY <1>1, <1>2, <1>3, <1>4, <1>5, <1>6, <1>7, <1>8, <1>9
     DEF Next, DaemonStep, Reaping

\* No child is in two slots, so poolFindSlot finds the right one.
THEOREM OneSlotCorrect == Spec => []OneSlot
<1>1. Init => SlotsInv
  BY PoolAssumption DEF Init, SlotsInv, OneSlot, HeldBy, OnlyMine, VictimGone
<1>2. TypeInv /\ SlotsInv /\ [Next]_vars => TypeInv' /\ SlotsInv'
  BY NumbersStep, OthersStep, SlotsStep DEF TypeInv
<1>3. SlotsInv => OneSlot
  BY DEF SlotsInv
<1> QED
  BY <1>1, <1>2, <1>3, InitTypeInv, PTL DEF Spec

\* The child of an occupied slot exists, or its deletion is under way: after
\* any death the daemon still finds the slot to free.
THEOREM NoGhostCorrect == Spec => []NoGhost
<1>1. Init => SlotsInv
  BY PoolAssumption DEF Init, SlotsInv, OneSlot, HeldBy, OnlyMine, VictimGone
<1>2. TypeInv /\ SlotsInv /\ [Next]_vars => TypeInv' /\ SlotsInv'
  BY NumbersStep, OthersStep, SlotsStep DEF TypeInv
<1>3. SlotsInv => NoGhost
  BY DEF SlotsInv, HeldBy, NoGhost, Occupied, Absent
<1> QED
  BY <1>1, <1>2, <1>3, InitTypeInv, PTL DEF Spec

-----------------------------------------------------------------------------
(* Ownership, as long as the lock excludes *)

\* At most one process is inside, and whoever is in a section is.
LockInv ==
  ~overrun =>
    /\ \A x, y \in inside : x = y
    /\ \A p \in Pid : pc[p] \in Section => p \in inside
    /\ dpc \in {"reap1", "reap2"} => Daemon \in inside

\* A child that owns a slot is in it; the slot found free is still free when
\* it is taken; a child that is not registered yet knows no slot.
OwnInv ==
  ~overrun => \A p \in Pid :
    /\ Owns(p) => nPid[mySlot[p]] = p
    /\ pc[p] = "reg2" => nPid[mySlot[p]] = NoPid
    /\ pc[p] \in {"born", "reg1"} => mySlot[p] = NoSlot

PoolInv == TypeInv /\ SlotsInv /\ LockInv /\ OwnInv

\* The invariant holds at first.
LEMMA InitPoolInv ==
  ASSUME Init
  PROVE  PoolInv
<1>1. SlotsInv
  BY PoolAssumption DEF Init, SlotsInv, OneSlot, HeldBy, OnlyMine, VictimGone
<1>2. LockInv /\ OwnInv
  BY DEF Init, LockInv, OwnInv, Owns, Registered, Serving, Section, InReg,
         InSet, InClr, InDel
<1> QED
  BY <1>1, <1>2, InitTypeInv DEF PoolInv

\* The lock excludes until an unlock is forced, wherever children die.
LEMMA LockStep ==
  ASSUME TypeInv, LockInv, [Next]_vars
  PROVE  LockInv'
<1> USE PoolAssumption
    DEF TypeInv, Others, LockInv, Lock, Unlock, LockedOnce, Goto, lockVars,
        daemonVars, Section, InReg, InSet, InClr, InDel
<1>1. ASSUME NEW p \in Pid, Child(p) PROVE LockInv'
  <2>1. CASE RegEnter(p) \/ ConnEnter(p) \/ ClearEnter(p) \/ DelEnter(p)
    BY <2>1 DEF RegEnter, ConnEnter, ClearEnter, DelEnter
  <2>2. CASE RegFind(p) \/ RegSlot(p) \/ RegLaunched(p)
    BY <2>2 DEF RegFind, RegSlot, RegLaunched
  <2>3. CASE ConnSlot(p) \/ ClearSlot(p) \/ DelSlot(p)
    BY <2>3 DEF ConnSlot, ClearSlot, DelSlot
  <2>4. CASE RegFull(p) \/ RegRunning(p) \/ ConnCount(p) \/ ClearCount(p)
    BY <2>4 DEF RegFull, RegRunning, ConnCount, ClearCount
  <2>5. CASE DelNothing(p) \/ DelCount(p) \/ Kill(p)
    BY <2>5 DEF DelNothing, DelCount, Kill
  <2>6. CASE LoopHead(p) \/ NoConnection(p) \/ LeaveIdle(p)
    BY <2>6 DEF LoopHead, NoConnection, LeaveIdle
  <2>7. CASE WaitInterrupted(p) \/ Accept(p) \/ SetExitRequest(p)
    BY <2>7 DEF WaitInterrupted, Accept, SetExitRequest
  <2>8. CASE PeerGone(p) \/ RequestSlot(p) \/ RequestCount(p)
    BY <2>8 DEF PeerGone, RequestSlot, RequestCount
  <2>9. CASE Reply(p) \/ Decide(p) \/ NoRequest(p)
    BY <2>9 DEF Reply, Decide, NoRequest
  <2>10. CASE CheckIdle(p)
    BY <2>10 DEF CheckIdle, Recount
  <2>11. CASE Term(p)
    BY <2>11 DEF Term
  <2>12. CASE ForceSelf(p)
    BY <2>12 DEF ForceSelf
  <2> QED
    BY <1>1, <2>1, <2>2, <2>3, <2>4, <2>5, <2>6, <2>7, <2>8, <2>9, <2>10,
       <2>11, <2>12 DEF Child, Advance, Suffer
<1>2. ASSUME NEW p \in Pid, Fork(p) \/ Reap(p) PROVE LockInv'
  BY <1>2 DEF Fork, Reap
<1>3. CASE ReapEnter
  BY <1>3 DEF ReapEnter
<1>4. CASE ReapNothing
  BY <1>4 DEF ReapNothing
<1>5. CASE ReapSlot \/ ReapCount
  BY <1>5 DEF ReapSlot, ReapCount
<1>6. CASE Check \/ SetExitAll \/ (\E n \in 1 .. MaxChild : SetIdleExit(n))
  BY <1>6 DEF Check, Recount, SetExitAll, SetIdleExit
<1>7. CASE UNCHANGED vars
  BY <1>7 DEF vars
<1> QED
  BY <1>1, <1>2, <1>3, <1>4, <1>5, <1>6, <1>7 DEF Next, DaemonStep, Reaping

\* Whoever owns a slot keeps it: a free slot is taken inside the lock by the
\* one who found it free, and a slot is emptied for its own child only.
LEMMA OwnStep ==
  ASSUME PoolInv, [Next]_vars
  PROVE  OwnInv'
<1> USE PoolAssumption
    DEF PoolInv, TypeInv, Others, LockInv, OwnInv, Owns, Registered, Goto,
        Lock, Unlock, LockedOnce, lockVars, slotVars, daemonVars,
        Section, InReg, InSet, InClr, InDel, Serving
<1>1. ASSUME NEW p \in Pid, Child(p) PROVE OwnInv'
  <2>1. CASE RegEnter(p) \/ ConnEnter(p) \/ ClearEnter(p) \/ DelEnter(p)
    BY <2>1 DEF RegEnter, ConnEnter, ClearEnter, DelEnter
  <2>2. CASE RegFind(p)
    BY <2>2, FindSlotFinds DEF RegFind
  <2>3. CASE RegSlot(p)
    BY <2>3 DEF RegSlot
  <2>4. CASE RegLaunched(p) \/ ConnSlot(p) \/ ClearSlot(p)
    BY <2>4 DEF RegLaunched, ConnSlot, ClearSlot
  <2>5. CASE DelSlot(p)
    BY <2>5 DEF DelSlot
  <2>6. CASE RegFull(p) \/ RegRunning(p) \/ ConnCount(p) \/ ClearCount(p)
    BY <2>6 DEF RegFull, RegRunning, ConnCount, ClearCount
  <2>7. CASE DelNothing(p) \/ DelCount(p) \/ Kill(p)
    BY <2>7 DEF DelNothing, DelCount, Kill
  <2>8. CASE LoopHead(p) \/ NoConnection(p) \/ LeaveIdle(p)
    BY <2>8 DEF LoopHead, NoConnection, LeaveIdle
  <2>9. CASE WaitInterrupted(p) \/ Accept(p) \/ SetExitRequest(p)
    BY <2>9 DEF WaitInterrupted, Accept, SetExitRequest
  <2>10. CASE PeerGone(p) \/ RequestSlot(p) \/ RequestCount(p)
    BY <2>10 DEF PeerGone, RequestSlot, RequestCount
  <2>11. CASE Reply(p) \/ Decide(p) \/ NoRequest(p)
    BY <2>11 DEF Reply, Decide, NoRequest
  <2>12. CASE CheckIdle(p)
    BY <2>12 DEF CheckIdle, Recount
  <2>13. CASE Term(p)
    BY <2>13 DEF Term, PCs
  <2>14. CASE ForceSelf(p)
    BY <2>14 DEF ForceSelf
  <2> QED
    BY <1>1, <2>1, <2>2, <2>3, <2>4, <2>5, <2>6, <2>7, <2>8, <2>9, <2>10,
       <2>11, <2>12, <2>13, <2>14 DEF Child, Advance, Suffer
<1>2. ASSUME NEW p \in Pid, Fork(p) \/ Reap(p) PROVE OwnInv'
  BY <1>2 DEF Fork, Reap
<1>3. CASE ReapEnter \/ ReapNothing \/ ReapCount
  BY <1>3 DEF ReapEnter, ReapNothing, ReapCount
<1>4. CASE ReapSlot
  BY <1>4, FindSlotFinds DEF ReapSlot, SlotsInv, VictimGone
<1>5. CASE Check \/ SetExitAll \/ (\E n \in 1 .. MaxChild : SetIdleExit(n))
  BY <1>5 DEF Check, Recount, SetExitAll, SetIdleExit
<1>6. CASE UNCHANGED vars
  BY <1>6 DEF vars
<1> QED
  BY <1>1, <1>2, <1>3, <1>4, <1>5, <1>6 DEF Next, DaemonStep, Reaping

\* The inductive invariant of the pool.
THEOREM PoolInvariant == Spec => []PoolInv
<1>1. PoolInv /\ [Next]_vars => PoolInv'
  BY NumbersStep, OthersStep, SlotsStep, LockStep, OwnStep
     DEF PoolInv, TypeInv
<1> QED
  BY <1>1, InitPoolInv, PTL DEF Spec

\* A registered child keeps its slot until it empties it itself, wherever
\* other children die, as long as no unlock is forced.
THEOREM SlotOwnedCorrect == Spec => []SlotOwned
<1>1. PoolInv => SlotOwned
  BY DEF PoolInv, OwnInv, SlotOwned
<1> QED
  BY <1>1, PoolInvariant, PTL

-----------------------------------------------------------------------------
(* Exit requests *)

\* What a step may not do to the exit requests.
KeepsRequests ==
  \A s \in Slot :
    /\ nPid[s] # NoPid /\ bExit[s] /\ nPid'[s] = nPid[s] => bExit'[s]
    /\ nPid[s] = NoPid /\ nPid'[s] # NoPid => ~bExit'[s]

\* A step that gives no slot away and takes no request back is harmless: all but
\* the registration are of this kind.
LEMMA RequestsStay ==
  ASSUME TypeInv,
         \A s \in Slot : /\ bExit[s] => bExit'[s]
                         /\ nPid[s] = NoPid => nPid'[s] = NoPid
  PROVE  KeepsRequests
<1> QED
  BY DEF KeepsRequests

\* No step drops a request to exit, nor hands it on.
LEMMA RequestsStep ==
  ASSUME TypeInv, SlotsInv, [Next]_vars
  PROVE  KeepsRequests
<1> USE DEF slotVars
<1>0. /\ nPid \in [Slot -> Pid \cup {NoPid}]
      /\ bExit \in [Slot -> BOOLEAN]
      /\ mySlot \in [Pid -> Slot \cup {NoSlot}]
  BY DEF TypeInv, Others
<1>1. ASSUME NEW p \in Pid, Child(p) PROVE KeepsRequests
  <2>1. CASE UNCHANGED <<nPid, bExit>>
    BY <2>1, RequestsStay
  <2>2. CASE RegSlot(p)
    <3>1. mySlot[p] \in Slot
      BY <2>2 DEF RegSlot, TypeInv, Others
    <3>2. nPid[mySlot[p]] # p
      BY <2>2, <3>1, PoolAssumption DEF RegSlot, SlotsInv, HeldBy, Absent, VictimGone
    <3>3. ASSUME NEW s \in Slot
          PROVE  /\ nPid[s] # NoPid /\ bExit[s] /\ nPid'[s] = nPid[s] => bExit'[s]
                 /\ nPid[s] = NoPid /\ nPid'[s] # NoPid => ~bExit'[s]
      BY <1>0, <2>2, <3>1, <3>2 DEF RegSlot
    <3> QED
      BY <3>3 DEF KeepsRequests
  <2>3. CASE SetExitRequest(p)
    BY <1>0, <2>3, RequestsStay DEF SetExitRequest
  <2>4. CASE DelSlot(p)
    BY <1>0, <2>4, RequestsStay DEF DelSlot
  <2>5. CASE RegEnter(p) \/ RegFull(p) \/ RegFind(p) \/ RegLaunched(p) \/ RegRunning(p)
    BY <2>1, <2>5 DEF RegEnter, RegFull, RegFind, RegLaunched, RegRunning
  <2>6. CASE LoopHead(p) \/ NoConnection(p) \/ LeaveIdle(p) \/ WaitInterrupted(p)
               \/ Accept(p) \/ PeerGone(p)
    BY <2>1, <2>6 DEF LoopHead, NoConnection, LeaveIdle, WaitInterrupted, Accept, PeerGone
  <2>7. CASE CheckIdle(p)
    BY <2>1, <2>7 DEF CheckIdle, Recount
  <2>8. CASE ConnEnter(p) \/ ConnSlot(p) \/ ConnCount(p) \/ RequestSlot(p) \/ RequestCount(p)
    BY <2>1, <2>8 DEF ConnEnter, ConnSlot, ConnCount, RequestSlot, RequestCount
  <2>9. CASE Reply(p) \/ Decide(p) \/ NoRequest(p)
    BY <2>1, <2>9 DEF Reply, Decide, NoRequest
  <2>10. CASE ClearEnter(p) \/ ClearSlot(p) \/ ClearCount(p)
    BY <2>1, <2>10 DEF ClearEnter, ClearSlot, ClearCount
  <2>11. CASE DelEnter(p) \/ DelNothing(p) \/ DelCount(p)
    BY <2>1, <2>11 DEF DelEnter, DelNothing, DelCount
  <2>12. CASE ForceSelf(p) \/ Kill(p) \/ Term(p)
    BY <2>1, <2>12 DEF ForceSelf, Kill, Term
  <2> QED
    BY <1>1, <2>2, <2>3, <2>4, <2>5, <2>6, <2>7, <2>8, <2>9, <2>10, <2>11, <2>12
       DEF Child, Advance, Suffer
<1>2. ASSUME NEW p \in Pid, Fork(p) \/ Reap(p) PROVE KeepsRequests
  BY <1>2, RequestsStay DEF Fork, Reap
<1>3. CASE ReapEnter \/ ReapNothing \/ ReapCount \/ Check \/ UNCHANGED vars
  BY <1>3, RequestsStay DEF ReapEnter, ReapNothing, ReapCount, Check, Recount, vars
<1>4. CASE ReapSlot
  BY <1>0, <1>4, RequestsStay DEF ReapSlot
<1>5. CASE SetExitAll \/ \E n \in 1 .. MaxChild : SetIdleExit(n)
  BY <1>0, <1>5, RequestsStay DEF SetExitAll, SetIdleExit
<1> QED
  BY <1>1, <1>2, <1>3, <1>4, <1>5 DEF Next, DaemonStep, Reaping

\* A request to exit stays until the slot is given up, and the next child of the
\* slot does not inherit it, also where sections overlap: the registration, the
\* one place that takes a request back (pool.c:261), is never done by a child
\* that has a slot already.
THEOREM ExitRequestCorrect == Spec => ExitRequestKept
<1>1. TypeInv /\ SlotsInv /\ [Next]_vars => [KeepsRequests]_vars
  BY RequestsStep
<1>2. PoolInv => TypeInv /\ SlotsInv
  BY DEF PoolInv
<1>3. [][KeepsRequests]_vars => ExitRequestKept
  BY PTL DEF ExitRequestKept, KeepsRequests
<1> QED
  BY <1>1, <1>2, <1>3, PoolInvariant, PTL DEF Spec

-----------------------------------------------------------------------------
(* The pool implements the abstract registry *)

Existing == {p \in Pid : pc[p] # "none"}
Members  == {nPid[s] : s \in Occupied}
Active   == {p \in Pid : Registered(p)}

\* The abstract steps, in these words.
LEMMA AbstractStutter ==
  ASSUME Existing' = Existing, Members' = Members, Active' = Active
  PROVE  UNCHANGED R!rvars
BY DEF Existing, Members, Active, R!rvars

\* The four ways in which the registry moves, for one child.
LEMMA AbstractSteps ==
  ASSUME NEW p \in Pid,
         \/ /\ p \notin Existing \cup Members /\ Existing' = Existing \cup {p}
            /\ Members' = Members /\ Active' = Active
         \/ /\ p \in Existing \ Members /\ Cardinality(Members) < MaxChild
            /\ Members' = Members \cup {p}
            /\ Existing' = Existing /\ Active' = Active
         \/ /\ p \in Existing \cap Members /\ Active' = Active \cup {p}
            /\ Existing' = Existing /\ Members' = Members
         \/ /\ p \in Active /\ Active' = Active \ {p}
            /\ Existing' = Existing /\ Members' = Members
         \/ /\ p \in Members \ Active /\ Members' = Members \ {p}
            /\ Existing' = Existing /\ Active' = Active
         \/ /\ p \in Existing \ Active /\ Existing' = Existing \ {p}
            /\ Members' = Members /\ Active' = Active
  PROVE  R!RegistryNext
<1> USE DEF Existing, Members, Active
<1>1. CASE /\ p \notin Existing \cup Members /\ Existing' = Existing \cup {p}
           /\ Members' = Members /\ Active' = Active
  BY <1>1 DEF R!RegistryNext, R!Fork
<1>2. CASE /\ p \in Existing \ Members /\ Cardinality(Members) < MaxChild
           /\ Members' = Members \cup {p}
           /\ Existing' = Existing /\ Active' = Active
  <2>1. R!Join(p)
    BY <1>2 DEF R!Join, R!Cardinality, Cardinality
  <2> QED
    BY <2>1 DEF R!RegistryNext
<1>3. CASE /\ p \in Existing \cap Members /\ Active' = Active \cup {p}
           /\ Existing' = Existing /\ Members' = Members
  BY <1>3 DEF R!RegistryNext, R!Work
<1>4. CASE /\ p \in Active /\ Active' = Active \ {p}
           /\ Existing' = Existing /\ Members' = Members
  BY <1>4 DEF R!RegistryNext, R!Retire
<1>5. CASE /\ p \in Members \ Active /\ Members' = Members \ {p}
           /\ Existing' = Existing /\ Active' = Active
  BY <1>5 DEF R!RegistryNext, R!Leave
<1>6. CASE /\ p \in Existing \ Active /\ Existing' = Existing \ {p}
           /\ Members' = Members /\ Active' = Active
  BY <1>6 DEF R!RegistryNext, R!Reap
<1> QED
  BY <1>1, <1>2, <1>3, <1>4, <1>5, <1>6

\* While some slot is free there are fewer members than slots.
LEMMA RoomLeft ==
  ASSUME NEW s \in Slot, nPid[s] = NoPid
  PROVE  Cardinality(Members) < MaxChild
<1>1. IsFiniteSet(Slot) /\ Cardinality(Slot) = MaxChild
  <2>1. MaxChild \in Nat /\ 0 \in Int /\ MaxChild - 1 \in Int
    BY PoolAssumption
  <2>2. /\ IsFiniteSet(0 .. MaxChild - 1)
        /\ Cardinality(0 .. MaxChild - 1)
             = IF 0 > MaxChild - 1 THEN 0 ELSE MaxChild - 1 - 0 + 1
    BY <2>1, FS_Interval, Zenon
  <2> QED
    BY <2>1, <2>2 DEF Slot
<1>2. Occupied \in SUBSET Slot /\ Occupied # Slot
  BY DEF Occupied
<1>3. /\ IsFiniteSet(Occupied) /\ Cardinality(Occupied) \in Nat
      /\ Cardinality(Occupied) < MaxChild
  <2>1. /\ IsFiniteSet(Occupied)
        /\ Cardinality(Occupied) <= Cardinality(Slot)
        /\ Cardinality(Slot) # Cardinality(Occupied)
    BY <1>1, <1>2, FS_Subset, Zenon
  <2> QED
    BY <1>1, <2>1, FS_CardinalityType, PoolAssumption
<1>4. /\ IsFiniteSet(Members)
      /\ Cardinality(Members) <= Cardinality(Occupied)
  <2> DEFINE f == [t \in Occupied |-> nPid[t]]
  <2>1. f \in Surjection(Occupied, Members)
    BY DEF Members, Surjection
  <2> QED
    BY <2>1, <1>3, FS_Surjection, Zenon
<1> QED
  BY <1>3, <1>4, FS_CardinalityType, PoolAssumption

\* A step of the pool that moves one child is one of them.
LEMMA MovesMaps ==
  ASSUME PoolInv, ~overrun, NEW p \in Pid, Moves(p)
  PROVE  UNCHANGED R!rvars \/ R!RegistryNext
<1> USE DEF PoolInv, TypeInv, Others, Moves
<1>1. Existing' = Existing
  BY DEF Existing
<1>2. Members' = Members
  BY DEF Members, Occupied
<1>3. CASE Registered(p) /\ Registered(p)'
  <2>1. Active' = Active
    BY <1>3 DEF Active, Registered
  <2> QED
    BY <1>1, <1>2, <2>1, AbstractStutter
<1>4. CASE ~Registered(p) /\ Registered(p)'
  <2>1. Active' = Active \cup {p}
    BY <1>4 DEF Active, Registered
  <2>2. p \in Existing \cap Members
    <3>1. pc[p] = "reg4" /\ mySlot[p] \in Slot
      BY <1>4 DEF Registered
    <3>2. nPid[mySlot[p]] = p
      BY <3>1 DEF OwnInv, Owns, NoSlot
    <3> QED
      BY <3>1, <3>2, PoolAssumption DEF Existing, Members, Occupied
  <2> QED
    BY <1>1, <1>2, <2>1, <2>2, AbstractSteps
<1>5. CASE Registered(p) /\ ~Registered(p)'
  <2>1. p \in Active /\ Active' = Active \ {p}
    BY <1>5 DEF Active, Registered
  <2> QED
    BY <1>1, <1>2, <2>1, AbstractSteps
<1>6. CASE ~Registered(p) /\ ~Registered(p)'
  <2>1. Active' = Active
    BY <1>6 DEF Active, Registered
  <2> QED
    BY <1>1, <1>2, <2>1, AbstractStutter
<1> QED
  BY <1>3, <1>4, <1>5, <1>6

\* The slot t of q is emptied: q leaves the pool.
LEMMA EmptyMaps ==
  ASSUME PoolInv, NEW q \in Pid, NEW t \in Slot, nPid[t] = q, ~Registered(q),
         nPid' = [nPid EXCEPT ![t] = NoPid],
         Existing' = Existing, Active' = Active
  PROVE  R!RegistryNext
<1> USE PoolAssumption DEF PoolInv, TypeInv, Others, SlotsInv, OneSlot
<1>1. q \in Members \ Active
  BY DEF Members, Occupied, Active
<1>2. Members' = Members \ {q}
  BY DEF Members, Occupied
<1> QED
  BY <1>1, <1>2, AbstractSteps

\* A forced unlock is not forgotten.
LEMMA OverrunStays ==
  ASSUME [Next]_vars, overrun \in BOOLEAN
  PROVE  overrun => overrun'
<1> USE DEF Lock, Unlock, LockedOnce, lockVars
<1>1. ASSUME NEW p \in Pid, Child(p), overrun PROVE overrun'
  BY <1>1 DEF Child, Advance, Suffer, RegEnter, RegFull, RegFind, RegSlot,
     RegLaunched, RegRunning, LoopHead, NoConnection, ConnEnter, ConnSlot,
     ConnCount, RequestCount, Reply, Decide, NoRequest, ClearEnter, ClearSlot,
     ClearCount, DelEnter, DelNothing, DelSlot, DelCount, ForceSelf,
     LeaveIdle, CheckIdle, Recount, WaitInterrupted, Accept, SetExitRequest,
     PeerGone, RequestSlot, Kill, Term
<1>2. ASSUME DaemonStep, overrun PROVE overrun'
  BY <1>2 DEF DaemonStep, Fork, Reap, Reaping, ReapEnter, ReapNothing,
     ReapSlot, ReapCount, Check, Recount, SetIdleExit, SetExitAll
<1> QED
  BY <1>1, <1>2 DEF Next, vars

\* Every step maps to a step of the registry or to none.
LEMMA RegistryStep ==
  ASSUME PoolInv, [Next]_vars, ~overrun
  PROVE  UNCHANGED R!rvars \/ R!RegistryNext
<1> USE PoolAssumption
    DEF PoolInv, TypeInv, Others, SlotsInv, VictimGone, Goto, slotVars,
        Registered, Serving, InSet, InClr
<1>1. ASSUME UNCHANGED <<nPid, pc>>
      PROVE  UNCHANGED R!rvars
  BY <1>1, AbstractStutter DEF Existing, Members, Active, Occupied
<1>2. ASSUME NEW p \in Pid, RegSlot(p)
      PROVE  R!RegistryNext
  <2> DEFINE s == mySlot[p]
  <2>1. s \in Slot /\ nPid[s] = NoPid
    BY <1>2 DEF RegSlot, OwnInv, NoSlot
  <2>2. p \in Existing \ Members
    BY <1>2 DEF RegSlot, Existing, Members, Occupied, HeldBy, Absent
  <2>3. Cardinality(Members) < MaxChild
    BY <2>1, RoomLeft
  <2>4. Existing' = Existing /\ Active' = Active
    BY <1>2 DEF RegSlot, Existing, Active
  <2>5. Members' = Members \cup {p}
    BY <1>2, <2>1 DEF RegSlot, Members, Occupied
  <2> QED
    BY <2>2, <2>3, <2>4, <2>5, AbstractSteps
<1>3. ASSUME NEW p \in Pid, DelSlot(p)
      PROVE  R!RegistryNext
  <2>1. mySlot[p] \in Slot /\ nPid[mySlot[p]] = p
    BY <1>3 DEF DelSlot, OwnInv, Owns, NoSlot
  <2>2. ~Registered(p) /\ Existing' = Existing /\ Active' = Active
    BY <1>3 DEF DelSlot, Existing, Active
  <2> QED
    BY <1>3, <2>1, <2>2, EmptyMaps DEF DelSlot
<1>4. CASE ReapSlot
  <2>1. FindSlot(victim) \in Slot /\ nPid[FindSlot(victim)] = victim
    BY <1>4, FindSlotFinds DEF ReapSlot
  <2>2. victim \in Pid /\ ~Registered(victim)
    BY <1>4 DEF ReapSlot
  <2>3. Existing' = Existing /\ Active' = Active
    BY <1>4 DEF ReapSlot, Existing, Active
  <2> QED
    BY <1>4, <2>1, <2>2, <2>3, EmptyMaps DEF ReapSlot
<1>5. ASSUME NEW p \in Pid, Fork(p)
      PROVE  R!RegistryNext
  <2>1. p \notin Existing \cup Members
    BY <1>5 DEF Fork, Existing, Members, Occupied, HeldBy, Absent
  <2>2. Existing' = Existing \cup {p} /\ Members' = Members /\ Active' = Active
    BY <1>5 DEF Fork, Existing, Members, Occupied, Active
  <2> QED
    BY <2>1, <2>2, AbstractSteps
<1>6. ASSUME NEW p \in Pid, Reap(p)
      PROVE  R!RegistryNext
  <2>1. p \in Existing \ Active
    BY <1>6 DEF Reap, Existing, Active
  <2>2. Existing' = Existing \ {p} /\ Members' = Members /\ Active' = Active
    BY <1>6 DEF Reap, Existing, Members, Occupied, Active
  <2> QED
    BY <2>1, <2>2, AbstractSteps
<1>7. ASSUME NEW p \in Pid, RegFind(p) \/ Term(p)
      PROVE  Moves(p)
  BY <1>7 DEF RegFind, Term, Moves, Absent, PCs, InReg, InDel
<1>8. ASSUME NEW p \in Pid, Child(p)
      PROVE  UNCHANGED R!rvars \/ R!RegistryNext
  BY <1>1, <1>2, <1>3, <1>7, <1>8, QuietSteps, MovesMaps DEF Quiet
<1>9. CASE ReapEnter \/ ReapNothing \/ ReapCount \/ Check \/ SetExitAll
             \/ \E n \in 1 .. MaxChild : SetIdleExit(n)
  BY <1>9, <1>1 DEF ReapEnter, ReapNothing, ReapCount, Check, Recount,
                    SetExitAll, SetIdleExit
<1>10. CASE UNCHANGED vars
  BY <1>10, <1>1 DEF vars
<1> QED
  BY <1>4, <1>5, <1>6, <1>8, <1>9, <1>10 DEF Next, DaemonStep, Reaping

\* The pool of pool.c implements the registry of Registry, from its first
\* state on and as long as no unlock is forced.
THEOREM RegistryCorrect == Spec => RefinesRegistry
<1>1. PoolInv /\ [Next]_vars
        => [~overrun' => UNCHANGED R!rvars \/ R!RegistryNext]_vars
  BY RegistryStep, OverrunStays DEF PoolInv, TypeInv, Others
<1> QED
  BY <1>1, PoolInvariant, PTL DEF Spec, RefinesRegistry

-----------------------------------------------------------------------------
(* The counters: outside the sections they are the numbers of occupied and  *)
(* of connected slots, up to what the model records of children that died  *)
(* inside a section and of connections that were counted once              *)

\* Inside the sections: a slot taken is counted at the end of the
\* registration, a slot emptied at the end of the deletion.
RunInv ==
  ~overrun /\ ~torn =>
    /\ \A p \in Pid : pc[p] \in {"reg3", "reg4"} =>
         Cardinality(Occupied) = nRunningChilds + 1
    /\ (\E p \in Pid : pc[p] = "del2") \/ dpc = "reap2" =>
         Cardinality(Occupied) = nRunningChilds - 1
    /\ (\A p \in Pid : pc[p] \notin {"reg3", "reg4", "del2"}) /\ dpc # "reap2" =>
         Cardinality(Occupied) = nRunningChilds

\* A child without a connection has the flag off, a child with one has it on.
FlagInv ==
  ~overrun => \A p \in Pid :
    /\ pc[p] \in {"reg3", "reg4", "loop", "wait", "accepted", "set1", "clr2"}
         => ~bConnected[mySlot[p]]
    /\ pc[p] \in {"set2", "http", "request", "reply", "decide"}
         => bConnected[mySlot[p]]

\* Inside the sections: a connection set or cleared is counted at the end.
WorkInv ==
  ~overrun /\ ~leaked =>
    /\ \A p \in Pid : pc[p] = "set2" =>
         Cardinality(Connected) = nWorkingChilds + 1
    /\ \A p \in Pid : pc[p] = "clr2" =>
         Cardinality(Connected) = nWorkingChilds - 1
    /\ (\A p \in Pid : pc[p] \notin {"set2", "clr2"}) =>
         Cardinality(Connected) = nWorkingChilds

-----------------------------------------------------------------------------
(* How the sets of slots grow and shrink *)

\* The number of occupied slots depends on nPid only,
LEMMA SameOccupied ==
  ASSUME nPid' = nPid
  PROVE  Cardinality(Occupied)' = Cardinality(Occupied)
BY DEF Occupied

\* is one more when a free slot is taken,
LEMMA OccupiedGrows ==
  ASSUME NEW s \in Slot, NEW q, q # NoPid, nPid \in [Slot -> Pid \cup {NoPid}],
         nPid[s] = NoPid, nPid' = [nPid EXCEPT ![s] = q]
  PROVE  Cardinality(Occupied)' = Cardinality(Occupied) + 1
<1>1. Occupied' = Occupied \cup {s} /\ s \notin Occupied
  BY DEF Occupied
<1> QED
  BY <1>1, CountsAreNatural, FS_AddElement

\* and one less when a slot is emptied.
LEMMA OccupiedShrinks ==
  ASSUME NEW s \in Slot, nPid \in [Slot -> Pid \cup {NoPid}],
         nPid[s] # NoPid, nPid' = [nPid EXCEPT ![s] = NoPid]
  PROVE  Cardinality(Occupied)' = Cardinality(Occupied) - 1
<1>1. Occupied' = Occupied \ {s} /\ s \in Occupied
  BY DEF Occupied
<1> QED
  BY <1>1, CountsAreNatural, FS_RemoveElement

\* Each step keeps nRunningChilds right.
LEMMA RunStep ==
  ASSUME PoolInv, RunInv, [Next]_vars
  PROVE  RunInv'
<1> USE PoolAssumption, SameOccupied, CountsAreNatural
    DEF PoolInv, TypeInv, Others, Numbers, LockInv, RunInv, Goto, Lock, Unlock,
        LockedOnce, lockVars, slotVars, daemonVars, counters, history,
        Section, InReg, InSet, InClr, InDel
<1>1. ASSUME NEW p \in Pid, Child(p) PROVE RunInv'
  <2>1. CASE RegEnter(p) \/ ConnEnter(p) \/ ClearEnter(p) \/ DelEnter(p)
    BY <2>1 DEF RegEnter, ConnEnter, ClearEnter, DelEnter
  <2>2. CASE RegFind(p) \/ RegFull(p)
    BY <2>2 DEF RegFind, RegFull
  <2>3. CASE RegSlot(p)
    <3>1. overrun' \/ (mySlot[p] \in Slot /\ nPid[mySlot[p]] = NoPid)
      BY <2>3 DEF RegSlot, OwnInv, NoSlot
    <3>2. overrun' \/ Cardinality(Occupied)' = Cardinality(Occupied) + 1
      BY <2>3, <3>1, OccupiedGrows DEF RegSlot
    <3> QED
      BY <2>3, <3>2 DEF RegSlot
  <2>4. CASE RegLaunched(p)
    BY <2>4 DEF RegLaunched
  <2>5. CASE RegRunning(p)
    BY <2>5 DEF RegRunning
  <2>6. CASE ConnSlot(p) \/ ConnCount(p)
    BY <2>6 DEF ConnSlot, ConnCount
  <2>7. CASE ClearSlot(p) \/ ClearCount(p)
    BY <2>7 DEF ClearSlot, ClearCount
  <2>8. CASE DelNothing(p)
    BY <2>8 DEF DelNothing
  <2>9. CASE DelSlot(p)
    <3>1. overrun' \/ (mySlot[p] \in Slot /\ nPid[mySlot[p]] # NoPid)
      BY <2>9 DEF DelSlot, OwnInv, Owns, NoSlot
    <3>2. overrun' \/ Cardinality(Occupied)' = Cardinality(Occupied) - 1
      BY <2>9, <3>1, OccupiedShrinks DEF DelSlot
    <3> QED
      BY <2>9, <3>2 DEF DelSlot
  <2>10. CASE DelCount(p)
    BY <2>10 DEF DelCount
  <2>11. CASE LoopHead(p) \/ NoConnection(p) \/ LeaveIdle(p)
    BY <2>11 DEF LoopHead, NoConnection, LeaveIdle
  <2>12. CASE WaitInterrupted(p) \/ Accept(p) \/ SetExitRequest(p)
    BY <2>12 DEF WaitInterrupted, Accept, SetExitRequest
  <2>13. CASE PeerGone(p) \/ RequestSlot(p) \/ RequestCount(p)
    BY <2>13 DEF PeerGone, RequestSlot, RequestCount
  <2>14. CASE Reply(p) \/ Decide(p) \/ NoRequest(p)
    BY <2>14 DEF Reply, Decide, NoRequest
  <2>15. CASE CheckIdle(p)
    BY <2>15 DEF CheckIdle, Recount
  <2>16. CASE Kill(p)
    BY <2>16 DEF Kill, Tears
  <2>17. CASE Term(p)
    BY <2>17 DEF Term, Tears
  <2>18. CASE ForceSelf(p)
    BY <2>18 DEF ForceSelf
  <2> QED
    BY <1>1, <2>1, <2>2, <2>3, <2>4, <2>5, <2>6, <2>7, <2>8, <2>9, <2>10,
       <2>11, <2>12, <2>13, <2>14, <2>15, <2>16, <2>17, <2>18
       DEF Child, Advance, Suffer
<1>2. ASSUME NEW p \in Pid, Fork(p) \/ Reap(p) PROVE RunInv'
  BY <1>2 DEF Fork, Reap
<1>3. CASE ReapEnter \/ ReapNothing
  BY <1>3 DEF ReapEnter, ReapNothing
<1>4. CASE ReapSlot
  <2>1. FindSlot(victim) \in Slot /\ nPid[FindSlot(victim)] = victim
    BY <1>4, FindSlotFinds DEF ReapSlot
  <2>2. victim # NoPid
    BY <1>4 DEF ReapSlot, SlotsInv, VictimGone
  <2>3. Cardinality(Occupied)' = Cardinality(Occupied) - 1
    BY <1>4, <2>1, <2>2, OccupiedShrinks DEF ReapSlot
  <2> QED
    BY <1>4, <2>3 DEF ReapSlot
<1>5. CASE ReapCount
  BY <1>5 DEF ReapCount
<1>6. CASE Check
  BY <1>6 DEF Check, Recount
<1>7. CASE SetExitAll \/ (\E n \in 1 .. MaxChild : SetIdleExit(n))
  BY <1>7 DEF SetExitAll, SetIdleExit
<1>8. CASE UNCHANGED vars
  BY <1>8 DEF vars
<1> QED
  BY <1>1, <1>2, <1>3, <1>4, <1>5, <1>6, <1>7, <1>8
     DEF Next, DaemonStep, Reaping

\* nRunningChilds is exact outside the sections, wherever children die, until
\* one dies between the two writes of a registration or a deletion.
THEOREM RunningCorrect == Spec => []RunningExact
<1>1. Init => RunInv
  <2>1. ASSUME Init PROVE Occupied = {}
    BY <2>1 DEF Init, Occupied
  <2> QED
    BY <2>1, FS_EmptySet DEF Init, RunInv
<1>2. PoolInv /\ RunInv /\ [Next]_vars => RunInv'
  BY RunStep
<1>3. PoolInv /\ RunInv => RunningExact
  BY DEF PoolInv, LockInv, RunInv, RunningExact, Section, InReg, InDel
<1> QED
  BY <1>1, <1>2, <1>3, PoolInvariant, PTL DEF Spec
-----------------------------------------------------------------------------
(* Connections *)

\* The number of connections depends on the slots and their flags only.
LEMMA SameConnected ==
  ASSUME nPid' = nPid, bConnected' = bConnected
  PROVE  Cardinality(Connected)' = Cardinality(Connected)
BY DEF Connected, Occupied

\* The flag of a slot changes: its own child set or cleared it.
LEMMA ConnectedChanges ==
  ASSUME NEW s \in Slot, nPid[s] # NoPid, nPid' = nPid, NEW b \in BOOLEAN,
         bConnected \in [Slot -> BOOLEAN], bConnected[s] # b,
         bConnected' = [bConnected EXCEPT ![s] = b]
  PROVE  Cardinality(Connected)'
           = IF b THEN Cardinality(Connected) + 1 ELSE Cardinality(Connected) - 1
<1>1. CASE b = TRUE
  <2>1. Connected' = Connected \cup {s} /\ s \notin Connected
    BY <1>1 DEF Connected, Occupied
  <2> QED
    BY <1>1, <2>1, CountsAreNatural, FS_AddElement
<1>2. CASE b = FALSE
  <2>1. Connected' = Connected \ {s} /\ s \in Connected
    BY <1>2 DEF Connected, Occupied
  <2> QED
    BY <1>2, <2>1, CountsAreNatural, FS_RemoveElement
<1> QED
  BY <1>1, <1>2

\* A slot without a connection is taken or emptied.
LEMMA UnconnectedMoves ==
  ASSUME NEW s \in Slot, NEW q, nPid \in [Slot -> Pid \cup {NoPid}],
         bConnected \in [Slot -> BOOLEAN],
         nPid' = [nPid EXCEPT ![s] = q],
         \/ nPid[s] = NoPid /\ bConnected' = [bConnected EXCEPT ![s] = FALSE]
         \/ ~bConnected[s] /\ bConnected' = bConnected
  PROVE  Cardinality(Connected)' = Cardinality(Connected)
<1>1. Connected' = Connected
  BY DEF Connected, Occupied
<1> QED
  BY <1>1

\* The flag says whether there is a connection: it is cleared for a new child
\* before its first connection, and by each child for its own slot only.
LEMMA FlagStep ==
  ASSUME PoolInv, FlagInv, [Next]_vars
  PROVE  FlagInv'
<1> USE PoolAssumption
    DEF PoolInv, TypeInv, Others, OwnInv, Owns, Registered, Serving, FlagInv,
        Goto, Lock, Unlock, LockedOnce, lockVars, slotVars, NoSlot, InSet,
        InClr
<1>1. ASSUME NEW p \in Pid, Child(p) PROVE FlagInv'
  <2>1. CASE RegEnter(p) \/ ConnEnter(p) \/ ClearEnter(p) \/ DelEnter(p)
    BY <2>1 DEF RegEnter, ConnEnter, ClearEnter, DelEnter
  <2>2. CASE RegFind(p) \/ RegFull(p)
    BY <2>2 DEF RegFind, RegFull
  <2>3. CASE RegSlot(p)
    BY <2>3 DEF RegSlot
  <2>4. CASE RegLaunched(p) \/ RegRunning(p)
    BY <2>4 DEF RegLaunched, RegRunning
  <2>5. CASE ConnSlot(p)
    BY <2>5 DEF ConnSlot
  <2>6. CASE ClearSlot(p)
    BY <2>6 DEF ClearSlot
  <2>7. CASE ConnCount(p) \/ ClearCount(p)
    BY <2>7 DEF ConnCount, ClearCount
  <2>8. CASE DelNothing(p) \/ DelSlot(p) \/ DelCount(p)
    BY <2>8 DEF DelNothing, DelSlot, DelCount
  <2>9. CASE LoopHead(p) \/ NoConnection(p) \/ LeaveIdle(p)
    BY <2>9 DEF LoopHead, NoConnection, LeaveIdle
  <2>10. CASE WaitInterrupted(p) \/ Accept(p) \/ SetExitRequest(p)
    BY <2>10 DEF WaitInterrupted, Accept, SetExitRequest
  <2>11. CASE PeerGone(p) \/ RequestSlot(p) \/ RequestCount(p)
    BY <2>11 DEF PeerGone, RequestSlot, RequestCount
  <2>12. CASE Reply(p) \/ Decide(p) \/ NoRequest(p)
    BY <2>12 DEF Reply, Decide, NoRequest
  <2>13. CASE CheckIdle(p)
    BY <2>13 DEF CheckIdle, Recount
  <2>14. CASE Kill(p) \/ Term(p) \/ ForceSelf(p)
    BY <2>14 DEF Kill, Term, ForceSelf
  <2> QED
    BY <1>1, <2>1, <2>2, <2>3, <2>4, <2>5, <2>6, <2>7, <2>8, <2>9, <2>10,
       <2>11, <2>12, <2>13, <2>14 DEF Child, Advance, Suffer
<1>2. ASSUME NEW p \in Pid, Fork(p) \/ Reap(p) PROVE FlagInv'
  BY <1>2 DEF Fork, Reap
<1>3. CASE Reaping
  BY <1>3 DEF Reaping, ReapEnter, ReapNothing, ReapSlot, ReapCount
<1>4. CASE Check \/ SetExitAll \/ (\E n \in 1 .. MaxChild : SetIdleExit(n))
  BY <1>4 DEF Check, Recount, SetExitAll, SetIdleExit
<1>5. CASE UNCHANGED vars
  BY <1>5 DEF vars
<1> QED
  BY <1>1, <1>2, <1>3, <1>4, <1>5 DEF Next, DaemonStep

\* Each step keeps nWorkingChilds right.
LEMMA WorkStep ==
  ASSUME PoolInv, FlagInv, WorkInv, [Next]_vars
  PROVE  WorkInv'
<1> USE PoolAssumption, SameConnected, CountsAreNatural
    DEF PoolInv, TypeInv, Others, Numbers, LockInv, WorkInv, Goto, Lock,
        Unlock, LockedOnce, lockVars, slotVars, daemonVars, counters, history,
        Section, InReg, InSet, InClr, InDel
<1>1. ASSUME NEW p \in Pid, Child(p) PROVE WorkInv'
  <2>1. CASE RegEnter(p) \/ ConnEnter(p) \/ ClearEnter(p) \/ DelEnter(p)
    BY <2>1 DEF RegEnter, ConnEnter, ClearEnter, DelEnter
  <2>2. CASE RegFind(p) \/ RegFull(p)
    BY <2>2 DEF RegFind, RegFull
  <2>3. CASE RegSlot(p)
    <3>1. overrun' \/ (mySlot[p] \in Slot /\ nPid[mySlot[p]] = NoPid)
      BY <2>3 DEF RegSlot, OwnInv, NoSlot
    <3>2. overrun' \/ Cardinality(Connected)' = Cardinality(Connected)
      BY <2>3, <3>1, UnconnectedMoves DEF RegSlot
    <3> QED
      BY <2>3, <3>2 DEF RegSlot
  <2>4. CASE RegLaunched(p) \/ RegRunning(p)
    BY <2>4 DEF RegLaunched, RegRunning
  <2>5. CASE ConnSlot(p)
    <3>1. overrun' \/ /\ mySlot[p] \in Slot /\ nPid[mySlot[p]] # NoPid
                      /\ bConnected[mySlot[p]] # TRUE
      BY <2>5 DEF ConnSlot, OwnInv, Owns, Registered, Serving, FlagInv, NoSlot
    <3>2. overrun' \/ Cardinality(Connected)' = Cardinality(Connected) + 1
      BY <2>5, <3>1, ConnectedChanges DEF ConnSlot
    <3> QED
      BY <2>5, <3>2 DEF ConnSlot
  <2>6. CASE ConnCount(p)
    BY <2>6 DEF ConnCount
  <2>7. CASE ClearSlot(p)
    <3>1. mySlot[p] \in Slot /\ (overrun' \/ nPid[mySlot[p]] # NoPid)
      BY <2>7 DEF ClearSlot, OwnInv, Owns, Registered, Serving, NoSlot
    <3>2. leaked' \/ bConnected[mySlot[p]] # FALSE
      BY <2>7, <3>1 DEF ClearSlot
    <3>3. overrun' \/ leaked'
            \/ Cardinality(Connected)' = Cardinality(Connected) - 1
      BY <2>7, <3>1, <3>2, ConnectedChanges DEF ClearSlot
    <3> QED
      BY <2>7, <3>3 DEF ClearSlot
  <2>8. CASE ClearCount(p)
    BY <2>8 DEF ClearCount
  <2>9. CASE DelNothing(p) \/ DelCount(p)
    BY <2>9 DEF DelNothing, DelCount
  <2>10. CASE DelSlot(p)
    <3>1. mySlot[p] \in Slot
      BY <2>10 DEF DelSlot
    <3>2. leaked' \/ Cardinality(Connected)' = Cardinality(Connected)
      BY <2>10, <3>1, UnconnectedMoves DEF DelSlot
    <3> QED
      BY <2>10, <3>2 DEF DelSlot
  <2>11. CASE LoopHead(p) \/ NoConnection(p) \/ LeaveIdle(p)
    BY <2>11 DEF LoopHead, NoConnection, LeaveIdle
  <2>12. CASE WaitInterrupted(p) \/ Accept(p) \/ SetExitRequest(p)
    BY <2>12 DEF WaitInterrupted, Accept, SetExitRequest
  <2>13. CASE PeerGone(p) \/ RequestSlot(p) \/ RequestCount(p)
    BY <2>13 DEF PeerGone, RequestSlot, RequestCount
  <2>14. CASE Reply(p) \/ Decide(p) \/ NoRequest(p)
    BY <2>14 DEF Reply, Decide, NoRequest
  <2>15. CASE CheckIdle(p)
    BY <2>15 DEF CheckIdle, Recount
  <2>16. CASE Kill(p)
    BY <2>16 DEF Kill, Leaks
  <2>17. CASE Term(p)
    BY <2>17 DEF Term, Leaks
  <2>18. CASE ForceSelf(p)
    BY <2>18 DEF ForceSelf
  <2> QED
    BY <1>1, <2>1, <2>2, <2>3, <2>4, <2>5, <2>6, <2>7, <2>8, <2>9, <2>10,
       <2>11, <2>12, <2>13, <2>14, <2>15, <2>16, <2>17, <2>18
       DEF Child, Advance, Suffer
<1>2. ASSUME NEW p \in Pid, Fork(p) \/ Reap(p) PROVE WorkInv'
  BY <1>2 DEF Fork, Reap
<1>3. CASE ReapEnter \/ ReapNothing \/ ReapCount
  BY <1>3 DEF ReapEnter, ReapNothing, ReapCount
<1>4. CASE ReapSlot
  <2>1. FindSlot(victim) \in Slot
    BY <1>4, FindSlotFinds DEF ReapSlot
  <2>2. leaked' \/ Cardinality(Connected)' = Cardinality(Connected)
    BY <1>4, <2>1, UnconnectedMoves DEF ReapSlot
  <2> QED
    BY <1>4, <2>2 DEF ReapSlot
<1>5. CASE Check
  BY <1>5 DEF Check, Recount
<1>6. CASE SetExitAll \/ (\E n \in 1 .. MaxChild : SetIdleExit(n))
  BY <1>6 DEF SetExitAll, SetIdleExit
<1>7. CASE UNCHANGED vars
  BY <1>7 DEF vars
<1> QED
  BY <1>1, <1>2, <1>3, <1>4, <1>5, <1>6, <1>7 DEF Next, DaemonStep, Reaping

\* No child is connected at first.
LEMMA InitWorkInv ==
  ASSUME Init
  PROVE  FlagInv /\ WorkInv
<1>1. Connected = {}
  BY DEF Init, Connected, Occupied
<1> QED
  BY <1>1, FS_EmptySet DEF Init, FlagInv, WorkInv

\* A child that waits is never taken for one that works, nor the reverse.
THEOREM FlagCorrect == Spec => []ConnectedIsServing
<1>1. PoolInv /\ FlagInv /\ [Next]_vars => FlagInv'
  BY FlagStep
<1>2. FlagInv => ConnectedIsServing
  BY DEF FlagInv, ConnectedIsServing
<1> QED
  BY <1>1, <1>2, InitWorkInv, PoolInvariant, PTL DEF Spec

\* nWorkingChilds is exact outside the sections, until a connection is
\* counted only once.
THEOREM WorkingCorrect == Spec => []WorkingExact
<1>1. PoolInv /\ FlagInv /\ WorkInv /\ [Next]_vars => FlagInv' /\ WorkInv'
  BY FlagStep, WorkStep
<1>2. PoolInv /\ WorkInv => WorkingExact
  BY DEF PoolInv, LockInv, WorkInv, WorkingExact, Section, InSet, InClr
<1> QED
  BY <1>1, <1>2, InitWorkInv, PoolInvariant, PTL DEF Spec

\* The counters and the slots agree outside the sections (CountersExact), with
\* any number of children and slots, and deaths at any point.
THEOREM CountersCorrect == Spec => []CountersExact
BY RunningCorrect, WorkingCorrect, FlagCorrect, PTL DEF CountersExact
=============================================================================
