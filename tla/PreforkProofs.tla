--------------------------- MODULE PreforkProofs ---------------------------
(***************************************************************************)
(* Proofs about the scaling loop, for any configuration and any number of  *)
(* slots: types, with never more registered children than slots, and that  *)
(* at most one child is forked that finds no slot.                         *)
(***************************************************************************)
EXTENDS Prefork, TLAPS

Numbers ==
  /\ born \in Nat /\ half \in {0, 1} /\ nIdleChilds \in Int /\ nRunningChilds \in Nat
  /\ nChildFlag \in Int /\ nChildFlag >= -KillIdleInterval
  /\ dpc # "ask" => nChildFlag > -KillIdleInterval
  /\ tries \in 0 .. MaxPreforkAtOnce - 1
  /\ failures \in Nat /\ retired \in Nat

Booleans ==
  /\ moved \in BOOLEAN /\ delayed \in BOOLEAN /\ stale \in BOOLEAN
  /\ early \in BOOLEAN
  /\ dpc \in {"top", "idle", "minus", "plus", "running",
              "launch", "register", "ask"}

Enrolled == child \in [Place \X Flag -> Nat] /\ Slots <= MaxChild

TypeInv == Numbers /\ Booleans /\ Enrolled

\* The daemon has at most one child that is not registered, and only while it
\* waits for it.
OneBorn ==
  ~delayed =>
    /\ dpc # "register" => born = 0
    /\ dpc \in {"idle", "minus", "plus", "running", "launch"} => ~moved
    /\ dpc = "register" => born = IF moved THEN 0 ELSE 1

\* It launches when it has counted fewer children than there are slots, where
\* the count may have missed one; and the flag asks for children only in the
\* round that computed it.
RoomCounted ==
  /\ dpc = "launch" /\ ~stale /\ Configured => nRunningChilds < MaxChild
  /\ dpc = "launch" /\ ~delayed =>
       Slots <= nRunningChilds + (IF early THEN 1 ELSE 0)
  /\ dpc \notin {"launch", "register"} /\ ~stale => nChildFlag <= 0

ForkInv == TypeInv /\ OneBorn /\ RoomCounted /\ SlotForEach

-----------------------------------------------------------------------------
(* The children *)

\* The numbers of children.
LEMMA ChildNumbers ==
  ASSUME child \in [Place \X Flag -> Nat]
  PROVE  /\ \A l \in Place, a \in Flag : child[<<l, a>>] \in Nat
         /\ \A l \in Place : At(l) \in Nat
         /\ Running \in Nat /\ Idle \in Nat
<1>1. \A l \in Place, a \in Flag : child[<<l, a>>] \in Nat
  OBVIOUS
<1>2. \A l \in Place : At(l) \in Nat
  <2> SUFFICES ASSUME NEW l \in Place
               PROVE  child[<<l, "kept">>] + child[<<l, "asked">>] \in Nat
    BY DEF At
  <2>1. child[<<l, "kept">>] \in Nat /\ child[<<l, "asked">>] \in Nat
    BY <1>1 DEF Flag
  <2> QED
    BY <2>1
<1>3. /\ At("loop") \in Nat /\ At("wait") \in Nat
      /\ At("work") \in Nat /\ At("leave") \in Nat
  BY <1>2 DEF Place
<1> QED
  BY <1>1, <1>2, <1>3 DEF Running, Working, Idle

\* A move leaves the number of children as it is.
LEMMA MoveKeeps ==
  ASSUME child \in [Place \X Flag -> Nat],
         NEW l \in Place, NEW m \in Place, l # m, NEW a \in Flag,
         Move(l, m, a)
  PROVE  child' \in [Place \X Flag -> Nat] /\ Running' = Running
<1>1. <<l, a>> \in Place \X Flag /\ <<m, a>> \in Place \X Flag
  OBVIOUS
<1>2. child' \in [Place \X Flag -> Nat]
  BY <1>1 DEF Move
<1>3. /\ child[<<l, a>>] \in Nat /\ child[<<m, a>>] \in Nat
      /\ child'[<<l, a>>] = child[<<l, a>>] - 1
      /\ child'[<<m, a>>] = child[<<m, a>>] + 1
      /\ \A k \in Place, b \in Flag :
           (k \in {l, m} => b # a) => child'[<<k, b>>] = child[<<k, b>>]
  BY <1>1 DEF Move
<1>4. At(l)' = At(l) - 1 /\ At(m)' = At(m) + 1
  <2> USE ChildNumbers
  <2>1. CASE a = "asked"
    <3>1. /\ child'[<<l, "asked">>] = child[<<l, "asked">>] - 1
          /\ child'[<<m, "asked">>] = child[<<m, "asked">>] + 1
          /\ child'[<<l, "kept">>] = child[<<l, "kept">>]
          /\ child'[<<m, "kept">>] = child[<<m, "kept">>]
      BY <1>3, <2>1 DEF Flag
    <3> QED
      BY <3>1 DEF At, Flag
  <2>2. CASE a = "kept"
    <3>1. /\ child'[<<l, "kept">>] = child[<<l, "kept">>] - 1
          /\ child'[<<m, "kept">>] = child[<<m, "kept">>] + 1
          /\ child'[<<l, "asked">>] = child[<<l, "asked">>]
          /\ child'[<<m, "asked">>] = child[<<m, "asked">>]
      BY <1>3, <2>2 DEF Flag
    <3> QED
      BY <3>1 DEF At, Flag
  <2> QED
    BY <2>1, <2>2 DEF Flag
<1>5. \A k \in Place \ {l, m} : At(k)' = At(k)
  BY <1>3 DEF At, Flag
<1>6. \A k \in Place : At(k) \in Nat
  BY ChildNumbers
<1>7. Running' = Running
  <2>1. /\ At("loop") \in Nat /\ At("wait") \in Nat
        /\ At("work") \in Nat /\ At("leave") \in Nat
    BY <1>6 DEF Place
  <2>2. Running' = At("work")' + (At("loop")' + At("wait")' + At("leave")')
    BY DEF Running, Working, Idle
  <2>3. CASE l = "loop"
    BY <1>4, <1>5, <2>1, <2>2, <2>3 DEF Place, Running, Working, Idle
  <2>4. CASE l = "wait"
    BY <1>4, <1>5, <2>1, <2>2, <2>4 DEF Place, Running, Working, Idle
  <2>5. CASE l = "work"
    BY <1>4, <1>5, <2>1, <2>2, <2>5 DEF Place, Running, Working, Idle
  <2>6. CASE l = "leave"
    BY <1>4, <1>5, <2>1, <2>2, <2>6 DEF Place, Running, Working, Idle
  <2> QED
    BY <2>3, <2>4, <2>5, <2>6 DEF Place
<1> QED
  BY <1>2, <1>7

\* A step of a child that has registered.
Moved == \E l, m \in Place, a \in Flag : l # m /\ Move(l, m, a)

\* A step of the children registers one, moves one, or deletes one.
LEMMA ChildrenMove ==
  ASSUME Children
  PROVE  \/ Launch
         \/ Register
         \/ Moved /\ UNCHANGED <<born, half, moved, retired>> /\ OnlyChildren
         \/ Moved /\ UNCHANGED <<born, half, moved>> /\ OnlyChildren
              /\ retired' = retired + 1
         \/ \E a \in Flag : Delete(a)
BY DEF Children, Go, LoopHead, Timeout, Accept, Finish, LeaveIdle, Retire,
       Stay, Moved, Place, Flag

\* A child more.
LEMMA RegisterAdds ==
  ASSUME child \in [Place \X Flag -> Nat],
         child' = [child EXCEPT ![<<"loop", "kept">>] = @ + 1]
  PROVE  child' \in [Place \X Flag -> Nat] /\ Running' = Running + 1
<1>1. <<"loop", "kept">> \in Place \X Flag
  BY DEF Place, Flag
<1>2. child' \in [Place \X Flag -> Nat]
  BY <1>1
<1>3. At("loop")' = At("loop") + 1
  BY <1>1, ChildNumbers DEF At, Flag, Place
<1>4. \A k \in Place \ {"loop"} : At(k)' = At(k)
  BY DEF At, Flag
<1> QED
  BY <1>2, <1>3, <1>4, ChildNumbers DEF Running, Working, Idle, Place

\* A child less.
LEMMA DeleteRemoves ==
  ASSUME child \in [Place \X Flag -> Nat], NEW a \in Flag, Delete(a)
  PROVE  child' \in [Place \X Flag -> Nat] /\ Running' = Running - 1
<1>1. <<"leave", a>> \in Place \X Flag
  BY DEF Place
<1>2. child' \in [Place \X Flag -> Nat]
  BY <1>1 DEF Delete
<1>3. At("leave")' = At("leave") - 1
  <2>1. child'[<<"leave", a>>] = child[<<"leave", a>>] - 1
    BY <1>1 DEF Delete
  <2>2. \A b \in Flag : b # a => child'[<<"leave", b>>] = child[<<"leave", b>>]
    BY <1>1 DEF Delete, Place
  <2> QED
    BY <2>1, <2>2, ChildNumbers DEF At, Flag, Place
<1>4. \A k \in Place \ {"leave"} : At(k)' = At(k)
  BY DEF At, Flag, Delete
<1> QED
  BY <1>2, <1>3, <1>4, ChildNumbers DEF Running, Working, Idle, Place

\* The flag that is computed asks for children only when there is room.
LEMMA NewFlagRoom ==
  ASSUME NEW r \in Nat, NEW i \in Int, nChildFlag \in Int,
         nChildFlag > -KillIdleInterval
  PROVE  /\ NewFlag(r, i) \in Int
         /\ NewFlag(r, i) >= -KillIdleInterval
         /\ NewFlag(r, i) > 0 /\ Configured =>
              \/ r < MaxChild
              \/ nChildFlag > 0 /\ (Unassigned(r, i) \/ Over(r, i))
BY PreforkAssumption
   DEF NewFlag, TooFew, Short, Over, Unassigned, Wanted, MaxChild, Configured

-----------------------------------------------------------------------------
(* The invariant *)

\* Each step keeps the types of the numbers,
LEMMA NumbersStep ==
  ASSUME TypeInv, [Next]_vars
  PROVE  Numbers'
<1> USE PreforkAssumption
    DEF TypeInv, Numbers, childVars, counted, history, OnlyChildren, Stay
<1>1. CASE Launch \/ Register
  BY <1>1 DEF Launch, Register
<1>2. CASE Moved /\ UNCHANGED <<born, half, moved>> /\ OnlyChildren
             /\ retired' \in {retired, retired + 1}
  BY <1>2
<1>3. ASSUME NEW a \in Flag, Delete(a) PROVE Numbers'
  BY <1>3 DEF Delete
<1>4. CASE Sample
  BY <1>4 DEF Sample
<1>5. CASE CountIdle
  <2>1. Running \in Int /\ Working \in Int
    BY ChildNumbers DEF Enrolled, Working, Place
  <2> QED
    BY <1>5, <2>1 DEF CountIdle
<1>6. CASE Decide
  <2>1. Running \in Nat
    BY ChildNumbers DEF Enrolled
  <2> QED
    BY <1>6, <2>1, NewFlagRoom DEF Decide
<1>7. CASE Fork
  BY <1>7 DEF Fork
<1>8. CASE ForkFails
  BY <1>8 DEF ForkFails
<1>9. CASE Registered \/ GiveUp
  BY <1>9 DEF Registered, GiveUp
<1>10. CASE Ask
  BY <1>10 DEF Ask
<1>11. CASE UNCHANGED vars
  BY <1>11 DEF vars
<1> QED
  BY <1>1, <1>2, <1>3, <1>4, <1>5, <1>6, <1>7, <1>8, <1>9, <1>10, <1>11,
     ChildrenMove DEF Next, DaemonStep

\* Asking changes no number of children.
LEMMA AskKeeps ==
  ASSUME child \in [Place \X Flag -> Nat], Ask
  PROVE  child' \in [Place \X Flag -> Nat] /\ Running' = Running
<1>1. CASE child' = child
  BY <1>1 DEF Running, Working, Idle, At
<1>2. ASSUME NEW l \in Place, child[<<l, "kept">>] > 0,
             child' = [child EXCEPT ![<<l, "kept">>] = @ - 1,
                                    ![<<l, "asked">>] = @ + 1]
      PROVE  child' \in [Place \X Flag -> Nat] /\ Running' = Running
  <2>1. <<l, "kept">> \in Place \X Flag /\ <<l, "asked">> \in Place \X Flag
    BY DEF Flag
  <2>2. child' \in [Place \X Flag -> Nat]
    BY <1>2, <2>1
  <2>3. At(l)' = At(l)
    BY <1>2, <2>1, ChildNumbers DEF At, Flag
  <2>4. \A k \in Place \ {l} : At(k)' = At(k)
    BY <1>2 DEF At, Flag
  <2> QED
    BY <2>2, <2>3, <2>4 DEF Running, Working, Idle, Place
<1> QED
  BY <1>1, <1>2 DEF Ask

\* Registered children never outnumber the slots.
LEMMA EnrolledStep ==
  ASSUME TypeInv, [Next]_vars
  PROVE  Enrolled'
<1> USE PreforkAssumption
    DEF TypeInv, Numbers, Enrolled, Slots, childVars, counted, history
<1>0. Running \in Nat /\ MaxChild \in Nat
  BY ChildNumbers DEF MaxChild
<1>1. CASE Launch
  <2>1. Running' = Running /\ UNCHANGED child
    BY <1>1 DEF Launch, Running, Working, Idle, At
  <2>2. half' = 1 => Running < MaxChild
    BY <1>1 DEF Launch
  <2>3. half' \in {0, 1} /\ half \in {0, 1}
    BY <1>1 DEF Launch
  <2>4. Running' + half' <= MaxChild
    BY <1>0, <2>1, <2>2, <2>3
  <2>5. MaxChild' = MaxChild
    BY DEF MaxChild
  <2> QED
    BY <2>1, <2>4, <2>5
<1>2. CASE Register
  BY <1>0, <1>2, RegisterAdds DEF Register
<1>3. CASE Moved /\ UNCHANGED half
  BY <1>0, <1>3, MoveKeeps DEF Moved
<1>4. ASSUME NEW a \in Flag, Delete(a) PROVE Enrolled'
  <2>1. child' \in [Place \X Flag -> Nat] /\ Running' = Running - 1
    BY <1>4, DeleteRemoves
  <2>2. half' = half
    BY <1>4 DEF Delete, Stay
  <2>3. Running' + half' <= MaxChild
    BY <1>0, <2>1, <2>2
  <2>4. MaxChild' = MaxChild
    BY DEF MaxChild
  <2> QED
    BY <2>1, <2>3, <2>4
<1>5. CASE Ask
  BY <1>0, <1>5, AskKeeps DEF Ask
<1>6. CASE UNCHANGED <<child, half>>
  BY <1>6 DEF Running, Working, Idle, At
<1> QED
  BY <1>1, <1>2, <1>3, <1>4, <1>5, <1>6, ChildrenMove
     DEF Next, DaemonStep, Sample, CountIdle, Decide, Fork, ForkFails,
         Registered, GiveUp, vars

\* those of the flags,
LEMMA BooleansStep ==
  ASSUME TypeInv, [Next]_vars
  PROVE  Booleans'
<1> USE DEF TypeInv, Booleans, childVars, history, OnlyChildren, Stay
<1>1. CASE Launch \/ Register
  BY <1>1 DEF Launch, Register
<1>2. CASE UNCHANGED <<born, half, moved>> /\ OnlyChildren
  BY <1>2
<1>3. CASE Sample \/ CountIdle \/ Decide
  BY <1>3 DEF Sample, CountIdle, Decide, Unlocked
<1>4. CASE Fork \/ ForkFails
  BY <1>4 DEF Fork, ForkFails
<1>5. CASE Registered \/ GiveUp \/ Ask
  BY <1>5 DEF Registered, GiveUp, Ask
<1>6. CASE UNCHANGED vars
  BY <1>6 DEF vars
<1> QED
  BY <1>1, <1>2, <1>3, <1>4, <1>5, <1>6, ChildrenMove
     DEF Next, DaemonStep, Delete

\* and all of them.
LEMMA TypeStep ==
  ASSUME TypeInv, [Next]_vars
  PROVE  TypeInv'
BY NumbersStep, BooleansStep, EnrolledStep DEF TypeInv

\* The invariant holds at first.
LEMMA InitForkInv ==
  ASSUME Init
  PROVE  ForkInv
<1>1. child \in [Place \X Flag -> Nat]
  BY DEF Init
<1>2. At("loop") = 0 /\ At("wait") = 0 /\ At("work") = 0 /\ At("leave") = 0
  BY DEF Init, At, Place, Flag
<1>3. Running = 0 /\ Slots = 0 /\ MaxChild \in Nat
  BY <1>2, PreforkAssumption DEF Running, Working, Idle, Slots, Init, MaxChild
<1>4. TypeInv
  <2>1. Numbers
    BY PreforkAssumption DEF Init, Numbers
  <2>2. Booleans
    BY DEF Init, Booleans
  <2>3. Enrolled
    BY <1>1, <1>3, PreforkAssumption DEF Enrolled
  <2> QED
    BY <2>1, <2>2, <2>3 DEF TypeInv
<1>5. OneBorn /\ RoomCounted /\ SlotForEach
  BY <1>3, PreforkAssumption DEF Init, OneBorn, RoomCounted, SlotForEach
<1> QED
  BY <1>4, <1>5 DEF ForkInv

\* Every reachable state is typed, and there are never more registered
\* children than slots.
THEOREM TypeCorrect == Spec => []TypeOK
<1>1. TypeInv /\ [Next]_vars => TypeInv'
  BY TypeStep
<1>2. TypeInv => TypeOK
  BY DEF TypeInv, Numbers, Booleans, Enrolled, TypeOK
<1>3. Init => TypeInv
  BY InitForkInv DEF ForkInv
<1> QED
  BY <1>1, <1>2, <1>3, PTL DEF Spec

\* Who starts to register is counted among the unborn no more.
LEMMA LaunchCounts ==
  ASSUME NEW b \in Nat, NEW r \in Nat, NEW h \in {0, 1}, NEW m \in Nat,
         b + (r + 0) <= m
  PROVE  b - 1 + (r + h) <= m
OBVIOUS

\* The part of the invariant about the fork, step by step.
LEMMA ForkStep ==
  ASSUME ForkInv, [Next]_vars
  PROVE  OneBorn' /\ RoomCounted' /\ SlotForEach'
<1> USE PreforkAssumption
    DEF ForkInv, TypeInv, Numbers, Booleans, Enrolled, OneBorn, RoomCounted,
        SlotForEach, Slots, childVars, counted, history, OnlyChildren, Stay
<1>0. /\ Running \in Nat /\ MaxChild \in Nat /\ MaxChild' = MaxChild
      /\ Configured' <=> Configured
  BY ChildNumbers DEF MaxChild, Configured
<1>1. CASE Launch
  <2>1. Running' = Running
    BY <1>1 DEF Launch, Running, Working, Idle, At
  <2>2. /\ born > 0 /\ born' = born - 1 /\ half = 0 /\ half' \in {0, 1}
        /\ moved' = TRUE
        /\ UNCHANGED <<dpc, nRunningChilds, nChildFlag, delayed, stale, early>>
    BY <1>1 DEF Launch, Unlocked
  <2>3. OneBorn'
    BY <2>2
  <2>4. RoomCounted'
    <3>1. dpc' = "launch" /\ ~stale' /\ Configured' => nRunningChilds' < MaxChild'
      BY <1>0, <2>2
    <3>2. ~(dpc' = "launch" /\ ~delayed')
      BY <2>2
    <3>3. dpc' \notin {"launch", "register"} /\ ~stale' => nChildFlag' <= 0
      BY <2>2
    <3> QED
      BY <3>1, <3>2, <3>3
  <2>5. ASSUME Configured', ~delayed', ~stale'
        PROVE  born' + Slots' <= MaxChild' + (IF early' THEN 1 ELSE 0)
    <3>1. Configured /\ ~delayed /\ ~stale /\ early' = early /\ MaxChild' = MaxChild
      BY <2>2, <2>5 DEF Configured, MaxChild
    <3>2. born + (Running + 0) <= MaxChild + (IF early THEN 1 ELSE 0)
      BY <2>2, <3>1
    <3>3. MaxChild + (IF early THEN 1 ELSE 0) \in Nat /\ born \in Nat
      BY <1>0
    <3>4. born - 1 + (Running + half') <= MaxChild + (IF early THEN 1 ELSE 0)
      BY <1>0, <2>2, <3>2, <3>3, LaunchCounts
    <3> QED
      BY <2>1, <2>2, <3>1, <3>4
  <2>6. SlotForEach'
    BY <2>5
  <2> QED
    BY <2>3, <2>4, <2>6
<1>2. CASE Register
  <2>1. Running' = Running + 1
    BY <1>2, RegisterAdds DEF Register
  <2>2. Slots' = Slots
    BY <1>0, <1>2, <2>1 DEF Register
  <2> QED
    BY <1>0, <1>2, <2>1, <2>2 DEF Register
<1>3. CASE Moved /\ UNCHANGED <<born, half, moved>> /\ OnlyChildren
  <2>1. Running' = Running
    BY <1>3, MoveKeeps DEF Moved
  <2> QED
    BY <1>3, <2>1
<1>4. ASSUME NEW a \in Flag, Delete(a)
      PROVE  OneBorn' /\ RoomCounted' /\ SlotForEach'
  <2>1. Running' = Running - 1
    BY <1>4, DeleteRemoves
  <2> QED
    BY <1>0, <1>4, <2>1 DEF Delete
<1>5. CASE UNCHANGED <<child, half>> /\ DaemonStep
  <2>1. Running' = Running
    BY <1>5 DEF Running, Working, Idle, At
  <2>2. CASE Sample
    BY <1>0, <1>5, <2>1, <2>2 DEF Sample
  <2>3. CASE CountIdle
    BY <1>0, <1>5, <2>1, <2>3 DEF CountIdle
  <2>4. CASE Decide
    <3>1. nRunningChilds' = Running
      BY <2>4 DEF Decide
    <3>2. OneBorn'
      BY <2>4 DEF Decide
    <3>3. RoomCounted'
      <4>1. nChildFlag' = NewFlag(Running, nIdleChilds)
        BY <2>4 DEF Decide
      <4>8. dpc' = CASE nChildFlag' > 0 -> "launch"
                     [] nChildFlag' <= -KillIdleInterval -> "ask"
                     [] OTHER -> "top"
        BY <2>4, <4>1 DEF Decide
      <4> DEFINE Kept == \/ Unassigned(Running, nIdleChilds)
                         \/ Over(Running, nIdleChilds)
      <4>6. stale' = (stale /\ nChildFlag' > 0 /\ Kept)
        BY <2>4, <4>1, Zenon DEF Decide
      <4>7. ~stale' /\ nChildFlag' > 0 => ~stale \/ ~Kept
        BY <4>6, Zenon
      <4>2. /\ nChildFlag' \in Int
            /\ nChildFlag' > 0 /\ Configured =>
                 \/ Running < MaxChild
                 \/ nChildFlag > 0 /\ Kept
        BY <1>0, <2>4, <4>1, NewFlagRoom DEF Decide
      <4>9. /\ dpc' = "launch" => nChildFlag' > 0
            /\ dpc' \notin {"launch", "register"} => ~(nChildFlag' > 0)
        BY <4>2, <4>8
      <4>3. ~stale => ~(nChildFlag > 0)
        BY <2>4 DEF Decide
      <4>4. dpc' = "launch" /\ ~stale' /\ Configured' => nRunningChilds' < MaxChild'
        <5> HIDE DEF Kept
        <5> QED
          BY <1>0, <3>1, <4>2, <4>3, <4>7, <4>9
      <4>5. Slots' <= nRunningChilds' + (IF early' THEN 1 ELSE 0)
        <5>1. CASE half = 0
          BY <1>0, <1>5, <2>1, <3>1, <5>1
        <5>2. CASE half = 1
          <6>1. early' = TRUE
            <7>1. early' = ~Unlocked
              BY <2>4 DEF Decide
            <7>2. ~Unlocked
              BY <5>2 DEF Unlocked
            <7> QED
              BY <7>1, <7>2, Zenon
          <6>2. half' = 1 /\ nRunningChilds' = Running
            BY <1>5, <3>1, <5>2
          <6> QED
            BY <1>0, <2>1, <6>1, <6>2
        <5> QED
          BY <5>1, <5>2
      <4> QED
        BY <4>2, <4>4, <4>5, <4>9
    <3>4. ~delayed' => born' = 0
      BY <2>4 DEF Decide
    <3>5. Running' + half' <= MaxChild /\ Running' + half' \in Nat
      BY <1>0, <1>5, <2>1
    <3>6. SlotForEach'
      <4>1. MaxChild' = MaxChild
        BY DEF MaxChild
      <4>2. early' \in BOOLEAN
        BY <2>4 DEF Decide, Unlocked
      <4> SUFFICES ASSUME ~delayed'
                   PROVE  born' + Slots' <= MaxChild' + (IF early' THEN 1 ELSE 0)
        OBVIOUS
      <4>3. born' = 0
        BY <3>4
      <4> QED
        BY <1>0, <3>5, <4>1, <4>2, <4>3
    <3> QED
      BY <3>2, <3>3, <3>6
  <2>5. CASE Fork
    BY <1>0, <1>5, <2>1, <2>5 DEF Fork
  <2>6. CASE ForkFails
    BY <1>0, <1>5, <2>1, <2>6 DEF ForkFails
  <2>7. CASE Registered \/ GiveUp
    BY <1>0, <1>5, <2>1, <2>7 DEF Registered, GiveUp
  <2>8. CASE Ask
    BY <1>0, <1>5, <2>1, <2>8 DEF Ask
  <2> QED
    BY <1>5, <2>2, <2>3, <2>4, <2>5, <2>6, <2>7, <2>8 DEF DaemonStep
<1>6. CASE Ask
  <2>1. Running' = Running
    BY <1>6, AskKeeps
  <2>2. /\ dpc = "ask" /\ dpc' = "top" /\ nChildFlag' = 0
        /\ UNCHANGED <<born, half, moved, delayed, stale, early, nRunningChilds>>
    BY <1>6 DEF Ask
  <2> QED
    BY <1>0, <2>1, <2>2
<1>7. CASE UNCHANGED vars
  <2>1. Running' = Running
    BY <1>7 DEF vars, Running, Working, Idle, At
  <2> QED
    BY <1>7, <2>1 DEF vars
<1>8. DaemonStep => UNCHANGED <<child, half>> \/ Ask
  BY DEF DaemonStep, Sample, CountIdle, Decide, Fork, ForkFails, Registered,
         GiveUp
<1> QED
  BY <1>1, <1>2, <1>3, <1>4, <1>5, <1>6, <1>7, <1>8, ChildrenMove DEF Next

\* Of the children that are forked at most one finds no slot, and that only if
\* the daemon counted while another was half registered: for any configuration
\* whose servers and clients fit the pool, unless a registration takes more than
\* a second or a fork has failed.
THEOREM SlotForEachCorrect == Spec => []SlotForEach
<1>1. ForkInv /\ [Next]_vars => ForkInv'
  BY TypeStep, ForkStep DEF ForkInv
<1>2. ForkInv => SlotForEach
  BY DEF ForkInv
<1> QED
  BY <1>1, <1>2, InitForkInv, PTL DEF Spec
============================================================================
