---------------------------- MODULE ServerProofs ----------------------------
(***************************************************************************)
(* Proofs about the shutdown, for any number of children and slots and any *)
(* number of rounds: types, and that no child goes on serving when the     *)
(* daemon has ended.                                                       *)
(***************************************************************************)
EXTENDS Server, FiniteSetTheorems, TLAPS

\* A child that has a slot and does not leave.
Serving(c) == pc[c] \in {"count", "head", "poll", "busy"}

\* TypeOK is not inductive: the rounds end with number -1, the number of children in
\* the pool can be counted on only if they are finitely many, and a child is counted
\* only when it has its slot.
Types ==
  /\ TypeOK
  /\ IsFiniteSet(slot)
  /\ \A c \in Child : pc[c] = "count" => c \in slot
  /\ dpc = "sleep" => nWait >= 0
  /\ dpc \notin {"end", "sleep", "gone"} => nWait = SoftRounds + HardRounds

\* The rounds with a SIGTERM that have been.
TermRounds ==
  LET n == IF nWait <= 0 THEN HardRounds ELSE HardRounds - nWait
  IN IF dpc = "sleep" /\ nWait > 0 THEN n + 1 ELSE n

\* A child that serves is in the pool and, at the latest when it comes to its loop,
\* counted; one that is not there yet is one the daemon waits for, or did not wait for.
Known ==
  \A c \in Child :
    /\ Serving(c) => c \in slot
    /\ Serving(c) /\ pc[c] # "count" => c \in counted
    /\ Unborn(c) => c \in late \/ (dpc = "wait" /\ c \in newest)

\* A SIGHUP that is pending was sent: those a child inherits are emptied.
Sent == \A c \in Child : (Serving(c) \/ pc[c] = "boot") /\ "HUP" \in sig[c] => hups >= 1

\* A child that still serves has had another SIGHUP before each of the SIGTERMs,
\* and has one more if it can outlive another.
Outlived ==
  \A c \in Child \ late :
    Serving(c) =>
      /\ dpc \in {"end", "sleep"} =>
           hups >= TermRounds + (IF "HUP" \in sig[c] THEN 1 ELSE 0)
      /\ dpc = "gone" => hups >= HardRounds \/ skew # 0

ServerInv == Types /\ Known /\ Sent /\ Outlived
-----------------------------------------------------------------------------
(* Types *)

\* The invariant holds at first.
LEMMA InitServerInv == Init => ServerInv
<1> SUFFICES ASSUME Init PROVE ServerInv
  OBVIOUS
<1>1. Types
  <2>1. IsFiniteSet(slot) /\ Cardinality(slot) = 0
    BY FS_EmptySet DEF Init
  <2>2. nWait \in -1 .. SoftRounds + HardRounds
    BY ServerAssumption DEF Init
  <2>3. kills \in Nat /\ hups \in Nat /\ kills + hups <= MaxFaults /\ reloads \in 0 .. MaxReloads
    BY ServerAssumption DEF Init
  <2>4. conf \in 1 .. Versions /\ cconf \in [Child -> 1 .. Versions] /\ Cardinality(slot) <= Slots
    BY <2>1, ServerAssumption DEF Init
  <2>5. pc \in [Child -> PCs] /\ sig \in [Child -> SUBSET {"HUP", "TERM"}]
    BY DEF Init, PCs
  <2>6. counted \subseteq slot /\ skew \in Int /\ \A c \in Child : pc[c] # "count"
    BY DEF Init
  <2> QED
    BY <2>1, <2>2, <2>3, <2>4, <2>5, <2>6 DEF Init, Types, TypeOK
<1>2. Known /\ Sent /\ Outlived
  BY DEF Init, Known, Sent, Outlived, Serving, Unborn
<1> QED
  BY <1>1, <1>2 DEF ServerInv

\* A child enters the pool only while there is room; who leaves makes room.
LEMMA SlotTypes ==
  ASSUME Types, NEW c \in Child
  PROVE  /\ slot \ {c} \subseteq Child /\ IsFiniteSet(slot \ {c}) /\ Cardinality(slot \ {c}) <= Slots
         /\ Cardinality(slot) < Slots =>
              /\ slot \cup {c} \subseteq Child /\ IsFiniteSet(slot \cup {c})
              /\ Cardinality(slot \cup {c}) <= Slots
<1>1. IsFiniteSet(slot) /\ slot \subseteq Child /\ Cardinality(slot) <= Slots
  BY DEF Types, TypeOK
<1>2. Cardinality(slot) \in Nat
  BY <1>1, FS_CardinalityType
<1>3. IsFiniteSet(slot \ {c}) /\ Cardinality(slot \ {c}) <= Cardinality(slot)
  BY <1>1, <1>2, FS_RemoveElement
<1>4. IsFiniteSet(slot \cup {c}) /\ Cardinality(slot \cup {c}) <= Cardinality(slot) + 1
  <2>1. /\ IsFiniteSet(slot \cup {c})
        /\ \/ Cardinality(slot \cup {c}) = Cardinality(slot)
           \/ Cardinality(slot \cup {c}) = Cardinality(slot) + 1
    BY <1>1, FS_AddElement, Zenon
  <2> QED
    BY <1>2, <2>1
<1>5. Cardinality(slot \ {c}) \in Nat /\ Cardinality(slot \cup {c}) \in Nat
  BY <1>3, <1>4, FS_CardinalityType
<1> QED
  BY <1>1, <1>2, <1>3, <1>4, <1>5, ServerAssumption

\* What an action leaves in the types it does not change.
SlotOK == slot \subseteq Child /\ IsFiniteSet(slot) /\ Cardinality(slot) <= Slots

CountedOK ==
  /\ counted \subseteq slot /\ skew \in Int
  /\ \A c \in Child : pc[c] = "count" => c \in slot

PlaceOK == pc \in [Child -> PCs] /\ sig \in [Child -> SUBSET {"HUP", "TERM"}]

ConfOK == conf \in 1 .. Versions /\ cconf \in [Child -> 1 .. Versions]

CountOK ==
  /\ kills \in Nat /\ hups \in Nat /\ kills + hups <= MaxFaults
  /\ reloads \in 0 .. MaxReloads

RoundOK ==
  /\ dpc \in {"top", "reap", "scale", "wait", "end", "sleep", "gone"}
  /\ nWait \in -1 .. SoftRounds + HardRounds
  /\ dpc = "sleep" => nWait >= 0
  /\ dpc \notin {"end", "sleep", "gone"} => nWait = SoftRounds + HardRounds

OtherOK ==
  /\ dsig \subseteq {"CHLD", "HUP", "TERM"} /\ moved \in BOOLEAN
  /\ newest \subseteq Child /\ bExit \subseteq Child /\ late \subseteq Child

\* The types, by what they are about.
LEMMA TypesAre ==
    Types <=> SlotOK /\ CountedOK /\ PlaceOK /\ ConfOK /\ CountOK /\ RoundOK /\ OtherOK
  BY DEF Types, TypeOK, SlotOK, CountedOK, PlaceOK, ConfOK, CountOK, RoundOK, OtherOK

\* Each step keeps the types of the slots,
LEMMA SlotStep == Types /\ [Next]_vars => SlotOK'
<1> SUFFICES ASSUME Types, [Next]_vars PROVE SlotOK'
  OBVIOUS
<1>0. SlotOK
  BY TypesAre
<1>1. ASSUME NEW c \in Child, slot' = slot \ {c} PROVE SlotOK'
  BY <1>1, SlotTypes DEF SlotOK
<1>2. ASSUME NEW c \in Child, slot' = slot \cup {c}, Cardinality(slot) < Slots PROVE SlotOK'
  BY <1>2, SlotTypes DEF SlotOK
<1>3. ASSUME UNCHANGED slot PROVE SlotOK'
  BY <1>0, <1>3 DEF SlotOK
<1>4. ASSUME NEW c \in Child, Works(c) \/ Accept(c) \/ HupChild(c) \/ Kill(c) \/ Fork(c) PROVE SlotOK'
  <2>1. \/ UNCHANGED slot \/ slot' = slot \ {c}
        \/ slot' = slot \cup {c} /\ Cardinality(slot) < Slots
    BY <1>4 DEF Works, InstallHandlers, Register, Count, Head, Timeout, Finish, End, Accept, HupChild, Kill, Fork, Pool
  <2> QED
    BY <2>1, <1>1, <1>2, <1>3
<1>5. ASSUME NEW c \in Child, Reap(c) PROVE SlotOK'
  BY <1>5, <1>1 DEF Reap
<1>6. ASSUME Daemon, \A c \in Child : ~Reap(c) PROVE SlotOK'
  <2>1. UNCHANGED slot
    BY <1>6 DEF Daemon, NoSignal, ChildSignal, ReapDone, Reload, Terminate, Scaled, WaitOver, Round,
                Slept, EndDaemon, Ask, TermAll, Pool, childVars
  <2> QED
    BY <2>1, <1>3
<1>7. ASSUME Request("HUP") \/ Request("TERM") PROVE SlotOK'
  BY <1>7, <1>3 DEF Request, childVars
<1>8. CASE UNCHANGED vars
  BY <1>8, <1>3 DEF vars, childVars
<1> QED
  BY <1>4, <1>5, <1>6, <1>7, <1>8 DEF Next

\* of what is counted,
LEMMA CountedStep == Types /\ [Next]_vars => CountedOK'
<1> SUFFICES ASSUME Types, [Next]_vars PROVE CountedOK'
  OBVIOUS
<1>0. CountedOK /\ PlaceOK
  BY TypesAre
<1> USE DEF CountedOK, PlaceOK, PCs, Goto
<1>1. ASSUME NEW c \in Child, Works(c) \/ Accept(c) PROVE CountedOK'
  <2>1. CASE InstallHandlers(c) \/ Head(c) \/ Timeout(c) \/ Finish(c) \/ Accept(c)
    BY <1>0, <2>1 DEF InstallHandlers, Head, Timeout, Finish, Accept, Pool
  <2>2. CASE Register(c)
    BY <1>0, <2>2 DEF Register
  <2>3. CASE Count(c)
    BY <1>0, <2>3 DEF Count
  <2>4. CASE End(c)
    BY <1>0, <2>4 DEF End
  <2> QED
    BY <1>1, <2>1, <2>2, <2>3, <2>4 DEF Works
<1>2. ASSUME NEW c \in Child, HupChild(c) \/ Fork(c) PROVE CountedOK'
  BY <1>0, <1>2 DEF HupChild, Fork, Pool
<1>3. ASSUME NEW c \in Child, Kill(c) \/ Reap(c) PROVE CountedOK'
  BY <1>0, <1>3 DEF Kill, Reap, Pool
<1>4. CASE Scaled \/ EndDaemon
  BY <1>0, <1>4 DEF Scaled, EndDaemon, Checked
<1>5. CASE Round
  <2>1. UNCHANGED slot /\ counted' \subseteq slot /\ skew' \in Int
    BY <1>0, <1>5 DEF Round, Checked, Ask, TermAll
  <2>2. \A c \in Child : pc'[c] = "count" => pc[c] = "count"
    <3>1. CASE TermAll
      BY <1>0, <3>1 DEF TermAll, Terminated
    <3> QED
      BY <1>5, <3>1 DEF Round, Ask
  <2> QED
    BY <1>0, <2>1, <2>2
<1>6. CASE Slept
  BY <1>0, <1>6 DEF Slept, Pool
<1>7. CASE NoSignal \/ ChildSignal \/ ReapDone \/ Reload \/ Terminate \/ WaitOver
  BY <1>0, <1>7 DEF NoSignal, ChildSignal, ReapDone, Reload, Terminate, WaitOver, Pool, childVars
<1>8. CASE Request("HUP") \/ Request("TERM") \/ UNCHANGED vars
  BY <1>0, <1>8 DEF Request, childVars, vars
<1> QED
  BY <1>1, <1>2, <1>3, <1>4, <1>5, <1>6, <1>7, <1>8 DEF Next, Daemon

\* of the places of children and signals,
LEMMA PlaceStep == Types /\ [Next]_vars => PlaceOK'
<1> SUFFICES ASSUME Types, [Next]_vars PROVE PlaceOK'
  OBVIOUS
<1>0. PlaceOK /\ dsig \subseteq {"CHLD", "HUP", "TERM"}
  BY TypesAre DEF OtherOK
<1> USE DEF PlaceOK, PCs, Goto
<1>1. ASSUME NEW c \in Child, Works(c) \/ Accept(c) PROVE PlaceOK'
  BY <1>0, <1>1 DEF Works, InstallHandlers, Register, Count, Head, Timeout, Finish, End, Accept
<1>2. ASSUME NEW c \in Child, HupChild(c) \/ Kill(c) PROVE PlaceOK'
  BY <1>0, <1>2 DEF HupChild, Kill
<1>3. ASSUME NEW c \in Child, Fork(c) PROVE PlaceOK'
  <2>1. dsig \ {"CHLD"} \in SUBSET {"HUP", "TERM"}
    BY <1>0
  <2> QED
    BY <1>0, <1>3, <2>1 DEF Fork
<1>4. ASSUME NEW c \in Child, Reap(c) PROVE PlaceOK'
  BY <1>0, <1>4 DEF Reap
<1>5. ASSUME TermAll PROVE PlaceOK'
  <2>1. PICK W \in SUBSET {c \in Child : pc[c] = "poll"} : pc' = [c \in Child |-> Terminated(c, W)]
    BY <1>5 DEF TermAll
  <2>2. \A c \in Child : Terminated(c, W) \in PCs
    BY <1>0 DEF Terminated
  <2>3. \A c \in Child : FlagsAfterTerm(c) \in SUBSET {"HUP", "TERM"}
    BY <1>0 DEF FlagsAfterTerm
  <2>4. sig' = [c \in Child |-> FlagsAfterTerm(c)]
    BY <1>5 DEF TermAll
  <2> QED
    BY <2>1, <2>2, <2>3, <2>4
<1>6. ASSUME Slept PROVE PlaceOK'
  BY <1>0, <1>6 DEF Slept
<1>7. ASSUME Daemon, ~Slept, ~TermAll, \A c \in Child : ~Reap(c) PROVE PlaceOK'
  <2>1. UNCHANGED <<pc, sig>>
    BY <1>7 DEF Daemon, NoSignal, ChildSignal, ReapDone, Reload, Terminate, Scaled, WaitOver, Round,
                EndDaemon, Ask, childVars
  <2> QED
    BY <1>0, <2>1
<1>8. CASE Request("HUP") \/ Request("TERM") \/ UNCHANGED vars
  <2>1. UNCHANGED <<pc, sig>>
    BY <1>8 DEF Request, childVars, vars
  <2> QED
    BY <1>0, <2>1
<1> QED
  BY <1>1, <1>2, <1>3, <1>4, <1>5, <1>6, <1>7, <1>8 DEF Next

\* of the configurations,
LEMMA ConfStep == Types /\ [Next]_vars => ConfOK'
<1> SUFFICES ASSUME Types, [Next]_vars PROVE ConfOK'
  OBVIOUS
<1>0. ConfOK
  BY TypesAre
<1>1. ASSUME NEW c \in Child, Fork(c) PROVE ConfOK'
  BY <1>0, <1>1 DEF ConfOK, Fork
<1>2. ASSUME Reload PROVE ConfOK'
  BY <1>0, <1>2, ServerAssumption DEF ConfOK, Reload
<1>3. ASSUME ~Reload, \A c \in Child : ~Fork(c) PROVE UNCHANGED <<conf, cconf>>
  BY <1>3 DEF Next, Works, InstallHandlers, Register, Count, Head, Timeout, Finish, End, Accept, HupChild, Kill,
     Request, Daemon, NoSignal, ChildSignal, Reap, ReapDone, Terminate, Scaled, WaitOver, Round, Slept,
     EndDaemon, Ask, TermAll, childVars, daemonVars, vars
<1> QED
  BY <1>0, <1>1, <1>2, <1>3 DEF ConfOK

\* of the counts,
LEMMA CountStep == Types /\ [Next]_vars => CountOK'
<1> SUFFICES ASSUME Types, [Next]_vars PROVE CountOK'
  OBVIOUS
<1>0. CountOK
  BY TypesAre
<1>1. ASSUME NEW c \in Child, HupChild(c) PROVE CountOK'
  BY <1>0, <1>1, ServerAssumption DEF CountOK, HupChild
<1>2. ASSUME NEW c \in Child, Kill(c) PROVE CountOK'
  BY <1>0, <1>2, ServerAssumption DEF CountOK, Kill
<1>3. ASSUME Request("HUP") PROVE CountOK'
  BY <1>0, <1>3, ServerAssumption DEF CountOK, Request
<1>4. ASSUME Request("TERM") PROVE CountOK'
  BY <1>0, <1>4 DEF CountOK, Request
<1>5. ASSUME NEW c \in Child, Works(c) \/ Accept(c) \/ Fork(c) PROVE UNCHANGED <<kills, hups, reloads>>
  BY <1>5 DEF Works, InstallHandlers, Register, Count, Head, Timeout, Finish, End, Accept, Fork, history
<1>6. ASSUME Daemon PROVE UNCHANGED <<kills, hups, reloads>>
  BY <1>6 DEF Daemon, NoSignal, ChildSignal, Reap, ReapDone, Reload, Terminate, Scaled, WaitOver, Round,
              Slept, EndDaemon, history
<1>7. CASE UNCHANGED vars
  BY <1>0, <1>7 DEF vars, history, CountOK
<1> QED
  BY <1>0, <1>1, <1>2, <1>3, <1>4, <1>5, <1>6, <1>7 DEF Next, CountOK

\* The daemon counts its rounds down to -1, and only in daemonEnd.
LEMMA RoundStep == Types /\ [Next]_vars => RoundOK'
<1> SUFFICES ASSUME Types, [Next]_vars PROVE RoundOK'
  OBVIOUS
<1>0. RoundOK
  BY TypesAre
<1>1. ASSUME NEW c \in Child, Fork(c) PROVE RoundOK'
  BY <1>0, <1>1 DEF RoundOK, Fork
<1>2. ASSUME NEW c \in Child, Works(c) \/ Accept(c) \/ HupChild(c) \/ Kill(c) \/ Reap(c)
      PROVE  UNCHANGED <<dpc, nWait>>
  BY <1>2 DEF Works, InstallHandlers, Register, Count, Head, Timeout, Finish, End, Accept, HupChild, Kill, Reap,
              daemonVars
<1>3. CASE NoSignal \/ ChildSignal \/ Reload \/ Terminate
  BY <1>0, <1>3 DEF RoundOK, NoSignal, ChildSignal, Reload, Terminate, Top
<1>4. CASE ReapDone \/ Scaled \/ WaitOver
  BY <1>0, <1>4 DEF RoundOK, ReapDone, Scaled, WaitOver
<1>5. CASE Round
  BY <1>0, <1>5 DEF RoundOK, Round, WaitsOn
<1>6. CASE Slept
  BY <1>0, <1>6, ServerAssumption DEF RoundOK, Slept
<1>7. CASE EndDaemon
  BY <1>0, <1>7 DEF RoundOK, EndDaemon
<1>8. CASE Request("HUP") \/ Request("TERM") \/ UNCHANGED vars
  BY <1>0, <1>8 DEF RoundOK, Request, vars, daemonVars
<1> QED
  BY <1>0, <1>1, <1>2, <1>3, <1>4, <1>5, <1>6, <1>7, <1>8 DEF Next, Daemon, RoundOK

\* of the rest,
LEMMA OtherStep == Types /\ [Next]_vars => OtherOK'
<1> SUFFICES ASSUME Types, [Next]_vars PROVE OtherOK'
  OBVIOUS
<1>0. OtherOK /\ slot \subseteq Child
  BY TypesAre DEF SlotOK
<1> USE DEF OtherOK
<1>1. ASSUME NEW c \in Child, Works(c) \/ Accept(c) PROVE OtherOK'
  BY <1>0, <1>1 DEF Works, InstallHandlers, Register, Count, Head, Timeout, Finish, End, Accept, daemonVars, history
<1>2. ASSUME NEW c \in Child, HupChild(c) \/ Kill(c) PROVE OtherOK'
  BY <1>0, <1>2 DEF HupChild, Kill, daemonVars
<1>3. ASSUME NEW c \in Child, Fork(c) \/ Reap(c) PROVE OtherOK'
  BY <1>0, <1>3 DEF Fork, Reap, daemonVars, history
<1>4. CASE NoSignal \/ ChildSignal \/ Terminate \/ ReapDone \/ Scaled
  BY <1>0, <1>4 DEF NoSignal, ChildSignal, Terminate, ReapDone, Scaled, Top, childVars, history
<1>5. CASE Reload
  BY <1>0, <1>5 DEF Reload, Top, AskedAll, history
<1>6. CASE WaitOver
  BY <1>0, <1>6 DEF WaitOver, childVars
<1>7. CASE Round
  <2>1. UNCHANGED <<dsig, moved, newest, late>>
    BY <1>7 DEF Round, history
  <2>2. bExit' \subseteq Child
    <3>1. CASE Ask
      BY <1>0, <3>1 DEF Ask, Idle
    <3>2. CASE TermAll
      BY <1>0, <3>2 DEF TermAll
    <3> QED
      BY <1>0, <1>7, <3>1, <3>2 DEF Round, childVars
  <2> QED
    BY <1>0, <2>1, <2>2
<1>8. CASE Slept \/ EndDaemon
  BY <1>0, <1>8 DEF Slept, EndDaemon, childVars, history
<1>9. CASE Request("HUP") \/ Request("TERM")
  BY <1>0, <1>9 DEF Request, childVars
<1>10. CASE UNCHANGED vars
  BY <1>0, <1>10 DEF vars, daemonVars, childVars, history
<1> QED
  BY <1>1, <1>2, <1>3, <1>4, <1>5, <1>6, <1>7, <1>8, <1>9, <1>10 DEF Next, Daemon

\* and so all of them.
LEMMA TypesStep == Types /\ [Next]_vars => Types'
<1>1. (Types <=> SlotOK /\ CountedOK /\ PlaceOK /\ ConfOK /\ CountOK /\ RoundOK /\ OtherOK)'
  BY TypesAre, PTL
<1> QED
  BY <1>1, SlotStep, CountedStep, PlaceStep, ConfStep, CountStep, RoundStep, OtherStep

\* Every reachable state of the server is typed: the pool never holds more
\* children than slots, and daemonEnd never waits longer than its rounds.
THEOREM TypeCorrect == Spec => []TypeOK
<1>1. Init => Types
  BY InitServerInv DEF ServerInv
<1>2. Types => TypeOK
  BY DEF Types
<1> QED
  BY <1>1, <1>2, TypesStep, PTL DEF Spec
-----------------------------------------------------------------------------
(* Who is still there when the daemon ends *)

\* A child that was serving, or had not registered, does so after a step or has
\* just registered or been forked, while the pool and the late ones stay.
LEMMA KnownStep == Types /\ Known /\ [Next]_vars => Known'
<1> SUFFICES ASSUME Types, Known, [Next]_vars PROVE Known'
  OBVIOUS
<1>0. PlaceOK /\ RoundOK /\ CountedOK
  BY TypesAre
<1> USE DEF Known, Serving, Unborn, PlaceOK, PCs, Goto
<1>1. ASSUME NEW c \in Child, Works(c) \/ Accept(c) PROVE Known'
  <2>1. CASE Register(c)
    BY <1>0, <2>1 DEF Register, history
  <2>2. CASE End(c)
    BY <1>0, <2>2 DEF End, history
  <2>3. CASE InstallHandlers(c) \/ Head(c) \/ Timeout(c) \/ Finish(c) \/ Accept(c)
    BY <1>0, <2>3 DEF InstallHandlers, Head, Timeout, Finish, Accept, Pool, daemonVars, history
  <2>4. CASE Count(c)
    BY <1>0, <2>4 DEF Count, daemonVars, history
  <2> QED
    BY <1>1, <2>1, <2>2, <2>3, <2>4 DEF Works
<1>2. ASSUME NEW c \in Child, HupChild(c) \/ Kill(c) PROVE Known'
  BY <1>0, <1>2 DEF HupChild, Kill, Pool, daemonVars
<1>3. ASSUME NEW c \in Child, Fork(c) PROVE Known'
  BY <1>0, <1>3 DEF Fork, Pool
<1>4. ASSUME NEW c \in Child, Reap(c) PROVE Known'
  BY <1>0, <1>4 DEF Reap, daemonVars, history
<1>5. CASE NoSignal \/ ChildSignal \/ Reload \/ Terminate \/ ReapDone
  BY <1>5 DEF NoSignal, ChildSignal, Reload, Terminate, ReapDone, Top, Pool, childVars, history
<1>6. CASE WaitOver
  BY <1>6 DEF WaitOver, childVars
<1>7. CASE Round
  <2>1. UNCHANGED <<late, newest, slot>> /\ dpc = "end" /\ counted \subseteq counted'
    BY <1>0, <1>7 DEF Round, Checked, Ask, TermAll, CountedOK, history
  <2>2. \A c \in Child : pc'[c] = pc[c] \/ pc'[c] \in {"ending", "quit"}
    <3>1. CASE TermAll
      BY <3>1 DEF TermAll, Terminated
    <3> QED
      BY <1>7, <3>1 DEF Round, Ask
  <2> QED
    BY <2>1, <2>2
<1>8. CASE Slept
  BY <1>0, <1>8 DEF Slept, Pool, history
<1>10. CASE Scaled \/ EndDaemon
  BY <1>0, <1>10 DEF Scaled, EndDaemon, Checked, CountedOK, history
<1>9. CASE Request("HUP") \/ Request("TERM") \/ UNCHANGED vars
  BY <1>9 DEF Request, childVars, vars, daemonVars, history
<1> QED
  BY <1>1, <1>2, <1>3, <1>4, <1>5, <1>6, <1>7, <1>8, <1>9, <1>10 DEF Next, Daemon

\* Only a signal sets a pending SIGHUP of a child that can act on it.
LEMMA SentStep == Types /\ Sent /\ [Next]_vars => Sent'
<1> SUFFICES ASSUME Types, Sent, [Next]_vars PROVE Sent'
  OBVIOUS
<1>0. PlaceOK /\ CountOK
  BY TypesAre
<1> USE DEF Sent, Serving, PlaceOK, CountOK, PCs, Goto
<1>1. ASSUME NEW c \in Child, Works(c) \/ Accept(c) PROVE Sent'
  <2>1. CASE InstallHandlers(c) \/ Head(c)
    BY <1>0, <2>1 DEF InstallHandlers, Head, history
  <2>2. CASE Register(c) \/ Count(c) \/ Timeout(c) \/ Finish(c) \/ End(c) \/ Accept(c)
    BY <1>0, <2>2 DEF Register, Count, Timeout, Finish, End, Accept, history
  <2> QED
    BY <1>1, <2>1, <2>2 DEF Works
<1>2. ASSUME NEW c \in Child, HupChild(c) PROVE Sent'
  BY <1>0, <1>2 DEF HupChild
<1>3. ASSUME NEW c \in Child, Kill(c) \/ Fork(c) \/ Reap(c) PROVE Sent'
  BY <1>0, <1>3 DEF Kill, Fork, Reap, history
<1>4. CASE Round
  <2>1. UNCHANGED hups
    BY <1>4 DEF Round, history
  <2>2. \A c \in Child : /\ pc'[c] = pc[c] \/ pc'[c] \in {"ending", "quit"}
                         /\ "HUP" \in sig'[c] => "HUP" \in sig[c]
    <3>1. CASE TermAll
      BY <1>0, <3>1 DEF TermAll, Terminated, FlagsAfterTerm
    <3> QED
      BY <1>4, <3>1 DEF Round, Ask
  <2>3. ASSUME NEW c \in Child, (Serving(c) \/ pc[c] = "boot")', "HUP" \in sig'[c] PROVE hups' >= 1
    <3>1. pc'[c] = pc[c] /\ "HUP" \in sig[c]
      BY <2>2, <2>3
    <3> QED
      BY <2>1, <2>3, <3>1
  <2> QED
    BY <2>3
<1>5. CASE Slept
  BY <1>0, <1>5 DEF Slept, history
<1>6. ASSUME Daemon, ~Round, ~Slept, \A c \in Child : ~Reap(c) PROVE UNCHANGED <<pc, sig, hups>>
  BY <1>6 DEF Daemon, NoSignal, ChildSignal, ReapDone, Reload, Terminate, Scaled, WaitOver, EndDaemon,
              childVars, history
<1>7. CASE Request("HUP") \/ Request("TERM") \/ UNCHANGED vars
  BY <1>7 DEF Request, childVars, vars, history
<1> QED
  BY <1>1, <1>2, <1>3, <1>4, <1>5, <1>6, <1>7 DEF Next

\* A SIGTERM leaves a child serving only if a SIGHUP was pending, and that one
\* is then used up.
LEMMA TermTakesHup ==
  ASSUME PlaceOK, TermAll, NEW c \in Child, Serving(c)'
  PROVE  Serving(c) /\ "HUP" \in sig[c] /\ "HUP" \notin sig'[c]
<1> USE DEF PlaceOK, PCs, Serving
<1>1. PICK W \in SUBSET {x \in Child : pc[x] = "poll"} : pc'[c] = Terminated(c, W)
  BY DEF TermAll
<1>2. sig'[c] = FlagsAfterTerm(c)
  BY DEF TermAll
<1>3. pc'[c] \in {"count", "head", "poll", "busy"}
  OBVIOUS
<1>4. Deferred(c) \/ ~Struck(c)
  BY <1>1, <1>3 DEF Terminated
<1>5. Serving(c)
  BY <1>1, <1>3, <1>4 DEF Terminated
<1>6. Deferred(c)
  BY <1>4, <1>5 DEF Struck, Alive, Leaving
<1>7. sig'[c] = (sig[c] \ {"HUP"}) \cup {"TERM"}
  BY <1>2, <1>6 DEF FlagsAfterTerm, Deferred, Struck
<1> QED
  BY <1>5, <1>6, <1>7 DEF Deferred

\* Each step keeps Outlived: a child that still serves had a SIGHUP for each round of the end.
LEMMA OutlivedStep == ServerInv /\ [Next]_vars => Outlived'
<1> SUFFICES ASSUME Types, Known, Sent, Outlived, [Next]_vars,
                    NEW c \in Child, c \notin late', Serving(c)'
             PROVE  /\ dpc' \in {"end", "sleep"} =>
                         hups' >= TermRounds' + (IF "HUP" \in sig'[c] THEN 1 ELSE 0)
                    /\ dpc' = "gone" => hups' >= HardRounds \/ skew' # 0
  BY DEF ServerInv, Outlived
<1>0. SlotOK /\ CountedOK /\ PlaceOK /\ CountOK /\ RoundOK /\ SoftRounds \in Nat /\ HardRounds \in Nat
  BY TypesAre, ServerAssumption
<1> DEFINE Bit == IF "HUP" \in sig[c] THEN 1 ELSE 0
           P == /\ dpc \in {"end", "sleep"} => hups >= TermRounds + Bit
                /\ dpc = "gone" => hups >= HardRounds \/ skew # 0
<1>a. ASSUME Serving(c), c \notin late PROVE P
  BY <1>a DEF Outlived
<1>b. ASSUME P, UNCHANGED <<dpc, nWait, hups>>, dpc = "gone" => UNCHANGED skew,
             "HUP" \in sig'[c] => "HUP" \in sig[c]
      PROVE  P'
  <2>1. TermRounds' = TermRounds /\ TermRounds \in Int
    BY <1>0, <1>b DEF TermRounds, RoundOK
  <2>2. Bit \in {0, 1} /\ Bit' \in {0, 1} /\ Bit' <= Bit
    BY <1>b
  <2> QED
    BY <1>0, <1>b, <2>1, <2>2 DEF CountOK
<1>c. ASSUME Serving(c), hups \in Nat PROVE hups >= Bit
  BY <1>c DEF Sent
<1> USE DEF PlaceOK, PCs, Goto
<1>1. ASSUME NEW x \in Child, Works(x) \/ Accept(x) PROVE P'
  <2>1. UNCHANGED <<dpc, nWait, hups, late, skew>>
    BY <1>1 DEF Works, InstallHandlers, Register, Count, Head, Timeout, Finish, End, Accept, Pool, daemonVars,
                history
  <2>2. CASE Register(x) /\ x = c
    <3>1. dpc = "wait"
      BY <2>1, <2>2 DEF Register, Known, Unborn
    <3> QED
      BY <2>1, <3>1
  <2>3. CASE ~(Register(x) /\ x = c)
    <3>1. Serving(c)
      BY <1>0, <1>1, <2>3 DEF Works, InstallHandlers, Register, Count, Head, Timeout, Finish, End, Accept, Serving
    <3>2. "HUP" \in sig'[c] => "HUP" \in sig[c]
      BY <1>0, <1>1 DEF Works, InstallHandlers, Register, Count, Head, Timeout, Finish, End, Accept
    <3> QED
      BY <1>a, <1>b, <2>1, <3>1, <3>2
  <2> QED
    BY <2>2, <2>3
<1>2. ASSUME NEW x \in Child, HupChild(x) PROVE P'
  <2>1. UNCHANGED <<dpc, nWait, late, skew>> /\ hups' = hups + 1
    BY <1>2 DEF HupChild, Pool, daemonVars
  <2>2. Serving(c)
    BY <1>0, <1>2 DEF HupChild, Serving
  <2>3. P
    BY <1>a, <2>1, <2>2
  <2>4. TermRounds' = TermRounds /\ TermRounds \in Int
    BY <1>0, <2>1 DEF TermRounds, RoundOK
  <2>5. Bit \in {0, 1} /\ Bit' \in {0, 1}
    OBVIOUS
  <2> QED
    BY <1>0, <2>1, <2>3, <2>4, <2>5 DEF CountOK
<1>3. ASSUME NEW x \in Child, Kill(x) PROVE P'
  <2>1. UNCHANGED <<dpc, nWait, hups, late, sig>> /\ dpc # "gone"
    BY <1>3 DEF Kill, Locked
  <2>2. Serving(c)
    BY <1>0, <1>3 DEF Kill, Serving
  <2> QED
    BY <1>a, <1>b, <2>1, <2>2
<1>4. ASSUME dpc' \notin {"end", "sleep", "gone"} PROVE P'
  BY <1>4
<1>5. CASE Round
  <2>1. UNCHANGED <<nWait, hups, late>> /\ dpc = "end" /\ dpc' = "sleep" /\ nWait >= 0
    BY <1>5 DEF Round, WaitsOn, history
  <2>2. CASE TermAll /\ nWait \in 1 .. HardRounds
    <3>1. Serving(c) /\ "HUP" \in sig[c] /\ "HUP" \notin sig'[c]
      BY <1>0, <2>2, TermTakesHup
    <3>2. P
      BY <1>a, <2>1, <3>1
    <3>3. TermRounds' = TermRounds + 1 /\ TermRounds \in Int
      BY <1>0, <2>1, <2>2 DEF TermRounds, RoundOK
    <3> QED
      BY <1>0, <2>1, <3>1, <3>2, <3>3 DEF CountOK
  <2>3. CASE UNCHANGED <<pc, sig>> /\ (nWait > HardRounds \/ nWait = 0)
    <3>1. Serving(c) /\ Bit' = Bit
      BY <2>3 DEF Serving
    <3>2. P /\ hups >= Bit
      BY <1>0, <1>a, <1>c, <2>1, <3>1 DEF CountOK
    <3>3. TermRounds' \in Int /\ (TermRounds' <= 0 \/ TermRounds' = TermRounds)
      BY <1>0, <2>1, <2>3 DEF TermRounds, RoundOK
    <3> QED
      BY <1>0, <2>1, <3>1, <3>2, <3>3 DEF CountOK
  <2> QED
    BY <1>5, <2>2, <2>3 DEF Round, Ask
<1>6. CASE Slept
  <2>1. /\ UNCHANGED <<hups, late, sig>> /\ dpc = "sleep" /\ dpc' = "end"
        /\ nWait' = nWait - 1 /\ nWait >= 0
    BY <1>0, <1>6 DEF Slept, history, RoundOK
  <2>2. Serving(c)
    BY <1>0, <1>6 DEF Slept, Serving
  <2>3. TermRounds' = TermRounds
    BY <1>0, <2>1 DEF TermRounds, RoundOK
  <2> QED
    BY <1>a, <2>1, <2>2, <2>3
<1>7. CASE Terminate
  <2>1. /\ UNCHANGED <<pc, sig, hups, late, nWait>> /\ dpc = "top" /\ dpc' = "end"
        /\ nWait = SoftRounds + HardRounds
    BY <1>0, <1>7 DEF Terminate, Top, childVars, history, RoundOK
  <2>2. Serving(c) /\ Bit' = Bit
    BY <2>1 DEF Serving
  <2>3. TermRounds' \in Int /\ TermRounds' <= 0
    BY <1>0, <2>1 DEF TermRounds
  <2>4. hups \in Nat /\ hups >= Bit /\ Bit \in {0, 1}
    BY <1>0, <1>c, <2>2 DEF CountOK
  <2>5. ASSUME NEW t \in Int, t <= 0, NEW h \in Nat, NEW b \in {0, 1}, h >= b PROVE h >= t + b
    BY <2>5
  <2>6. hups' >= TermRounds' + Bit'
    <3> HIDE DEF Bit, P
    <3> QED
      BY <2>1, <2>2, <2>3, <2>4, <2>5
  <2> QED
    BY <2>1, <2>6
<1>8. CASE EndDaemon
  <2>1. /\ UNCHANGED <<pc, sig, hups, nWait>> /\ dpc = "end" /\ dpc' = "gone"
        /\ late' = late \cup {x \in Child : pc[x] = "count"}
        /\ nWait < 0 \/ ~(nRunningChilds' > 0)
    BY <1>0, <1>8 DEF EndDaemon, WaitsOn, RoundOK
  <2>2. Serving(c) /\ pc[c] # "count" /\ c \notin late
    BY <2>1 DEF Serving
  <2>3. c \in counted' /\ counted' \subseteq slot /\ skew' \in Int
    BY <1>0, <1>8, <2>2 DEF EndDaemon, Checked, Known, CountedOK
  <2>4. CASE nWait < 0
    <3>1. P
      BY <1>a, <2>2
    <3>2. TermRounds = HardRounds
      BY <1>0, <2>1, <2>4 DEF TermRounds, RoundOK
    <3> QED
      BY <1>0, <2>1, <3>1, <3>2 DEF CountOK
  <2>5. CASE ~(nRunningChilds' > 0)
    <3>1. IsFiniteSet(counted') /\ Cardinality(counted') \in Nat
      BY <1>0, <2>3, FS_Subset, FS_CardinalityType DEF SlotOK
    <3>2. Cardinality(counted') # 0
      BY <2>3, <3>1, FS_EmptySet
    <3>3. nRunningChilds' = Cardinality(counted') + skew'
      BY DEF nRunningChilds
    <3>4. skew' # 0
      <4> HIDE DEF P
      <4> QED
        BY <2>3, <2>5, <3>1, <3>2, <3>3
    <3> QED
      BY <2>1, <3>4
  <2> QED
    BY <2>1, <2>4, <2>5
<1>9. CASE Request("HUP") \/ Request("TERM") \/ UNCHANGED vars
  <2>1. UNCHANGED <<dpc, nWait, hups, late, pc, sig, skew>>
    BY <1>9 DEF Request, childVars, vars, daemonVars, history
  <2> QED
    BY <1>a, <1>b, <2>1 DEF Serving
<1>10. ASSUME NEW x \in Child, Fork(x) \/ Reap(x) PROVE dpc' \notin {"end", "sleep", "gone"}
  BY <1>10 DEF Fork, Reap, daemonVars
<1>11. CASE NoSignal \/ ChildSignal \/ Reload \/ ReapDone \/ Scaled \/ WaitOver
  <2>1. dpc' \notin {"end", "sleep", "gone"}
    BY <1>11 DEF NoSignal, ChildSignal, Reload, ReapDone, Scaled, WaitOver, Top
  <2> QED
    BY <1>4, <2>1
<1>12. P'
  BY <1>1, <1>2, <1>3, <1>4, <1>5, <1>6, <1>7, <1>8, <1>9, <1>10, <1>11 DEF Next, Daemon
<1> QED
  BY <1>12

\* All four parts together are inductive.
LEMMA ServerInvariant == Spec => []ServerInv
<1>1. ServerInv /\ [Next]_vars => ServerInv'
  BY TypesStep, KnownStep, SentStep, OutlivedStep DEF ServerInv
<1> QED
  BY <1>1, InitServerInv, PTL DEF Spec

\* When daemonEnd is over, no child that the daemon had waited for goes on
\* serving, unless it got as many SIGHUPs as there are rounds with a SIGTERM, or the
\* daemon counted wrong.
THEOREM NoneServesCorrect == Spec => []NoneServes
<1>1. ServerInv => NoneServes
  <2> SUFFICES ASSUME ServerInv PROVE NoneServes
    OBVIOUS
  <2>1. TypeOK
    BY DEF ServerInv, Types
  <2>2. ASSUME dpc = "gone", hups < HardRounds, skew = 0, NEW c \in Child \ late PROVE Leaving(c)
    <3>1. HardRounds \in Nat /\ hups \in Nat
      BY <2>1, ServerAssumption DEF TypeOK
    <3>2. ~Serving(c)
      BY <2>2, <3>1 DEF ServerInv, Outlived
    <3>3. ~Unborn(c)
      BY <2>2 DEF ServerInv, Known
    <3>4. pc[c] \in PCs
      BY <2>1 DEF TypeOK
    <3> QED
      BY <3>2, <3>3, <3>4 DEF PCs, Serving, Unborn, Leaving
  <2> QED
    BY <2>1, <2>2 DEF NoneServes
<1> QED
  BY <1>1, ServerInvariant, PTL
=============================================================================
