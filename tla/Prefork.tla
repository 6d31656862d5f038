------------------------------ MODULE Prefork ------------------------------
(***************************************************************************)
(* The scaling loop of daemonStart: the daemon counts the children, keeps  *)
(* the number of idle ones between MinSpareServers and MaxSpareServers,    *)
(* forks, waits until the new child is registered, and asks idle ones to   *)
(* exit.  Children are counted, not named.  The daemon reads each counter  *)
(* at a moment of its own and takes no lock, so it may look while a child  *)
(* is half registered; that the counters are exact outside the critical    *)
(* sections is what Pool shows.                                            *)
(***************************************************************************)
EXTENDS Integers

CONSTANTS
  StartServers, MinSpareServers, MaxSpareServers, MaxClients, \* configuration
  MaxChilds,         \* MAX_CHILDS
  KillIdleInterval, MaxPreforkAtOnce,  \* KILL_IDLE_INTERVAL and so on
  MaxBorn, MaxFailures, MaxRetired     \* bounds, not in the code

ASSUME PreforkAssumption ==
  /\ {StartServers, MinSpareServers, MaxSpareServers, MaxClients, MaxChilds,
      KillIdleInterval, MaxPreforkAtOnce, MaxBorn, MaxFailures,
      MaxRetired} \subseteq Nat
  /\ KillIdleInterval > 0 /\ MaxPreforkAtOnce > 0

\* poolInit: the slots of the pool.
MaxChild == IF MaxClients > MaxChilds THEN MaxChilds ELSE MaxClients

\* What no code checks of a configuration: the servers to start and the clients
\* to serve find slots.
Configured == StartServers <= MaxClients /\ MaxClients <= MaxChilds

VARIABLES
  born,       \* children forked that have not registered
  half,       \* children that have a slot and are not in nRunningChilds yet
  child,      \* child[<<l, a>>]: registered children at l, asked or not
  moved,      \* poolGetTotalLaunched() # nTotalLaunched
  dpc,        \* where the daemon is
  nIdleChilds, nRunningChilds,  \* what it has counted
  nChildFlag, \* n: spares required, -n: times over the maximum, 0: no action
  tries,      \* i of the loop that forks
  failures,   \* forks that failed so far
  retired,    \* children that reached their limit of requests so far
  delayed,    \* history: the daemon may have given up on an unborn child
  stale,      \* history: nChildFlag is left from a fork that failed
  early       \* history: the last count missed a child that is half registered

childVars == <<born, half, child, moved, retired>>
counted   == <<nIdleChilds, nRunningChilds>>
history   == <<failures, delayed, stale, early>>
vars == <<childVars, dpc, counted, nChildFlag, tries, history>>

\* The head of the loop of childStart; waiting for a connection; with one;
\* and out of the loop, until the slot is empty.
Place == {"loop", "wait", "work", "leave"}

\* bExit
Flag == {"kept", "asked"}

At(l) == child[<<l, "kept">>] + child[<<l, "asked">>]
Working == At("work")
Idle == At("loop") + At("wait") + At("leave")
Running == Working + Idle
Slots == Running + half

TypeOK ==
  /\ born \in Nat /\ half \in {0, 1} /\ child \in [Place \X Flag -> Nat]
  /\ Slots <= MaxChild
  /\ {moved, delayed, stale, early} \subseteq BOOLEAN
  /\ dpc \in {"top", "idle", "minus", "plus", "running",
              "launch", "register", "ask"}
  /\ nIdleChilds \in Int /\ nRunningChilds \in Nat
  /\ nChildFlag \in Int /\ nChildFlag >= -KillIdleInterval
  /\ tries \in 0 .. MaxPreforkAtOnce - 1
  /\ failures \in Nat /\ retired \in Nat

Init ==
  /\ born = 0 /\ half = 0 /\ child = [x \in Place \X Flag |-> 0]
  /\ moved = FALSE
  /\ dpc = "top" /\ nIdleChilds = 0 /\ nRunningChilds = 0
  /\ nChildFlag = 0 /\ tries = 0
  /\ failures = 0 /\ retired = 0 /\ delayed = FALSE /\ stale = FALSE
  /\ early = FALSE

-----------------------------------------------------------------------------
(* The children *)

Move(l, m, a) ==
  /\ child[<<l, a>>] > 0
  /\ child' = [child EXCEPT ![<<l, a>>] = @ - 1, ![<<m, a>>] = @ + 1]

OnlyChildren == UNCHANGED <<dpc, counted, nChildFlag, tries, history>>

\* No child is inside the section of poolChildReg.
Unlocked == half = 0

\* poolChildReg: a child takes a slot, and the launch is counted, even if there
\* is no slot and the child ends at once.
Launch ==
  /\ Unlocked /\ born > 0 /\ born' = born - 1
  /\ moved' = TRUE
  /\ half' = IF Running < MaxChild THEN 1 ELSE 0
  /\ UNCHANGED <<child, retired>> /\ OnlyChildren

\* The next write of poolChildReg counts the child itself.
Register ==
  /\ half > 0 /\ half' = half - 1
  /\ child' = [child EXCEPT ![<<"loop", "kept">>] = @ + 1]
  /\ UNCHANGED <<born, moved, retired>> /\ OnlyChildren

Stay == UNCHANGED <<born, half, moved, retired>> /\ OnlyChildren

LoopHead(a) == Move("loop", IF a = "asked" THEN "leave" ELSE "wait", a) /\ Stay
Timeout(a)  == Move("wait", "loop", a) /\ Stay
Accept(a)   == Move("wait", "work", a) /\ Stay
Finish(a)   == Move("work", "loop", a) /\ Stay

\* Too long without a connection, and the counters say there are enough.
LeaveIdle(a) ==
  /\ Running > StartServers /\ Idle > MinSpareServers
  /\ Move("wait", "leave", a) /\ Stay

\* MaxRequestsPerChild
Retire(a) ==
  /\ retired < MaxRetired /\ retired' = retired + 1
  /\ Move("loop", "leave", a)
  /\ UNCHANGED <<born, half, moved>> /\ OnlyChildren

\* poolChildDel, by the child or by the daemon
Delete(a) ==
  /\ Unlocked
  /\ child[<<"leave", a>>] > 0
  /\ child' = [child EXCEPT ![<<"leave", a>>] = @ - 1]
  /\ Stay

-----------------------------------------------------------------------------
(* The daemon *)

\* poolGetTotalLaunched
Sample ==
  /\ dpc = "top"
  /\ moved' = FALSE
  /\ delayed' = (delayed /\ born > 0)
  /\ dpc' = "idle"
  /\ UNCHANGED <<born, half, child, retired, counted, nChildFlag, tries>>
  /\ UNCHANGED <<failures, stale, early>>

\* poolGetNumChilds takes no lock: for the idle it reads one counter and then
\* the other, in either order, ...
CountIdle ==
  /\ \/ /\ dpc = "idle"
        /\ \/ nIdleChilds' = Running /\ dpc' = "minus"
           \/ nIdleChilds' = -Working /\ dpc' = "plus"
     \/ /\ dpc = "minus" /\ dpc' = "running"
        /\ nIdleChilds' = nIdleChilds - Working
     \/ /\ dpc = "plus" /\ dpc' = "running"
        /\ nIdleChilds' = nIdleChilds + Running
  /\ UNCHANGED <<childVars, nRunningChilds, nChildFlag, tries, history>>

\* ... and again for the running.
TooFew(r) == r < StartServers
Short(r, i) == ~TooFew(r) /\ i < MinSpareServers
Over(r, i) == ~TooFew(r) /\ i > MaxSpareServers /\ r > StartServers

\* Nothing is assigned when all clients are in use and some, but too few, of
\* the children are idle.
Unassigned(r, i) == Short(r, i) /\ r >= MaxClients /\ i > 0

\* Spares wanted, within MaxClients.
Wanted(r, i) ==
  IF MinSpareServers - i + r > MaxClients
  THEN MaxClients - r ELSE MinSpareServers - i

\* Mutant of NewFlag: idle children are not kept in reserve.
NewFlagNoSpare(r, i) ==
  CASE TooFew(r)        -> StartServers - r
    [] Unassigned(r, i) -> nChildFlag
    [] Over(r, i)       -> nChildFlag - 1
    [] OTHER            -> 0

\* Mutant of NewFlag: rounds over the maximum are not added up.
NewFlagForgets(r, i) ==
  CASE TooFew(r)                     -> StartServers - r
    [] Short(r, i) /\ r < MaxClients -> Wanted(r, i)
    [] Unassigned(r, i)              -> nChildFlag
    [] OTHER                         -> 0

NewFlag(r, i) ==
  CASE TooFew(r)                     -> StartServers - r
    [] Short(r, i) /\ r < MaxClients -> Wanted(r, i)
    [] Unassigned(r, i)              -> nChildFlag
    [] Over(r, i)                    -> nChildFlag - 1
    [] OTHER                         -> 0

Decide ==
  LET flag == NewFlag(Running, nIdleChilds) IN
  /\ dpc = "running"
  /\ nRunningChilds' = Running
  /\ nChildFlag' = flag
  /\ dpc' = CASE flag > 0 -> "launch"
              [] flag <= -KillIdleInterval -> "ask"
              [] OTHER -> "top"
  /\ tries' = 0
  /\ stale' = (stale /\ flag > 0 /\ (Unassigned(Running, nIdleChilds)
                                       \/ Over(Running, nIdleChilds)))
  /\ early' = ~Unlocked
  /\ UNCHANGED <<childVars, nIdleChilds, failures, delayed>>

Fork ==
  /\ dpc = "launch"
  /\ born < MaxBorn
  /\ born' = born + 1
  /\ dpc' = "register"
  /\ UNCHANGED <<half, child, moved, retired, counted, nChildFlag, tries>>
  /\ UNCHANGED history

\* fork fails: the next try, and in the end the next round with the same flag.
ForkFails ==
  /\ dpc = "launch"
  /\ failures < MaxFailures /\ failures' = failures + 1
  /\ stale' = TRUE
  /\ IF tries + 1 < nChildFlag /\ tries + 1 < MaxPreforkAtOnce
     THEN tries' = tries + 1 /\ UNCHANGED dpc
     ELSE dpc' = "top" /\ UNCHANGED tries
  /\ UNCHANGED <<childVars, counted, nChildFlag, delayed, early>>

\* Mutant of Registered: the daemon does not wait.
RegisteredAtOnce ==
  /\ dpc = "register"
  /\ nChildFlag' = 0 /\ stale' = FALSE
  /\ dpc' = "top"
  /\ UNCHANGED <<childVars, counted, tries, failures, delayed, early>>

\* A launch was counted, if not the child; resetting the flag ends the loop
\* that forks.
Registered ==
  /\ dpc = "register" /\ moved
  /\ nChildFlag' = 0 /\ stale' = FALSE
  /\ dpc' = "top"
  /\ UNCHANGED <<childVars, counted, tries, failures, delayed, early>>

\* "Delayed child launching": none did within a second.
GiveUp ==
  /\ dpc = "register" /\ ~moved
  /\ nChildFlag' = 0 /\ stale' = FALSE
  /\ delayed' = TRUE
  /\ dpc' = "top"
  /\ UNCHANGED <<childVars, counted, tries, failures, early>>

AskedIdle ==
  child[<<"loop", "asked">>] + child[<<"wait", "asked">>]
    + child[<<"leave", "asked">>]

\* poolSetIdleExitReqeust(1): no other child is asked while an idle one that
\* was asked is there.
Ask ==
  /\ dpc = "ask" /\ Unlocked
  /\ nChildFlag' = 0
  /\ dpc' = "top"
  /\ IF AskedIdle > 0 \/ Idle = 0
     THEN UNCHANGED child
     ELSE \E l \in Place \ {"work"} :
            /\ child[<<l, "kept">>] > 0
            /\ child' = [child EXCEPT ![<<l, "kept">>] = @ - 1,
                                     ![<<l, "asked">>] = @ + 1]
  /\ UNCHANGED <<born, half, moved, retired, counted, tries, history>>

-----------------------------------------------------------------------------
Go(a) == LoopHead(a) \/ Timeout(a)

Children ==
  \/ Launch \/ Register
  \/ \E a \in Flag : \/ Go(a) \/ Accept(a) \/ Finish(a)
                        \/ LeaveIdle(a) \/ Retire(a) \/ Delete(a)

DaemonStep ==
  \/ Sample \/ CountIdle \/ Decide \/ Fork \/ ForkFails
  \/ Registered \/ GiveUp \/ Ask

Next == Children \/ DaemonStep

Spec == Init /\ [][Next]_vars

\* The daemon and the children run; connections may last for ever.
FairSpec ==
  /\ Spec
  /\ WF_vars(DaemonStep) /\ WF_vars(Launch) /\ WF_vars(Register)
  /\ \A a \in Flag :
       WF_vars(LoopHead(a)) /\ WF_vars(Timeout(a)) /\ WF_vars(Delete(a))

-----------------------------------------------------------------------------
(* Properties *)

\* Of the children that are forked at most one finds no slot, and that only if
\* the daemon counted while another had a slot and was not counted yet; as long
\* as children register within the second the daemon waits, and no flag is left
\* from a fork that failed.
SlotForEach ==
  Configured /\ ~delayed /\ ~stale =>
    born + Slots <= MaxChild + (IF early THEN 1 ELSE 0)

\* The children do not stay fewer than StartServers, nor the idle ones fewer
\* than MinSpareServers while there may be more.
EnoughServers ==
  /\ []<>(Running >= StartServers)
  /\ []<>(Idle >= MinSpareServers \/ Running >= MaxClients)

\* The idle children do not stay more than MaxSpareServers.
SparesTrimmed == []<>(Idle <= MaxSpareServers \/ Running <= StartServers)

=============================================================================
