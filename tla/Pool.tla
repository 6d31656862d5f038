-------------------------------- MODULE Pool --------------------------------
(***************************************************************************)
(* The child management pool of pool.c: the shared memory where children   *)
(* register (one slot each), the counters the daemon scales by, and every  *)
(* operation on them, called by the children along the life of child.c and *)
(* by the daemon.  A critical section is split where it writes twice, so   *)
(* that a child can die, or an unlocked reader look, between two writes.   *)
(*                                                                         *)
(* The lock is the semaphore POOL_SEM_ID.  QSem shows when it is a mutex;  *)
(* MayOverrun = TRUE lets processes in while another one is inside, as     *)
(* they are once an unlock was forced.                                     *)
(***************************************************************************)
EXTENDS Integers, FiniteSets

CONSTANTS
  Pid, NoPid,   \* process ids of children; NoPid is pid 0: an empty slot
  Daemon,       \* the daemon
  MaxChild,     \* m_nMaxChild: slots in use (MaxClients, at most MAX_CHILDS)
  MaxRequestsPerChild, MaxKeepAliveRequests,  \* configuration, 0: no limit
  StartServers, MinSpareServers,              \* configuration
  MayOverrun,   \* whether unlocks are forced
  MaxLaunched, MaxConnected, MaxRequests, MaxFaults \* bounds, not in the code

ASSUME PoolAssumption ==
  /\ NoPid \notin Pid /\ Daemon \notin Pid
  /\ MaxChild \in Nat \ {0}
  /\ {MaxRequestsPerChild, MaxKeepAliveRequests, StartServers,
      MinSpareServers, MaxLaunched, MaxConnected, MaxRequests,
      MaxFaults} \subseteq Nat
  /\ MayOverrun \in BOOLEAN

Slot == 0 .. MaxChild - 1
NoSlot == -1

VARIABLES
  \* struct SharedData
  nTotalLaunched, nRunningChilds, nWorkingChilds, nTotalConnected,
  nTotalRequests,
  nPid, bExit, bConnected,       \* child[s].nPid, .bExit, .conn.bConnected
  slotRequests, connRequests,    \* child[s].nTotalRequests, .conn.nTotalRequests
  \* the processes
  pc,       \* what a child is doing
  mySlot,   \* nSlot of poolChildReg, then m_nMySlotId
  seen,     \* the value of nTotalRequests a child is incrementing
  dpc, victim, \* what the daemon is doing; the child it has reaped
  \* the lock
  inside,   \* processes in a critical section
  overrun,  \* history: a section was entered while another was running
  \* history
  faults,   \* deaths and failures so far
  torn,     \* since the last poolCheck a child died between the two writes
            \* of a registration or a deletion
  leaked    \* since then a connection was counted only once: set or cleared

lockVars   == <<inside, overrun>>
counters   == <<nTotalLaunched, nRunningChilds, nWorkingChilds, nTotalConnected>>
slotVars   == <<nPid, bExit, bConnected>>
reqVars    == <<nTotalRequests, slotRequests, connRequests, seen>>
daemonVars == <<dpc, victim>>
history    == <<faults, torn, leaked>>
vars == <<lockVars, counters, slotVars, reqVars, daemonVars, history, pc, mySlot>>

InReg == {"reg1", "reg2", "reg3", "reg4"}
InSet == {"set1", "set2"}
InClr == {"clr1", "clr2"}
InDel == {"del1", "del2"}
Section == InReg \cup InSet \cup InClr \cup InDel
Serving == {"accepted", "http", "request", "reply", "decide", "closing"}
                \cup InSet \cup InClr
PCs == {"none", "born", "loop", "wait", "wedged", "ending", "zombie"}
                \cup Serving \cup InReg \cup InDel

Registered(p) == pc[p] \in {"loop", "wait"} \cup Serving

TypeOK ==
  /\ nTotalLaunched \in Nat /\ nTotalConnected \in Nat /\ nTotalRequests \in Nat
  /\ nRunningChilds \in Int /\ nWorkingChilds \in Int
  /\ nPid \in [Slot -> Pid \cup {NoPid}]
  /\ bExit \in [Slot -> BOOLEAN]
  /\ bConnected \in [Slot -> BOOLEAN]
  /\ slotRequests \in [Slot -> Nat] /\ connRequests \in [Slot -> Nat]
  /\ pc \in [Pid -> PCs]
  /\ mySlot \in [Pid -> Slot \cup {NoSlot}]
  /\ \A p \in Pid : Registered(p) => mySlot[p] # NoSlot
  /\ seen \in [Pid -> Nat]
  /\ dpc \in {"idle", "reap", "reap1", "reap2"}
  /\ victim \in Pid \cup {NoPid}
  /\ inside \subseteq Pid \cup {Daemon}
  /\ overrun \in BOOLEAN
  /\ faults \in Nat /\ torn \in BOOLEAN /\ leaked \in BOOLEAN

\* poolInitData
Init ==
  /\ nTotalLaunched = 0 /\ nRunningChilds = 0 /\ nWorkingChilds = 0
  /\ nTotalConnected = 0 /\ nTotalRequests = 0
  /\ nPid = [s \in Slot |-> NoPid]
  /\ bExit = [s \in Slot |-> FALSE]
  /\ bConnected = [s \in Slot |-> FALSE]
  /\ slotRequests = [s \in Slot |-> 0]
  /\ connRequests = [s \in Slot |-> 0]
  /\ pc = [p \in Pid |-> "none"]
  /\ mySlot = [p \in Pid |-> NoSlot]
  /\ seen = [p \in Pid |-> 0]
  /\ dpc = "idle" /\ victim = NoPid
  /\ inside = {} /\ overrun = FALSE
  /\ faults = 0 /\ torn = FALSE /\ leaked = FALSE

Goto(p, l) == pc' = [pc EXCEPT ![p] = l]

\* Mutant of Lock: the section is entered without the semaphore.
LockNot(p) == inside' = inside \cup {p} /\ UNCHANGED overrun

Lock(p) ==
  /\ inside = {} \/ MayOverrun
  /\ inside' = inside \cup {p}
  /\ overrun' = (overrun \/ inside # {})

Unlock(p) == inside' = inside \ {p} /\ UNCHANGED overrun

\* A critical section of one write, from entering to leaving.
LockedOnce ==
  /\ inside = {} \/ MayOverrun
  /\ overrun' = (overrun \/ inside # {})
  /\ UNCHANGED inside

\* poolFindSlot: the first slot with that pid.
FindSlot(q) ==
  LET S == {s \in Slot : nPid[s] = q}
  IN IF S = {} THEN NoSlot ELSE CHOOSE s \in S : \A t \in S : s <= t

Occupied == {s \in Slot : nPid[s] # NoPid}
Connected == {s \in Occupied : bConnected[s]}

\* poolGetNumChilds calls poolCheck when the counters are absurd ...
Absurd == nRunningChilds < 0 \/ nWorkingChilds < 0
            \/ nRunningChilds < nWorkingChilds

\* Mutant of Recount: the running children are not recounted.
RecountWorking ==
  /\ LockedOnce
  /\ nWorkingChilds' = Cardinality(Connected)
  /\ torn' = FALSE /\ leaked' = FALSE
  /\ UNCHANGED <<nTotalLaunched, nRunningChilds, nTotalConnected, faults>>
  /\ UNCHANGED <<slotVars, reqVars>>

\* ... and poolCheck, only if the lock is free, counts again and repairs them.
Recount ==
  /\ LockedOnce
  /\ nRunningChilds' = Cardinality(Occupied)
  /\ nWorkingChilds' = Cardinality(Connected)
  /\ torn' = FALSE /\ leaked' = FALSE
  /\ UNCHANGED <<nTotalLaunched, nTotalConnected, faults, slotVars, reqVars>>

-----------------------------------------------------------------------------
(* Birth and registration: childStart, poolChildReg *)

\* The daemon forks.
Fork(p) ==
  /\ dpc = "idle" /\ pc[p] = "none"
  /\ nTotalLaunched < MaxLaunched
  /\ Goto(p, "born")
  /\ mySlot' = [mySlot EXCEPT ![p] = NoSlot]
  /\ UNCHANGED <<lockVars, counters, slotVars, reqVars, daemonVars, history>>

RegEnter(p) ==
  /\ pc[p] = "born"
  /\ Lock(p)
  /\ Goto(p, "reg1")
  /\ UNCHANGED <<counters, slotVars, reqVars, daemonVars, history, mySlot>>

\* No slot is free: the launch is counted and the child will end.
RegFull(p) ==
  /\ pc[p] = "reg1"
  /\ FindSlot(NoPid) = NoSlot
  /\ nTotalLaunched' = nTotalLaunched + 1
  /\ Unlock(p)
  /\ Goto(p, "ending")
  /\ UNCHANGED <<nRunningChilds, nWorkingChilds, nTotalConnected>>
  /\ UNCHANGED <<slotVars, reqVars, daemonVars, history, mySlot>>

RegFind(p) ==
  /\ pc[p] = "reg1"
  /\ FindSlot(NoPid) # NoSlot
  /\ mySlot' = [mySlot EXCEPT ![p] = FindSlot(NoPid)]
  /\ Goto(p, "reg2")
  /\ UNCHANGED <<lockVars, counters, slotVars, reqVars, daemonVars, history>>

\* Mutant of RegSlot: without poolInitSlot.
RegSlotDirty(p) ==
  /\ pc[p] = "reg2"
  /\ nPid' = [nPid EXCEPT ![mySlot[p]] = p]
  /\ Goto(p, "reg3")
  /\ UNCHANGED <<lockVars, counters, daemonVars, history, mySlot, reqVars>>
  /\ UNCHANGED <<bExit, bConnected>>

\* The slot is cleared (poolInitSlot) and taken.
RegSlot(p) ==
  LET s == mySlot[p] IN
  /\ pc[p] = "reg2"
  /\ nPid' = [nPid EXCEPT ![s] = p]
  /\ bExit' = [bExit EXCEPT ![s] = FALSE]
  /\ bConnected' = [bConnected EXCEPT ![s] = FALSE]
  /\ slotRequests' = [slotRequests EXCEPT ![s] = 0]
  /\ connRequests' = [connRequests EXCEPT ![s] = 0]
  /\ Goto(p, "reg3")
  /\ UNCHANGED <<lockVars, counters, daemonVars, history, mySlot>>
  /\ UNCHANGED <<nTotalRequests, seen>>

RegLaunched(p) ==
  /\ pc[p] = "reg3"
  /\ nTotalLaunched' = nTotalLaunched + 1
  /\ Goto(p, "reg4")
  /\ UNCHANGED <<nRunningChilds, nWorkingChilds, nTotalConnected>>
  /\ UNCHANGED <<lockVars, slotVars, reqVars, daemonVars, history, mySlot>>

RegRunning(p) ==
  /\ pc[p] = "reg4"
  /\ nRunningChilds' = nRunningChilds + 1
  /\ Unlock(p)
  /\ Goto(p, "loop")
  /\ UNCHANGED <<nTotalLaunched, nWorkingChilds, nTotalConnected>>
  /\ UNCHANGED <<slotVars, reqVars, daemonVars, history, mySlot>>

-----------------------------------------------------------------------------
(* Waiting for a connection: the loop of childStart *)

LimitReached(p) ==
  MaxRequestsPerChild > 0 /\ slotRequests[mySlot[p]] >= MaxRequestsPerChild

\* Mutant of LoopHead: the exit flag is not looked at.
LoopHeadDeaf(p) ==
  /\ pc[p] = "loop"
  /\ Goto(p, IF LimitReached(p) THEN "ending" ELSE "wait")
  /\ UNCHANGED <<lockVars, counters, slotVars, reqVars, daemonVars, history, mySlot>>

\* The checks at the head of the loop; the flag is read without the lock.
LoopHead(p) ==
  /\ pc[p] = "loop"
  /\ Goto(p, IF bExit[mySlot[p]] \/ LimitReached(p) THEN "ending" ELSE "wait")
  /\ UNCHANGED <<lockVars, counters, slotVars, reqVars, daemonVars, history, mySlot>>

\* A second without a connection, or another child accepted it.
NoConnection(p) ==
  /\ pc[p] = "wait"
  /\ Goto(p, "loop")
  /\ UNCHANGED <<lockVars, counters, slotVars, reqVars, daemonVars, history, mySlot>>

\* Idle for more than MaxIdleSeconds, and there are children enough: the
\* counters are read without the lock, if they are not absurd.
LeaveIdle(p) ==
  /\ pc[p] = "wait"
  /\ ~Absurd
  /\ nRunningChilds > StartServers
  /\ nRunningChilds - nWorkingChilds > MinSpareServers
  /\ Goto(p, "ending")
  /\ UNCHANGED <<lockVars, counters, slotVars, reqVars, daemonVars, history, mySlot>>

\* Any signal interrupts the wait, and the child leaves.
WaitInterrupted(p) ==
  /\ pc[p] = "wait"
  /\ faults < MaxFaults
  /\ faults' = faults + 1
  /\ Goto(p, "ending")
  /\ UNCHANGED <<lockVars, counters, slotVars, reqVars, daemonVars, torn, leaked, mySlot>>

\* The poolGetNumChilds of an idle child repairs the counters.
CheckIdle(p) ==
  /\ pc[p] = "wait"
  /\ Absurd /\ Recount
  /\ UNCHANGED <<daemonVars, pc, mySlot>>

Accept(p) ==
  /\ pc[p] = "wait"
  /\ nTotalConnected < MaxConnected
  /\ Goto(p, "accepted")
  /\ UNCHANGED <<lockVars, counters, slotVars, reqVars, daemonVars, history, mySlot>>

\* poolSetExitRequest, without the lock: after SIGHUP at the head of the loop or,
\* when a SIGTERM finds the SIGHUP waiting, wherever the child is; or by the Lua
\* script.  The instants after poolChildDel are left out.
SetExitRequest(p) ==
  /\ pc[p] \notin {"none", "born", "zombie"} \cup InReg /\ mySlot[p] # NoSlot
  /\ bExit' = [bExit EXCEPT ![mySlot[p]] = TRUE]
  /\ UNCHANGED <<lockVars, counters, reqVars, daemonVars, history, pc, mySlot>>
  /\ UNCHANGED <<nPid, bConnected>>

-----------------------------------------------------------------------------
(* A connection: poolSetConnInfo, httpMain, poolClearConnInfo *)

\* getpeername fails: the connection was reset already.
PeerGone(p) ==
  /\ pc[p] = "accepted"
  /\ faults < MaxFaults
  /\ faults' = faults + 1
  /\ Goto(p, "closing")
  /\ UNCHANGED <<lockVars, counters, slotVars, reqVars, daemonVars, torn, leaked, mySlot>>

ConnEnter(p) ==
  /\ pc[p] = "accepted"
  /\ Lock(p)
  /\ Goto(p, "set1")
  /\ UNCHANGED <<counters, slotVars, reqVars, daemonVars, history, mySlot>>

ConnSlot(p) ==
  /\ pc[p] = "set1"
  /\ bConnected' = [bConnected EXCEPT ![mySlot[p]] = TRUE]
  /\ connRequests' = [connRequests EXCEPT ![mySlot[p]] = 0]
  /\ Goto(p, "set2")
  /\ UNCHANGED <<lockVars, counters, daemonVars, history, mySlot>>
  /\ UNCHANGED <<nPid, bExit, nTotalRequests, slotRequests, seen>>

ConnCount(p) ==
  /\ pc[p] = "set2"
  /\ nTotalConnected' = nTotalConnected + 1
  /\ nWorkingChilds' = nWorkingChilds + 1
  /\ Unlock(p)
  /\ Goto(p, "http")
  /\ UNCHANGED <<nTotalLaunched, nRunningChilds>>
  /\ UNCHANGED <<slotVars, reqVars, daemonVars, history, mySlot>>

\* poolSetConnRequest takes no lock: nTotalRequests++ is a read ...
RequestSlot(p) ==
  LET s == mySlot[p] IN
  /\ pc[p] = "http"
  /\ nTotalRequests < MaxRequests
  /\ connRequests' = [connRequests EXCEPT ![s] = @ + 1]
  /\ slotRequests' = [slotRequests EXCEPT ![s] = @ + 1]
  /\ seen' = [seen EXCEPT ![p] = nTotalRequests]
  /\ Goto(p, "request")
  /\ UNCHANGED <<lockVars, counters, daemonVars, history, mySlot>>
  /\ UNCHANGED <<nPid, bExit, bConnected, nTotalRequests>>

\* ... and a write.
RequestCount(p) ==
  /\ pc[p] = "request"
  /\ nTotalRequests' = seen[p] + 1
  /\ Goto(p, "reply")
  /\ UNCHANGED <<lockVars, counters, slotVars, daemonVars, history, mySlot>>
  /\ UNCHANGED <<slotRequests, connRequests, seen>>

\* poolSetConnResponse: the response's code and time, under the lock.
Reply(p) ==
  /\ pc[p] = "reply"
  /\ LockedOnce
  /\ Goto(p, "decide")
  /\ UNCHANGED <<counters, slotVars, reqVars, daemonVars, history, mySlot>>

\* httpResponseOut turns keep-alive off when an exit is requested, or the
\* connection has had its requests; otherwise the request decides.
Decide(p) ==
  /\ pc[p] = "decide"
  /\ \/ Goto(p, "closing")
     \/ /\ ~bExit[mySlot[p]]
        /\ MaxKeepAliveRequests > 0 =>
             connRequests[mySlot[p]] < MaxKeepAliveRequests
        /\ Goto(p, "http")
  /\ UNCHANGED <<lockVars, counters, slotVars, reqVars, daemonVars, history, mySlot>>

\* The client closes, or sends nothing until the timeout.
NoRequest(p) ==
  /\ pc[p] = "http"
  /\ Goto(p, "closing")
  /\ UNCHANGED <<lockVars, counters, slotVars, reqVars, daemonVars, history, mySlot>>

\* poolClearConnInfo: called whether or not poolSetConnInfo succeeded.
ClearEnter(p) ==
  /\ pc[p] = "closing"
  /\ Lock(p)
  /\ Goto(p, "clr1")
  /\ UNCHANGED <<counters, slotVars, reqVars, daemonVars, history, mySlot>>

ClearSlot(p) ==
  /\ pc[p] = "clr1"
  /\ bConnected' = [bConnected EXCEPT ![mySlot[p]] = FALSE]
  /\ leaked' = (leaked \/ ~bConnected[mySlot[p]])
  /\ Goto(p, "clr2")
  /\ UNCHANGED <<lockVars, counters, reqVars, daemonVars, faults, torn, mySlot>>
  /\ UNCHANGED <<nPid, bExit>>

ClearCount(p) ==
  /\ pc[p] = "clr2"
  /\ nWorkingChilds' = nWorkingChilds - 1
  /\ Unlock(p)
  /\ Goto(p, "loop")
  /\ UNCHANGED <<nTotalLaunched, nRunningChilds, nTotalConnected>>
  /\ UNCHANGED <<slotVars, reqVars, daemonVars, history, mySlot>>

-----------------------------------------------------------------------------
(* The end of a child: childEnd, poolChildDel(0) *)

DelEnter(p) ==
  /\ pc[p] = "ending"
  /\ Lock(p)
  /\ Goto(p, "del1")
  /\ UNCHANGED <<counters, slotVars, reqVars, daemonVars, history, mySlot>>

\* Mutant of DelNothing: what was never counted is discounted.
DelNothingCounts(p) ==
  /\ pc[p] = "del1" /\ mySlot[p] = NoSlot
  /\ nRunningChilds' = nRunningChilds - 1
  /\ Unlock(p)
  /\ Goto(p, "zombie")
  /\ UNCHANGED <<nTotalLaunched, nWorkingChilds, nTotalConnected>>
  /\ UNCHANGED <<slotVars, reqVars, daemonVars, history, mySlot>>

\* The child never got a slot: nothing to delete.
DelNothing(p) ==
  /\ pc[p] = "del1" /\ mySlot[p] = NoSlot
  /\ Unlock(p)
  /\ Goto(p, "zombie")
  /\ UNCHANGED <<counters, slotVars, reqVars, daemonVars, history, mySlot>>

\* The slot is emptied; the rest of it stays until it is taken again.
DelSlot(p) ==
  /\ pc[p] = "del1" /\ mySlot[p] # NoSlot
  /\ nPid' = [nPid EXCEPT ![mySlot[p]] = NoPid]
  /\ leaked' = (leaked \/ bConnected[mySlot[p]])
  /\ Goto(p, "del2")
  /\ UNCHANGED <<lockVars, counters, reqVars, daemonVars, faults, torn, mySlot>>
  /\ UNCHANGED <<bExit, bConnected>>

DelCount(p) ==
  /\ pc[p] = "del2"
  /\ nRunningChilds' = nRunningChilds - 1
  /\ Unlock(p)
  /\ Goto(p, "zombie")
  /\ UNCHANGED <<nTotalLaunched, nWorkingChilds, nTotalConnected>>
  /\ UNCHANGED <<slotVars, reqVars, daemonVars, history, mySlot>>

-----------------------------------------------------------------------------
(* Signals and crashes *)

\* p stops between the two writes of a section: a slot taken or emptied, or a
\* connection set or cleared, that is not counted.
Tears(p) == pc[p] \in {"reg3", "reg4", "del2"}
Leaks(p) == pc[p] \in {"set2", "clr2"}

\* p is killed or crashes; SEM_UNDO gives back its lock.
Kill(p) ==
  /\ pc[p] \notin {"none", "zombie"}
  /\ faults < MaxFaults
  /\ faults' = faults + 1
  /\ torn' = (torn \/ Tears(p))
  /\ leaked' = (leaked \/ Leaks(p))
  /\ Unlock(p)
  /\ Goto(p, "zombie")
  /\ UNCHANGED <<counters, slotVars, reqVars, daemonVars, mySlot>>

\* SIGTERM or SIGINT: the handler runs childEnd at once (it does nothing if
\* childEnd is running already).  Inside a critical section, poolChildDel
\* waits for its own process, which will not resume the section; m_nMySlotId
\* is set at the end of poolChildReg only.
Term(p) ==
  /\ pc[p] \notin {"none", "zombie", "ending", "wedged"} \cup InDel
  /\ faults < MaxFaults
  /\ faults' = faults + 1
  /\ pc[p] \in Section => MayOverrun
  /\ torn' = (torn \/ Tears(p))
  /\ leaked' = (leaked \/ Leaks(p))
  /\ mySlot' = IF pc[p] \in InReg THEN [mySlot EXCEPT ![p] = NoSlot] ELSE mySlot
  /\ Goto(p, IF pc[p] \in Section THEN "wedged" ELSE "ending")
  /\ UNCHANGED <<lockVars, counters, slotVars, reqVars, daemonVars>>

\* After POOL_SEM_MAXWAIT poolChildDel forces the unlock of its own section.
ForceSelf(p) ==
  /\ pc[p] = "wedged"
  /\ overrun' = TRUE
  /\ Goto(p, "del1")
  /\ UNCHANGED <<inside, counters, slotVars, reqVars, daemonVars, history, mySlot>>

-----------------------------------------------------------------------------
(* The daemon *)

\* waitpid returns p: it no longer exists, and poolChildDel(p) is called in
\* case it could not delete itself.
Reap(p) ==
  /\ dpc = "idle" /\ pc[p] = "zombie"
  /\ dpc' = "reap" /\ victim' = p
  /\ Goto(p, "none")
  /\ UNCHANGED <<lockVars, counters, slotVars, reqVars, history, mySlot>>

\* Mutant of ReapEnter: the reaped child is not looked up in the pool.
ReapEnterSkips ==
  /\ dpc = "reap"
  /\ dpc' = "idle" /\ victim' = NoPid
  /\ UNCHANGED <<lockVars, counters, slotVars, reqVars, history, pc, mySlot>>

ReapEnter ==
  /\ dpc = "reap"
  /\ Lock(Daemon)
  /\ dpc' = "reap1"
  /\ UNCHANGED <<counters, slotVars, reqVars, history, pc, mySlot, victim>>

\* The child deleted itself.
ReapNothing ==
  /\ dpc = "reap1" /\ FindSlot(victim) = NoSlot
  /\ Unlock(Daemon)
  /\ dpc' = "idle" /\ victim' = NoPid
  /\ UNCHANGED <<counters, slotVars, reqVars, history, pc, mySlot>>

ReapSlot ==
  /\ dpc = "reap1" /\ FindSlot(victim) # NoSlot
  /\ nPid' = [nPid EXCEPT ![FindSlot(victim)] = NoPid]
  /\ leaked' = (leaked \/ bConnected[FindSlot(victim)])
  /\ dpc' = "reap2"
  /\ UNCHANGED <<lockVars, counters, reqVars, faults, torn, pc, mySlot, victim>>
  /\ UNCHANGED <<bExit, bConnected>>

ReapCount ==
  /\ dpc = "reap2"
  /\ nRunningChilds' = nRunningChilds - 1
  /\ Unlock(Daemon)
  /\ dpc' = "idle" /\ victim' = NoPid
  /\ UNCHANGED <<nTotalLaunched, nWorkingChilds, nTotalConnected>>
  /\ UNCHANGED <<slotVars, reqVars, history, pc, mySlot>>

\* poolCheck in the periodic job, or in the daemon's poolGetNumChilds.
Check == dpc = "idle" /\ Recount /\ UNCHANGED <<daemonVars, pc, mySlot>>

Idle == Occupied \ Connected
Asked == {s \in Idle : bExit[s]}

\* The second pass of poolSetIdleExitReqeust(n): it starts counting at the
\* number of idle children asked already, and counts those again when it
\* meets them; the first idle slots up to a total of n end up asked.
FirstIdle(n) ==
  {s \in Idle : Cardinality(Asked)
                  + Cardinality({t \in Idle : t < s}) < n}

SetIdleExit(n) ==
  /\ dpc = "idle"
  /\ LockedOnce
  /\ bExit' = [s \in Slot |-> bExit[s] \/ s \in FirstIdle(n)]
  /\ UNCHANGED <<counters, reqVars, daemonVars, history, pc, mySlot>>
  /\ UNCHANGED <<nPid, bConnected>>

\* poolSetExitReqeustAll
SetExitAll ==
  /\ dpc = "idle"
  /\ LockedOnce
  /\ bExit' = [s \in Slot |-> bExit[s] \/ s \in Occupied]
  /\ UNCHANGED <<counters, reqVars, daemonVars, history, pc, mySlot>>
  /\ UNCHANGED <<nPid, bConnected>>

-----------------------------------------------------------------------------
\* What a child does by itself, without a choice of the outside world.
Advance(p) ==
  \/ RegEnter(p) \/ RegFull(p) \/ RegFind(p) \/ RegSlot(p)
  \/ RegLaunched(p) \/ RegRunning(p)
  \/ LoopHead(p) \/ NoConnection(p)
  \/ ConnEnter(p) \/ ConnSlot(p) \/ ConnCount(p)
  \/ RequestCount(p) \/ Reply(p) \/ Decide(p) \/ NoRequest(p)
  \/ ClearEnter(p) \/ ClearSlot(p) \/ ClearCount(p)
  \/ DelEnter(p) \/ DelNothing(p) \/ DelSlot(p) \/ DelCount(p)
  \/ ForceSelf(p)

\* What clients, signals and crashes do to it.
Suffer(p) ==
  \/ LeaveIdle(p) \/ CheckIdle(p) \/ WaitInterrupted(p)
  \/ Accept(p) \/ SetExitRequest(p)
  \/ PeerGone(p) \/ RequestSlot(p) \/ Kill(p) \/ Term(p)

Child(p) == Advance(p) \/ Suffer(p)

Reaping == ReapEnter \/ ReapNothing \/ ReapSlot \/ ReapCount

DaemonStep ==
  \/ \E p \in Pid : Fork(p) \/ Reap(p)
  \/ Reaping
  \/ Check
  \/ \E n \in 1 .. MaxChild : SetIdleExit(n)
  \/ SetExitAll

Next == (\E p \in Pid : Child(p)) \/ DaemonStep

Spec == Init /\ [][Next]_vars

\* Children run, the daemon finishes what it does, reaps every child that
\* ended (SIGCHLD) and does its periodic job.
Fairness ==
  /\ \A p \in Pid : WF_vars(Advance(p)) /\ WF_vars(Reap(p))
  /\ WF_vars(Reaping)
  /\ WF_vars(Check)

FairSpec == Spec /\ Fairness

-----------------------------------------------------------------------------
(* Properties *)

\* p has a slot and has not begun to empty it.
Owns(p) ==
  Registered(p) \/ (pc[p] \in {"reg3", "reg4", "ending", "wedged", "del1"}
                      /\ mySlot[p] # NoSlot)

\* As long as the lock excludes, a registered child owns its slot until it
\* empties it: neither another registration nor the deletion of another child
\* (by itself, or by the daemon after waitpid) takes it away.  Two children
\* therefore never share a slot, and their flags and counters.
SlotOwned == ~overrun => \A p \in Pid : Owns(p) => nPid[mySlot[p]] = p

\* As long as the lock excludes, the pool is the abstract registry: a child
\* joins while a slot is free, is a member as long as it works, gives up its
\* place once, and the pid of a reaped child is used again only when the
\* daemon has deleted it from the pool.
R == INSTANCE Registry WITH
       Capacity <- MaxChild,
       exists   <- {p \in Pid : pc[p] # "none"},
       pool     <- {nPid[s] : s \in Occupied},
       active   <- {p \in Pid : Registered(p)}

RefinesRegistry == [][~overrun' => UNCHANGED R!rvars \/ R!RegistryNext]_vars

\* No child is found in two slots, so poolChildDel(pid) frees the right one.
\* This holds even while unlocks are forced.
OneSlot ==
  \A s, t \in Slot : nPid[s] = nPid[t] => s = t \/ nPid[s] = NoPid

\* No slot is lost, even while unlocks are forced: the child of an occupied
\* slot exists, or has ended and its deletion by the daemon is under way.
NoGhost == \A s \in Occupied : pc[nPid[s]] # "none" \/ victim = nPid[s]

\* Outside the sections nRunningChilds is the number of occupied slots, unless
\* a child died between the two writes of a section since the last poolCheck.
\* A child killed anywhere else is counted right, before and after it is reaped.
RunningExact ==
  ~overrun /\ ~torn /\ inside = {} => nRunningChilds = Cardinality(Occupied)

\* Outside the sections nWorkingChilds is the number of connected children,
\* unless since the last poolCheck a child was deleted with its connection
\* set, died between the writes of poolSetConnInfo or poolClearConnInfo, or
\* called poolClearConnInfo after a poolSetConnInfo that failed.
WorkingExact ==
  ~overrun /\ ~leaked /\ inside = {} => nWorkingChilds = Cardinality(Connected)

\* An idle child is never taken for a working one (it could not be asked to
\* exit), nor a child with a request for an idle one.
ConnectedIsServing ==
  ~overrun => \A p \in Pid :
    /\ pc[p] \in {"loop", "wait"} => ~bConnected[mySlot[p]]
    /\ pc[p] \in {"http", "request", "reply", "decide"} => bConnected[mySlot[p]]

\* What the daemon reads to scale by is what the slots say.
CountersExact == RunningExact /\ WorkingExact /\ ConnectedIsServing

\* A request to exit stays until its child gives up the slot, and the next
\* child of the slot does not inherit it.
ExitRequestKept ==
  [][\A s \in Slot :
       /\ nPid[s] # NoPid /\ bExit[s] /\ nPid'[s] = nPid[s] => bExit'[s]
       /\ nPid[s] = NoPid /\ nPid'[s] # NoPid => ~bExit'[s]]_vars

\* A child that is asked to exit does, whatever it is serving.
ExitHonoured ==
  \A s \in Slot, p \in Pid : nPid[s] = p /\ bExit[s] ~> nPid[s] # p

\* The slot of a child that ended without deleting itself is freed.
SlotFreed ==
  \A s \in Slot, p \in Pid : nPid[s] = p /\ pc[p] = "zombie" ~> nPid[s] # p

\* When faults have stopped, the counters become right and stay so.
CountersRepaired ==
  <>[](inside = {} => /\ nRunningChilds = Cardinality(Occupied)
                      /\ nWorkingChilds = Cardinality(Connected))

=============================================================================
