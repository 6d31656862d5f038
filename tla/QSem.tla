-------------------------------- MODULE QSem --------------------------------
(***************************************************************************)
(* The lock of qhttpd: one semaphore of qsem.c, the processes that enter   *)
(* it with qsem_enter_force or qsem_enter_nowait, the children that are    *)
(* killed or interrupted by SIGTERM inside the section, the watchdog of    *)
(* the daemon's periodic job, and the removal of the semaphore at the end  *)
(* of the daemon.  Time is not modelled: a waiter may run out of polls     *)
(* whatever the holder does (QSemTimed adds time).                         *)
(***************************************************************************)
EXTENDS Semaphore, FiniteSets

CONSTANTS
  Daemon,     \* the daemon's process
  MaxWait,    \* polls before the unlock is forced: maxwaitms / 10
  MaxLocked,  \* MAX_SEMAPHORES_LOCK_SECS: locked samples the watchdog allows
  MayEnd,     \* whether the daemon may end (and remove the semaphore)
  NoProc      \* no process

ASSUME QSemAssumption ==
  /\ IsFiniteSet(Proc) /\ Daemon \in Proc
  /\ MaxWait \in Nat \ {0}
  /\ MaxLocked \in Nat
  /\ MayEnd \in BOOLEAN
  /\ NoProc \notin Proc

VARIABLES
  sem,     \* the semaphore
  pc,      \* where a process is in, or out of, qsem_enter_force
  wait,    \* polls of qsem_enter_force that failed
  nested,  \* p was interrupted inside the section and will not resume it
  lockCnt, \* nSemLockCnt of the daemon
  forced   \* history: some unlock was forced

vars == <<sem, pc, wait, nested, lockCnt, forced>>

Children == Proc \ {Daemon}
PCs == {"out", "poll", "force", "retry", "in", "dead"}

TypeOK ==
  /\ sem \in SemaphoreType
  /\ pc \in [Proc -> PCs]
  /\ wait \in [Proc -> 0 .. MaxWait]
  /\ nested \in [Proc -> BOOLEAN]
  /\ lockCnt \in 0 .. MaxLocked
  /\ forced \in BOOLEAN

Init ==
  /\ sem = SemInit
  /\ pc = [p \in Proc |-> "out"]
  /\ wait = [p \in Proc |-> 0]
  /\ nested = [p \in Proc |-> FALSE]
  /\ lockCnt = 0
  /\ forced = FALSE

Goto(p, l) == pc' = [pc EXCEPT ![p] = l]

-----------------------------------------------------------------------------
(* qsem_enter_force, qsem_enter_nowait and qsem_leave *)

\* Mutants: the count of polls is not reset; the wait never gives up.
BeginKeepsWait(p) ==
  /\ pc[p] = "out"
  /\ Goto(p, "poll")
  /\ UNCHANGED <<sem, wait, nested, lockCnt, forced>>

ForceLeaveNever(p) ==
  /\ pc[p] = "poll" /\ wait[p] = MaxWait
  /\ wait' = [wait EXCEPT ![p] = 0]
  /\ UNCHANGED <<sem, pc, nested, lockCnt, forced>>

\* qsem_enter_force is called.
Begin(p) ==
  /\ pc[p] = "out"
  /\ Goto(p, "poll")
  /\ wait' = [wait EXCEPT ![p] = 0]
  /\ UNCHANGED <<sem, nested, lockCnt, forced>>

\* A poll finds the semaphore free.
PollEnter(p) ==
  /\ pc[p] = "poll" /\ wait[p] < MaxWait
  /\ CanEnter(sem)
  /\ sem' = SemEnter(sem, p)
  /\ Goto(p, "in")
  /\ UNCHANGED <<wait, nested, lockCnt, forced>>

\* A poll finds it locked; sleep 10 ms.
PollFail(p) ==
  /\ pc[p] = "poll" /\ wait[p] < MaxWait
  /\ ~CanEnter(sem)
  /\ wait' = [wait EXCEPT ![p] = @ + 1]
  /\ UNCHANGED <<sem, pc, nested, lockCnt, forced>>

\* The polls are used up, or the entry after the last forced unlock failed:
\* unlock, whatever the semaphore's value is now.
ForceLeave(p) ==
  /\ \/ pc[p] = "poll" /\ wait[p] = MaxWait
     \/ pc[p] = "force"
  /\ sem' = SemLeave(sem, p)
  /\ Goto(p, "retry")
  /\ forced' = TRUE
  /\ UNCHANGED <<wait, nested, lockCnt>>

\* The entry that follows a forced unlock: another process may have been first.
Retry(p) ==
  /\ pc[p] = "retry"
  /\ IF CanEnter(sem)
     THEN sem' = SemEnter(sem, p) /\ Goto(p, "in")
     ELSE sem' = sem /\ Goto(p, "force")
  /\ UNCHANGED <<wait, nested, lockCnt, forced>>

\* poolCheck enters only if the semaphore is free (if not, it does nothing).
TryEnter(p) ==
  /\ pc[p] = "out"
  /\ CanEnter(sem)
  /\ sem' = SemEnter(sem, p)
  /\ Goto(p, "in")
  /\ UNCHANGED <<wait, nested, lockCnt, forced>>

\* qsem_leave at the end of the section.
Leave(p) ==
  /\ pc[p] = "in" /\ ~nested[p]
  /\ sem' = SemLeave(sem, p)
  /\ Goto(p, "out")
  /\ UNCHANGED <<wait, nested, lockCnt, forced>>

-----------------------------------------------------------------------------
(* Signals and deaths of children *)

\* SIGTERM or SIGINT inside the section: the signal handler runs childEnd,
\* whose poolChildDel enters the semaphore its own process holds.
Interrupt(p) ==
  /\ p \in Children
  /\ pc[p] = "in" /\ ~nested[p]
  /\ nested' = [nested EXCEPT ![p] = TRUE]
  /\ wait' = [wait EXCEPT ![p] = 0]
  /\ Goto(p, "poll")
  /\ UNCHANGED <<sem, lockCnt, forced>>

\* The interrupted child leaves the section of poolChildDel and exits from
\* the handler: the section it was interrupted in is never resumed.
LeaveAndExit(p) ==
  /\ pc[p] = "in" /\ nested[p]
  /\ sem' = SemUndo(SemLeave(sem, p), p)
  /\ nested' = [nested EXCEPT ![p] = FALSE]
  /\ Goto(p, "dead")
  /\ UNCHANGED <<wait, lockCnt, forced>>

\* The child exits, is killed or crashes, wherever it is.
Die(p) ==
  /\ p \in Children
  /\ pc[p] # "dead"
  /\ sem' = SemUndo(sem, p)
  /\ nested' = [nested EXCEPT ![p] = FALSE]
  /\ Goto(p, "dead")
  /\ UNCHANGED <<wait, lockCnt, forced>>

\* The daemon forks a child in its place.
Respawn(p) ==
  /\ p \in Children
  /\ pc[p] = "dead" /\ pc[Daemon] # "dead"
  /\ Goto(p, "out")
  /\ UNCHANGED <<sem, wait, nested, lockCnt, forced>>

-----------------------------------------------------------------------------
(* The daemon *)

\* The watchdog of the periodic job: it samples the value, and after more
\* than MaxLocked locked samples in a row it unlocks.
Watchdog ==
  /\ pc[Daemon] = "out"
  /\ IF SemLocked(sem)
     THEN IF lockCnt + 1 > MaxLocked
          THEN /\ sem' = SemLeave(sem, Daemon)
               /\ lockCnt' = 0
               /\ forced' = TRUE
          ELSE lockCnt' = lockCnt + 1 /\ UNCHANGED <<sem, forced>>
     ELSE lockCnt' = 0 /\ UNCHANGED <<sem, forced>>
  /\ UNCHANGED <<pc, wait, nested>>

\* daemonEnd: unlock, remove the semaphore and exit, even though children
\* may still be alive ("Give up!").
End ==
  /\ MayEnd
  /\ pc[Daemon] = "out"
  /\ sem' = SemFree(SemLeave(sem, Daemon))
  /\ forced' = TRUE
  /\ Goto(Daemon, "dead")
  /\ UNCHANGED <<wait, nested, lockCnt>>

-----------------------------------------------------------------------------
Step(p) ==
  \/ Begin(p) \/ PollEnter(p) \/ PollFail(p) \/ ForceLeave(p) \/ Retry(p)
  \/ TryEnter(p) \/ Leave(p)
  \/ Interrupt(p) \/ LeaveAndExit(p) \/ Die(p) \/ Respawn(p)

Next == (\E p \in Proc : Step(p)) \/ Watchdog \/ End

Spec == Init /\ [][Next]_vars

\* A process waiting for the semaphore keeps polling and retrying.  Nothing is
\* assumed of the processes inside: a section may last for ever.
Waiting(p) == PollEnter(p) \/ PollFail(p) \/ ForceLeave(p) \/ Retry(p)

FairSpec == Spec /\ \A p \in Proc : WF_vars(Waiting(p))

-----------------------------------------------------------------------------
(* Properties *)

\* p is inside the section, or was interrupted inside it.
Inside(p) == pc[p] = "in" \/ nested[p]

\* Mutual exclusion ("guaranteed as atomic procedure" of qsem.c): as long as
\* no unlock was forced, at most one process is inside; deaths inside the
\* section (SEM_UNDO) do not change that.
MutualExclusion ==
  ~forced => \A p, q \in Proc : Inside(p) /\ Inside(q) => p = q

\* No permit is ever lost: when no process is inside the section, the
\* semaphore can be entered, whatever was killed, interrupted or forced.
NoLostPermit ==
  sem.set = "live" /\ (\A p \in Proc : ~Inside(p)) => sem.val >= 1

\* Forced unlocks do not add up without limit: a process forces one only when
\* its polls found no permit, so at most one surplus permit per process, and
\* one more per process whose polls ran out at the same time, exist at once.
PermitsBounded == sem.val <= 2 * Cardinality(Proc)

\* Permits are neither lost nor heaped up, however processes die, are
\* interrupted, or force an unlock.
PermitsKept == NoLostPermit /\ PermitsBounded

\* Until an unlock is forced, every step of the semaphore is a step of the
\* abstract lock: it is taken when free, and given back by its owner only.
Owner == IF \E p \in Proc : Inside(p)
         THEN CHOOSE p \in Proc : Inside(p) ELSE NoProc

M == INSTANCE Mutex WITH owner <- Owner

RefinesMutex == [][~forced' => M!MutexNext \/ UNCHANGED Owner]_vars

\* qsem_enter_force returns while the semaphore exists: whoever waits gets in
\* (or dies), even if the process inside never leaves and others keep entering.
EntersEventually ==
  \A p \in Proc :
    pc[p] = "poll" ~> pc[p] \in {"in", "dead"} \/ sem.set = "removed"
=============================================================================
