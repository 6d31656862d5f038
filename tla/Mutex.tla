------------------------------- MODULE Mutex -------------------------------
(***************************************************************************)
(* What a semaphore of qsem.c promises its callers: the procedure between  *)
(* entering and leaving is atomic, so at most one process is inside it.    *)
(* A process that dies inside gives the lock back (SEM_UNDO).  Nothing is  *)
(* said of who enters next.                                                *)
(***************************************************************************)
CONSTANTS Proc, NoProc

VARIABLE owner

MutexInit == owner = NoProc

\* p enters the section: it was free.
Acquire(p) == owner = NoProc /\ owner' = p

\* p leaves the section, or dies inside it.
Release(p) == owner = p /\ owner' = NoProc

MutexNext == \E p \in Proc : Acquire(p) \/ Release(p)

MutexSpec == MutexInit /\ [][MutexNext]_owner
=============================================================================
