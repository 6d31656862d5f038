----------------------------- MODULE Semaphore -----------------------------
(***************************************************************************)
(* The System V semaphore the calls of qsem.c operate on, as a value S:    *)
(*   S.val    the value of the semaphore: 1 free, 0 locked; a forced       *)
(*            unlock can make it greater than 1                            *)
(*   S.adj    what SEM_UNDO will add to val when a process ends            *)
(*   S.set    "live", or "removed" (IPC_RMID)                              *)
(* semop(-1, IPC_NOWAIT) succeeds when val > 0; semop(+1) always succeeds; *)
(* both fail on a removed set.                                             *)
(***************************************************************************)
EXTENDS Integers

CONSTANT Proc

SemaphoreType == [val : Nat, adj : [Proc -> Int], set : {"live", "removed"}]

\* qsem_init: the set is created (val 0), then semop(+1) without SEM_UNDO.
SemInit == [val |-> 1, adj |-> [p \in Proc |-> 0], set |-> "live"]

\* Mutants of the four operators below, by which the README shows that each
\* property notices a plausible bug: entering a semaphore of value 0; entering
\* or leaving without SEM_UNDO; a check of the value the wrong way round.
CanEnterAtZero(S) == S.set = "live" /\ S.val >= 0
SemEnterNoUndo(S, p) == [S EXCEPT !.val = @ - 1]
SemLeaveNoUndo(S, p) == IF S.set = "live" THEN [S EXCEPT !.val = @ + 1] ELSE S
SemLockedInverted(S) == S.set = "live" /\ S.val # 0

\* qsem_enter_nowait(S) by p returns true, and its effect.
CanEnter(S) == S.set = "live" /\ S.val > 0
SemEnter(S, p) == [S EXCEPT !.val = @ - 1, !.adj[p] = @ + 1]

\* qsem_leave(S) by p.  It looks at nothing: not at val, not at who entered.
SemLeave(S, p) ==
  IF S.set = "live" THEN [S EXCEPT !.val = @ + 1, !.adj[p] = @ - 1] ELSE S

\* The kernel undoes p's operations when p ends; val does not go below 0.
SemUndo(S, p) ==
  IF S.set = "live"
  THEN [S EXCEPT !.val = IF @ + S.adj[p] < 0 THEN 0 ELSE @ + S.adj[p],
                 !.adj[p] = 0]
  ELSE S

\* qsem_check: semctl(GETVAL) = 0 (an error of semctl is -1: "unlocked").
SemLocked(S) == S.set = "live" /\ S.val = 0

\* qsem_free.
SemFree(S) == [S EXCEPT !.set = "removed"]
=============================================================================
