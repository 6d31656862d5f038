------------------------------ MODULE Registry ------------------------------
(***************************************************************************)
(* What the pool of pool.c is for: it says which children there are.  A    *)
(* child that exists joins if a place is free, works as a member, retires  *)
(* (it ends, or dies) and only then gives up its place; a process id is    *)
(* used again only when its last owner is out of the pool.                 *)
(***************************************************************************)
EXTENDS Integers, FiniteSets

CONSTANTS Pid, Capacity

VARIABLES
  exists,  \* processes: forked, and not yet reaped
  pool,    \* members
  active   \* members that work

rvars == <<exists, pool, active>>

RegistryInit == exists = {} /\ pool = {} /\ active = {}

Fork(p) ==
  /\ p \notin exists \cup pool
  /\ exists' = exists \cup {p}
  /\ UNCHANGED <<pool, active>>

Join(p) ==
  /\ p \in exists \ pool
  /\ Cardinality(pool) < Capacity
  /\ pool' = pool \cup {p}
  /\ UNCHANGED <<exists, active>>

Work(p) ==
  /\ p \in exists \cap pool
  /\ active' = active \cup {p}
  /\ UNCHANGED <<exists, pool>>

Retire(p) ==
  /\ p \in active
  /\ active' = active \ {p}
  /\ UNCHANGED <<exists, pool>>

\* The member gives up its place itself, or the daemon does it for a dead one.
Leave(p) ==
  /\ p \in pool \ active
  /\ pool' = pool \ {p}
  /\ UNCHANGED <<exists, active>>

Reap(p) ==
  /\ p \in exists \ active
  /\ exists' = exists \ {p}
  /\ UNCHANGED <<pool, active>>

RegistryNext ==
  \E p \in Pid : \/ Fork(p) \/ Join(p) \/ Work(p)
                 \/ Retire(p) \/ Leave(p) \/ Reap(p)

RegistrySpec == RegistryInit /\ [][RegistryNext]_rvars
=============================================================================
