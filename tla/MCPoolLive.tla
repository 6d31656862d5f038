----------------------------- MODULE MCPoolLive -----------------------------
(***************************************************************************)
(* The pool while the lock excludes, and while unlocks are forced and      *)
(* sections overlap; then without connections.                             *)
(***************************************************************************)
EXTENDS Pool

Crowd == INSTANCE Pool WITH MayOverrun <- TRUE, MaxConnected <- 0

VARIABLE crowded  \* which of the two

MCInit == Init /\ crowded \in BOOLEAN

MCNext == IF crowded THEN Crowd!Next ELSE Next

\* FairSpec of each.
MCSpec ==
  /\ MCInit /\ [][MCNext /\ UNCHANGED crowded]_<<vars, crowded>>
  /\ \A p \in Pid : /\ WF_vars(IF crowded THEN Crowd!Advance(p) ELSE Advance(p))
                    /\ WF_vars(Reap(p))
  /\ WF_vars(IF crowded THEN Crowd!Reaping ELSE Reaping)
  /\ WF_vars(IF crowded THEN Crowd!Check ELSE Check)
=============================================================================
