------------------------------ MODULE MCServer ------------------------------
EXTENDS Server

\* The configuration of the start, and the one of a reload, with two servers each.
Two == <<2, 2>>

\* What the daemon is asked for, besides what its children make of it: to end or
\* to read its configuration again.
VARIABLE wish

MCInit == Init /\ wish \in {"HUP", "TERM"}

MCNext ==
  /\ Next
  /\ \A s \in {"HUP", "TERM"} \ {wish} : s \in dsig' => s \in dsig
  /\ UNCHANGED wish

\* FairSpec, for each wish.
MCSpec ==
  /\ MCInit /\ [][MCNext]_<<vars, wish>>
  /\ WF_vars(Daemon)
  /\ \A c \in Child : WF_vars(Works(c))
=============================================================================
