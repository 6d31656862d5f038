----------------------------- MODULE MCHashArr -----------------------------
(* Small enough to see which puts bring a link back to a slot that is gone. *)
EXTENDS QHashArr

\* A value of one slot and one of two; and two keys of one hash, a third whose
\* slot the second may have taken, and a fourth.
MCValue == {<<1>>, <<2, 3>>}
MCHash == <<0, 0, 1, 2>>
=============================================================================
