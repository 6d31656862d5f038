------------------------------- MODULE MCPool -------------------------------
EXTENDS Pool, TLC

\* Children are interchangeable.
Symm == Permutations(Pid)

\* The properties are about the time before sections overlap, up to the step that
\* makes them.
Unforced == ~overrun
=============================================================================
