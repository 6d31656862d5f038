------------------------------- MODULE MCQSem -------------------------------
EXTENDS QSem, TLC

\* The children are interchangeable: only the daemon is named.
Symm == Permutations(Children)
=============================================================================
