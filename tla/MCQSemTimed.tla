---------------------------- MODULE MCQSemTimed ----------------------------
EXTENDS QSemTimed, TLC

\* The children are interchangeable: only the daemon is named.
Symm == Permutations(Children)

\* The properties are about the time before the first forced unlock.
Unforced == ~forced
=============================================================================
