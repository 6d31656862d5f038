------------------------------- MODULE Deque -------------------------------
(***************************************************************************)
(* What a qlist promises: a sequence, addressed from either end, that      *)
(* holds at most max elements if max is not 0.                             *)
(***************************************************************************)
EXTENDS Integers, Sequences, SequencesExt

CONSTANTS Data, Index, MaxSize

VARIABLES
  items,  \* the elements, first to last
  max,    \* the limit; 0 for none
  ret,    \* what the last call returned: a datum, or success, or failure
  call    \* which call that was, and its index

dequeVars == <<items, max, ret, call>>

Failed == <<>>  \* false, or NULL
Done == <<2>>    \* true

\* Index -1 is the last element of the n there are, -n the first.
Place(i, n) == IF i < 0 THEN n + i ELSE i

DequeInit == items = <<>> /\ max = 0 /\ ret = Done /\ call = <<>>

Limit(n) == max' = n /\ ret' = Done /\ UNCHANGED items

\* Adding counts the places between elements: -1 is behind the last.
Add(i, d) ==
  LET p == Place(i, Len(items) + 1) IN
  IF (max = 0 \/ Len(items) < max) /\ p \in 0 .. Len(items)
  THEN items' = InsertAt(items, p + 1, d) /\ ret' = Done /\ UNCHANGED max
  ELSE ret' = Failed /\ UNCHANGED <<items, max>>

\* The element is taken or not, and told to the caller or not.
Take(i, remove, told) ==
  LET p == Place(i, Len(items)) IN
  IF p \in 0 .. Len(items) - 1
  THEN /\ ret' = IF told THEN items[p + 1] ELSE Done
       /\ items' = IF remove THEN RemoveAt(items, p + 1) ELSE items
       /\ UNCHANGED max
  ELSE ret' = Failed /\ UNCHANGED <<items, max>>

Turn == items' = Reverse(items) /\ UNCHANGED <<max, ret>>

Empty == items' = <<>> /\ UNCHANGED <<max, ret>>

DequeNext ==
  \/ call' = <<>> /\ (Turn \/ Empty \/ \E n \in 0 .. MaxSize : Limit(n))
  \/ \E i \in Index :
       \/ call' = <<"add", i>> /\ \E d \in Data : Add(i, d)
       \/ call' = <<"get", i>> /\ Take(i, FALSE, TRUE)
       \/ call' = <<"pop", i>> /\ Take(i, TRUE, TRUE)
       \/ call' = <<"remove", i>> /\ Take(i, TRUE, FALSE)

DequeSpec == DequeInit /\ [][DequeNext]_dequeVars
=============================================================================
