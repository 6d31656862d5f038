----------------------------- MODULE Dictionary -----------------------------
(***************************************************************************)
(* What a hash table promises: a map from keys to values, which may have   *)
(* room for so many units of values only.                                  *)
(***************************************************************************)
EXTENDS Integers, Sequences, Functions

CONSTANTS Key, Value, Capacity \* 0: no limit

VARIABLES
  map,  \* the value of each key, empty if there is none
  call  \* the last call, the key it was about, and what it returned

dictVars == <<map, call>>

Failed == <<>>
Done == <<0>>

Units(m) == FoldFunction(LAMBDA v, n : n + Len(v), 0, m)

DictInit == map = [k \in Key |-> <<>>] /\ call = <<"clear", 0, Done>>

\* A full map takes nothing, not even the value of a key it has; one that has
\* room, but not enough of it, takes nothing either and loses the old value.
Put(k, v) ==
  LET m == map  new == [m EXCEPT ![k] = v]
  IN IF Capacity # 0 /\ Units(m) >= Capacity
     THEN call' = <<"put", k, Failed>> /\ UNCHANGED map
     ELSE IF Capacity = 0 \/ Units(new) <= Capacity
     THEN call' = <<"put", k, Done>> /\ map' = new
     ELSE call' = <<"put", k, Failed>> /\ map' = [m EXCEPT ![k] = <<>>]

Get(k) == call' = <<"get", k, map[k]>> /\ UNCHANGED map

Delete(k) ==
  /\ call' = <<"remove", k, IF map[k] = <<>> THEN Failed ELSE Done>>
  /\ map' = [map EXCEPT ![k] = <<>>]

Wipe == call' = <<"clear", 0, Done>> /\ map' = [k \in Key |-> <<>>]

DictNext ==
  \/ Wipe
  \/ \E k \in Key : Get(k) \/ Delete(k) \/ \E v \in Value : Put(k, v)

DictSpec == DictInit /\ [][DictNext]_dictVars
=============================================================================
