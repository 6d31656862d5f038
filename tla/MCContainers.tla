---------------------------- MODULE MCContainers ----------------------------
(***************************************************************************)
(* The containers of qlibc, one at a time: which one is chosen at first.   *)
(***************************************************************************)
EXTENDS QList

VARIABLES held, astray  \* of the hash array

\* The others keep their contents in list, and in ret what the last call returned.
vars == <<listVars, held, astray>>

ListKinds == {"list", "stack", "queue", "vector"}
ListData == {<<1>>, <<1, 0>>}
Indexes == -3 .. 2

\* Names 1 and 4 share a hash modulo the range, 2 and 3 share nothing.
H == INSTANCE QHashTbl WITH
  Key <- 1 .. 4, Value <- {<<1>>, <<2>>}, Hash <- <<1, 3, 5, 4>>, Range_ <- 3,
  tbl <- list, call <- ret

\* Two keys of one hash; those of the others are slots they may have taken.
A == INSTANCE QHashArr WITH
  Key <- 1 .. 4, Value <- {<<1>>, <<2, 3>>}, Hash <- <<0, 0, 1, 2>>, maxslots <- 5,
  tbl <- list, call <- ret

\* A name in both cases, one of them with two values, and another name.
T == INSTANCE QListTbl WITH
  Name <- {<<1, 0>>, <<1, 1>>, <<2, 1>>},
  Entry <- {[name |-> <<1, 0>>, data |-> 1], [name |-> <<1, 1>>, data |-> 1],
            [name |-> <<1, 1>>, data |-> 2], [name |-> <<2, 1>>, data |-> 1]},
  Comment <- {<<2, 1>>}, MaxItems <- MaxObj,
  tbl <- list, cursor <- walk

ASSUME ContainersAssumption ==
  ListAssumption /\ H!HashTblAssumption /\ A!HashArrAssumption /\ T!ListTblAssumption

Init ==
  \/ ListInit /\ held = <<>> /\ astray = FALSE
  \/ kind = "hashtbl" /\ H!HashTblInit /\ log = <<>> /\ held = <<>> /\ astray = FALSE
  \/ kind = "hasharr" /\ A!HashArrInit /\ log = <<>>
  \/ kind = "listtbl" /\ T!ListTblInit /\ ret = <<>> /\ log = <<>> /\ held = <<>> /\ astray = FALSE

Next ==
  \/ ContainerNext /\ UNCHANGED <<held, astray>>
  \/ kind = "hashtbl" /\ H!HashTblNext /\ UNCHANGED <<kind, log, held, astray>>
  \/ kind = "hasharr" /\ A!HashArrNext /\ UNCHANGED <<kind, log>>
  \/ kind = "listtbl" /\ T!ListTblNext /\ UNCHANGED <<kind, ret, log, held, astray>>

Spec == Init /\ [][Next]_vars

-----------------------------------------------------------------------------
(* The properties of each module *)

\* The slots of the hash tables are those of their keys, and the elements of a
\* qlisttbl are found and sorted (QHashTbl!Counted, QHashArr!SlotsAgree,
\* and QListTbl).
TablesAgree ==
  /\ kind = "hashtbl" => H!Counted
  /\ kind = "hasharr" => A!SlotsAgree
  /\ kind = "listtbl" => T!FindsAll /\ T!SortsStably

\* The hash tables are dictionaries (Dictionary), however keys collide, and a
\* walk over one sees each key once; a qhasharr until a slot is relinked by a
\* link back that is no longer true.
HashesAreMaps ==
  [][/\ kind = "hashtbl" => H!MapStep /\ H!WalkStep
     /\ kind = "hasharr" => A!MapStep /\ A!WalkStep]_vars

\* What is put into a qlisttbl is found, alone if it is to be unique, and a walk
\* sees all there is to see, although what it has just seen may be removed.
ListTblKeeps == [][kind = "listtbl" => T!PutStep /\ T!SeesAll]_vars
=============================================================================
