------------------------------ MODULE QHashTbl ------------------------------
(***************************************************************************)
(* qhashtbl: an array of chains, in which the objects of the keys whose    *)
(* hash is the same modulo the range follow one another, the newest first. *)
(***************************************************************************)
EXTENDS Integers, Sequences, SequencesExt, FiniteSets

CONSTANTS
  Key, Value,
  Hash,   \* qhashmurmur3_32 of each key
  Range_  \* range, the number of chains

HashTblAssumption ==
  /\ 0 \notin Key /\ Hash \in [Key -> Nat] /\ Range_ \in Nat \ {0}
  /\ \A v \in Value : v # <<>>

VARIABLES
  tbl,   \* slots: the objects of each chain, name and data; num
  call,  \* the last call, its key, and what it returned
  walk   \* a qhnobj_t for getnext: the key it is at and the one its link leads
         \* to; history: what it saw, and whether the table is still the same

hashTblVars == <<tbl, call, walk>>

Failed == <<>>
Done == <<0>>
None == 0     \* no object

Slot == 0 .. Range_ - 1
IndexOf(k) == Hash[k] % Range_

NoWalk == [at |-> None, next |-> None, seen |-> <<>>, intact |-> TRUE]
NoEntries == [slots |-> [i \in Slot |-> <<>>], num |-> 0]

HashTblInit == tbl = NoEntries /\ call = <<"clear", 0, Done>> /\ walk = NoWalk

\* The place of a key in its chain, 0 if it is not there: hashes are compared
\* first, then names.
PlaceIn(chain, k) ==
  LET same == {p \in 1 .. Len(chain) : Hash[chain[p].name] = Hash[k] /\ chain[p].name = k}
  IN IF same = {} THEN 0 ELSE CHOOSE p \in same : \A q \in same : p <= q

Find(k) == PlaceIn(tbl.slots[IndexOf(k)], k)

\* Behind an object there is another, or none.
NextOf(chain, p) == IF p < Len(chain) THEN chain[p + 1].name ELSE None

\* The chain and the place of each object.
Objects(t) == UNION {{i} \X (1 .. Len(t.slots[i])) : i \in Slot}

Disturb == walk' = [walk EXCEPT !.intact = walk.at = None, !.seen = <<>>]

-----------------------------------------------------------------------------

Put(k, v) ==
  /\ IF Find(k) = 0
     THEN tbl' = [tbl EXCEPT !.slots[IndexOf(k)] = <<[name |-> k, data |-> v]>> \o @,
                             !.num = @ + 1]
     ELSE tbl' = [tbl EXCEPT !.slots[IndexOf(k)][Find(k)].data = v]
  /\ call' = <<"put", k, Done>> /\ Disturb

Get(k) ==
  /\ call' = <<"get", k, IF Find(k) = 0 THEN Failed
                         ELSE tbl.slots[IndexOf(k)][Find(k)].data>>
  /\ UNCHANGED <<tbl, walk>>

Delete(k) ==
  /\ IF Find(k) = 0 THEN call' = <<"remove", k, Failed>> /\ UNCHANGED <<tbl, walk>>
     ELSE /\ tbl' = [tbl EXCEPT !.slots[IndexOf(k)] = RemoveAt(@, Find(k)), !.num = @ - 1]
          /\ call' = <<"remove", k, Done>>
          \* An object that a cursor leads to must not be freed.
          /\ walk.at # None => walk.next # k
          /\ Disturb

\* Chains are emptied until num, which counts down, is 0.
Emptied(t) == {i \in Slot : Cardinality({o \in Objects(t) : o[1] < i}) < t.num}

Clear ==
  /\ walk.next = None
  /\ tbl' = [slots |-> [i \in Slot |-> IF i \in Emptied(tbl) THEN <<>> ELSE tbl.slots[i]],
             num |-> tbl.num - Cardinality({o \in Objects(tbl) : o[1] \in Emptied(tbl)})]
  /\ call' = <<"clear", 0, Done>> /\ Disturb

\* Along the chain, or to the first of the next chain that is not empty.
GetNext ==
  LET from == IF walk.at = None THEN 0 ELSE IndexOf(walk.at) + 1
      used == {i \in from .. Range_ - 1 : tbl.slots[i] # <<>>}
      goto == IF walk.next # None THEN walk.next
              ELSE IF used = {} THEN None
              ELSE tbl.slots[CHOOSE i \in used : \A j \in used : i <= j][1].name
  IN /\ IF goto = None THEN walk' = NoWalk
        ELSE walk' = [walk EXCEPT !.at = goto,
                        !.next = NextOf(tbl.slots[IndexOf(goto)],
                                        PlaceIn(tbl.slots[IndexOf(goto)], goto)),
                        !.seen = IF walk.intact THEN Append(@, goto) ELSE @]
     /\ UNCHANGED <<tbl, call>>

HashTblNext ==
  \/ \E k \in Key : Get(k) \/ Delete(k) \/ \E v \in Value : Put(k, v)
  \/ Clear \/ GetNext

HashTblSpec == HashTblInit /\ [][HashTblNext]_hashTblVars

-----------------------------------------------------------------------------
(* Properties *)

Names == {k \in Key : Find(k) # 0}

Contents == [k \in Key |-> IF Find(k) = 0 THEN <<>>
                           ELSE tbl.slots[IndexOf(k)][Find(k)].data]

Map == INSTANCE Dictionary WITH Capacity <- 0, map <- Contents

\* Whatever the hashes and however they collide, the table is a dictionary.
MapStep == [Map!DictNext]_<<tbl, call>>

\* It counts its objects; a key has one, in the chain of its hash.
Counted ==
  /\ tbl.num = Cardinality(Objects(tbl))
  /\ \A i \in Slot : \A p, q \in 1 .. Len(tbl.slots[i]) :
       /\ IndexOf(tbl.slots[i][p].name) = i
       /\ tbl.slots[i][p].name = tbl.slots[i][q].name => p = q

\* A walk over a table that nobody changes sees each key once.
WalkStep ==
  /\ walk.at # None /\ walk'.at = None /\ walk.intact => ToSet(walk.seen) = Names
  /\ Len(walk'.seen) = Cardinality(ToSet(walk'.seen))
=============================================================================
