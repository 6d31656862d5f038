------------------------------- MODULE QList -------------------------------
(***************************************************************************)
(* qlist, and the three containers that are a qlist underneath: qstack,    *)
(* qqueue and qvector.  A datum is a sequence of units of memory (an       *)
(* int64_t is two, an int one, a string ends with the unit 0).  A call is  *)
(* one step: the library is built without threads here.                    *)
(***************************************************************************)
EXTENDS Integers, Sequences, SequencesExt, FiniteSets

CONSTANTS
  Kinds,    \* which of "list", "stack", "queue", "vector" to run
  Data,     \* what is put in a list
  Index,    \* the indexes a caller may give
  MaxObj,   \* bound: objects that can be allocated
  MaxSize   \* bound: limits that are set

ListAssumption ==
  /\ Kinds \subseteq {"list", "stack", "queue", "vector"}
  /\ \A d \in Data : d \in Seq(0 .. 1) /\ d # <<>>
  /\ Index \subseteq Int /\ {MaxObj, MaxSize} \subseteq Nat

VARIABLES
  kind,
  list,   \* first, last, num, datasum, max; prev, next and data of the objects
  ret,    \* what the last call returned: a datum, or success, or failure
  walk,   \* a qdlobj_t for getnext: size # 0, and next; history: the object it saw
          \* last, what it is due to see, and whether the rest is untouched
  log     \* history: what was pushed, in that order; of a list, its last call

listVars == <<kind, list, ret, walk, log>>

Nil == 0
Failed == <<>>  \* false, or NULL
Done == <<2>>    \* true: no datum
Obj == 1 .. MaxObj

NoWalk == [started |-> FALSE, next |-> Nil, at |-> Nil, due |-> <<>>, intact |-> TRUE]

EmptyList ==
  [first |-> Nil, last |-> Nil, num |-> 0, datasum |-> 0, max |-> 0,
   prev |-> [o \in Obj |-> Nil], next |-> [o \in Obj |-> Nil],
   data |-> [o \in Obj |-> <<>>]]

ListInit ==
  /\ kind \in Kinds /\ list = EmptyList /\ ret = Done /\ walk = NoWalk /\ log = <<>>

\* Objects in use have data: none has size 0.
Live(l) == {o \in Obj : l.data[o] # <<>>}

\* The object n links away.
Hop(start, link, n) ==
  LET at[k \in 0 .. n] ==
        IF k = 0 THEN start ELSE IF at[k - 1] = Nil THEN Nil ELSE link[at[k - 1]]
  IN at[n]

\* The objects in the order of their links.
Chain(start, link) ==
  LET n == Cardinality({k \in 1 .. MaxObj : Hop(start, link, k - 1) # Nil})
  IN [k \in 1 .. n |-> Hop(start, link, k - 1)]

\* The units of memory that the objects take.
Units(l) == UNION {{o} \X (1 .. Len(l.data[o])) : o \in Obj}

-----------------------------------------------------------------------------
(* _get_obj, _remove_obj and addat *)

\* Mutant of GetObj: counting from the end begins behind the last.
GetObjFromEnd(l, index) ==
  LET i == IF index < 0 THEN l.num + index ELSE index IN
  IF i \notin 0 .. l.num - 1 THEN Nil
  ELSE IF i < l.num \div 2 THEN Hop(l.first, l.next, i)
  ELSE Hop(l.last, l.prev, l.num - i)

\* From the nearer end.  num is a size_t: a negative index is too large.
GetObj(l, index) ==
  LET i == IF index < 0 THEN l.num + index ELSE index IN
  IF i \notin 0 .. l.num - 1 THEN Nil
  ELSE IF i < l.num \div 2 THEN Hop(l.first, l.next, i)
  ELSE Hop(l.last, l.prev, l.num - 1 - i)

\* Mutant of RemoveObj: the object behind keeps its link to the removed one.
RemoveObjHalf(l, o) ==
  LET p == l.prev[o]  n == l.next[o] IN
  [l EXCEPT !.first = IF p = Nil THEN n ELSE @,
            !.last = IF n = Nil THEN p ELSE @,
            !.next = [x \in Obj |-> IF x = p THEN n ELSE @[x]],
            !.data = [x \in Obj |-> IF x = o THEN <<>> ELSE @[x]],
            !.datasum = @ - Len(l.data[o]), !.num = @ - 1]

RemoveObj(l, o) ==
  LET p == l.prev[o]  n == l.next[o] IN
  [l EXCEPT !.first = IF p = Nil THEN n ELSE @,
            !.last = IF n = Nil THEN p ELSE @,
            !.next = [x \in Obj |-> IF x = p THEN n ELSE @[x]],
            !.prev = [x \in Obj |-> IF x = n THEN p ELSE @[x]],
            !.data = [x \in Obj |-> IF x = o THEN <<>> ELSE @[x]],
            !.datasum = @ - Len(l.data[o]), !.num = @ - 1]

\* Object o between p and n, either of which may be missing.
Link(l, o, d, p, n) ==
  [l EXCEPT !.first = IF p = Nil THEN o ELSE @,
            !.last = IF n = Nil THEN o ELSE @,
            !.next = [x \in Obj |-> IF x = o THEN n ELSE IF x = p THEN o ELSE @[x]],
            !.prev = [x \in Obj |-> IF x = o THEN p ELSE IF x = n THEN o ELSE @[x]],
            !.data = [x \in Obj |-> IF x = o THEN d ELSE @[x]],
            !.datasum = @ + Len(d), !.num = @ + 1]

\* The arguments addat accepts, and the place it takes them to mean.
Position(l, index) == IF index < 0 THEN l.num + index + 1 ELSE index

MayAdd(l, index, d) ==
  /\ d # <<>>
  /\ l.max = 0 \/ l.num < l.max
  /\ Position(l, index) \in 0 .. l.num

Added(l, index, d) ==
  LET i == Position(l, index)
      o == CHOOSE x \in Obj \ Live(l) : TRUE
  IN IF i = 0 THEN Link(l, o, d, Nil, l.first)
     ELSE IF i = l.num THEN Link(l, o, d, l.last, Nil)
     ELSE LET tgt == GetObj(l, i) IN Link(l, o, d, l.prev[tgt], tgt)

-----------------------------------------------------------------------------
(* Calls on a qlist *)

\* A change of the list under a walk.
Disturb ==
  walk' = IF walk.started
          THEN [walk EXCEPT !.intact = FALSE, !.due = <<>>, !.at = Nil] ELSE walk

AddAt(index, d) ==
  /\ Live(list) # Obj
  /\ IF MayAdd(list, index, d)
     THEN list' = Added(list, index, d) /\ ret' = Done /\ Disturb
     ELSE ret' = Failed /\ UNCHANGED <<list, walk>>

Datum(index) == list.data[GetObj(list, index)]

\* _get_at, for getat and popat; answer is what is made of the datum.
GetAt(index, remove, answer) ==
  LET o == GetObj(list, index) IN
  IF o = Nil THEN ret' = Failed /\ UNCHANGED <<list, walk>>
  ELSE /\ ret' = answer
       /\ list' = IF remove THEN RemoveObj(list, o) ELSE list
       /\ IF remove /\ o # walk.at THEN Disturb ELSE UNCHANGED walk

RemoveAtIndex(index) == GetAt(index, TRUE, Done)

SetSize(n) == list' = [list EXCEPT !.max = n] /\ ret' = Done /\ UNCHANGED walk

ReverseList ==
  /\ list' = [list EXCEPT !.first = list.last, !.last = list.first,
                          !.prev = list.next, !.next = list.prev]
  /\ UNCHANGED ret /\ Disturb

Clear ==
  /\ list' = [EmptyList EXCEPT !.max = list.max]
  /\ UNCHANGED ret /\ Disturb

DataFrom(l, start) ==
  LET chain == Chain(start, l.next) IN [i \in 1 .. Len(chain) |-> l.data[chain[i]]]

Objects(l) == DataFrom(l, l.first)

\* The cursor holds a copy of the links: it may go on from an object that is no
\* longer there, but not to one.
GetNext ==
  LET o == IF walk.started THEN walk.next ELSE list.first IN
  /\ o = Nil \/ o \in Live(list)
  /\ walk' = IF o = Nil THEN NoWalk
             ELSE [started |-> TRUE, next |-> list.next[o], intact |-> walk.intact,
                   at |-> IF walk.intact THEN o ELSE Nil,
                   due |-> IF ~walk.intact THEN <<>>
                           ELSE Tail(IF walk.started THEN walk.due ELSE Objects(list))]
  /\ UNCHANGED <<list, ret>>

ListNext ==
  /\ kind = "list"
  /\ \/ \E i \in Index :
          \/ log' = <<"add", i>> /\ \E d \in Data : AddAt(i, d)
          \/ log' = <<"get", i>> /\ GetAt(i, FALSE, Datum(i))
          \/ log' = <<"pop", i>> /\ GetAt(i, TRUE, Datum(i))
          \/ log' = <<"remove", i>> /\ RemoveAtIndex(i)
     \/ log' = <<>> /\ \E n \in 0 .. MaxSize : SetSize(n)
     \/ log' = <<>> /\ (ReverseList \/ Clear)
     \/ UNCHANGED log /\ GetNext
  /\ UNCHANGED kind

-----------------------------------------------------------------------------
(* qstack, qqueue and qvector *)

\* Strings are stored with their end (a vector stores them without), an
\* int64_t with its low and its high half.
Str(d) == d \o <<0>>
Int64 == {<<lo, hi>> : lo, hi \in 0 .. 1}

Push(index, d, pushed) ==
  /\ AddAt(index, d)
  /\ log' = IF ret' = Done THEN Append(log, pushed) ELSE log

\* The last unit is made the end of a string, just to make sure.
AsString(d) == [d EXCEPT ![Len(d)] = 0]

\* An int64_t is read from what is there: behind it, from what follows in memory.
AsInt(d) == IF Len(d) >= 2 THEN {SubSeq(d, 1, 2)} ELSE {<<d[1], hi>> : hi \in 0 .. 1}

\* History: the entry of the log that is at this place of the list.
Forget(i) ==
  LET place == IF i < 0 THEN list.num + i + 1 ELSE i + 1
      at == IF kind = "stack" THEN Len(log) + 1 - place ELSE place
  IN log' = IF at \notin 1 .. Len(log) THEN log ELSE RemoveAt(log, at)

PopInt(remove) ==
  LET o == GetObj(list, 0) IN
  IF o = Nil THEN GetAt(0, remove, Failed) \* 0, which is no answer
  ELSE \E n \in AsInt(list.data[o]) : GetAt(0, remove, n)

Pops ==
  \E i \in Index \cup {0}, remove \in BOOLEAN :
    /\ \/ GetAt(i, remove, Datum(i))
       \/ i = 0 /\ GetAt(0, remove, AsString(Datum(0)))
       \/ i = 0 /\ PopInt(remove)
    /\ IF remove THEN Forget(i) ELSE UNCHANGED log

StackPush == \E d \in Data : Push(0, d, d)
StackPushStr == \E d \in Data : Push(0, Str(d), Str(d))

\* sizeof(int): the low half.
StackPushInt == \E n \in Int64 : Push(0, <<n[1]>>, n)

QueuePush == \E d \in Data : Push(-1, d, d)
QueuePushStr == \E d \in Data : Push(-1, Str(d), Str(d))

QueuePushInt == \E n \in Int64 : Push(-1, n, n)

VectorAdd == \E d \in Data : Push(-1, d, d)

\* The empty string has no size: it is refused.
VectorAddStr == \E d \in Data \cup {<<>>} : Push(-1, d, d)

ToArray ==
  /\ ret' = IF list.num = 0 THEN Failed ELSE FlattenSeq(Objects(list))
  /\ UNCHANGED <<list, walk, log>>

Text(d) == IF d[Len(d)] = 0 THEN Front(d) ELSE d

\* Without the ends of the strings, and with one for all of them.
AsText ==
  /\ ret' = IF list.num = 0 THEN Failed
            ELSE Str(FlattenSeq([i \in 1 .. list.num |-> Text(Objects(list)[i])]))
  /\ UNCHANGED <<list, walk, log>>

EmptyOut == Clear /\ log' = <<>>

ResizeStore == \E n \in 0 .. MaxSize : SetSize(n) /\ UNCHANGED log

StackNext == StackPush \/ StackPushStr \/ StackPushInt \/ Pops \/ ResizeStore \/ EmptyOut
QueueNext == QueuePush \/ QueuePushStr \/ QueuePushInt \/ Pops \/ ResizeStore \/ EmptyOut
VectorNext == VectorAdd \/ VectorAddStr \/ ToArray \/ AsText \/ EmptyOut

StoreNext ==
  /\ \/ kind = "stack" /\ StackNext
     \/ kind = "queue" /\ QueueNext
     \/ kind = "vector" /\ VectorNext
  /\ UNCHANGED kind

ContainerNext == ListNext \/ StoreNext

ContainerSpec == ListInit /\ [][ContainerNext]_listVars

-----------------------------------------------------------------------------
(* Properties *)

\* The links forward and back are each other's reverse, from end to end, and
\* num and datasum are the number and the sizes of the objects: after any
\* sequence of calls, at either end and in the middle, and no object is lost.
WellLinked ==
  LET chain == Chain(list.first, list.next) IN
  /\ Chain(list.last, list.prev) = Reverse(chain)
  /\ ToSet(chain) = Live(list)
  /\ list.num = Len(chain)
  /\ list.datasum = Cardinality(Units(list))

\* A walk over a list from which at most the element it has just seen is taken
\* sees all the elements, in order.
WalkInOrder == walk.started /\ walk.intact => DataFrom(list, walk.next) = walk.due

D == INSTANCE Deque WITH items <- Objects(list), max <- list.max, call <- log

\* A qlist is a deque, from whichever end an index counts and whichever end
\* the element was nearer to.
DequeStep == kind = "list" => [D!DequeNext]_<<list, ret, log>>

\* A stack gives back what was pushed last, a queue what was pushed first (but
\* a pushint of a stack keeps the low half only), a vector all of it in order.
InOrder ==
  LET inside == IF kind = "stack" THEN Reverse(Objects(list)) ELSE Objects(list) IN
  kind # "list" =>
    /\ Len(log) = Len(inside)
    /\ \A i \in 1 .. Len(log) :
         \/ inside[i] = log[i]
         \/ kind = "stack" /\ log[i] \in Int64 /\ inside[i] = <<log[i][1]>>

\* What a vector is made into is what was added, one after the other, with or
\* without the ends of strings.
SerialStep ==
  kind = "vector" /\ UNCHANGED list /\ ret' \notin {Done, Failed} =>
    ret' \in {FlattenSeq(log), Str(FlattenSeq([i \in 1 .. Len(log) |-> Text(log[i])]))}

\* The links of a qlist and its counters agree, a walk may take what it has just
\* seen, and a stack, a queue and a vector keep their order.
ListsWellLinked == kind \in Kinds => WellLinked /\ WalkInOrder /\ InOrder

\* A qlist is a deque, and a vector is made into what was added to it.
ListsAreDeques == [][(kind \in Kinds) => DequeStep /\ SerialStep]_listVars
=============================================================================
