------------------------------ MODULE QListTbl ------------------------------
(***************************************************************************)
(* qlisttbl: the table in which qhttpd keeps configuration, headers and    *)
(* mime types.  Its objects are linked as those of a qlist (see QList) and *)
(* are a sequence here.  A name is a pair of a letter and its case, so     *)
(* that names that differ in case only can be told apart or not.           *)
(***************************************************************************)
EXTENDS Integers, Sequences, SequencesExt, FiniteSets

CONSTANTS
  Name,
  Entry,    \* the names and data that are put
  Comment,  \* the names that a file would show as a comment
  MaxItems  \* bound: elements of the table

ListTblAssumption ==
  /\ Name \subseteq (1 .. 2) \X (0 .. 1) /\ Comment \subseteq Name
  /\ \A e \in Entry : e.name \in Name
  /\ MaxItems \in Nat

VARIABLES
  tbl,   \* items; lookupcase, sortflag, putdir, getdir, nextdir
  cursor \* a qdlnobj_t for getnext: the name that is looked for, the place it
         \* goes on from; history: what it saw, and what there was to see

listTblVars == <<tbl, cursor>>

\* lookupcase, sortflag (1 ascending, 2 descending) and the directions.
NewTable == [items |-> <<>>, lookupcase |-> FALSE, sortflag |-> 0,
             putdir |-> FALSE, getdir |-> FALSE, nextdir |-> FALSE]
NoCursor == [on |-> FALSE, name |-> {}, from |-> 0, seen |-> <<>>, due |-> <<>>]

ListTblInit == tbl = NewTable /\ cursor = NoCursor

\* strcmp and strcasecmp: capitals come before the other letters.
NameCmp(t, a, b) ==
  LET x == IF t.lookupcase THEN a[1] ELSE 2 * a[2] + a[1]
      y == IF t.lookupcase THEN b[1] ELSE 2 * b[2] + b[1]
  IN x - y

\* _namematch compares hashes first, and _namecasematch does not.
NameMatch(t, o, name) == IF t.lookupcase THEN o.name[1] = name[1] ELSE o.name = name

\* The numbers of a set, in order, and the elements of a sequence at these places.
Ascending(S) ==
  CHOOSE q \in [1 .. Cardinality(S) -> S] : \A i, j \in DOMAIN q : i < j => q[i] < q[j]
Pick(s, places) == [i \in 1 .. Len(places) |-> s[places[i]]]
ElementsAt(s, S) == Pick(s, Ascending(S))

\* The first of a set of places or the last, or 0.
Nearest(S, forward) ==
  IF S = {} THEN 0
  ELSE CHOOSE p \in S : \A q \in S : IF forward THEN p <= q ELSE p >= q

\* The places of a name, or all if there is none.
Places(t, name) == {p \in 1 .. Len(t.items) : \A x \in name : NameMatch(t, t.items[p], x)}

\* _findobj: the place of the first match from the front or from the end, or 0.
FindObj(t, name, first) == Nearest(Places(t, {name}), first)

\* The elements of a name, in the order of a walk.
Matching(t, name) == ElementsAt(t.items, Places(t, name))
InDirection(t, s) == IF t.nextdir THEN Reverse(s) ELSE s

\* The places getnext looks at, from one on: in a sorted table it stops at the
\* first that does not match.
Remaining(t, from) == IF t.nextdir THEN 1 .. from ELSE from .. Len(t.items)
Ahead(t, name, from) ==
  {p \in Remaining(t, from) :
     name # {} /\ t.sortflag # 0 =>
       \A q \in Remaining(t, from) : (IF t.nextdir THEN q > p ELSE q < p) => q \in Places(t, name)}

\* getnext: where it finds an element, or 0; name is a set of one name, or empty.
NextPlace(t, w) ==
  LET start == IF w.from # 0 THEN w.from
               ELSE IF w.name # {} THEN FindObj(t, CHOOSE x \in w.name : TRUE, ~t.nextdir)
               ELSE IF t.nextdir THEN Len(t.items) ELSE 1
  IN IF start = 0 THEN 0
     ELSE Nearest(Ahead(t, w.name, start) \cap Places(t, w.name), ~t.nextdir)

\* Where a walk goes on from p; behind the ends there is nothing.
After(t, p) == IF t.nextdir THEN p - 1 ELSE p + 1
AtEnd(t, p) == p \notin 1 .. Len(t.items)

\* getmulti and remove_: the places of all the elements that getnext finds.
Multi(t, name) ==
  LET places[n \in 0 .. Len(t.items)] ==
        IF n = 0 THEN <<>>
        ELSE LET s == places[n - 1]
                 from == IF s = <<>> THEN 0 ELSE After(t, Last(s))
                 p == IF s # <<>> /\ AtEnd(t, from) THEN 0
                      ELSE NextPlace(t, [name |-> {name}, from |-> from])
             IN IF p = 0 THEN s ELSE Append(s, p)
  IN places[Len(t.items)]

\* remove_
Removed(t, name) ==
  [t EXCEPT !.items = ElementsAt(@, (1 .. Len(@)) \ ToSet(Multi(t, name)))]

-----------------------------------------------------------------------------
(* sort_ *)

Swap(s, i) == [s EXCEPT ![i] = s[i + 1], ![i + 1] = s[i]]

\* Whether the first of two has to come behind the second.
Behind(t, a, b, descending) ==
  IF descending THEN NameCmp(t, a.name, b.name) < 0 ELSE NameCmp(t, a.name, b.name) > 0

\* One pass over the first n, and how many remain to be looked at.
Pass(t, s, n, descending) ==
  LET upto[i \in 0 .. n - 1] ==
        IF i = 0 THEN [s |-> s, n |-> 0]
        ELSE LET u == upto[i - 1] IN
             IF Behind(t, u.s[i], u.s[i + 1], descending) THEN [s |-> Swap(u.s, i), n |-> i]
             ELSE u
  IN upto[n - 1]

\* Each pass leaves one less, so Len + 1 are enough.
Sorted(t, descending) ==
  LET after[k \in 0 .. Len(t.items) + 1] ==
        IF k = 0 THEN [s |-> t.items, n |-> Len(t.items)]
        ELSE IF after[k - 1].n = 0 THEN after[k - 1]
        ELSE Pass(t, after[k - 1].s, after[k - 1].n, descending)
  IN [t EXCEPT !.items = after[Len(t.items) + 1].s]

-----------------------------------------------------------------------------
(* Calls.  A walk is over when the table changes under it. *)

Ends == cursor' = IF tbl' = tbl THEN cursor ELSE NoCursor

SetCase(insensitive) ==
  LET t == [tbl EXCEPT !.lookupcase = insensitive] IN
  /\ tbl' = IF insensitive # tbl.lookupcase /\ t.sortflag # 0
            THEN Sorted(t, t.sortflag = 2) ELSE t
  /\ Ends

SetSort(sort, descending) ==
  LET t == [tbl EXCEPT !.sortflag = IF ~sort THEN 0 ELSE IF descending THEN 2 ELSE 1] IN
  /\ tbl' = IF sort /\ t.sortflag # tbl.sortflag THEN Sorted(t, descending) ELSE t
  /\ Ends

SetPutDir(before) ==
  tbl' = [tbl EXCEPT !.putdir = before] /\ Ends

SetGetDir(first) ==
  tbl' = [tbl EXCEPT !.getdir = first] /\ Ends

SetNextDir(backward) ==
  tbl' = [tbl EXCEPT !.nextdir = backward] /\ Ends

\* Where _put links an object in: next to its like in a sorted table, else at
\* the end that is set (in a sorted table by putdir, whatever first is).
PlaceFor(t, name, first) ==
  LET match == FindObj(t, name, first) IN
  IF t.sortflag # 0 /\ match # 0 THEN (IF first THEN match ELSE match + 1)
  ELSE IF (IF t.sortflag = 0 THEN first ELSE t.putdir) THEN 1
  ELSE Len(t.items) + 1

\* Mutant of Inserted: what is put into a sorted table is put at the end.
InsertedLast(t, o, first) ==
  [t EXCEPT !.items = IF first /\ t.sortflag = 0 THEN <<o>> \o @ ELSE Append(@, o)]

Inserted(t, o, first) == [t EXCEPT !.items = InsertAt(@, PlaceFor(t, o.name, first), o)]

Put(e, unique) ==
  LET t == IF unique THEN Removed(tbl, e.name) ELSE tbl IN
  /\ Len(t.items) < MaxItems
  /\ tbl' = Inserted(t, e, tbl.putdir)
  /\ Ends

\* The data of the elements get and getmulti find.
Get(t, name) ==
  LET p == FindObj(t, name, t.getdir) IN IF p = 0 THEN {} ELSE {t.items[p].data}

GetMulti(t, name) == Pick(t.items, Multi(t, name))

GetNextOf(name) ==
  LET w == IF cursor.on THEN cursor
           ELSE [NoCursor EXCEPT !.name = name, !.due = InDirection(tbl, Matching(tbl, name))]
      p == IF w.on /\ AtEnd(tbl, w.from) THEN 0 ELSE NextPlace(tbl, w)
  IN /\ cursor.on => name = cursor.name
     /\ cursor' = IF p = 0 THEN NoCursor
                ELSE [w EXCEPT !.on = TRUE, !.from = After(tbl, p), !.seen = Append(@, tbl.items[p])]
     /\ UNCHANGED tbl

RemoveName(name) ==
  /\ tbl' = Removed(tbl, name)
  /\ Ends

\* The element getnext has just given: its copies of the links still hold, and
\* the walk goes on behind it.
RemoveSeen ==
  LET p == IF tbl.nextdir THEN cursor.from + 1 ELSE cursor.from - 1 IN
  /\ cursor.on /\ p \in 1 .. Len(tbl.items) /\ Last(cursor.seen) = tbl.items[p]
  /\ tbl' = [tbl EXCEPT !.items = RemoveAt(@, p)]
  /\ cursor' = [cursor EXCEPT !.from = IF tbl.nextdir THEN @ ELSE @ - 1]

SortOnce(descending) ==
  /\ tbl' = Sorted(tbl, descending)
  /\ Ends

ReverseTable ==
  /\ tbl' = [tbl EXCEPT !.items = Reverse(@),
                        !.sortflag = IF @ = 1 THEN 2 ELSE IF @ = 2 THEN 1 ELSE 0]
  /\ Ends

ClearTable ==
  /\ tbl' = [tbl EXCEPT !.items = <<>>]
  /\ Ends

\* Appended, line by line, each as it was parsed; a line whose name begins with #
\* is a comment.
NoComment(lines) == ElementsAt(lines, {p \in 1 .. Len(lines) : lines[p].name \notin Comment})
Loaded(t, lines) ==
  LET kept == NoComment(lines)
      after[n \in 0 .. Len(kept)] ==
        IF n = 0 THEN t ELSE Inserted(after[n - 1], kept[n], FALSE)
  IN after[Len(kept)]

\* It answers 0, however many elements it loads.
Load(lines) ==
  /\ Len(tbl.items) + Len(lines) <= MaxItems
  /\ tbl' = Loaded(tbl, lines)
  /\ Ends

ListTblNext ==
  \/ \E flag \in BOOLEAN : SetCase(flag) \/ SetPutDir(flag) \/ SetGetDir(flag)
                             \/ SetNextDir(flag) \/ SortOnce(flag)
  \/ \E sort, descending \in BOOLEAN : SetSort(sort, descending)
  \/ \E e \in Entry : Load(<<e>>) \/ \E unique \in BOOLEAN : Put(e, unique)
  \/ \E name \in Name : RemoveName(name)
  \/ \E name \in {{}} \cup {{x} : x \in Name} : GetNextOf(name)
  \/ RemoveSeen \/ ReverseTable \/ ClearTable

ListTblSpec == ListTblInit /\ [][ListTblNext]_listTblVars

-----------------------------------------------------------------------------
(* Properties *)

\* All the elements of a name are found, in the order of the table, although in
\* a sorted table the search stops at the first other name: whatever was put,
\* sorted, reversed and loaded, the elements of a name are next to one another.
FindsAll ==
  \A name \in Name : GetMulti(tbl, name) = InDirection(tbl, Matching(tbl, {name}))

\* A walk over a table from which at most what it has just seen is removed sees
\* all that was there when it began, or all of the name it looks for.
SeesAll == cursor.on /\ ~cursor'.on /\ tbl' = tbl => cursor.seen = cursor.due

\* setsort, setcase and sort leave the names in order and the elements of one
\* name in the order they had; of the table nothing is lost.
SortsStably ==
  \A descending \in BOOLEAN :
    LET s == Sorted(tbl, descending) IN
    /\ \A i \in 1 .. Len(s.items) - 1 :
         ~Behind(tbl, s.items[i], s.items[i + 1], descending)
    /\ \A name \in Name : Matching(s, {name}) = Matching(tbl, {name})
    /\ Len(s.items) = Len(tbl.items)

\* After a put of a unique name there is one element of that name; and get
\* finds what was put last, sorted or not, if it looks from the end it is put to.
PutStep ==
  \A e \in Entry, unique \in BOOLEAN :
    Put(e, unique) =>
      /\ unique => Len(Matching(tbl', {e.name})) = 1
      /\ tbl.putdir = tbl.getdir => Get(tbl', e.name) = {e.data}
=============================================================================
