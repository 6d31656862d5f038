------------------------------ MODULE QHashArr ------------------------------
(***************************************************************************)
(* qhasharr: a hash table in an array of slots.  A key lives in the slot   *)
(* of its hash, which counts the keys of that hash; the others of them are *)
(* in any slot, with count -1.  A value that one slot cannot hold goes on  *)
(* in slots with count -2, linked to one another and back (in their hash). *)
(* A value is a sequence of the units that fit in one slot.  Keys are told *)
(* apart: their MD5 hashes do not collide.                                 *)
(***************************************************************************)
EXTENDS Integers, Sequences, SequencesExt

CONSTANTS
  Key, Value,
  Hash,     \* of each key, modulo maxslots
  maxslots

HashArrAssumption ==
  /\ maxslots \in Nat \ {0} /\ Hash \in [Key -> 0 .. maxslots - 1]
  /\ \A v \in Value : v # <<>>

VARIABLES
  tbl,   \* slots, usedslots, num
  call,  \* the last call, its key, and what it returned
  held,  \* history: what get would answer for each key
  walk,  \* idx of getnext; history: what it saw, whether the table is the same
  astray \* history: a slot was relinked by a link back that was no longer true

hashArrVars == <<tbl, call, held, walk, astray>>

Failed == <<>>
Done == <<0>>
Bug == <<-1>>   \* EFAULT: what the code calls a bug

Slot == 0 .. maxslots - 1
NoKey == 0

\* Of a slot with count 0 nothing else is read.
Unused == [count |-> 0, hash |-> 0, link |-> -1, key |-> NoKey, val |-> <<>>]
NoWalk == [idx |-> 0, seen |-> <<>>, intact |-> TRUE]
Cleared == [slots |-> [i \in Slot |-> Unused], usedslots |-> 0, num |-> 0]

\* The slots from i on, and around.
Around(i) == [n \in 1 .. maxslots |-> (i + n - 1) % maxslots]

FindEmpty(t, start) ==
  LET order == Around(start)
      n == SelectInSeq(order, LAMBDA i : t.slots[i].count = 0)
  IN IF n = 0 THEN -1 ELSE order[n]

\* Mutant of GetIdx: it stops after as many slots as there are keys of the hash.
GetIdxNear(t, k) ==
  LET h == Hash[k]
      near == SubSeq(Around(h), 1, t.slots[h].count)
      n == SelectInSeq(near, LAMBDA i : t.slots[i].hash = h /\ t.slots[i].key = k
                                          /\ t.slots[i].count >= -1)
  IN IF t.slots[h].count <= 0 \/ n = 0 THEN -1 ELSE near[n]

\* The keys of this hash, as many as the first slot counts.
GetIdx(t, k) ==
  LET h == Hash[k]
      same == SelectSeq(Around(h), LAMBDA i : t.slots[i].hash = h
                          /\ (t.slots[i].count > 0 \/ t.slots[i].count = -1))
      n == SelectInSeq(same, LAMBDA i : t.slots[i].key = k)
  IN IF t.slots[h].count <= 0 \/ n = 0 \/ n > t.slots[h].count THEN -1 ELSE same[n]

\* The slots that are linked from i on.
Links(t, i) ==
  LET at[n \in 1 .. maxslots] ==
        IF n = 1 THEN i
        ELSE IF at[n - 1] = -1 THEN -1 ELSE t.slots[at[n - 1]].link
  IN SelectSeq(at, LAMBDA x : x # -1)

GetData(t, i) ==
  LET links == Links(t, i)
  IN FlattenSeq([n \in 1 .. Len(links) |-> t.slots[links[n]].val])

\* What get would answer for each key.
Held(t) ==
  [k \in Key |-> LET i == GetIdx(t, k) IN IF i = -1 THEN Failed ELSE GetData(t, i)]

HashArrInit ==
  /\ tbl = Cleared /\ held = Held(Cleared) /\ call = <<"clear", 0, Done>>
  /\ walk = NoWalk /\ astray = FALSE

RemoveSlot(t, i) == [t EXCEPT !.slots[i] = Unused, !.usedslots = @ - 1]
CopySlot(t, to, from) == [t EXCEPT !.slots[to] = t.slots[from], !.usedslots = @ + 1]

RemoveData(t, i) ==
  [FoldLeft(RemoveSlot, t, Links(t, i)) EXCEPT !.num = @ - 1]

\* _put_data: stored, or not for want of slots.
PutData(t, i, h, k, v, count) ==
  LET first ==
        [t EXCEPT !.slots[i] = [count |-> count, hash |-> h, link |-> -1, key |-> k, val |-> <<v[1]>>],
                  !.usedslots = @ + 1, !.num = @ + 1]
      store[n \in 1 .. Len(v)] ==
        IF n = 1 THEN [t |-> first, at |-> i, ok |-> TRUE]
        ELSE LET s == store[n - 1]
                 e == FindEmpty(s.t, s.at + 1)
             IN IF ~s.ok THEN s
                ELSE IF e = -1 THEN [t |-> RemoveData(s.t, i), at |-> i, ok |-> FALSE]
                ELSE [t |-> [s.t EXCEPT
                         !.slots[e] = [count |-> -2, hash |-> s.at, link |-> -1,
                                       key |-> NoKey, val |-> <<v[n]>>],
                         !.slots[s.at].link = e, !.usedslots = @ + 1],
                      at |-> e, ok |-> TRUE]
  IN store[Len(v)]

\* Mutant of Relink: the slots linked to a moved one are left as they are.
RelinkNot(t, i) == t

\* A moved slot of a value: its neighbours follow.
Relink(t, i) ==
  LET mother == [t EXCEPT !.slots[t.slots[i].hash].link = i]
      next   == mother.slots[i].link
  IN  IF t.slots[i].count # -2 THEN t
      ELSE IF next = -1 THEN mother
      ELSE [mother EXCEPT !.slots[next].hash = i]

\* Where a slot of a value is linked from: not always where its hash says.
Astray(t, i) == t.slots[i].count = -2 /\ t.slots[t.slots[i].hash].link # i

-----------------------------------------------------------------------------

\* remove_: the key in slot i.
Removed(t, i) ==
  LET s == t.slots[i]
      others == SelectInSeq(Around(i + 1), LAMBDA x : x # i /\ t.slots[x].count = -1
                                                       /\ t.slots[x].hash = s.hash)
  IN IF s.count = 1 THEN [t |-> RemoveData(t, i), ret |-> Done]
     ELSE IF s.count > 1
     THEN IF others = 0 THEN [t |-> t, ret |-> Bug]
          ELSE LET j == Around(i + 1)[others]
                   u == RemoveSlot(CopySlot(RemoveData(t, i), i, j), j)
                   w == [u EXCEPT !.slots[i].count = s.count - 1]
               IN [t |-> IF w.slots[i].link = -1 THEN w
                         ELSE [w EXCEPT !.slots[w.slots[i].link].hash = i],
                   ret |-> Done]
     ELSE IF t.slots[s.hash].count <= 1 THEN [t |-> t, ret |-> Bug]
     ELSE [t |-> RemoveData([t EXCEPT !.slots[s.hash].count = @ - 1], i), ret |-> Done]

\* put, of a key that is not there.
PutNew(t, k, v) ==
  LET h == Hash[k]
      Fail(u) == [t |-> u, ret |-> Failed, astray |-> FALSE]
      Stored(p, lost) == [t |-> p.t, ret |-> IF p.ok THEN Done ELSE Failed, astray |-> lost]
  IN IF t.usedslots >= maxslots THEN Fail(t)
     ELSE IF t.slots[h].count = 0 THEN Stored(PutData(t, h, h, k, v, 1), FALSE)
     ELSE IF t.slots[h].count > 0
     THEN LET i == FindEmpty(t, h) IN
          IF i = -1 THEN Fail(t)
          ELSE LET p == PutData(t, i, h, k, v, -1) IN
               IF p.ok THEN Stored([p EXCEPT !.t.slots[h].count = @ + 1], FALSE)
               ELSE Stored(p, FALSE)
     ELSE LET i == FindEmpty(t, h + 1) IN
          IF i = -1 THEN Fail(t)
          ELSE Stored(PutData(Relink(RemoveSlot(CopySlot(t, i, h), h), i), h, h, k, v, 1),
                      Astray(t, h))

Disturb == walk' = IF walk.idx = 0 THEN walk ELSE [walk EXCEPT !.intact = FALSE, !.seen = <<>>]

\* A value that is there is removed first.
Put(k, v) ==
  /\ ~astray
  /\ LET i == GetIdx(tbl, k)
         p == IF tbl.usedslots >= maxslots \/ i = -1 THEN PutNew(tbl, k, v)
              ELSE PutNew(Removed(tbl, i).t, k, v)
     IN tbl' = p.t /\ held' = Held(p.t) /\ call' = <<"put", k, p.ret>> /\ astray' = p.astray
  /\ Disturb

Get(k) ==
  /\ ~astray
  /\ call' = <<"get", k, IF GetIdx(tbl, k) = -1 THEN Failed
                         ELSE GetData(tbl, GetIdx(tbl, k))>>
  /\ UNCHANGED <<tbl, held, walk, astray>>

Delete(k) ==
  /\ ~astray
  /\ IF GetIdx(tbl, k) = -1 THEN call' = <<"remove", k, Failed>> /\ UNCHANGED <<tbl, held>>
     ELSE LET r == Removed(tbl, GetIdx(tbl, k))
          IN tbl' = r.t /\ held' = Held(r.t) /\ call' = <<"remove", k, r.ret>>
  /\ Disturb /\ UNCHANGED astray

Clear ==
  /\ ~astray
  /\ tbl' = IF tbl.usedslots = 0 THEN tbl ELSE Cleared
  /\ held' = IF tbl.usedslots = 0 THEN held ELSE Held(Cleared)
  /\ Disturb /\ call' = <<"clear", 0, Done>> /\ UNCHANGED astray

GetNext ==
  LET at == SelectInSeq([n \in 1 .. maxslots - walk.idx |-> tbl.slots[walk.idx + n - 1].count],
                        LAMBDA c : c \notin {0, -2})
  IN /\ ~astray
     /\ walk' = IF at = 0 THEN NoWalk
                ELSE [walk EXCEPT !.idx = @ + at,
                        !.seen = IF walk.intact THEN Append(@, tbl.slots[walk.idx + at - 1].key) ELSE @]
     /\ UNCHANGED <<tbl, call, held, astray>>

HashArrNext ==
  \/ \E k \in Key : Get(k) \/ Delete(k) \/ \E v \in Value : Put(k, v)
  \/ Clear \/ GetNext

HashArrSpec == HashArrInit /\ [][HashArrNext]_hashArrVars

-----------------------------------------------------------------------------
(* Properties *)

Present == {k \in Key : held[k] # Failed}

M == INSTANCE Dictionary WITH Capacity <- maxslots, map <- held

\* Whatever the hashes, and however keys and values are moved about to make
\* room, the table is a dictionary of so many units, up to the moment a slot is
\* relinked by a link back that is no longer true.
MapStep == ~astray' => [M!DictNext]_<<held, call>>

\* Until then its counters are right, every slot in use belongs to one key, the
\* collision counts are those of the keys, and the code never finds a "BUG".
SlotsAgree ==
  ~astray =>
    /\ call[3] # Bug
    /\ tbl.num = Cardinality(Present)
    /\ tbl.usedslots = Cardinality({i \in Slot : tbl.slots[i].count # 0})
    /\ \A i \in Slot : tbl.slots[i].count # 0 =>
         Cardinality({k \in Present : Contains(Links(tbl, GetIdx(tbl, k)), i)}) = 1
    /\ \A i \in Slot : tbl.slots[i].count > 0 =>
         tbl.slots[i].count = Cardinality({k \in Present : Hash[k] = i})

\* A walk over a table that nobody changes sees each key once.
WalkStep ==
  /\ walk.idx # 0 /\ walk'.idx = 0 /\ walk.intact => ToSet(walk.seen) = Present
  /\ Len(walk'.seen) = Cardinality(ToSet(walk'.seen))

\* "The value part of an element will be stored across several slots if it's
\* size exceeds the slot size" (qhasharr.c:40): what was put is found, whatever is
\* put after it, and whatever is moved to make room for that.
AlwaysMap == [][M!DictNext]_<<held, call>>
=============================================================================
