----------------------------- MODULE QListProofs -----------------------------
(***************************************************************************)
(* That the links of a qlist and its counters agree, that it is a deque,   *)
(* and that a stack, a queue and a vector keep their order; and that a     *)
(* qlisttbl finds, walks, sorts, puts and loads its elements as it should. *)
(***************************************************************************)
EXTENDS QList, QListTbl, FiniteSetTheorems, SequenceTheorems, WellFoundedInduction, TLAPS

\* Over numbers, with a set in place of a predicate.
LEMMA NumberInduction ==
  ASSUME NEW S, 0 \in S, \A n \in Nat : n \in S => n + 1 \in S
  PROVE  Nat \subseteq S
<1> DEFINE T == Nat \ S
           R == {ss \in Nat \X Nat : ss[1] < ss[2]}
<1> SUFFICES ASSUME T # {} PROVE FALSE
  OBVIOUS
<1>1. IsWellFoundedOn(R, Nat) /\ T \subseteq Nat
  BY NatLessThanWellFounded, Zenon DEF OpToRel
<1>2. PICK x \in T : \A y \in T : ~ (<<y, x>> \in R)
  BY <1>1, WFMin, Zenon
<1>3. x # 0 /\ x - 1 \in Nat /\ x - 1 \notin T
  <2>1. x # 0 /\ x \in Nat
    OBVIOUS
  <2>2. x - 1 \in Nat /\ x - 1 < x
    BY <2>1, SMT
  <2>3. <<x - 1, x>> \in R
    BY <2>1, <2>2, SMT
  <2>4. QED
    BY <1>2, <2>1, <2>2, <2>3, Zenon
<1>4. x - 1 + 1 = x
  BY SMT
<1>5. QED
  BY <1>3, <1>4, Zenon

-----------------------------------------------------------------------------
(* Links *)

Ref == Obj \cup {Nil}

\* The object at a place of the order q, if there is one.
At(q, i) == IF i \in 1 .. Len(q) THEN q[i] ELSE Nil

\* The places of an order on which links lead from one to the next.
Leads(link, r) ==
  /\ r \in [Nat -> Ref]
  /\ \A k \in Nat : r[k + 1] = IF r[k] = Nil THEN Nil ELSE link[r[k]]

\* Whoever follows the links comes along these places.
LEMMA HopAlong ==
  ASSUME NEW link, NEW r, Leads(link, r), NEW n \in Nat
  PROVE  Hop(r[0], link, n) = r[n]
<1> DEFINE start == r[0]
           F(f) == [k \in 0 .. n |-> IF k = 0 THEN start ELSE IF f[k - 1] = Nil THEN Nil ELSE link[f[k - 1]]]
           at == CHOOSE f : f = F(f)
           g == [k \in 0 .. n |-> r[k]]
<1>1. g = F(g)
  <2>1. \A k \in 0 .. n : g[k] = IF k = 0 THEN start ELSE IF g[k - 1] = Nil THEN Nil ELSE link[g[k - 1]]
    <3>1. SUFFICES ASSUME NEW k \in 0 .. n
                   PROVE  g[k] = IF k = 0 THEN start ELSE IF g[k - 1] = Nil THEN Nil ELSE link[g[k - 1]]
      OBVIOUS
    <3>2. CASE k = 0
      BY <3>2, SMT
    <3>3. CASE k # 0
      <4>1. k - 1 \in Nat /\ k - 1 \in 0 .. n /\ k - 1 + 1 = k
        BY <3>3, SMT
      <4>2. r[k] = IF r[k - 1] = Nil THEN Nil ELSE link[r[k - 1]]
        BY <4>1 DEF Leads
      <4>3. QED
        BY <3>3, <4>1, <4>2
    <3>4. QED
      BY <3>2, <3>3
  <2>2. QED
    BY <2>1
<1>2. at = F(at)
  BY <1>1, Zenon
<1> HIDE DEF at
<1> DEFINE S == {k \in Nat : k <= n => at[k] = r[k]}
<1>3. 0 \in S
  <2>1. at[0] = start
    BY <1>2, SMT
  <2>2. QED
    BY <2>1, SMT
<1>4. ASSUME NEW k \in Nat, k \in S
      PROVE  k + 1 \in S
  <2>1. SUFFICES ASSUME k + 1 <= n
                 PROVE  at[k + 1] = r[k + 1]
    BY SMT
  <2>2. k + 1 \in 0 .. n /\ k + 1 # 0 /\ k + 1 - 1 = k /\ k <= n
    BY <2>1, SMT
  <2>3. at[k] = r[k]
    BY <1>4, <2>2
  <2>4. at[k + 1] = IF at[k] = Nil THEN Nil ELSE link[at[k]]
    BY <1>2, <2>2
  <2>5. r[k + 1] = IF r[k] = Nil THEN Nil ELSE link[r[k]]
    BY DEF Leads
  <2>6. QED
    BY <2>3, <2>4, <2>5
<1> HIDE DEF S
<1>5. Nat \subseteq S
  BY <1>3, <1>4, NumberInduction, Zenon
<1>6. at[n] = r[n]
  BY <1>5, SMT DEF S
<1>7. Hop(start, link, n) = at[n]
  BY Zenon DEF Hop, at
<1>8. QED
  BY <1>6, <1>7

\* Along places of which the first m have objects, the chain is those.
LEMMA ChainAlong ==
  ASSUME NEW link, NEW r, Leads(link, r), NEW m \in Nat, m <= MaxObj, MaxObj \in Nat,
         \A k \in Nat : r[k] # Nil <=> k < m
  PROVE  Chain(r[0], link) = [k \in 1 .. m |-> r[k - 1]]
<1> DEFINE used == {k \in 1 .. MaxObj : Hop(r[0], link, k - 1) # Nil}
<1>1. \A k \in Nat : Hop(r[0], link, k) = r[k]
  BY HopAlong
<1>2. used = 1 .. m
  <2>1. \A k \in 1 .. MaxObj : k - 1 \in Nat /\ (k - 1 < m <=> k \in 1 .. m)
    BY SMT
  <2>2. \A k \in 1 .. m : k \in 1 .. MaxObj
    BY SMT
  <2>3. \A k \in 1 .. MaxObj : Hop(r[0], link, k - 1) # Nil <=> k \in 1 .. m
    BY <1>1, <2>1
  <2>4. QED
    BY <2>2, <2>3
<1>3. Cardinality(used) = m
  <2>1. 1 \in Int /\ m \in Int /\ (IF 1 > m THEN 0 ELSE m - 1 + 1) = m
    BY SMT
  <2>2. Cardinality(1 .. m) = m
    BY <2>1, FS_Interval
  <2>3. QED
    BY <1>2, <2>2
<1>4. Chain(r[0], link) = [k \in 1 .. m |-> Hop(r[0], link, k - 1)]
  BY <1>3 DEF Chain
<1>5. \A k \in 1 .. m : Hop(r[0], link, k - 1) = r[k - 1]
  <2>1. \A k \in 1 .. m : k - 1 \in Nat
    BY SMT
  <2>2. QED
    BY <1>1, <2>1
<1>6. QED
  BY <1>4, <1>5

-----------------------------------------------------------------------------
(* A list in an order *)

Unit == 0 .. 1

LinkRecord ==
  [first : Ref, last : Ref, num : Nat, datasum : Int, max : Nat,
   prev : [Obj -> Ref], next : [Obj -> Ref], data : [Obj -> Seq(Unit)]]

\* Each object is there once.
Ordered(q) == q \in Seq(Obj) /\ \A i, j \in 1 .. Len(q) : q[i] = q[j] => i = j

\* The links lead through the objects in this order, and no other object is in use.
Linked(l, q) ==
  /\ l \in LinkRecord /\ Ordered(q)
  /\ l.first = At(q, 1) /\ l.last = At(q, Len(q)) /\ l.num = Len(q)
  /\ \A i \in 1 .. Len(q) : l.next[q[i]] = At(q, i + 1) /\ l.prev[q[i]] = At(q, i - 1)
  /\ \A o \in Obj : l.data[o] # <<>> <=> \E i \in 1 .. Len(q) : q[i] = o
  /\ l.datasum = Cardinality(Units(l))

\* What is at a place.
LEMMA AtFacts ==
  ASSUME NEW q, Ordered(q), NEW i \in Int
  PROVE  /\ Len(q) \in Nat /\ At(q, i) \in Ref
         /\ i \in 1 .. Len(q) => At(q, i) = q[i] /\ q[i] \in Obj /\ q[i] # Nil
         /\ i \notin 1 .. Len(q) => At(q, i) = Nil
<1>1. Len(q) \in Nat /\ \A k \in 1 .. Len(q) : q[k] \in Obj
  BY SMT DEF Ordered
<1>2. Nil \notin Obj
  BY SMT DEF Nil, Obj
<1>3. QED
  BY <1>1, <1>2 DEF At, Ref

\* There is an object for each.
LEMMA ShortEnough ==
  ASSUME NEW q, Ordered(q), MaxObj \in Nat
  PROVE  Len(q) <= MaxObj
<1>1. Len(q) \in Nat /\ q \in [1 .. Len(q) -> Obj]
  BY SMT DEF Ordered
<1>2. /\ IsFiniteSet(1 .. Len(q)) /\ Cardinality(1 .. Len(q)) = Len(q)
      /\ IsFiniteSet(Obj) /\ Cardinality(Obj) = MaxObj
  <2>1. Cardinality(1 .. Len(q)) = (IF 1 > Len(q) THEN 0 ELSE Len(q) - 1 + 1) /\ IsFiniteSet(1 .. Len(q))
    BY <1>1, FS_Interval, SMT
  <2>2. Cardinality(1 .. MaxObj) = (IF 1 > MaxObj THEN 0 ELSE MaxObj - 1 + 1) /\ IsFiniteSet(1 .. MaxObj)
    BY FS_Interval, SMT
  <2>3. QED
    BY <1>1, <2>1, <2>2, SMT DEF Obj
<1>3. SUFFICES ASSUME MaxObj < Len(q)
               PROVE  FALSE
  BY <1>1, SMT
<1>4. PICK i \in 1 .. Len(q), j \in 1 .. Len(q) : i # j /\ q[i] = q[j]
  BY <1>1, <1>2, <1>3, FS_PigeonHole
<1>5. QED
  BY <1>4 DEF Ordered

\* From a place on, the links forward lead through the rest,
LEMMA NextLeads ==
  ASSUME NEW l, NEW q, Linked(l, q), NEW j \in Nat \ {0}
  PROVE  Leads(l.next, [k \in Nat |-> At(q, j + k)])
<1> DEFINE r == [k \in Nat |-> At(q, j + k)]
<1>1. Ordered(q) /\ Len(q) \in Nat
  BY SMT DEF Linked, Ordered
<1>2. r \in [Nat -> Ref]
  <2>1. \A k \in Nat : At(q, j + k) \in Ref
    <3>1. \A k \in Nat : j + k \in Int
      BY SMT
    <3>2. QED
      BY <1>1, <3>1, AtFacts
  <2>2. QED
    BY <2>1
<1>3. ASSUME NEW k \in Nat
      PROVE  r[k + 1] = IF r[k] = Nil THEN Nil ELSE l.next[r[k]]
  <2>1. k + 1 \in Nat /\ j + k \in Int /\ j + (k + 1) = j + k + 1 /\ j + k + 1 \in Int
    BY SMT
  <2>2. r[k] = At(q, j + k) /\ r[k + 1] = At(q, j + k + 1)
    BY <2>1, Zenon
  <2>3. CASE j + k \in 1 .. Len(q)
    <3>1. r[k] = q[j + k] /\ r[k] # Nil
      BY <1>1, <2>1, <2>2, <2>3, AtFacts
    <3>2. l.next[q[j + k]] = At(q, j + k + 1)
      BY <2>3 DEF Linked
    <3>3. QED
      BY <2>2, <3>1, <3>2
  <2>4. CASE j + k \notin 1 .. Len(q)
    <3>1. j + k + 1 \notin 1 .. Len(q)
      BY <1>1, <2>4, SMT
    <3>2. r[k] = Nil /\ r[k + 1] = Nil
      BY <1>1, <2>1, <2>2, <2>4, <3>1, AtFacts
    <3>3. QED
      BY <3>2
  <2>5. QED
    BY <2>3, <2>4
<1>4. QED
  BY <1>2, <1>3 DEF Leads

\* ...and the links back to the first.
LEMMA PrevLeads ==
  ASSUME NEW l, NEW q, Linked(l, q), NEW j \in Int, j <= Len(q)
  PROVE  Leads(l.prev, [k \in Nat |-> At(q, j - k)])
<1> DEFINE r == [k \in Nat |-> At(q, j - k)]
<1>1. Ordered(q) /\ Len(q) \in Nat
  BY SMT DEF Linked, Ordered
<1>2. r \in [Nat -> Ref]
  <2>1. \A k \in Nat : At(q, j - k) \in Ref
    <3>1. \A k \in Nat : j - k \in Int
      BY SMT
    <3>2. QED
      BY <1>1, <3>1, AtFacts
  <2>2. QED
    BY <2>1
<1>3. ASSUME NEW k \in Nat
      PROVE  r[k + 1] = IF r[k] = Nil THEN Nil ELSE l.prev[r[k]]
  <2>1. k + 1 \in Nat /\ j - k \in Int /\ j - (k + 1) = j - k - 1 /\ j - k - 1 \in Int
    BY SMT
  <2>2. r[k] = At(q, j - k) /\ r[k + 1] = At(q, j - k - 1)
    BY <2>1, Zenon
  <2>3. CASE j - k \in 1 .. Len(q)
    <3>1. r[k] = q[j - k] /\ r[k] # Nil
      BY <1>1, <2>1, <2>2, <2>3, AtFacts
    <3>2. l.prev[q[j - k]] = At(q, j - k - 1)
      BY <2>3 DEF Linked
    <3>3. QED
      BY <2>2, <3>1, <3>2
  <2>4. CASE j - k \notin 1 .. Len(q)
    <3>1. j - k - 1 \notin 1 .. Len(q)
      BY <1>1, <2>4, SMT
    <3>2. r[k] = Nil /\ r[k + 1] = Nil
      BY <1>1, <2>1, <2>2, <2>4, <3>1, AtFacts
    <3>3. QED
      BY <3>2
  <2>5. QED
    BY <2>3, <2>4
<1>4. QED
  BY <1>2, <1>3 DEF Leads

\* A number of steps forward, or back, leads that many places on.
LEMMA HopFrom ==
  ASSUME NEW l, NEW q, Linked(l, q), NEW n \in Nat
  PROVE  /\ \A j \in Nat \ {0} : Hop(At(q, j), l.next, n) = At(q, j + n)
         /\ \A j \in Int : j <= Len(q) => Hop(At(q, j), l.prev, n) = At(q, j - n)
<1>1. ASSUME NEW j \in Nat \ {0}
      PROVE  Hop(At(q, j), l.next, n) = At(q, j + n)
  <2> DEFINE r == [k \in Nat |-> At(q, j + k)]
  <2>1. Leads(l.next, r)
    BY NextLeads
  <2>2. r[0] = At(q, j) /\ r[n] = At(q, j + n)
    <3>1. j + 0 = j /\ 0 \in Nat
      BY SMT
    <3>2. QED
      BY <3>1, Zenon
  <2> HIDE DEF r
  <2>3. QED
    BY <2>1, <2>2, HopAlong
<1>2. ASSUME NEW j \in Int, j <= Len(q)
      PROVE  Hop(At(q, j), l.prev, n) = At(q, j - n)
  <2> DEFINE r == [k \in Nat |-> At(q, j - k)]
  <2>1. Leads(l.prev, r)
    BY <1>2, PrevLeads
  <2>2. r[0] = At(q, j) /\ r[n] = At(q, j - n)
    <3>1. j - 0 = j /\ 0 \in Nat
      BY SMT
    <3>2. QED
      BY <3>1, Zenon
  <2> HIDE DEF r
  <2>3. QED
    BY <2>1, <2>2, HopAlong
<1>3. QED
  BY <1>1, <1>2

\* The chain from a place on is the rest of the order,
LEMMA ChainFrom ==
  ASSUME MaxObj \in Nat, NEW l, NEW q, Linked(l, q), NEW j \in 1 .. Len(q) + 1
  PROVE  Chain(At(q, j), l.next) = [k \in 1 .. Len(q) + 1 - j |-> q[j + k - 1]]
<1> DEFINE r == [k \in Nat |-> At(q, j + k)]
           m == Len(q) + 1 - j
<1>1. Ordered(q) /\ Len(q) \in Nat /\ Len(q) <= MaxObj
  <2>1. Ordered(q) /\ Len(q) \in Nat
    BY SMT DEF Linked, Ordered
  <2>2. QED
    BY <2>1, ShortEnough
<1>2. m \in Nat /\ m <= MaxObj /\ j \in Nat \ {0}
  BY <1>1, SMT
<1>3. Leads(l.next, r)
  BY <1>2, NextLeads
<1>4. \A k \in Nat : r[k] # Nil <=> k < m
  <2>1. \A k \in Nat : j + k \in Int /\ (j + k \in 1 .. Len(q) <=> k < m)
    BY <1>1, <1>2, SMT
  <2>2. \A k \in Nat : At(q, j + k) # Nil <=> j + k \in 1 .. Len(q)
    BY <1>1, <2>1, AtFacts
  <2>3. QED
    BY <2>1, <2>2
<1>5. \A k \in 1 .. m : r[k - 1] = q[j + k - 1]
  <2>1. \A k \in 1 .. m : k - 1 \in Nat /\ j + (k - 1) = j + k - 1 /\ j + k - 1 \in 1 .. Len(q)
    BY <1>1, <1>2, SMT
  <2>2. QED
    BY <1>1, <2>1, AtFacts
<1>6. r[0] = At(q, j)
  <2>1. j + 0 = j /\ 0 \in Nat
    BY SMT
  <2>2. QED
    BY <2>1, Zenon
<1> HIDE DEF r
<1>7. Chain(r[0], l.next) = [k \in 1 .. m |-> r[k - 1]]
  BY <1>2, <1>3, <1>4, ChainAlong
<1>8. QED
  BY <1>5, <1>6, <1>7

\* ...and the chain back from the last is its reverse.
LEMMA ChainBack ==
  ASSUME MaxObj \in Nat, NEW l, NEW q, Linked(l, q)
  PROVE  Chain(l.last, l.prev) = Reverse(q)
<1> DEFINE n == Len(q)
           r == [k \in Nat |-> At(q, n - k)]
<1>1. Ordered(q) /\ Len(q) \in Nat /\ Len(q) <= MaxObj
  <2>1. Ordered(q) /\ Len(q) \in Nat
    BY SMT DEF Linked, Ordered
  <2>2. QED
    BY <2>1, ShortEnough
<1>2. n \in Nat /\ n <= MaxObj /\ n \in Int /\ n <= Len(q)
  BY <1>1, SMT
<1>3. Leads(l.prev, r)
  BY <1>2, PrevLeads
<1>4. \A k \in Nat : r[k] # Nil <=> k < n
  <2>1. \A k \in Nat : n - k \in Int /\ (n - k \in 1 .. Len(q) <=> k < n)
    BY <1>1, SMT
  <2>2. \A k \in Nat : At(q, n - k) # Nil <=> n - k \in 1 .. Len(q)
    BY <1>1, <2>1, AtFacts
  <2>3. QED
    BY <2>1, <2>2
<1>5. \A k \in 1 .. n : r[k - 1] = q[(n - k) + 1]
  <2>1. \A k \in 1 .. n : k - 1 \in Nat /\ n - (k - 1) = (n - k) + 1 /\ (n - k) + 1 \in 1 .. Len(q)
    BY <1>1, SMT
  <2>2. QED
    BY <1>1, <2>1, AtFacts
<1>6. r[0] = At(q, n)
  <2>1. n - 0 = n /\ 0 \in Nat
    BY <1>2, SMT
  <2>2. QED
    BY <2>1, Zenon
<1> HIDE DEF r
<1>7. Chain(r[0], l.prev) = [k \in 1 .. n |-> r[k - 1]]
  BY <1>2, <1>3, <1>4, ChainAlong
<1>8. l.last = At(q, n)
  BY DEF Linked
<1>9. QED
  BY <1>5, <1>6, <1>7, <1>8 DEF Reverse

\* The objects from a place on, in order.
LEMMA DataIs ==
  ASSUME MaxObj \in Nat, NEW l, NEW q, Linked(l, q), NEW j \in 1 .. Len(q) + 1
  PROVE  DataFrom(l, At(q, j)) = [k \in 1 .. Len(q) + 1 - j |-> l.data[q[j + k - 1]]]
<1> DEFINE chain == Chain(At(q, j), l.next)
           m == Len(q) + 1 - j
<1>1. chain = [k \in 1 .. m |-> q[j + k - 1]]
  BY ChainFrom
<1>2. Len(q) \in Nat /\ m \in Nat
  <2>1. Len(q) \in Nat
    BY SMT DEF Linked, Ordered
  <2>2. QED
    BY <2>1, SMT
<1>3. Len(chain) = m
  BY <1>1, <1>2, SMT
<1>4. DataFrom(l, At(q, j)) = [k \in 1 .. Len(chain) |-> l.data[chain[k]]]
  BY Zenon DEF DataFrom
<1> HIDE DEF m
<1>5. \A k \in 1 .. m : chain[k] = q[j + k - 1]
  BY <1>1, Zenon
<1> HIDE DEF chain
<1>6. QED
  BY <1>3, <1>4, <1>5 DEF m

\* The objects of a list, in order.
LEMMA ObjectsAre ==
  ASSUME MaxObj \in Nat, NEW l, NEW q, Linked(l, q)
  PROVE  /\ Objects(l) = [k \in 1 .. Len(q) |-> l.data[q[k]]]
         /\ Chain(l.first, l.next) = q /\ Objects(l) \in Seq(Seq(Unit)) /\ Len(Objects(l)) = Len(q)
         /\ \A k \in 1 .. Len(q) : q[k] \in Obj /\ l.data[q[k]] \in Seq(Unit) /\ l.data[q[k]] # <<>>
<1>1. Ordered(q) /\ Len(q) \in Nat /\ q \in Seq(Obj) /\ l.first = At(q, 1) /\ l \in LinkRecord
  BY SMT DEF Linked, Ordered
<1>2. 1 \in 1 .. Len(q) + 1 /\ Len(q) + 1 - 1 = Len(q) /\ \A k \in 1 .. Len(q) : 1 + k - 1 = k
  BY <1>1, SMT
<1>3. DataFrom(l, At(q, 1)) = [k \in 1 .. Len(q) + 1 - 1 |-> l.data[q[1 + k - 1]]]
  BY <1>2, DataIs
<1>4. Chain(At(q, 1), l.next) = [k \in 1 .. Len(q) + 1 - 1 |-> q[1 + k - 1]]
  BY <1>2, ChainFrom
<1>5. Chain(l.first, l.next) = q
  <2>1. [k \in 1 .. Len(q) + 1 - 1 |-> q[1 + k - 1]] = [k \in 1 .. Len(q) |-> q[k]]
    BY <1>2
  <2>2. q = [k \in 1 .. Len(q) |-> q[k]]
    BY <1>1, SMT
  <2>3. QED
    BY <1>1, <1>4, <2>1, <2>2
<1>6. Objects(l) = [k \in 1 .. Len(q) |-> l.data[q[k]]]
  <2>1. [k \in 1 .. Len(q) + 1 - 1 |-> l.data[q[1 + k - 1]]] = [k \in 1 .. Len(q) |-> l.data[q[k]]]
    BY <1>2
  <2>2. QED
    BY <1>1, <1>3, <2>1 DEF Objects
<1>7. \A k \in 1 .. Len(q) : q[k] \in Obj /\ l.data[q[k]] \in Seq(Unit) /\ l.data[q[k]] # <<>>
  <2>1. \A k \in 1 .. Len(q) : q[k] \in Obj
    BY <1>1, ElementOfSeq
  <2>2. l.data \in [Obj -> Seq(Unit)]
    BY <1>1 DEF LinkRecord
  <2>3. QED
    BY <2>1, <2>2 DEF Linked
<1>8. Objects(l) \in Seq(Seq(Unit)) /\ Len(Objects(l)) = Len(q)
  <2> DEFINE s == Objects(l)
             T == Seq(Unit)
  <2>1. s \in [1 .. Len(q) -> T]
    BY <1>6, <1>7
  <2> HIDE DEF s, T
  <2>2. s \in Seq(T) /\ Len(s) = Len(q)
    BY <1>1, <2>1, SMT
  <2>3. QED
    BY <2>2 DEF s, T
<1>9. QED
  BY <1>5, <1>6, <1>7, <1>8

\* Links that lead through an order are those of a list that is well linked.
LEMMA LinkedWell ==
  ASSUME MaxObj \in Nat, NEW q, Linked(list, q)
  PROVE  WellLinked
<1>1. Chain(list.first, list.next) = q /\ Chain(list.last, list.prev) = Reverse(q)
  BY ObjectsAre, ChainBack
<1>2. q \in Seq(Obj) /\ list.num = Len(q) /\ list.datasum = Cardinality(Units(list))
  BY DEF Linked, Ordered
<1>3. ToSet(q) = Live(list)
  <2>1. ToSet(q) = {q[i] : i \in 1 .. Len(q)}
    BY <1>2, LenProperties DEF ToSet
  <2>2. \A o \in Obj : list.data[o] # <<>> <=> \E i \in 1 .. Len(q) : q[i] = o
    BY DEF Linked
  <2>3. \A i \in 1 .. Len(q) : q[i] \in Obj
    BY <1>2, ElementOfSeq
  <2>4. QED
    BY <2>1, <2>2, <2>3 DEF Live
<1>4. QED
  BY <1>1, <1>2, <1>3 DEF WellLinked

\* _get_obj finds the object at its place, whichever end it starts from.
LEMMA GetObjIs ==
  ASSUME NEW l, NEW q, Linked(l, q), NEW index \in Int
  PROVE  LET i == IF index < 0 THEN l.num + index ELSE index
         IN GetObj(l, index) = IF i \in 0 .. Len(q) - 1 THEN q[i + 1] ELSE Nil
<1> DEFINE i == IF index < 0 THEN l.num + index ELSE index
<1>1. Ordered(q) /\ Len(q) \in Nat /\ l.num = Len(q) /\ l.first = At(q, 1) /\ l.last = At(q, Len(q))
  BY SMT DEF Linked, Ordered
<1>2. i \in Int
  BY <1>1, SMT
<1>3. GetObj(l, index) = IF i \notin 0 .. l.num - 1 THEN Nil
                         ELSE IF i < l.num \div 2 THEN Hop(l.first, l.next, i)
                         ELSE Hop(l.last, l.prev, l.num - 1 - i)
  BY Zenon DEF GetObj
<1> HIDE DEF i
<1>4. CASE i \in 0 .. Len(q) - 1
  <2>1. i \in Nat /\ Len(q) - 1 - i \in Nat /\ 1 \in Nat \ {0} /\ Len(q) \in Int /\ Len(q) <= Len(q)
    BY <1>1, <1>4, SMT
  <2>2. Hop(At(q, 1), l.next, i) = At(q, 1 + i)
    BY <2>1, HopFrom
  <2>3. Hop(At(q, Len(q)), l.prev, Len(q) - 1 - i) = At(q, Len(q) - (Len(q) - 1 - i))
    BY <2>1, HopFrom
  <2>4. 1 + i = i + 1 /\ Len(q) - (Len(q) - 1 - i) = i + 1 /\ i + 1 \in 1 .. Len(q)
    BY <1>1, <1>4, SMT
  <2>5. At(q, i + 1) = q[i + 1]
    BY <2>4 DEF At
  <2>6. QED
    BY <1>1, <1>3, <1>4, <2>2, <2>3, <2>4, <2>5 DEF i
<1>5. CASE i \notin 0 .. Len(q) - 1
  BY <1>1, <1>3, <1>5 DEF i
<1>6. QED
  BY <1>4, <1>5

-----------------------------------------------------------------------------
(* The memory that the objects take *)

\* What one object takes,
LEMMA UnitsOf ==
  ASSUME NEW o, NEW n \in Nat
  PROVE  IsFiniteSet({o} \X (1 .. n)) /\ Cardinality({o} \X (1 .. n)) = n
<1>1. 1 \in Int /\ n \in Int /\ (IF 1 > n THEN 0 ELSE n - 1 + 1) = n
  BY SMT
<1>2. IsFiniteSet(1 .. n) /\ Cardinality(1 .. n) = n
  BY <1>1, FS_Interval
<1>3. IsFiniteSet({o}) /\ Cardinality({o}) = 1
  BY FS_Singleton
<1>4. IsFiniteSet({o} \X (1 .. n)) /\ Cardinality({o} \X (1 .. n)) = 1 * n
  BY <1>2, <1>3, FS_Product
<1>5. QED
  BY <1>4, SMT

\* ...all is finite,
LEMMA UnitsFinite ==
  ASSUME MaxObj \in Nat, NEW l, l.data \in [Obj -> Seq(Unit)]
  PROVE  IsFiniteSet(Units(l)) /\ Cardinality(Units(l)) \in Nat
<1> DEFINE part == [o \in Obj |-> {o} \X (1 .. Len(l.data[o]))]
           parts == {part[o] : o \in Obj}
<1>1. \A o \in Obj : IsFiniteSet(part[o])
  <2>1. SUFFICES ASSUME NEW o \in Obj
                 PROVE  IsFiniteSet({o} \X (1 .. Len(l.data[o])))
    OBVIOUS
  <2>2. Len(l.data[o]) \in Nat
    BY LenProperties
  <2>3. QED
    BY <2>2, UnitsOf
<1>2. IsFiniteSet(parts)
  <2>1. IsFiniteSet(Obj)
    BY FS_Interval, SMT DEF Obj
  <2>2. part \in Surjection(Obj, parts)
    BY DEF Surjection
  <2>3. QED
    BY <2>1, <2>2, FS_Surjection
<1>3. Units(l) = UNION parts
  BY DEF Units
<1>4. IsFiniteSet(UNION parts)
  BY <1>1, <1>2, FS_UNION
<1>5. QED
  BY <1>3, <1>4, FS_CardinalityType

\* ...and another object adds what it takes.
LEMMA UnitsOfOne ==
  ASSUME MaxObj \in Nat, NEW l, l.data \in [Obj -> Seq(Unit)], NEW m, m.data \in [Obj -> Seq(Unit)],
         NEW o \in Obj, m.data[o] = <<>>, \A x \in Obj \ {o} : m.data[x] = l.data[x]
  PROVE  Cardinality(Units(l)) = Cardinality(Units(m)) + Len(l.data[o])
<1> DEFINE new == {o} \X (1 .. Len(l.data[o]))
<1>1. Len(l.data[o]) \in Nat
  BY LenProperties
<1>2. IsFiniteSet(new) /\ Cardinality(new) = Len(l.data[o])
  BY <1>1, UnitsOf
<1>3. IsFiniteSet(Units(m)) /\ Cardinality(Units(m)) \in Nat
  BY UnitsFinite
<1>4. Units(m) \cap new = {}
  <2>1. SUFFICES ASSUME NEW u \in Units(m), u \in new
                 PROVE  FALSE
    OBVIOUS
  <2>2. PICK x \in Obj : u \in {x} \X (1 .. Len(m.data[x]))
    BY <2>1 DEF Units
  <2>3. x = o
    BY <2>1, <2>2
  <2>4. Len(m.data[x]) = 0
    BY <2>3, EmptySeq
  <2>5. u[2] \in 1 .. 0
    BY <2>2, <2>4
  <2>6. QED
    BY <2>5, SMT
<1>5. Units(l) = Units(m) \cup new
  <2>1. \A u \in Units(l) : u \in Units(m) \cup new
    <3>1. SUFFICES ASSUME NEW u \in Units(l)
                   PROVE  u \in Units(m) \cup new
      OBVIOUS
    <3>2. PICK x \in Obj : u \in {x} \X (1 .. Len(l.data[x]))
      BY <3>1 DEF Units
    <3>3. CASE x = o
      BY <3>2, <3>3
    <3>4. CASE x # o
      <4>1. m.data[x] = l.data[x]
        BY <3>4
      <4>2. u \in {x} \X (1 .. Len(m.data[x]))
        BY <3>2, <4>1
      <4>3. QED
        BY <4>2 DEF Units
    <3>5. QED
      BY <3>3, <3>4
  <2>2. \A u \in Units(m) : u \in Units(l)
    <3>1. SUFFICES ASSUME NEW u \in Units(m)
                   PROVE  u \in Units(l)
      OBVIOUS
    <3>2. PICK x \in Obj : u \in {x} \X (1 .. Len(m.data[x]))
      BY <3>1 DEF Units
    <3>3. x # o
      <4>1. SUFFICES ASSUME x = o
                     PROVE  FALSE
        OBVIOUS
      <4>2. Len(m.data[x]) = 0
        BY <4>1, EmptySeq
      <4>3. u[2] \in 1 .. 0
        BY <3>2, <4>2
      <4>4. QED
        BY <4>3, SMT
    <3>4. m.data[x] = l.data[x]
      BY <3>3
    <3>5. u \in {x} \X (1 .. Len(l.data[x]))
      BY <3>2, <3>4
    <3>6. QED
      BY <3>5 DEF Units
  <2>3. new \subseteq Units(l)
    BY DEF Units
  <2>4. QED
    BY <2>1, <2>2, <2>3
<1> HIDE DEF new
<1>6. Cardinality(Units(m) \cup new) = Cardinality(Units(m)) + Cardinality(new) - Cardinality({})
  <2>1. Cardinality(Units(m) \cup new) = Cardinality(Units(m)) + Cardinality(new) - Cardinality(Units(m) \cap new)
    BY <1>2, <1>3, FS_Union
  <2>2. QED
    BY <1>4, <2>1
<1>7. QED
  BY <1>1, <1>2, <1>3, <1>5, <1>6, FS_EmptySet, SMT

-----------------------------------------------------------------------------
(* An object is put between two others, or taken from there *)

Into(q, i, o) == [k \in 1 .. Len(q) + 1 |-> IF k <= i THEN q[k] ELSE IF k = i + 1 THEN o ELSE q[k - 1]]
Out(q, j) == [k \in 1 .. Len(q) - 1 |-> IF k < j THEN q[k] ELSE q[k + 1]]

Has(q, o) == \E i \in 1 .. Len(q) : q[i] = o

\* The places of an order with one more,
LEMMA IntoFacts ==
  ASSUME NEW q, Ordered(q), NEW o \in Obj, ~Has(q, o), NEW i \in 0 .. Len(q)
  PROVE  /\ Ordered(Into(q, i, o)) /\ Len(Into(q, i, o)) = Len(q) + 1
         /\ \A k \in Int : At(Into(q, i, o), k) = IF k <= i THEN At(q, k) ELSE IF k = i + 1 THEN o ELSE At(q, k - 1)
         /\ \A x \in Obj : Has(Into(q, i, o), x) <=> x = o \/ Has(q, x)
<1> DEFINE r == Into(q, i, o)
<1>1. Len(q) \in Nat /\ (\A k \in 1 .. Len(q) : q[k] \in Obj) /\ i \in Nat /\ i <= Len(q)
  BY SMT DEF Ordered
<1>2. \A k \in 1 .. Len(q) + 1 : r[k] = IF k <= i THEN q[k] ELSE IF k = i + 1 THEN o ELSE q[k - 1]
  BY Zenon DEF Into
<1>3. r \in [1 .. Len(q) + 1 -> Obj]
  <2>1. \A k \in 1 .. Len(q) + 1 : r[k] \in Obj
    BY <1>1, <1>2, SMT
  <2>2. r = [k \in 1 .. Len(q) + 1 |-> r[k]]
    BY DEF Into
  <2>3. QED
    BY <2>1, <2>2
<1> HIDE DEF r
<1>4. r \in Seq(Obj) /\ Len(r) = Len(q) + 1
  BY <1>1, <1>3, SMT
<1>5. ASSUME NEW a \in 1 .. Len(r), NEW b \in 1 .. Len(r), r[a] = r[b]
      PROVE  a = b
  <2>1. \A x, y \in 1 .. Len(q) : q[x] = q[y] => x = y
    BY DEF Ordered
  <2>2. \A x \in 1 .. Len(q) : q[x] # o
    BY DEF Has
  <2>3. a \in 1 .. Len(q) + 1 /\ b \in 1 .. Len(q) + 1
    BY <1>4
  <2>4. QED
    BY <1>1, <1>2, <1>5, <2>1, <2>2, <2>3, SMT
<1>6. ASSUME NEW k \in Int
      PROVE  At(r, k) = IF k <= i THEN At(q, k) ELSE IF k = i + 1 THEN o ELSE At(q, k - 1)
  <2>1. At(r, k) = IF k \in 1 .. Len(q) + 1 THEN r[k] ELSE Nil
    BY <1>4 DEF At
  <2>2. At(q, k) = IF k \in 1 .. Len(q) THEN q[k] ELSE Nil
    BY DEF At
  <2>3. At(q, k - 1) = IF k - 1 \in 1 .. Len(q) THEN q[k - 1] ELSE Nil
    BY DEF At
  <2>4. QED
    BY <1>1, <1>2, <2>1, <2>2, <2>3, SMT
<1>7. ASSUME NEW x \in Obj
      PROVE  Has(r, x) <=> x = o \/ Has(q, x)
  <2>1. ASSUME NEW k \in 1 .. Len(q) + 1, r[k] = x, x # o
        PROVE  Has(q, x)
    <3>1. (k \in 1 .. Len(q) /\ q[k] = x) \/ (k - 1 \in 1 .. Len(q) /\ q[k - 1] = x)
      BY <1>1, <1>2, <2>1, SMT
    <3>2. QED
      BY <3>1 DEF Has
  <2>2. ASSUME NEW k \in 1 .. Len(q), q[k] = x
        PROVE  Has(r, x)
    <3>1. k \in 1 .. Len(r) /\ k + 1 \in 1 .. Len(r) /\ (r[k] = x \/ r[k + 1] = x)
      BY <1>1, <1>2, <1>4, <2>2, SMT
    <3>2. QED
      BY <3>1 DEF Has
  <2>3. Has(r, o)
    <3>1. i + 1 \in 1 .. Len(r) /\ r[i + 1] = o
      BY <1>1, <1>2, <1>4, SMT
    <3>2. QED
      BY <3>1 DEF Has
  <2>4. QED
    BY <1>4, <2>1, <2>2, <2>3 DEF Has
<1>8. QED
  BY <1>4, <1>5, <1>6, <1>7 DEF Ordered, r

\* ...and with one less.
LEMMA OutFacts ==
  ASSUME NEW q, Ordered(q), NEW j \in 1 .. Len(q)
  PROVE  /\ Ordered(Out(q, j)) /\ Len(Out(q, j)) = Len(q) - 1
         /\ \A k \in Int : At(Out(q, j), k) = IF k < j THEN At(q, k) ELSE At(q, k + 1)
         /\ \A x \in Obj : Has(Out(q, j), x) <=> x # q[j] /\ Has(q, x)
<1> DEFINE r == Out(q, j)
<1>1. Len(q) \in Nat /\ (\A k \in 1 .. Len(q) : q[k] \in Obj) /\ j \in Nat /\ j <= Len(q) /\ j > 0
  BY SMT DEF Ordered
<1>2. \A k \in 1 .. Len(q) - 1 : r[k] = IF k < j THEN q[k] ELSE q[k + 1]
  BY Zenon DEF Out
<1>3. r \in [1 .. Len(q) - 1 -> Obj]
  <2>1. \A k \in 1 .. Len(q) - 1 : r[k] \in Obj
    BY <1>1, <1>2, SMT
  <2>2. r = [k \in 1 .. Len(q) - 1 |-> r[k]]
    BY DEF Out
  <2>3. QED
    BY <2>1, <2>2
<1> HIDE DEF r
<1>4. r \in Seq(Obj) /\ Len(r) = Len(q) - 1
  BY <1>1, <1>3, SMT
<1>9. \A x, y \in 1 .. Len(q) : q[x] = q[y] => x = y
  BY DEF Ordered
<1>5. ASSUME NEW a \in 1 .. Len(r), NEW b \in 1 .. Len(r), r[a] = r[b]
      PROVE  a = b
  <2>1. a \in 1 .. Len(q) - 1 /\ b \in 1 .. Len(q) - 1
    BY <1>4
  <2>2. QED
    BY <1>1, <1>2, <1>5, <1>9, <2>1, SMT
<1>6. ASSUME NEW k \in Int
      PROVE  At(r, k) = IF k < j THEN At(q, k) ELSE At(q, k + 1)
  <2>1. At(r, k) = IF k \in 1 .. Len(q) - 1 THEN r[k] ELSE Nil
    BY <1>4 DEF At
  <2>2. At(q, k) = IF k \in 1 .. Len(q) THEN q[k] ELSE Nil
    BY DEF At
  <2>3. At(q, k + 1) = IF k + 1 \in 1 .. Len(q) THEN q[k + 1] ELSE Nil
    BY DEF At
  <2>4. QED
    BY <1>1, <1>2, <2>1, <2>2, <2>3, SMT
<1>7. ASSUME NEW x \in Obj
      PROVE  Has(r, x) <=> x # q[j] /\ Has(q, x)
  <2>1. ASSUME NEW k \in 1 .. Len(q) - 1, r[k] = x
        PROVE  x # q[j] /\ Has(q, x)
    <3>1. PICK n \in 1 .. Len(q) : q[n] = x /\ n # j
      BY <1>1, <1>2, <2>1, SMT
    <3>2. QED
      BY <1>9, <3>1 DEF Has
  <2>2. ASSUME NEW k \in 1 .. Len(q), q[k] = x, x # q[j]
        PROVE  Has(r, x)
    <3>1. \/ k \in 1 .. Len(r) /\ r[k] = x
          \/ k - 1 \in 1 .. Len(r) /\ r[k - 1] = x
      BY <1>1, <1>2, <1>4, <2>2, SMT
    <3>2. QED
      BY <3>1 DEF Has
  <2>3. QED
    BY <1>4, <2>1, <2>2 DEF Has
<1>8. QED
  BY <1>4, <1>5, <1>6, <1>7 DEF Ordered, r

\* Linking an object puts it into the order,
LEMMA LinkLinked ==
  ASSUME MaxObj \in Nat, NEW l, NEW q, Linked(l, q), NEW o \in Obj, l.data[o] = <<>>,
         NEW d \in Seq(Unit), d # <<>>, NEW i \in 0 .. Len(q)
  PROVE  Linked(Link(l, o, d, At(q, i), At(q, i + 1)), Into(q, i, o))
<1> DEFINE p == At(q, i)
           n == At(q, i + 1)
           m == Link(l, o, d, p, n)
           r == Into(q, i, o)
<1>1. Ordered(q) /\ Len(q) \in Nat /\ i \in Nat /\ i <= Len(q) /\ l \in LinkRecord /\ l.num = Len(q)
  BY SMT DEF Linked, Ordered
<1>2. ~Has(q, o)
  BY DEF Linked, Has
<1>3. /\ Ordered(r) /\ Len(r) = Len(q) + 1
      /\ \A k \in Int : At(r, k) = IF k <= i THEN At(q, k) ELSE IF k = i + 1 THEN o ELSE At(q, k - 1)
      /\ \A x \in Obj : Has(r, x) <=> x = o \/ Has(q, x)
  BY <1>1, <1>2, IntoFacts
<1>4. p \in Ref /\ n \in Ref /\ (p = Nil <=> i = 0) /\ (n = Nil <=> i = Len(q)) /\ o # Nil
  <2>1. i \in Int /\ i + 1 \in Int /\ (i \in 1 .. Len(q) <=> i # 0) /\ (i + 1 \in 1 .. Len(q) <=> i # Len(q))
    BY <1>1, SMT
  <2>2. o # Nil
    BY SMT DEF Obj, Nil
  <2>3. QED
    BY <1>1, <2>1, <2>2, AtFacts
<1>5. /\ m.first = (IF p = Nil THEN o ELSE l.first)
      /\ m.last = (IF n = Nil THEN o ELSE l.last)
      /\ m.next = [x \in Obj |-> IF x = o THEN n ELSE IF x = p THEN o ELSE l.next[x]]
      /\ m.prev = [x \in Obj |-> IF x = o THEN p ELSE IF x = n THEN o ELSE l.prev[x]]
      /\ m.data = [x \in Obj |-> IF x = o THEN d ELSE l.data[x]]
      /\ m.datasum = l.datasum + Len(d) /\ m.num = l.num + 1 /\ m.max = l.max
      /\ m \in LinkRecord
  <2>1. /\ l.first \in Ref /\ l.last \in Ref /\ l.datasum \in Int /\ l.num \in Nat
        /\ l.prev \in [Obj -> Ref] /\ l.next \in [Obj -> Ref] /\ l.data \in [Obj -> Seq(Unit)]
        /\ Len(d) \in Nat /\ Obj \subseteq Ref
    BY <1>1, LenProperties DEF LinkRecord, Ref
  <2> DEFINE a == IF p = Nil THEN o ELSE l.first
             b == IF n = Nil THEN o ELSE l.last
             c == [x \in Obj |-> IF x = o THEN n ELSE IF x = p THEN o ELSE l.next[x]]
             e == [x \in Obj |-> IF x = o THEN p ELSE IF x = n THEN o ELSE l.prev[x]]
             f == [x \in Obj |-> IF x = o THEN d ELSE l.data[x]]
             g == l.datasum + Len(d)
             h == l.num + 1
  <2>2. /\ a \in Ref /\ b \in Ref /\ c \in [Obj -> Ref] /\ e \in [Obj -> Ref]
        /\ f \in [Obj -> Seq(Unit)] /\ g \in Int /\ h \in Nat
    <3>1. a \in Ref /\ b \in Ref
      BY <2>1
    <3>2. c \in [Obj -> Ref] /\ e \in [Obj -> Ref]
      BY <1>4, <2>1
    <3>3. f \in [Obj -> Seq(Unit)]
      BY <2>1
    <3>4. g \in Int /\ h \in Nat
      BY <2>1, SMT
    <3>5. QED
      BY <3>1, <3>2, <3>3, <3>4
  <2>3. m = [l EXCEPT !.first = a, !.last = b, !.next = c, !.prev = e, !.data = f, !.datasum = g, !.num = h]
    BY Zenon DEF Link
  <2> HIDE DEF a, b, c, e, f, g, h
  <2>4. /\ m.first = a /\ m.last = b /\ m.next = c /\ m.prev = e /\ m.data = f /\ m.datasum = g
        /\ m.num = h /\ m.max = l.max /\ m \in LinkRecord
    BY <1>1, <2>2, <2>3 DEF LinkRecord
  <2>5. QED
    BY <2>4 DEF a, b, c, e, f, g, h
<1> HIDE DEF p, n, m, r
<1>6. m.first = At(r, 1) /\ m.last = At(r, Len(r))
  <2>1. l.first = At(q, 1) /\ l.last = At(q, Len(q))
    BY DEF Linked
  <2>2. At(r, 1) = IF i = 0 THEN o ELSE At(q, 1)
    BY <1>1, <1>3, SMT
  <2>3. At(r, Len(r)) = IF i = Len(q) THEN o ELSE At(q, Len(q))
    BY <1>1, <1>3, SMT
  <2>4. QED
    BY <1>4, <1>5, <2>1, <2>2, <2>3
<1>7. ASSUME NEW k \in 1 .. Len(r)
      PROVE  m.next[r[k]] = At(r, k + 1) /\ m.prev[r[k]] = At(r, k - 1)
  <2>1. /\ k \in Int /\ k + 1 \in Int /\ k - 1 \in Int /\ k > 0 /\ k <= Len(q) + 1
        /\ At(r, k) = r[k] /\ r[k] \in Obj
    BY <1>1, <1>3, AtFacts, SMT
  <2>2. /\ At(r, k) = IF k <= i THEN At(q, k) ELSE IF k = i + 1 THEN o ELSE At(q, k - 1)
        /\ At(r, k + 1) = IF k + 1 <= i THEN At(q, k + 1) ELSE IF k + 1 = i + 1 THEN o ELSE At(q, k + 1 - 1)
        /\ At(r, k - 1) = IF k - 1 <= i THEN At(q, k - 1) ELSE IF k - 1 = i + 1 THEN o ELSE At(q, k - 1 - 1)
    BY <1>3, <2>1
  <2>3. k + 1 - 1 = k /\ k - 1 + 1 = k /\ (k + 1 = i + 1 <=> k = i) /\ (k - 1 = i + 1 <=> k - 2 = i)
    BY <1>1, <2>1, SMT
  <2>4. CASE k = i + 1
    <3>1. r[k] = o
      BY <1>1, <2>1, <2>2, <2>4, SMT
    <3>2. At(r, k + 1) = n /\ At(r, k - 1) = p
      <4>1. ~(k + 1 <= i) /\ k # i /\ k - 1 <= i /\ k - 1 = i
        BY <1>1, <2>4, SMT
      <4>2. QED
        BY <2>2, <2>3, <2>4, <4>1 DEF n, p
    <3>3. QED
      BY <1>5, <3>1, <3>2
  <2>5. ASSUME NEW x \in 1 .. Len(q), r[k] = q[x], x = (IF k <= i THEN k ELSE k - 1), k # i + 1
        PROVE  m.next[r[k]] = At(r, k + 1) /\ m.prev[r[k]] = At(r, k - 1)
    <3>1. /\ q[x] # o /\ q[x] \in Obj
          /\ q[x] = p <=> x = i
          /\ q[x] = n <=> x = i + 1
      <4>1. q[x] # o /\ q[x] \in Obj
        BY <1>2, <2>1, <2>5 DEF Has
      <4>2. \A y \in Int : q[x] = At(q, y) <=> x = y
        <5>1. SUFFICES ASSUME NEW y \in Int
                       PROVE  q[x] = At(q, y) <=> x = y
          OBVIOUS
        <5>2. CASE y \in 1 .. Len(q)
          BY <1>1, <5>2 DEF At, Ordered
        <5>3. CASE y \notin 1 .. Len(q)
          <6>1. At(q, y) = Nil /\ q[x] # Nil /\ x # y
            BY <1>1, <5>3, AtFacts
          <6>2. QED
            BY <6>1
        <5>4. QED
          BY <5>2, <5>3
      <4>3. i \in Int /\ i + 1 \in Int
        BY <1>1, SMT
      <4>4. QED
        BY <4>1, <4>2, <4>3 DEF p, n
    <3>2. l.next[q[x]] = At(q, x + 1) /\ l.prev[q[x]] = At(q, x - 1)
      BY DEF Linked
    <3>3. /\ m.next[r[k]] = (IF x = i THEN o ELSE At(q, x + 1))
          /\ m.prev[r[k]] = (IF x = i + 1 THEN o ELSE At(q, x - 1))
      BY <1>5, <2>5, <3>1, <3>2
    <3>4. /\ At(r, k + 1) = IF x = i THEN o ELSE At(q, x + 1)
          /\ At(r, k - 1) = IF x = i + 1 THEN o ELSE At(q, x - 1)
      <4>1. CASE k <= i
        <5>1. x = k /\ (x = i <=> ~(k + 1 <= i)) /\ k - 1 <= i /\ x # i + 1
          BY <1>1, <2>1, <2>5, <4>1, SMT
        <5>2. QED
          BY <2>2, <2>3, <4>1, <5>1
      <4>2. CASE k > i
        <5>1. x = k - 1 /\ x # i /\ ~(k + 1 <= i) /\ k # i /\ ~(k - 1 <= i) /\ (k - 1 = i + 1 <=> x = i + 1)
              /\ x + 1 = k /\ x - 1 = k - 1 - 1
          BY <1>1, <2>1, <2>5, <4>2, SMT
        <5>2. QED
          BY <2>2, <2>3, <4>2, <5>1
      <4>3. QED
        BY <1>1, <2>1, <4>1, <4>2, SMT
    <3>5. QED
      BY <3>3, <3>4
  <2>6. CASE k # i + 1
    <3> DEFINE x == IF k <= i THEN k ELSE k - 1
    <3>1. x \in 1 .. Len(q)
      BY <1>1, <2>1, <2>6, SMT
    <3>2. r[k] = At(q, x)
      BY <1>1, <2>1, <2>2, <2>6, SMT
    <3>3. r[k] = q[x]
      BY <3>1, <3>2 DEF At
    <3> HIDE DEF x
    <3>4. x = IF k <= i THEN k ELSE k - 1
      BY DEF x
    <3>5. QED
      BY <2>5, <2>6, <3>1, <3>3, <3>4
  <2>7. QED
    BY <2>4, <2>6
<1>8. \A x \in Obj : m.data[x] # <<>> <=> Has(r, x)
  <2>1. \A x \in Obj : l.data[x] # <<>> <=> Has(q, x)
    BY DEF Linked, Has
  <2>2. QED
    BY <1>3, <1>5, <2>1
<1>9. m.datasum = Cardinality(Units(m))
  <2>1. m.data \in [Obj -> Seq(Unit)] /\ l.data \in [Obj -> Seq(Unit)]
    BY <1>1, <1>5 DEF LinkRecord
  <2>2. m.data[o] = d /\ \A x \in Obj \ {o} : l.data[x] = m.data[x]
    BY <1>5
  <2>3. Cardinality(Units(m)) = Cardinality(Units(l)) + Len(m.data[o])
    BY <2>1, <2>2, UnitsOfOne
  <2>4. l.datasum = Cardinality(Units(l))
    BY DEF Linked
  <2>5. QED
    BY <1>5, <2>2, <2>3, <2>4
<1>10. m.num = Len(r)
  BY <1>1, <1>3, <1>5
<1>11. Linked(m, r)
  BY <1>3, <1>5, <1>6, <1>7, <1>8, <1>9, <1>10 DEF Linked, Has
<1>12. QED
  BY <1>11 DEF m, r, p, n

\* ...removing one takes it from there,
LEMMA RemoveLinked ==
  ASSUME MaxObj \in Nat, NEW l, NEW q, Linked(l, q), NEW j \in 1 .. Len(q)
  PROVE  Linked(RemoveObj(l, q[j]), Out(q, j)) /\ RemoveObj(l, q[j]).max = l.max
         /\ \A x \in Obj \ {q[j]} : RemoveObj(l, q[j]).data[x] = l.data[x]
<1> DEFINE o == q[j]
           p == l.prev[o]
           n == l.next[o]
           m == RemoveObj(l, o)
           r == Out(q, j)
<1>1. Ordered(q) /\ Len(q) \in Nat /\ j \in Nat /\ j > 0 /\ j <= Len(q) /\ l \in LinkRecord /\ l.num = Len(q)
  BY SMT DEF Linked, Ordered
<1>2. o \in Obj /\ p = At(q, j - 1) /\ n = At(q, j + 1)
  <2>1. q[j] \in Obj
    BY <1>1, AtFacts, SMT
  <2>2. QED
    BY <2>1 DEF Linked
<1>3. /\ Ordered(r) /\ Len(r) = Len(q) - 1
      /\ \A k \in Int : At(r, k) = IF k < j THEN At(q, k) ELSE At(q, k + 1)
      /\ \A x \in Obj : Has(r, x) <=> x # o /\ Has(q, x)
  BY <1>1, OutFacts
<1>4. p \in Ref /\ n \in Ref /\ (p = Nil <=> j = 1) /\ (n = Nil <=> j = Len(q))
  <2>1. j - 1 \in Int /\ j + 1 \in Int /\ (j - 1 \in 1 .. Len(q) <=> j # 1) /\ (j + 1 \in 1 .. Len(q) <=> j # Len(q))
    BY <1>1, SMT
  <2>2. QED
    BY <1>1, <1>2, <2>1, AtFacts
<1>5. /\ m.first = (IF p = Nil THEN n ELSE l.first)
      /\ m.last = (IF n = Nil THEN p ELSE l.last)
      /\ m.next = [x \in Obj |-> IF x = p THEN n ELSE l.next[x]]
      /\ m.prev = [x \in Obj |-> IF x = n THEN p ELSE l.prev[x]]
      /\ m.data = [x \in Obj |-> IF x = o THEN <<>> ELSE l.data[x]]
      /\ m.datasum = l.datasum - Len(l.data[o]) /\ m.num = l.num - 1 /\ m.max = l.max
      /\ m \in LinkRecord
  <2>1. /\ l.first \in Ref /\ l.last \in Ref /\ l.datasum \in Int /\ l.num \in Nat
        /\ l.prev \in [Obj -> Ref] /\ l.next \in [Obj -> Ref] /\ l.data \in [Obj -> Seq(Unit)]
        /\ Len(l.data[o]) \in Nat
    <3>1. l.data \in [Obj -> Seq(Unit)]
      BY <1>1 DEF LinkRecord
    <3>2. l.data[o] \in Seq(Unit)
      BY <1>2, <3>1
    <3>3. Len(l.data[o]) \in Nat
      BY <3>2, LenProperties
    <3>4. QED
      BY <1>1, <3>1, <3>3 DEF LinkRecord
  <2> DEFINE a == IF p = Nil THEN n ELSE l.first
             b == IF n = Nil THEN p ELSE l.last
             c == [x \in Obj |-> IF x = p THEN n ELSE l.next[x]]
             e == [x \in Obj |-> IF x = n THEN p ELSE l.prev[x]]
             f == [x \in Obj |-> IF x = o THEN <<>> ELSE l.data[x]]
             g == l.datasum - Len(l.data[o])
             h == l.num - 1
  <2>2. /\ a \in Ref /\ b \in Ref /\ c \in [Obj -> Ref] /\ e \in [Obj -> Ref]
        /\ f \in [Obj -> Seq(Unit)] /\ g \in Int /\ h \in Nat
    <3>1. a \in Ref /\ b \in Ref
      BY <1>4, <2>1
    <3>2. c \in [Obj -> Ref] /\ e \in [Obj -> Ref]
      BY <1>4, <2>1
    <3>3. f \in [Obj -> Seq(Unit)]
      BY <2>1, EmptySeq
    <3>4. g \in Int /\ h \in Nat
      BY <1>1, <2>1, SMT
    <3>5. QED
      BY <3>1, <3>2, <3>3, <3>4
  <2>3. m = [l EXCEPT !.first = a, !.last = b, !.next = c, !.prev = e, !.data = f, !.datasum = g, !.num = h]
    BY Zenon DEF RemoveObj
  <2> HIDE DEF a, b, c, e, f, g, h
  <2>4. /\ m.first = a /\ m.last = b /\ m.next = c /\ m.prev = e /\ m.data = f /\ m.datasum = g
        /\ m.num = h /\ m.max = l.max /\ m \in LinkRecord
    BY <1>1, <2>2, <2>3 DEF LinkRecord
  <2>5. QED
    BY <2>4 DEF a, b, c, e, f, g, h
<1>13. \A x \in Obj \ {o} : m.data[x] = l.data[x]
  BY <1>5
<1> HIDE DEF p, n, m, r
<1>6. m.first = At(r, 1) /\ m.last = At(r, Len(r))
  <2>1. l.first = At(q, 1) /\ l.last = At(q, Len(q))
    BY DEF Linked
  <2>2. At(r, 1) = IF j = 1 THEN n ELSE At(q, 1)
    <3>1. At(r, 1) = IF 1 < j THEN At(q, 1) ELSE At(q, 1 + 1)
      BY <1>3
    <3>2. (1 < j <=> j # 1) /\ (j = 1 => 1 + 1 = j + 1)
      BY <1>1, SMT
    <3>3. QED
      BY <1>2, <3>1, <3>2
  <2>3. At(r, Len(r)) = IF j = Len(q) THEN p ELSE At(q, Len(q))
    <3>1. Len(q) - 1 \in Int
      BY <1>1, SMT
    <3>2. At(r, Len(q) - 1) = IF Len(q) - 1 < j THEN At(q, Len(q) - 1) ELSE At(q, Len(q) - 1 + 1)
      BY <1>3, <3>1
    <3>3. Len(q) - 1 + 1 = Len(q) /\ (Len(q) - 1 < j <=> j = Len(q))
      BY <1>1, SMT
    <3>4. QED
      BY <1>2, <1>3, <3>2, <3>3
  <2>4. QED
    BY <1>4, <1>5, <2>1, <2>2, <2>3
<1>7. ASSUME NEW k \in 1 .. Len(r)
      PROVE  m.next[r[k]] = At(r, k + 1) /\ m.prev[r[k]] = At(r, k - 1)
  <2> DEFINE x == IF k < j THEN k ELSE k + 1
  <2>1. k \in Int /\ k + 1 \in Int /\ k - 1 \in Int /\ k > 0 /\ k <= Len(q) - 1
    BY <1>1, <1>3, SMT
  <2>2. At(r, k) = r[k]
    BY <1>3, AtFacts
  <2>3. x \in 1 .. Len(q)
    BY <1>1, <2>1, SMT
  <2>4. /\ At(r, k) = IF k < j THEN At(q, k) ELSE At(q, k + 1)
        /\ At(r, k + 1) = IF k + 1 < j THEN At(q, k + 1) ELSE At(q, k + 1 + 1)
        /\ At(r, k - 1) = IF k - 1 < j THEN At(q, k - 1) ELSE At(q, k - 1 + 1)
    BY <1>3, <2>1
  <2>5. r[k] = q[x]
    <3>1. r[k] = At(q, x)
      BY <2>2, <2>4
    <3>2. QED
      BY <2>3, <3>1 DEF At
  <2>6. q[x] \in Obj /\ (q[x] = p <=> x = j - 1) /\ (q[x] = n <=> x = j + 1)
    <3>1. q[x] \in Obj /\ q[x] # Nil
      <4>1. x \in Int
        BY <2>3, SMT
      <4>2. QED
        BY <1>1, <2>3, <4>1, AtFacts
    <3>2. \A y \in Int : q[x] = At(q, y) <=> x = y
      <4>1. SUFFICES ASSUME NEW y \in Int
                     PROVE  q[x] = At(q, y) <=> x = y
        OBVIOUS
      <4>2. CASE y \in 1 .. Len(q)
        BY <1>1, <2>3, <4>2 DEF At, Ordered
      <4>3. CASE y \notin 1 .. Len(q)
        BY <1>1, <2>3, <3>1, <4>3, AtFacts
      <4>4. QED
        BY <4>2, <4>3
    <3>3. j - 1 \in Int /\ j + 1 \in Int
      BY <1>1, SMT
    <3>4. QED
      BY <1>2, <3>1, <3>2, <3>3
  <2>7. l.next[q[x]] = At(q, x + 1) /\ l.prev[q[x]] = At(q, x - 1)
    BY <2>3 DEF Linked
  <2>8. /\ m.next[r[k]] = (IF x = j - 1 THEN At(q, j + 1) ELSE At(q, x + 1))
        /\ m.prev[r[k]] = (IF x = j + 1 THEN At(q, j - 1) ELSE At(q, x - 1))
    BY <1>2, <1>5, <2>5, <2>6, <2>7
  <2>9. CASE k < j
    <3>1. /\ x = k /\ x # j + 1 /\ k - 1 < j
          /\ x = j - 1 <=> ~(k + 1 < j)
          /\ ~(k + 1 < j) => k + 1 + 1 = j + 1
      BY <1>1, <2>1, <2>9, SMT
    <3>2. QED
      BY <2>4, <2>8, <3>1
  <2>10. CASE ~(k < j)
    <3>1. /\ x = k + 1 /\ x # j - 1 /\ ~(k + 1 < j) /\ x - 1 = k
          /\ k - 1 < j <=> x = j + 1
          /\ x = j + 1 => k - 1 = j - 1
          /\ k - 1 + 1 = k /\ x + 1 = k + 1 + 1
      <4>1. x = k + 1
        BY <2>10
      <4>2. j \in Int /\ k \in Int /\ ~(k < j)
        BY <1>1, <2>1, <2>10, SMT
      <4> HIDE DEF x
      <4>3. x # j - 1 /\ ~(k + 1 < j) /\ x - 1 = k /\ k - 1 + 1 = k /\ x + 1 = k + 1 + 1
        BY <4>1, <4>2, SMT
      <4>4. (k - 1 < j <=> x = j + 1) /\ (x = j + 1 => k - 1 = j - 1)
        BY <4>1, <4>2, SMT
      <4>5. QED
        BY <4>1, <4>2, <4>3, <4>4, SMT
    <3>2. QED
      BY <2>4, <2>8, <3>1
  <2>11. QED
    BY <2>9, <2>10
<1>8. \A x \in Obj : m.data[x] # <<>> <=> Has(r, x)
  <2>1. \A x \in Obj : l.data[x] # <<>> <=> Has(q, x)
    BY DEF Linked, Has
  <2>2. QED
    BY <1>3, <1>5, <2>1
<1>9. m.datasum = Cardinality(Units(m))
  <2>1. m.data \in [Obj -> Seq(Unit)] /\ l.data \in [Obj -> Seq(Unit)]
    BY <1>1, <1>5 DEF LinkRecord
  <2>2. m.data[o] = <<>> /\ \A x \in Obj \ {o} : m.data[x] = l.data[x]
    BY <1>2, <1>5
  <2>3. Cardinality(Units(l)) = Cardinality(Units(m)) + Len(l.data[o])
    BY <1>2, <2>1, <2>2, UnitsOfOne
  <2>4. l.datasum = Cardinality(Units(l))
    BY DEF Linked
  <2>5. Cardinality(Units(m)) \in Nat /\ Len(l.data[o]) \in Nat
    BY <1>2, <2>1, UnitsFinite, LenProperties
  <2>6. QED
    BY <1>5, <2>3, <2>4, <2>5, SMT
<1>10. m.num = Len(r)
  BY <1>1, <1>3, <1>5
<1>11. Linked(m, r)
  BY <1>3, <1>5, <1>6, <1>7, <1>8, <1>9, <1>10 DEF Linked, Has
<1>12. QED
  BY <1>5, <1>11, <1>13 DEF m, r

\* ...and with the links exchanged the order is the other way round.
LEMMA TurnLinked ==
  ASSUME MaxObj \in Nat, NEW l, NEW q, Linked(l, q)
  PROVE  Linked([l EXCEPT !.first = l.last, !.last = l.first, !.prev = l.next, !.next = l.prev], Reverse(q))
<1> DEFINE m == [l EXCEPT !.first = l.last, !.last = l.first, !.prev = l.next, !.next = l.prev]
           r == Reverse(q)
<1>1. Ordered(q) /\ Len(q) \in Nat /\ l \in LinkRecord /\ (\A k \in 1 .. Len(q) : q[k] \in Obj)
  BY SMT DEF Linked, Ordered
<1>2. r = [k \in 1 .. Len(q) |-> q[(Len(q) - k) + 1]]
  BY DEF Reverse
<1> HIDE DEF r
<1>3. \A k \in 1 .. Len(q) : (Len(q) - k) + 1 \in 1 .. Len(q)
  BY <1>1, SMT
<1>4. r \in [1 .. Len(q) -> Obj]
  BY <1>1, <1>2, <1>3
<1>5. r \in Seq(Obj) /\ Len(r) = Len(q)
  BY <1>1, <1>4, SMT
<1>6. \A k \in 1 .. Len(q) : r[k] = q[(Len(q) - k) + 1]
  BY <1>2
<1>7. Ordered(r)
  <2>1. \A x, y \in 1 .. Len(q) : q[x] = q[y] => x = y
    BY DEF Linked, Ordered
  <2>2. ASSUME NEW a \in 1 .. Len(q), NEW b \in 1 .. Len(q), r[a] = r[b]
        PROVE  a = b
    <3>1. (Len(q) - a) + 1 = (Len(q) - b) + 1
      BY <1>3, <1>6, <2>1, <2>2
    <3>2. QED
      BY <1>1, <3>1, SMT
  <2>3. QED
    BY <1>5, <2>2 DEF Ordered
<1>8. \A k \in Int : At(r, k) = At(q, (Len(q) - k) + 1)
  <2>1. SUFFICES ASSUME NEW k \in Int
                 PROVE  At(r, k) = At(q, (Len(q) - k) + 1)
    OBVIOUS
  <2>2. k \in 1 .. Len(q) <=> (Len(q) - k) + 1 \in 1 .. Len(q)
    BY <1>1, SMT
  <2>3. QED
    BY <1>5, <1>6, <2>2 DEF At
<1>9. /\ m.first = l.last /\ m.last = l.first /\ m.prev = l.next /\ m.next = l.prev /\ m.data = l.data
      /\ m.datasum = l.datasum /\ m.num = l.num /\ m.max = l.max /\ m \in LinkRecord
  BY <1>1 DEF LinkRecord
<1> HIDE DEF m
<1>10. m.first = At(r, 1) /\ m.last = At(r, Len(r)) /\ m.num = Len(r)
  <2>1. l.first = At(q, 1) /\ l.last = At(q, Len(q)) /\ l.num = Len(q)
    BY DEF Linked
  <2>2. (Len(q) - 1) + 1 = Len(q) /\ (Len(q) - Len(q)) + 1 = 1 /\ Len(q) \in Int
    BY <1>1, SMT
  <2>3. QED
    BY <1>5, <1>8, <1>9, <2>1, <2>2
<1>11. ASSUME NEW k \in 1 .. Len(r)
       PROVE  m.next[r[k]] = At(r, k + 1) /\ m.prev[r[k]] = At(r, k - 1)
  <2> DEFINE x == (Len(q) - k) + 1
  <2>1. x \in 1 .. Len(q) /\ r[k] = q[x] /\ k \in Int
    BY <1>3, <1>5, <1>6, SMT
  <2>2. k + 1 \in Int /\ k - 1 \in Int /\ (Len(q) - (k + 1)) + 1 = x - 1 /\ (Len(q) - (k - 1)) + 1 = x + 1
    BY <1>1, <2>1, SMT
  <2>3. At(r, k + 1) = At(q, x - 1) /\ At(r, k - 1) = At(q, x + 1)
    BY <1>8, <2>2
  <2> HIDE DEF x
  <2>4. l.next[q[x]] = At(q, x + 1) /\ l.prev[q[x]] = At(q, x - 1)
    BY <2>1 DEF Linked
  <2>5. QED
    BY <1>9, <2>1, <2>3, <2>4
<1>12. \A x \in Obj : m.data[x] # <<>> <=> Has(r, x)
  <2>1. \A x \in Obj : l.data[x] # <<>> <=> Has(q, x)
    BY DEF Linked, Has
  <2>2. \A x \in Obj : Has(q, x) <=> Has(r, x)
    <3>1. ASSUME NEW x \in Obj, NEW k \in 1 .. Len(q), q[k] = x
          PROVE  Has(r, x)
      <4>1. (Len(q) - k) + 1 \in 1 .. Len(q) /\ (Len(q) - ((Len(q) - k) + 1)) + 1 = k
        BY <1>1, SMT
      <4>2. r[(Len(q) - k) + 1] = x
        BY <1>6, <3>1, <4>1
      <4>3. QED
        BY <1>5, <4>1, <4>2 DEF Has
    <3>2. ASSUME NEW x \in Obj, NEW k \in 1 .. Len(q), r[k] = x
          PROVE  Has(q, x)
      BY <1>3, <1>6, <3>2 DEF Has
    <3>3. QED
      BY <1>5, <3>1, <3>2 DEF Has
  <2>3. QED
    BY <1>9, <2>1, <2>2
<1>13. m.datasum = Cardinality(Units(m))
  BY <1>9 DEF Linked, Units
<1>14. Linked(m, r)
  BY <1>7, <1>9, <1>10, <1>11, <1>12, <1>13 DEF Linked, Has
<1>15. QED
  BY <1>14 DEF m, r

-----------------------------------------------------------------------------
(* What that does to the sequence of the data *)

\* Sequence t is s with e at place i.
With(t, s, i, e) ==
  \A k \in 1 .. Len(s) + 1 : t[k] = IF k < i THEN s[k] ELSE IF k = i THEN e ELSE s[k - 1]

\* Inserting into a sequence,
LEMMA InsertFacts ==
  ASSUME NEW S, NEW s \in Seq(S), NEW e \in S, NEW i \in 1 .. Len(s) + 1
  PROVE  /\ InsertAt(s, i, e) \in Seq(S) /\ Len(InsertAt(s, i, e)) = Len(s) + 1
         /\ With(InsertAt(s, i, e), s, i, e)
<1> DEFINE a == SubSeq(s, 1, i - 1)
           b == SubSeq(s, i, Len(s))
           c == a \o <<e>>
<1>1. Len(s) \in Nat /\ i \in Int /\ i - 1 \in Int /\ i >= 1 /\ i <= Len(s) + 1 /\ (\A k \in 1 .. Len(s) : s[k] \in S)
  BY LenProperties, SMT
<1>2. a \in Seq(S) /\ Len(a) = i - 1 /\ \A k \in 1 .. i - 1 : a[k] = s[k]
  <2>1. \A k \in 1 .. i - 1 : s[k] \in S
    BY <1>1, SMT
  <2>2. /\ a \in Seq(S) /\ Len(a) = IF 1 <= i - 1 THEN i - 1 - 1 + 1 ELSE 0
        /\ \A k \in 1 .. i - 1 - 1 + 1 : a[k] = s[1 + k - 1]
    BY <1>1, <2>1, SubSeqProperties, SMT
  <2>3. /\ (IF 1 <= i - 1 THEN i - 1 - 1 + 1 ELSE 0) = i - 1 /\ i - 1 - 1 + 1 = i - 1
        /\ \A k \in 1 .. i - 1 : 1 + k - 1 = k
    BY <1>1, SMT
  <2> HIDE DEF a
  <2>4. QED
    BY <2>2, <2>3
<1>3. b \in Seq(S) /\ Len(b) = Len(s) - i + 1 /\ \A k \in 1 .. Len(s) - i + 1 : b[k] = s[i + k - 1]
  <2>1. \A k \in i .. Len(s) : s[k] \in S
    BY <1>1, SMT
  <2>2. /\ b \in Seq(S) /\ Len(b) = IF i <= Len(s) THEN Len(s) - i + 1 ELSE 0
        /\ \A k \in 1 .. Len(s) - i + 1 : b[k] = s[i + k - 1]
    BY <1>1, <2>1, SubSeqProperties, SMT
  <2>3. (IF i <= Len(s) THEN Len(s) - i + 1 ELSE 0) = Len(s) - i + 1
    BY <1>1, SMT
  <2> HIDE DEF b
  <2>4. QED
    BY <2>2, <2>3
<1>4. InsertAt(s, i, e) = c \o b
  BY DEF InsertAt
<1> HIDE DEF a, b
<1>5. c \in Seq(S) /\ Len(c) = i /\ \A k \in 1 .. i : c[k] = IF k < i THEN s[k] ELSE e
  <2>1. <<e>> \in Seq(S) /\ Len(<<e>>) = 1 /\ <<e>>[1] = e
    BY SMT
  <2>2. /\ c \in Seq(S) /\ Len(c) = Len(a) + 1
        /\ \A k \in 1 .. Len(a) + 1 : c[k] = IF k <= Len(a) THEN a[k] ELSE <<e>>[k - Len(a)]
    BY <1>2, <2>1, ConcatProperties
  <2> HIDE DEF c
  <2>3. Len(a) = i - 1 /\ Len(a) + 1 = i
    BY <1>1, <1>2, SMT
  <2>4. ASSUME NEW k \in 1 .. i PROVE c[k] = IF k < i THEN s[k] ELSE e
    <3>1. c[k] = IF k <= Len(a) THEN a[k] ELSE <<e>>[k - Len(a)]
      BY <2>2, <2>3
    <3>2. CASE k < i
      <4>1. k <= Len(a) /\ k \in 1 .. i - 1
        BY <1>1, <2>3, <3>2, SMT
      <4>2. QED
        BY <1>2, <3>1, <3>2, <4>1
    <3>3. CASE ~(k < i)
      <4>1. ~(k <= Len(a)) /\ k - Len(a) = 1
        BY <1>1, <2>3, <3>3, SMT
      <4>2. QED
        BY <2>1, <3>1, <3>3, <4>1
    <3>4. QED
      BY <3>2, <3>3
  <2>5. QED
    BY <2>2, <2>3, <2>4
<1> HIDE DEF c
<1>6. /\ c \o b \in Seq(S) /\ Len(c \o b) = Len(c) + Len(b)
      /\ \A k \in 1 .. Len(c) + Len(b) : (c \o b)[k] = IF k <= Len(c) THEN c[k] ELSE b[k - Len(c)]
  BY <1>3, <1>5, ConcatProperties
<1> DEFINE r == c \o b
<1> HIDE DEF r
<1>7. /\ r \in Seq(S) /\ Len(r) = i + (Len(s) - i + 1)
      /\ \A k \in 1 .. i + (Len(s) - i + 1) : r[k] = IF k <= i THEN c[k] ELSE b[k - i]
  BY <1>3, <1>5, <1>6 DEF r
<1>8. i + (Len(s) - i + 1) = Len(s) + 1
  BY <1>1, SMT
<1>9. ASSUME NEW k \in 1 .. Len(s) + 1
      PROVE  r[k] = IF k < i THEN s[k] ELSE IF k = i THEN e ELSE s[k - 1]
  <2>1. CASE k <= i
    <3>1. k \in 1 .. i /\ (k < i \/ k = i)
      BY <1>1, <2>1, SMT
    <3>2. r[k] = c[k]
      BY <1>7, <1>8, <2>1
    <3>3. QED
      BY <1>5, <3>1, <3>2, SMT
  <2>2. CASE ~(k <= i)
    <3>1. k - i \in 1 .. Len(s) - i + 1 /\ i + (k - i) - 1 = k - 1 /\ ~(k < i) /\ k # i
      BY <1>1, <2>2, SMT
    <3>2. r[k] = b[k - i]
      BY <1>7, <1>8, <2>2
    <3>3. QED
      BY <1>3, <3>1, <3>2
  <2>3. QED
    BY <2>1, <2>2
<1>10. QED
  BY <1>4, <1>7, <1>8, <1>9 DEF r, With

\* ...and removing from it.
LEMMA RemoveFacts ==
  ASSUME NEW S, NEW s \in Seq(S), NEW i \in 1 .. Len(s)
  PROVE  /\ RemoveAt(s, i) \in Seq(S) /\ Len(RemoveAt(s, i)) = Len(s) - 1
         /\ \A k \in 1 .. Len(s) - 1 : RemoveAt(s, i)[k] = IF k < i THEN s[k] ELSE s[k + 1]
<1> DEFINE a == SubSeq(s, 1, i - 1)
           b == SubSeq(s, i + 1, Len(s))
<1>1. /\ Len(s) \in Nat /\ i \in Int /\ i - 1 \in Int /\ i + 1 \in Int /\ i >= 1 /\ i <= Len(s)
      /\ \A k \in 1 .. Len(s) : s[k] \in S
  BY LenProperties, SMT
<1>2. a \in Seq(S) /\ Len(a) = i - 1 /\ \A k \in 1 .. i - 1 : a[k] = s[k]
  <2>1. \A k \in 1 .. i - 1 : s[k] \in S
    BY <1>1, SMT
  <2>2. /\ a \in Seq(S) /\ Len(a) = IF 1 <= i - 1 THEN i - 1 - 1 + 1 ELSE 0
        /\ \A k \in 1 .. i - 1 - 1 + 1 : a[k] = s[1 + k - 1]
    BY <1>1, <2>1, SubSeqProperties, SMT
  <2>3. /\ (IF 1 <= i - 1 THEN i - 1 - 1 + 1 ELSE 0) = i - 1 /\ i - 1 - 1 + 1 = i - 1
        /\ \A k \in 1 .. i - 1 : 1 + k - 1 = k
    BY <1>1, SMT
  <2> HIDE DEF a
  <2>4. QED
    BY <2>2, <2>3
<1>3. b \in Seq(S) /\ Len(b) = Len(s) - i /\ \A k \in 1 .. Len(s) - i : b[k] = s[i + k]
  <2>1. \A k \in i + 1 .. Len(s) : s[k] \in S
    BY <1>1, SMT
  <2>2. /\ b \in Seq(S) /\ Len(b) = IF i + 1 <= Len(s) THEN Len(s) - (i + 1) + 1 ELSE 0
        /\ \A k \in 1 .. Len(s) - (i + 1) + 1 : b[k] = s[(i + 1) + k - 1]
    BY <1>1, <2>1, SubSeqProperties, SMT
  <2>3. /\ (IF i + 1 <= Len(s) THEN Len(s) - (i + 1) + 1 ELSE 0) = Len(s) - i
        /\ Len(s) - (i + 1) + 1 = Len(s) - i
        /\ \A k \in 1 .. Len(s) - i : (i + 1) + k - 1 = i + k
    BY <1>1, SMT
  <2> HIDE DEF b
  <2>4. QED
    BY <2>2, <2>3
<1>4. RemoveAt(s, i) = a \o b
  BY DEF RemoveAt
<1> HIDE DEF a, b
<1>5. /\ a \o b \in Seq(S) /\ Len(a \o b) = Len(a) + Len(b)
      /\ \A k \in 1 .. Len(a) + Len(b) : (a \o b)[k] = IF k <= Len(a) THEN a[k] ELSE b[k - Len(a)]
  BY <1>2, <1>3, ConcatProperties
<1> DEFINE r == a \o b
<1> HIDE DEF r
<1>6. /\ r \in Seq(S) /\ Len(r) = i - 1 + (Len(s) - i)
      /\ \A k \in 1 .. i - 1 + (Len(s) - i) : r[k] = IF k <= i - 1 THEN a[k] ELSE b[k - (i - 1)]
  BY <1>2, <1>3, <1>5 DEF r
<1>7. i - 1 + (Len(s) - i) = Len(s) - 1
  BY <1>1, SMT
<1>8. ASSUME NEW k \in 1 .. Len(s) - 1
      PROVE  r[k] = IF k < i THEN s[k] ELSE s[k + 1]
  <2>1. CASE k < i
    <3>1. k \in 1 .. i - 1 /\ k <= i - 1
      BY <1>1, <2>1, SMT
    <3>2. QED
      BY <1>2, <1>6, <1>7, <2>1, <3>1
  <2>2. CASE ~(k < i)
    <3>1. k - (i - 1) \in 1 .. Len(s) - i /\ i + (k - (i - 1)) = k + 1 /\ ~(k <= i - 1)
      BY <1>1, <2>2, SMT
    <3>2. r[k] = b[k - (i - 1)]
      BY <1>6, <1>7, <3>1
    <3>3. QED
      BY <1>3, <2>2, <3>1, <3>2
  <2>3. QED
    BY <2>1, <2>2
<1>9. QED
  BY <1>4, <1>6, <1>7, <1>8 DEF r

\* Linking an object inserts its data,
LEMMA LinkInserts ==
  ASSUME MaxObj \in Nat, NEW l, NEW q, Linked(l, q), NEW o \in Obj, l.data[o] = <<>>, NEW m,
         NEW d \in Seq(Unit), NEW i \in 0 .. Len(q), Linked(m, Into(q, i, o)),
         m.data = [x \in Obj |-> IF x = o THEN d ELSE l.data[x]]
  PROVE  Objects(m) = InsertAt(Objects(l), i + 1, d)
<1> DEFINE s == Objects(l)
           t == Objects(m)
           r == Into(q, i, o)
           S == Seq(Unit)
<1>1. Ordered(q) /\ Len(q) \in Nat /\ i \in Nat /\ i <= Len(q) /\ ~Has(q, o)
  BY SMT DEF Linked, Ordered, Has
<1>2. Len(r) = Len(q) + 1 /\ \A k \in 1 .. Len(q) + 1 : r[k] = IF k <= i THEN q[k] ELSE IF k = i + 1 THEN o ELSE q[k - 1]
  <2>1. Len(r) = Len(q) + 1
    BY <1>1, IntoFacts
  <2>2. QED
    BY <2>1, Zenon DEF Into
<1>3. s \in Seq(S) /\ Len(s) = Len(q) /\ s = [k \in 1 .. Len(q) |-> l.data[q[k]]]
      /\ \A k \in 1 .. Len(q) : q[k] \in Obj
  BY ObjectsAre
<1>4. t \in Seq(S) /\ Len(t) = Len(r) /\ t = [k \in 1 .. Len(r) |-> m.data[r[k]]]
  BY ObjectsAre
<1> HIDE DEF s, t, r, S
<1>5. i + 1 \in 1 .. Len(s) + 1
  BY <1>1, <1>3, SMT
<1>6. d \in S
  BY DEF S
<1>7. /\ InsertAt(s, i + 1, d) \in Seq(S) /\ Len(InsertAt(s, i + 1, d)) = Len(s) + 1
      /\ \A k \in 1 .. Len(s) + 1 :
           InsertAt(s, i + 1, d)[k] = IF k < i + 1 THEN s[k] ELSE IF k = i + 1 THEN d ELSE s[k - 1]
  <2>1. s \in Seq(S) /\ d \in S /\ i + 1 \in 1 .. Len(s) + 1
    BY <1>3, <1>5, <1>6
  <2>2. /\ InsertAt(s, i + 1, d) \in Seq(S) /\ Len(InsertAt(s, i + 1, d)) = Len(s) + 1
        /\ With(InsertAt(s, i + 1, d), s, i + 1, d)
    BY <2>1, InsertFacts, Zenon
  <2>3. QED
    BY <2>2, Zenon DEF With
<1>8. \A k \in 1 .. Len(t) : t[k] = InsertAt(s, i + 1, d)[k]
  <2>1. SUFFICES ASSUME NEW k \in 1 .. Len(q) + 1
                 PROVE  t[k] = InsertAt(s, i + 1, d)[k]
    BY <1>2, <1>4
  <2>2. t[k] = m.data[r[k]]
    BY <1>2, <1>4
  <2>3. \A x \in 1 .. Len(q) : q[x] \in Obj /\ q[x] # o /\ s[x] = l.data[q[x]]
    BY <1>1, <1>3 DEF Has
  <2>4. CASE k <= i
    <3>1. k \in 1 .. Len(q) /\ k < i + 1
      BY <1>1, <2>4, SMT
    <3>2. r[k] = q[k]
      BY <1>2, <2>4
    <3>3. t[k] = s[k]
      BY <2>2, <2>3, <3>1, <3>2
    <3>4. QED
      BY <1>3, <1>7, <3>1, <3>3
  <2>5. CASE k = i + 1
    <3>1. ~(k <= i) /\ ~(k < i + 1)
      BY <1>1, <2>5, SMT
    <3>2. t[k] = d
      BY <1>2, <2>2, <2>5, <3>1
    <3>3. QED
      BY <1>3, <1>7, <2>5, <3>1, <3>2
  <2>6. CASE ~(k <= i) /\ k # i + 1
    <3>1. k - 1 \in 1 .. Len(q) /\ ~(k < i + 1)
      BY <1>1, <2>6, SMT
    <3>2. r[k] = q[k - 1]
      BY <1>2, <2>6
    <3>3. t[k] = s[k - 1]
      BY <2>2, <2>3, <3>1, <3>2
    <3>4. QED
      BY <1>3, <1>7, <2>6, <3>1, <3>3
  <2>7. QED
    BY <2>4, <2>5, <2>6
<1>9. t = InsertAt(s, i + 1, d)
  <2>1. Len(t) = Len(InsertAt(s, i + 1, d))
    BY <1>2, <1>3, <1>4, <1>7
  <2>2. QED
    BY <1>4, <1>7, <1>8, <2>1, SeqEqual
<1>10. QED
  BY <1>9 DEF s, t

\* ...removing one removes them,
LEMMA RemoveRemoves ==
  ASSUME MaxObj \in Nat, NEW l, NEW q, Linked(l, q), NEW j \in 1 .. Len(q)
  PROVE  Objects(RemoveObj(l, q[j])) = RemoveAt(Objects(l), j)
<1> DEFINE s == Objects(l)
           m == RemoveObj(l, q[j])
           t == Objects(m)
           r == Out(q, j)
           S == Seq(Unit)
<1>1. Ordered(q) /\ Len(q) \in Nat /\ j \in Nat /\ j > 0 /\ j <= Len(q)
  BY SMT DEF Linked, Ordered
<1>2. Linked(m, r) /\ \A x \in Obj \ {q[j]} : m.data[x] = l.data[x]
  BY RemoveLinked
<1>3. Len(r) = Len(q) - 1 /\ \A k \in 1 .. Len(q) - 1 : r[k] = IF k < j THEN q[k] ELSE q[k + 1]
  <2>1. Len(r) = Len(q) - 1
    BY <1>1, OutFacts
  <2>2. QED
    BY <2>1, Zenon DEF Out
<1>4. s \in Seq(S) /\ Len(s) = Len(q) /\ s = [k \in 1 .. Len(q) |-> l.data[q[k]]]
      /\ \A k \in 1 .. Len(q) : q[k] \in Obj
  BY ObjectsAre
<1>5. t \in Seq(S) /\ Len(t) = Len(r) /\ t = [k \in 1 .. Len(r) |-> m.data[r[k]]]
  BY <1>2, ObjectsAre
<1> HIDE DEF s, t, r, S, m
<1>6. /\ RemoveAt(s, j) \in Seq(S) /\ Len(RemoveAt(s, j)) = Len(s) - 1
      /\ \A k \in 1 .. Len(s) - 1 : RemoveAt(s, j)[k] = IF k < j THEN s[k] ELSE s[k + 1]
  BY <1>4, RemoveFacts
<1>7. \A k \in 1 .. Len(t) : t[k] = RemoveAt(s, j)[k]
  <2>1. SUFFICES ASSUME NEW k \in 1 .. Len(q) - 1
                 PROVE  t[k] = RemoveAt(s, j)[k]
    BY <1>3, <1>5
  <2>2. t[k] = m.data[r[k]]
    BY <1>3, <1>5
  <2>3. \A x \in 1 .. Len(q) : x # j => q[x] \in Obj /\ q[x] # q[j] /\ s[x] = l.data[q[x]]
    BY <1>1, <1>4 DEF Ordered
  <2>4. k \in 1 .. Len(q) /\ k + 1 \in 1 .. Len(q) /\ (k < j => k # j) /\ (~(k < j) => k + 1 # j)
    BY <1>1, SMT
  <2>5. QED
    BY <1>2, <1>3, <1>4, <1>6, <2>2, <2>3, <2>4
<1>8. t = RemoveAt(s, j)
  <2>1. Len(t) = Len(RemoveAt(s, j))
    BY <1>3, <1>4, <1>5, <1>6
  <2>2. QED
    BY <1>5, <1>6, <1>7, <2>1, SeqEqual
<1>9. QED
  BY <1>8 DEF s, t, m

\* ...and exchanging the links reverses them.
LEMMA TurnReverses ==
  ASSUME MaxObj \in Nat, NEW l, NEW q, Linked(l, q), NEW m, Linked(m, Reverse(q)), m.data = l.data
  PROVE  Objects(m) = Reverse(Objects(l))
<1>1. Len(q) \in Nat /\ q \in Seq(Obj)
  BY SMT DEF Linked, Ordered
<1>2. Len(Reverse(q)) = Len(q) /\ \A k \in 1 .. Len(q) : Reverse(q)[k] = q[(Len(q) - k) + 1]
  BY <1>1, SMT DEF Reverse
<1>3. Objects(l) = [k \in 1 .. Len(q) |-> l.data[q[k]]] /\ Len(Objects(l)) = Len(q)
  BY ObjectsAre
<1>4. Objects(m) = [k \in 1 .. Len(q) |-> m.data[Reverse(q)[k]]]
  BY <1>2, ObjectsAre
<1>5. \A k \in 1 .. Len(q) : (Len(q) - k) + 1 \in 1 .. Len(q)
  BY <1>1, SMT
<1>6. Reverse(Objects(l)) = [k \in 1 .. Len(q) |-> Objects(l)[(Len(q) - k) + 1]]
  BY <1>3 DEF Reverse
<1>7. \A k \in 1 .. Len(q) : m.data[Reverse(q)[k]] = Objects(l)[(Len(q) - k) + 1]
  BY <1>2, <1>3, <1>5
<1>8. QED
  BY <1>4, <1>6, <1>7


-----------------------------------------------------------------------------
(* A walk *)

\* What is there from a place on.
Rest(l, q, j) == [k \in 1 .. Len(q) + 1 - j |-> l.data[q[j + k - 1]]]

WalkRecord ==
  [started : BOOLEAN, next : Ref, at : Ref, due : Seq(Seq(Unit)), intact : BOOLEAN]

\* An undisturbed walk is between two places: it goes on with the second one and
\* is due to see all from there, and it has just seen the first one, unless that
\* was taken meanwhile.
WalkOK(w, l, q) ==
  /\ w \in WalkRecord
  /\ ~w.started => w = NoWalk
  /\ w.started /\ w.intact =>
       \E j \in 1 .. Len(q) + 1 :
         /\ w.next = At(q, j) /\ w.due = Rest(l, q, j)
         /\ w.at \in Obj /\ (w.at = At(q, j - 1) \/ l.data[w.at] = <<>>)

Disturbed(w) == IF w.started THEN [w EXCEPT !.intact = FALSE, !.due = <<>>, !.at = Nil] ELSE w

\* A walk at its beginning is well in any list,
LEMMA NoWalkOK ==
  ASSUME NEW l, NEW q
  PROVE  WalkOK(NoWalk, l, q)
<1>1. NoWalk \in WalkRecord /\ NoWalk.started = FALSE
  <2>1. <<>> \in Seq(Seq(Unit))
    BY EmptySeq
  <2>2. Nil \in Ref
    BY DEF Ref
  <2>3. QED
    BY <2>1, <2>2 DEF NoWalk, WalkRecord
<1>2. QED
  BY <1>1, Zenon DEF WalkOK

\* ...one that is disturbed too,
LEMMA DisturbedOK ==
  ASSUME NEW w, NEW l, NEW q, WalkOK(w, l, q), NEW m, NEW r
  PROVE  WalkOK(Disturbed(w), m, r)
<1>1. CASE w.started
  <2> DEFINE v == [w EXCEPT !.intact = FALSE, !.due = <<>>, !.at = Nil]
  <2>1. Disturbed(w) = v
    BY <1>1 DEF Disturbed
  <2>2. w \in WalkRecord /\ <<>> \in Seq(Seq(Unit)) /\ Nil \in Ref
    BY EmptySeq DEF WalkOK, Ref
  <2>3. v \in WalkRecord /\ v.intact = FALSE /\ v.started = w.started
    BY <2>2 DEF WalkRecord
  <2> HIDE DEF v
  <2>4. QED
    BY <1>1, <2>1, <2>3 DEF WalkOK
<1>2. CASE ~w.started
  <2>1. w = NoWalk /\ Disturbed(w) = w
    BY <1>2, Zenon DEF Disturbed, WalkOK
  <2>2. QED
    BY <2>1, NoWalkOK, Zenon
<1>3. QED
  BY <1>1, <1>2

\* ...and one in a list that changed neither its order nor its data.
LEMMA UntouchedOK ==
  ASSUME NEW w, NEW l, NEW q, WalkOK(w, l, q), NEW m, m.data = l.data
  PROVE  WalkOK(w, m, q)
<1>1. \A j : Rest(m, q, j) = Rest(l, q, j)
  BY Zenon DEF Rest
<1>2. QED
  BY <1>1 DEF WalkOK

\* What the walk has just seen may be taken,
LEMMA TakenOK ==
  ASSUME MaxObj \in Nat, NEW l, NEW q, Linked(l, q), NEW w, WalkOK(w, l, q),
         NEW p \in 1 .. Len(q), q[p] = w.at
  PROVE  WalkOK(w, RemoveObj(l, q[p]), Out(q, p))
<1> DEFINE m == RemoveObj(l, q[p])
           r == Out(q, p)
<1>1. Ordered(q) /\ Len(q) \in Nat /\ p \in Nat /\ p > 0 /\ p <= Len(q)
  BY SMT DEF Linked, Ordered
<1>2. SUFFICES ASSUME w.started, w.intact
               PROVE  \E j \in 1 .. Len(r) + 1 :
                        /\ w.next = At(r, j) /\ w.due = Rest(m, r, j)
                        /\ w.at \in Obj /\ (w.at = At(r, j - 1) \/ m.data[w.at] = <<>>)
  BY Zenon DEF WalkOK
<1>3. PICK j \in 1 .. Len(q) + 1 :
        /\ w.next = At(q, j) /\ w.due = Rest(l, q, j)
        /\ w.at \in Obj /\ (w.at = At(q, j - 1) \/ l.data[w.at] = <<>>)
  BY <1>2, Zenon DEF WalkOK
<1>4. l.data[w.at] # <<>> /\ w.at # Nil
  <2>1. l.data[q[p]] # <<>>
    BY ObjectsAre
  <2>2. w.at # Nil
    BY <1>1, AtFacts
  <2>3. QED
    BY <2>1, <2>2
<1>5. j - 1 \in 1 .. Len(q) /\ p = j - 1
  <2>1. w.at = At(q, j - 1) /\ j - 1 \in Int
    BY <1>1, <1>3, <1>4, SMT
  <2>2. j - 1 \in 1 .. Len(q) /\ q[j - 1] = q[p]
    BY <1>1, <1>4, <2>1, AtFacts
  <2>3. QED
    BY <1>1, <2>2 DEF Ordered
<1>6. /\ Len(r) = Len(q) - 1 /\ \A k \in Int : At(r, k) = IF k < p THEN At(q, k) ELSE At(q, k + 1)
      /\ \A k \in 1 .. Len(q) - 1 : r[k] = IF k < p THEN q[k] ELSE q[k + 1]
  <2>1. Len(r) = Len(q) - 1 /\ \A k \in Int : At(r, k) = IF k < p THEN At(q, k) ELSE At(q, k + 1)
    BY <1>1, OutFacts
  <2>2. QED
    BY <2>1, Zenon DEF Out
<1>7. Linked(m, r) /\ \A x \in Obj \ {q[p]} : m.data[x] = l.data[x]
  BY RemoveLinked
<1>8. m.data[w.at] = <<>>
  <2>1. m.data = [x \in Obj |-> IF x = q[p] THEN <<>> ELSE l.data[x]]
    <3>1. l \in LinkRecord
      BY DEF Linked
    <3>2. QED
      BY <3>1 DEF RemoveObj, LinkRecord
  <2>2. QED
    BY <1>3, <2>1
<1> HIDE DEF m, r
<1>9. p \in 1 .. Len(r) + 1 /\ p \in Int /\ ~(p < p) /\ p + 1 = j
  BY <1>1, <1>5, <1>6, SMT
<1>10. w.next = At(r, p)
  BY <1>3, <1>6, <1>9
<1>11. Rest(l, q, j) = Rest(m, r, p)
  <2>1. Len(r) + 1 - p = Len(q) + 1 - j
    <3>1. Len(r) = Len(q) - 1
      BY <1>6
    <3>2. QED
      BY <1>1, <1>9, <3>1, SMT
  <2>2. ASSUME NEW k \in 1 .. Len(q) + 1 - j
        PROVE  l.data[q[j + k - 1]] = m.data[r[p + k - 1]]
    <3>1. /\ p + k - 1 \in 1 .. Len(q) - 1 /\ ~(p + k - 1 < p) /\ p + k - 1 + 1 = j + k - 1
          /\ j + k - 1 \in 1 .. Len(q) /\ j + k - 1 # p
      BY <1>1, <1>9, SMT
    <3>2. r[p + k - 1] = q[j + k - 1]
      BY <1>6, <3>1
    <3>3. q[j + k - 1] # q[p] /\ q[j + k - 1] \in Obj
      BY <1>1, <3>1, ElementOfSeq DEF Ordered
    <3>4. QED
      BY <1>7, <3>2, <3>3
  <2>3. QED
    BY <2>1, <2>2 DEF Rest
<1>12. QED
  BY <1>3, <1>8, <1>9, <1>10, <1>11

\* ...and the walk goes on by one.
Gone(w, l, o) ==
  [started |-> TRUE, next |-> l.next[o], intact |-> w.intact,
   at |-> IF w.intact THEN o ELSE Nil,
   due |-> IF ~w.intact THEN <<>> ELSE Tail(IF w.started THEN w.due ELSE Objects(l))]

\* ...still well.
LEMMA GoneOK ==
  ASSUME MaxObj \in Nat, NEW l, NEW q, Linked(l, q), NEW w, WalkOK(w, l, q),
         NEW o, o = (IF w.started THEN w.next ELSE l.first), o \in Live(l)
  PROVE  WalkOK(Gone(w, l, o), l, q)
<1> DEFINE v == Gone(w, l, o)
           at == IF w.intact THEN o ELSE Nil
           seen == IF w.started THEN w.due ELSE Objects(l)
           due == IF ~w.intact THEN <<>> ELSE Tail(seen)
<1>0. v = [started |-> TRUE, next |-> l.next[o], intact |-> w.intact, at |-> at, due |-> due]
  BY Zenon DEF Gone
<1> HIDE DEF v, at, seen, due
<1>1. Ordered(q) /\ Len(q) \in Nat /\ l \in LinkRecord /\ l.first = At(q, 1)
  BY SMT DEF Linked, Ordered
<1>2. o \in Obj /\ l.next[o] \in Ref /\ o # Nil /\ w \in WalkRecord /\ w.intact \in BOOLEAN
  <2>1. o \in Obj /\ l.next \in [Obj -> Ref]
    BY <1>1 DEF Live, LinkRecord
  <2>2. o # Nil
    BY <2>1, SMT DEF Obj, Nil
  <2>3. QED
    BY <2>1, <2>2 DEF WalkOK, WalkRecord
<1>3. CASE ~w.intact
  <2>1. at = Nil /\ due = <<>> /\ w.intact = FALSE
    BY <1>2, <1>3, Zenon DEF at, due
  <2>2. at \in Ref /\ due \in Seq(Seq(Unit)) /\ TRUE \in BOOLEAN
    BY <2>1, EmptySeq DEF Ref
  <2>3. v \in WalkRecord /\ v.started = TRUE /\ v.intact = FALSE
    BY <1>0, <1>2, <2>1, <2>2 DEF WalkRecord
  <2>4. QED
    BY <2>3, Zenon DEF WalkOK, v
<1>4. CASE w.intact
  <2>1. PICK j \in 1 .. Len(q) + 1 : o = At(q, j) /\ seen = Rest(l, q, j)
    <3>1. CASE w.started
      BY <1>4, <3>1 DEF WalkOK, seen
    <3>2. CASE ~w.started
      <4>1. 1 \in 1 .. Len(q) + 1 /\ Len(q) + 1 - 1 = Len(q) /\ \A k \in 1 .. Len(q) : 1 + k - 1 = k
        BY <1>1, SMT
      <4>2. Rest(l, q, 1) = [k \in 1 .. Len(q) |-> l.data[q[k]]]
        BY <4>1 DEF Rest
      <4>3. Objects(l) = Rest(l, q, 1)
        BY <4>2, ObjectsAre
      <4>4. QED
        BY <1>1, <3>2, <4>1, <4>3 DEF seen
    <3>3. QED
      BY <3>1, <3>2
  <2>2. j \in 1 .. Len(q) /\ o = q[j] /\ j + 1 \in 1 .. Len(q) + 1 /\ j + 1 - 1 = j /\ j \in Int
    <3>1. j \in Int /\ j + 1 - 1 = j
      BY SMT
    <3>2. j \in 1 .. Len(q) /\ o = q[j]
      BY <1>1, <1>2, <2>1, <3>1, AtFacts
    <3>3. QED
      BY <1>1, <3>1, <3>2, SMT
  <2>3. l.next[o] = At(q, j + 1)
    BY <2>2 DEF Linked
  <2>4. Tail(seen) = Rest(l, q, j + 1) /\ Rest(l, q, j + 1) \in Seq(Seq(Unit))
    <3> DEFINE n == Len(q) + 1 - j
               S == Seq(Unit)
               rest == Rest(l, q, j + 1)
    <3>1. n \in Nat /\ n > 0 /\ Len(q) + 1 - (j + 1) = n - 1 /\ n - 1 \in Nat
      BY <1>1, <2>2, SMT
    <3>2. \A k \in 1 .. n : l.data[q[j + k - 1]] \in S
      <4>1. \A k \in 1 .. n : j + k - 1 \in 1 .. Len(q)
        BY <1>1, <2>2, SMT
      <4>2. QED
        BY <4>1, ObjectsAre
    <3>3. seen = [k \in 1 .. n |-> l.data[q[j + k - 1]]]
      BY <2>1 DEF Rest
    <3>4. rest = [k \in 1 .. n - 1 |-> l.data[q[j + 1 + k - 1]]]
      BY <3>1 DEF Rest
    <3>5. \A k \in 1 .. n - 1 : k + 1 \in 1 .. n /\ j + 1 + k - 1 = j + (k + 1) - 1
      BY <2>2, <3>1, SMT
    <3> HIDE DEF n, S, rest
    <3>6. \A k \in 1 .. n - 1 : rest[k] = seen[k + 1] /\ rest[k] \in S
      BY <3>2, <3>3, <3>4, <3>5
    <3>7. seen \in Seq(S) /\ Len(seen) = n
      BY <3>1, <3>2, <3>3, SMT
    <3>8. rest \in [1 .. n - 1 -> S]
      BY <3>2, <3>4, <3>5
    <3>9. rest \in Seq(S) /\ Len(rest) = n - 1
      BY <3>1, <3>8, SMT
    <3>10. seen # <<>>
      BY <3>1, <3>7, EmptySeq, SMT
    <3>11. Tail(seen) \in Seq(S) /\ Len(Tail(seen)) = n - 1 /\ \A k \in 1 .. n - 1 : Tail(seen)[k] = seen[k + 1]
      BY <3>1, <3>7, <3>10, HeadTailProperties
    <3>12. Tail(seen) = rest
      BY <3>6, <3>9, <3>11, SeqEqual
    <3>13. QED
      BY <3>9, <3>12 DEF S, rest
  <2>6. at = o /\ due = Rest(l, q, j + 1)
    BY <1>4, <2>4, Zenon DEF at, due
  <2>7. /\ v.started = TRUE /\ v.next = At(q, j + 1) /\ v.due = Rest(l, q, j + 1) /\ v.at = o
        /\ o = At(q, j + 1 - 1)
    BY <1>0, <2>1, <2>2, <2>3, <2>6
  <2>8. v \in WalkRecord
    <3>1. at \in Ref /\ due \in Seq(Seq(Unit)) /\ TRUE \in BOOLEAN
      BY <1>2, <2>4, <2>6 DEF Ref
    <3>2. QED
      BY <1>0, <1>2, <3>1 DEF WalkRecord
  <2>9. \E i \in 1 .. Len(q) + 1 :
          /\ v.next = At(q, i) /\ v.due = Rest(l, q, i)
          /\ v.at \in Obj /\ (v.at = At(q, i - 1) \/ l.data[v.at] = <<>>)
    <3>1. v.at \in Obj /\ v.at = At(q, j + 1 - 1)
      BY <1>2, <2>7
    <3>2. PICK i \in 1 .. Len(q) + 1 : i = j + 1
      BY <2>2
    <3>3. v.next = At(q, i) /\ v.due = Rest(l, q, i) /\ v.at = At(q, i - 1)
      BY <2>7, <3>1, <3>2
    <3>4. QED
      BY <3>1, <3>3, Zenon
  <2>10. WalkOK(v, l, q)
    BY <2>7, <2>8, <2>9, Zenon DEF WalkOK
  <2>11. QED
    BY <2>10 DEF v
<1>5. QED
  BY <1>3, <1>4

\* So it sees what is there, in order.
LEMMA WalksWell ==
  ASSUME MaxObj \in Nat, NEW q, Linked(list, q), WalkOK(walk, list, q)
  PROVE  WalkInOrder
<1>1. SUFFICES ASSUME walk.started, walk.intact
               PROVE  DataFrom(list, walk.next) = walk.due
  BY DEF WalkInOrder
<1>2. PICK j \in 1 .. Len(q) + 1 : walk.next = At(q, j) /\ walk.due = Rest(list, q, j)
  BY <1>1, Zenon DEF WalkOK
<1>3. DataFrom(list, At(q, j)) = Rest(list, q, j)
  <2>1. DataFrom(list, At(q, j)) = [k \in 1 .. Len(q) + 1 - j |-> list.data[q[j + k - 1]]]
    BY DataIs
  <2>2. QED
    BY <2>1, Zenon DEF Rest
<1>4. QED
  BY <1>2, <1>3

-----------------------------------------------------------------------------
(* The calls, as changes of the sequence *)

\* addat puts an object in front of the one that is at the place.
LEMMA AddedIs ==
  ASSUME MaxObj \in Nat, NEW l, NEW q, Linked(l, q), Live(l) # Obj,
         NEW d \in Seq(Unit), d # <<>>, NEW index \in Int, Position(l, index) \in 0 .. l.num
  PROVE  \E r : /\ Linked(Added(l, index, d), r) /\ Added(l, index, d).max = l.max
                /\ Objects(Added(l, index, d)) = InsertAt(Objects(l), Position(l, index) + 1, d)
<1> DEFINE i == Position(l, index)
           o == CHOOSE x \in Obj \ Live(l) : TRUE
           m == Link(l, o, d, At(q, i), At(q, i + 1))
<1>1. Ordered(q) /\ Len(q) \in Nat /\ l \in LinkRecord /\ l.num = Len(q)
  BY SMT DEF Linked, Ordered
<1>2. o \in Obj /\ l.data[o] = <<>>
  <2>1. \E x : x \in Obj \ Live(l)
    BY DEF Live
  <2>2. o \in Obj \ Live(l)
    BY <2>1, Zenon
  <2>3. QED
    BY <2>2 DEF Live
<1>3. i \in 0 .. Len(q) /\ i \in Int
  BY <1>1, SMT
<1>4. Added(l, index, d) =
        IF i = 0 THEN Link(l, o, d, Nil, l.first)
        ELSE IF i = l.num THEN Link(l, o, d, l.last, Nil)
        ELSE LET tgt == GetObj(l, i) IN Link(l, o, d, l.prev[tgt], tgt)
  BY Zenon DEF Added
<1> HIDE DEF i, o
<1>5. Added(l, index, d) = m
  <2>1. l.first = At(q, 1) /\ l.last = At(q, Len(q))
    BY DEF Linked
  <2>2. CASE i = 0
    <3>1. At(q, i) = Nil /\ i + 1 = 1
      BY <1>1, <1>3, <2>2, AtFacts, SMT
    <3>2. QED
      BY <1>4, <2>1, <2>2, <3>1
  <2>3. CASE i # 0 /\ i = l.num
    <3>1. i + 1 \in Int /\ i + 1 \notin 1 .. Len(q)
      BY <1>1, <2>3, SMT
    <3>2. At(q, i + 1) = Nil
      BY <1>1, <3>1, AtFacts
    <3>3. QED
      BY <1>1, <1>4, <2>1, <2>3, <3>2
  <2>4. CASE i # 0 /\ i # l.num
    <3>1. i \in 0 .. Len(q) - 1 /\ ~(i < 0) /\ i + 1 \in 1 .. Len(q) /\ i + 1 - 1 = i
      BY <1>1, <1>3, <2>4, SMT
    <3>2. GetObj(l, i) = q[i + 1]
      BY <1>3, <3>1, GetObjIs
    <3>3. l.prev[q[i + 1]] = At(q, i) /\ At(q, i + 1) = q[i + 1]
      BY <3>1 DEF Linked, At
    <3>4. QED
      BY <1>4, <2>4, <3>2, <3>3
  <2>5. QED
    BY <2>2, <2>3, <2>4
<1>6. Linked(m, Into(q, i, o))
  BY <1>2, <1>3, LinkLinked
<1>7. m.max = l.max /\ m.data = [x \in Obj |-> IF x = o THEN d ELSE l.data[x]]
  BY <1>1 DEF Link, LinkRecord
<1> HIDE DEF m
<1>8. Objects(m) = InsertAt(Objects(l), i + 1, d)
  BY <1>2, <1>3, <1>6, <1>7, LinkInserts
<1>9. QED
  BY <1>5, <1>6, <1>7, <1>8 DEF i

\* The object at an index is at a place of the order, or there is none.
LEMMA PlaceOf ==
  ASSUME MaxObj \in Nat, NEW l, NEW q, Linked(l, q), NEW index \in Int
  PROVE  LET p == IF index < 0 THEN l.num + index + 1 ELSE index + 1
         IN /\ p \in 1 .. Len(q) => GetObj(l, index) = q[p] /\ q[p] \in Obj /\ q[p] # Nil
                                    /\ l.data[q[p]] = Objects(l)[p]
            /\ p \notin 1 .. Len(q) => GetObj(l, index) = Nil
<1> DEFINE i == IF index < 0 THEN l.num + index ELSE index
           p == IF index < 0 THEN l.num + index + 1 ELSE index + 1
<1>1. Ordered(q) /\ Len(q) \in Nat /\ l.num = Len(q)
  BY SMT DEF Linked, Ordered
<1>2. p = i + 1 /\ i \in Int /\ p \in Int /\ (i \in 0 .. Len(q) - 1 <=> p \in 1 .. Len(q))
  BY <1>1, SMT
<1>3. GetObj(l, index) = IF i \in 0 .. Len(q) - 1 THEN q[i + 1] ELSE Nil
  BY GetObjIs
<1> HIDE DEF i, p
<1>4. p \in 1 .. Len(q) => q[p] \in Obj /\ q[p] # Nil /\ l.data[q[p]] = Objects(l)[p]
  <2>1. Objects(l) = [k \in 1 .. Len(q) |-> l.data[q[k]]]
    BY ObjectsAre
  <2>2. QED
    BY <1>1, <1>2, <2>1, AtFacts
<1>5. /\ p \in 1 .. Len(q) => GetObj(l, index) = q[p]
      /\ p \notin 1 .. Len(q) => GetObj(l, index) = Nil
  BY <1>2, <1>3
<1>6. QED
  BY <1>4, <1>5 DEF p

\* A list with another limit, or without objects.
LEMMA Emptied ==
  ASSUME NEW n \in Nat, MaxObj \in Nat
  PROVE  /\ Linked([EmptyList EXCEPT !.max = n], <<>>) /\ [EmptyList EXCEPT !.max = n].max = n
         /\ Objects([EmptyList EXCEPT !.max = n]) = <<>>
<1> DEFINE m == [EmptyList EXCEPT !.max = n]
           q == <<>>
<1>1. /\ m.first = Nil /\ m.last = Nil /\ m.num = 0 /\ m.datasum = 0 /\ m.max = n
      /\ m.prev = [o \in Obj |-> Nil] /\ m.next = [o \in Obj |-> Nil] /\ m.data = [o \in Obj |-> <<>>]
      /\ m = [first |-> Nil, last |-> Nil, num |-> 0, datasum |-> 0, max |-> n,
              prev |-> [o \in Obj |-> Nil], next |-> [o \in Obj |-> Nil],
              data |-> [o \in Obj |-> <<>>]]
  BY DEF EmptyList
<1>2. q \in Seq(Obj) /\ Len(q) = 0 /\ 1 .. 0 = {} /\ <<>> \in Seq(Unit) /\ Nil \in Ref
  <2>1. 1 .. 0 = {}
    BY SMT
  <2>2. QED
    BY <2>1, EmptySeq DEF Ref
<1>3. Ordered(q)
  BY <1>2 DEF Ordered
<1>4. m \in LinkRecord
  <2>1. [o \in Obj |-> Nil] \in [Obj -> Ref] /\ [o \in Obj |-> <<>>] \in [Obj -> Seq(Unit)] /\ 0 \in Nat /\ 0 \in Int
    BY <1>2
  <2> HIDE DEF m
  <2>2. QED
    BY <1>1, <1>2, <2>1 DEF LinkRecord
<1> HIDE DEF m
<1>5. At(q, 1) = Nil /\ At(q, Len(q)) = Nil
  BY <1>2, SMT DEF At
<1>6. Cardinality(Units(m)) = 0
  <2>1. \A o \in Obj : 1 .. Len(m.data[o]) = {}
    BY <1>1, <1>2
  <2>2. Units(m) = {}
    BY <2>1 DEF Units
  <2>3. QED
    BY <2>2, FS_EmptySet
<1>7. \A o \in Obj : m.data[o] # <<>> <=> \E i \in 1 .. Len(q) : q[i] = o
  BY <1>1, <1>2
<1>8. Linked(m, q)
  BY <1>1, <1>2, <1>3, <1>4, <1>5, <1>6, <1>7 DEF Linked
<1>9. Objects(m) = <<>>
  <2>1. Objects(m) \in Seq(Seq(Unit)) /\ Len(Objects(m)) = 0
    BY <1>2, <1>8, ObjectsAre
  <2>2. QED
    BY <2>1, EmptySeq
<1>10. QED
  BY <1>1, <1>8, <1>9 DEF m

\* Only the limit is another.
LEMMA Limited ==
  ASSUME NEW l, NEW q, Linked(l, q), NEW n \in Nat
  PROVE  /\ Linked([l EXCEPT !.max = n], q) /\ [l EXCEPT !.max = n].max = n
         /\ [l EXCEPT !.max = n].data = l.data /\ Objects([l EXCEPT !.max = n]) = Objects(l)
<1> DEFINE m == [l EXCEPT !.max = n]
<1>1. l \in LinkRecord
  BY DEF Linked
<1>2. /\ m \in LinkRecord /\ m.first = l.first /\ m.last = l.last /\ m.num = l.num /\ m.datasum = l.datasum
      /\ m.prev = l.prev /\ m.next = l.next /\ m.data = l.data /\ m.max = n
  BY <1>1 DEF LinkRecord
<1> HIDE DEF m
<1>3. Units(m) = Units(l)
  BY <1>2 DEF Units
<1>4. Linked(m, q)
  BY <1>2, <1>3 DEF Linked
<1>5. Objects(m) = Objects(l)
  BY <1>2, Zenon DEF Objects, DataFrom
<1>6. QED
  BY <1>2, <1>4, <1>5 DEF m

-----------------------------------------------------------------------------
(* The order of a stack, a queue and a vector *)

\* What is inside is what was pushed, or for an int on a stack its low half.
Same(k, x, y) == x = y \/ (k = "stack" /\ y \in Int64 /\ x = <<y[1]>>)

\* Where the i-th of the n that were pushed and not yet taken is.
Spot(k, n, i) == IF k = "stack" THEN n + 1 - i ELSE i

\* The sequence s has what the history g says.
KeptAs(k, s, g) == Len(g) = Len(s) /\ \A i \in 1 .. Len(g) : Same(k, s[Spot(k, Len(g), i)], g[i])

\* That is the order a run checks.
LEMMA KeptInOrder ==
  ASSUME NEW S, Objects(list) \in Seq(S), log \in Seq(S), KeptAs(kind, Objects(list), log)
  PROVE  InOrder
<1> DEFINE s == Objects(list)
           inside == IF kind = "stack" THEN Reverse(s) ELSE s
<1>1. Len(s) \in Nat /\ Len(log) = Len(s)
  BY LenProperties DEF KeptAs
<1>2. Reverse(s) = [i \in 1 .. Len(s) |-> s[(Len(s) - i) + 1]] /\ Len(Reverse(s)) = Len(s)
  <2>1. Reverse(s) = [i \in 1 .. Len(s) |-> s[(Len(s) - i) + 1]]
    BY DEF Reverse
  <2>2. QED
    BY <1>1, <2>1, SMT
<1>3. InOrder <=> (kind # "list" =>
                     /\ Len(log) = Len(inside)
                     /\ \A i \in 1 .. Len(log) : Same(kind, inside[i], log[i]))
  BY DEF InOrder, Same
<1>4. \A i \in 1 .. Len(log) : Same(kind, s[Spot(kind, Len(log), i)], log[i])
  BY Zenon DEF KeptAs
<1> HIDE DEF s
<1>5. Len(log) = Len(inside) /\ \A i \in 1 .. Len(log) : inside[i] = s[Spot(kind, Len(log), i)]
  <2>1. CASE kind = "stack"
    <3>1. \A i \in 1 .. Len(log) : (Len(s) - i) + 1 = Spot(kind, Len(log), i)
      BY <1>1, <2>1, SMT DEF Spot
    <3>2. inside = Reverse(s)
      BY <2>1
    <3>3. QED
      BY <1>1, <1>2, <3>1, <3>2
  <2>2. CASE kind # "stack"
    BY <1>1, <2>2 DEF Spot
  <2>3. QED
    BY <2>1, <2>2
<1> HIDE DEF inside
<1>6. \A i \in 1 .. Len(log) : Same(kind, inside[i], log[i])
  BY <1>4, <1>5
<1>7. QED
  BY <1>3, <1>5, <1>6

\* A push puts it where it belongs,
LEMMA PushKeeps ==
  ASSUME NEW S, NEW s \in Seq(S), NEW g \in Seq(S), NEW k, KeptAs(k, s, g),
         NEW d \in S, NEW y \in S, Same(k, d, y),
         NEW p, p = (IF k = "stack" THEN 1 ELSE Len(s) + 1)
  PROVE  KeptAs(k, InsertAt(s, p, d), Append(g, y)) /\ Append(g, y) \in Seq(S)
<1> DEFINE t == InsertAt(s, p, d)
           h == Append(g, y)
           n == Len(s)
<1>1. n \in Nat /\ Len(g) = n /\ \A i \in 1 .. n : Same(k, s[Spot(k, n, i)], g[i])
  BY LenProperties DEF KeptAs
<1>2. p \in 1 .. n + 1
  BY <1>1, SMT
<1>3. t \in Seq(S) /\ Len(t) = n + 1 /\ \A i \in 1 .. n + 1 : t[i] = IF i < p THEN s[i] ELSE IF i = p THEN d ELSE s[i - 1]
  <2>1. t \in Seq(S) /\ Len(t) = n + 1 /\ With(t, s, p, d)
    BY <1>2, InsertFacts, Zenon
  <2>2. QED
    BY <2>1, Zenon DEF With
<1>4. h \in Seq(S) /\ Len(h) = n + 1 /\ h[n + 1] = y /\ \A i \in 1 .. n : h[i] = g[i]
  BY <1>1, AppendProperties
<1> HIDE DEF t, h, n
<1>5. ASSUME NEW i \in 1 .. n + 1
      PROVE  Same(k, t[Spot(k, n + 1, i)], h[i])
  <2>1. CASE i = n + 1
    <3>1. Spot(k, n + 1, i) = p
      BY <1>1, <2>1, SMT DEF Spot, n
    <3>2. t[p] = d /\ h[i] = y
      <4>1. ~(p < p)
        BY <1>1, <1>2, SMT
      <4>2. QED
        BY <1>2, <1>3, <1>4, <2>1, <4>1
    <3>3. QED
      BY <3>1, <3>2
  <2>2. CASE i # n + 1
    <3>1. i \in 1 .. n
      BY <1>1, <2>2, SMT
    <3>2. t[Spot(k, n + 1, i)] = s[Spot(k, n, i)]
      <4>1. CASE k = "stack"
        <5>1. /\ Spot(k, n + 1, i) = n + 1 + 1 - i /\ n + 1 + 1 - i \in 1 .. n + 1 /\ p = 1
              /\ ~(n + 1 + 1 - i < 1) /\ n + 1 + 1 - i # 1 /\ n + 1 + 1 - i - 1 = n + 1 - i
              /\ Spot(k, n, i) = n + 1 - i
          BY <1>1, <3>1, <4>1, SMT DEF Spot
        <5>2. QED
          BY <1>3, <5>1
      <4>2. CASE k # "stack"
        <5>1. Spot(k, n + 1, i) = i /\ Spot(k, n, i) = i /\ i < p
          BY <1>1, <3>1, <4>2, SMT DEF Spot, n
        <5>2. QED
          BY <1>3, <5>1
      <4>3. QED
        BY <4>1, <4>2
    <3>3. QED
      BY <1>1, <1>4, <3>1, <3>2
  <2>3. QED
    BY <2>1, <2>2
<1>6. KeptAs(k, t, h)
  BY <1>3, <1>4, <1>5 DEF KeptAs
<1>7. QED
  BY <1>4, <1>6 DEF t, h

\* ...and what is taken is forgotten.
LEMMA PopKeeps ==
  ASSUME NEW S, NEW s \in Seq(S), NEW g \in Seq(S), NEW k, KeptAs(k, s, g), NEW a \in 1 .. Len(g)
  PROVE  /\ Spot(k, Len(g), a) \in 1 .. Len(s) /\ RemoveAt(g, a) \in Seq(S)
         /\ KeptAs(k, RemoveAt(s, Spot(k, Len(g), a)), RemoveAt(g, a))
<1> DEFINE n == Len(s)
           p == Spot(k, n, a)
           t == RemoveAt(s, p)
           h == RemoveAt(g, a)
<1>1. n \in Nat /\ Len(g) = n /\ \A i \in 1 .. n : Same(k, s[Spot(k, n, i)], g[i])
  BY LenProperties DEF KeptAs
<1> HIDE DEF n
<1>2. p \in 1 .. n /\ p \in Int /\ a \in Int
  BY <1>1, SMT DEF Spot
<1>3. t \in Seq(S) /\ Len(t) = n - 1 /\ \A i \in 1 .. n - 1 : t[i] = IF i < p THEN s[i] ELSE s[i + 1]
  BY <1>2, RemoveFacts DEF n
<1>4. h \in Seq(S) /\ Len(h) = n - 1 /\ \A i \in 1 .. n - 1 : h[i] = IF i < a THEN g[i] ELSE g[i + 1]
  <2>1. h \in Seq(S) /\ Len(h) = Len(g) - 1 /\ \A i \in 1 .. Len(g) - 1 : h[i] = IF i < a THEN g[i] ELSE g[i + 1]
    BY RemoveFacts
  <2>2. QED
    BY <1>1, <2>1
<1> HIDE DEF t, h
<1>5. ASSUME NEW i \in 1 .. n - 1
      PROVE  Same(k, t[Spot(k, n - 1, i)], h[i])
  <2>1. i \in 1 .. n /\ i + 1 \in 1 .. n
    BY <1>1, SMT
  <2>2. CASE i < a
    <3>1. t[Spot(k, n - 1, i)] = s[Spot(k, n, i)]
      <4>1. CASE k = "stack"
        <5>1. /\ Spot(k, n - 1, i) = n - i /\ n - i \in 1 .. n - 1 /\ ~(n - i < p)
              /\ Spot(k, n, i) = n - i + 1
          BY <1>1, <1>2, <2>2, <4>1, SMT DEF Spot
        <5>2. QED
          BY <1>3, <5>1
      <4>2. CASE k # "stack"
        <5>1. Spot(k, n - 1, i) = i /\ Spot(k, n, i) = i /\ i < p
          BY <2>2, <4>2, SMT DEF Spot
        <5>2. QED
          BY <1>3, <5>1
      <4>3. QED
        BY <4>1, <4>2
    <3>2. QED
      BY <1>1, <1>4, <2>1, <2>2, <3>1
  <2>3. CASE ~(i < a)
    <3>1. t[Spot(k, n - 1, i)] = s[Spot(k, n, i + 1)]
      <4>1. CASE k = "stack"
        <5>1. /\ Spot(k, n - 1, i) = n - i /\ n - i \in 1 .. n - 1 /\ n - i < p
              /\ Spot(k, n, i + 1) = n - i
          BY <1>1, <1>2, <2>3, <4>1, SMT DEF Spot
        <5>2. QED
          BY <1>3, <5>1
      <4>2. CASE k # "stack"
        <5>1. Spot(k, n - 1, i) = i /\ Spot(k, n, i + 1) = i + 1 /\ ~(i < p)
          BY <2>3, <4>2, SMT DEF Spot
        <5>2. QED
          BY <1>3, <5>1
      <4>3. QED
        BY <4>1, <4>2
    <3>2. QED
      BY <1>1, <1>4, <2>1, <2>3, <3>1
  <2>4. QED
    BY <2>2, <2>3
<1>6. KeptAs(k, t, h)
  BY <1>3, <1>4, <1>5 DEF KeptAs
<1>7. QED
  BY <1>1, <1>2, <1>4, <1>6 DEF t, h, n

-----------------------------------------------------------------------------
(* The calls, as steps *)

\* A list in some order, and a walk that is well in it.
Sound(l, w) == \E q : Linked(l, q) /\ WalkOK(w, l, q)

\* What is typed in it.
LEMMA SoundFacts ==
  ASSUME MaxObj \in Nat, NEW l, NEW w, Sound(l, w)
  PROVE  /\ Objects(l) \in Seq(Seq(Unit)) /\ l.num = Len(Objects(l)) /\ l.num \in Nat /\ l.max \in Nat
         /\ w \in WalkRecord /\ w.started \in BOOLEAN
<1>1. PICK q : Linked(l, q) /\ WalkOK(w, l, q)
  BY Zenon DEF Sound
<1>2. l \in LinkRecord /\ l.num = Len(q) /\ w \in WalkRecord
  BY <1>1 DEF Linked, WalkOK
<1>3. Objects(l) \in Seq(Seq(Unit)) /\ Len(Objects(l)) = Len(q)
  BY <1>1, ObjectsAre
<1>4. QED
  BY <1>2, <1>3 DEF LinkRecord, WalkRecord

\* A change disturbs a walk that has begun, and no other.
LEMMA DisturbIs ==
  ASSUME Disturb
  PROVE  walk' = Disturbed(walk) /\ (walk = NoWalk => walk' = NoWalk)
<1>1. walk' = Disturbed(walk)
  BY Zenon DEF Disturb, Disturbed
<1>2. NoWalk.started = FALSE
  BY DEF NoWalk
<1>3. Disturbed(NoWalk) = NoWalk
  BY <1>2, Zenon DEF Disturbed
<1>4. QED
  BY <1>1, <1>3

\* addat
LEMMA AddStep ==
  ASSUME MaxObj \in Nat, Sound(list, walk), NEW i \in Int, NEW d \in Seq(Unit), AddAt(i, d)
  PROVE  /\ Sound(list', walk') /\ (walk = NoWalk => walk' = NoWalk) /\ list'.max = list.max
         /\ MayAdd(list, i, d) =>
              ret' = Done /\ Objects(list') = InsertAt(Objects(list), Position(list, i) + 1, d)
         /\ ~MayAdd(list, i, d) => ret' = Failed /\ list' = list
<1>1. PICK q : Linked(list, q) /\ WalkOK(walk, list, q)
  BY Zenon DEF Sound
<1>2. CASE MayAdd(list, i, d)
  <2>1. list' = Added(list, i, d) /\ ret' = Done /\ Disturb /\ Live(list) # Obj
    BY <1>2, Zenon DEF AddAt
  <2>2. d # <<>> /\ Position(list, i) \in 0 .. list.num
    BY <1>2, Zenon DEF MayAdd
  <2>3. PICK r : /\ Linked(Added(list, i, d), r) /\ Added(list, i, d).max = list.max
                 /\ Objects(Added(list, i, d)) = InsertAt(Objects(list), Position(list, i) + 1, d)
    BY <1>1, <2>1, <2>2, AddedIs, Zenon
  <2>4. walk' = Disturbed(walk) /\ (walk = NoWalk => walk' = NoWalk)
    BY <2>1, DisturbIs
  <2>5. WalkOK(walk', list', r)
    BY <1>1, <2>4, DisturbedOK, Zenon
  <2>6. QED
    BY <1>2, <2>1, <2>3, <2>4, <2>5, Zenon DEF Sound
<1>3. CASE ~MayAdd(list, i, d)
  <2>1. ret' = Failed /\ list' = list /\ walk' = walk
    BY <1>3, Zenon DEF AddAt
  <2>2. QED
    BY <1>3, <2>1, Zenon
<1>4. QED
  BY <1>2, <1>3, Zenon

\* What _get_at does to the list and to a walk.
Taken(i, remove) ==
  LET o == GetObj(list, i) IN
  IF o = Nil THEN UNCHANGED <<list, walk>>
  ELSE /\ list' = IF remove THEN RemoveObj(list, o) ELSE list
       /\ IF remove /\ o # walk.at THEN Disturb ELSE UNCHANGED walk

\* The place of an index, counted from 1.
PlaceAt(l, i) == IF i < 0 THEN l.num + i + 1 ELSE i + 1

\* getat, popat and removeat
LEMMA TakeStep ==
  ASSUME MaxObj \in Nat, Sound(list, walk), NEW i \in Int, NEW remove \in BOOLEAN, Taken(i, remove)
  PROVE  /\ Sound(list', walk') /\ (walk = NoWalk => walk' = NoWalk) /\ list'.max = list.max
         /\ PlaceAt(list, i) \in 1 .. Len(Objects(list)) =>
              /\ GetObj(list, i) # Nil /\ Datum(i) = Objects(list)[PlaceAt(list, i)]
              /\ Objects(list') = IF remove THEN RemoveAt(Objects(list), PlaceAt(list, i))
                                  ELSE Objects(list)
         /\ PlaceAt(list, i) \notin 1 .. Len(Objects(list)) => GetObj(list, i) = Nil /\ list' = list
<1> DEFINE p == PlaceAt(list, i)
           o == GetObj(list, i)
<1>1. PICK q : Linked(list, q) /\ WalkOK(walk, list, q)
  BY Zenon DEF Sound
<1>2. Len(Objects(list)) = Len(q) /\ p \in Int
  <2>1. list.num \in Nat
    BY SoundFacts
  <2>2. QED
    BY <1>1, <2>1, ObjectsAre, SMT DEF PlaceAt
<1>3. /\ p \in 1 .. Len(q) => o = q[p] /\ q[p] \in Obj /\ q[p] # Nil /\ list.data[q[p]] = Objects(list)[p]
      /\ p \notin 1 .. Len(q) => o = Nil
  BY <1>1, PlaceOf DEF PlaceAt
<1>4. IF o = Nil THEN UNCHANGED <<list, walk>>
      ELSE /\ list' = IF remove THEN RemoveObj(list, o) ELSE list
           /\ IF remove /\ o # walk.at THEN Disturb ELSE UNCHANGED walk
  BY Zenon DEF Taken
<1>5. Datum(i) = list.data[o]
  BY DEF Datum
<1> HIDE DEF p, o
<1>6. CASE p \notin 1 .. Len(q)
  <2>1. o = Nil /\ list' = list /\ walk' = walk
    BY <1>3, <1>4, <1>6
  <2>2. QED
    BY <1>2, <1>6, <2>1 DEF o, p
<1>7. CASE p \in 1 .. Len(q) /\ ~remove
  <2>1. o = q[p] /\ o # Nil /\ list' = list /\ walk' = walk
    BY <1>3, <1>4, <1>7
  <2>2. Datum(i) = Objects(list)[p]
    BY <1>3, <1>5, <1>7, <2>1
  <2>3. QED
    BY <1>2, <1>7, <2>1, <2>2 DEF o, p
<1>8. CASE p \in 1 .. Len(q) /\ remove
  <2>1. o = q[p] /\ o # Nil /\ list' = RemoveObj(list, o)
    BY <1>3, <1>4, <1>8
  <2>2. Datum(i) = Objects(list)[p]
    BY <1>3, <1>5, <1>8, <2>1
  <2>3. Linked(list', Out(q, p)) /\ list'.max = list.max
    BY <1>1, <1>8, <2>1, RemoveLinked
  <2>4. Objects(list') = RemoveAt(Objects(list), p)
    BY <1>1, <1>8, <2>1, RemoveRemoves
  <2>5. WalkOK(walk', list', Out(q, p)) /\ (walk = NoWalk => walk' = NoWalk)
    <3>1. CASE o # walk.at
      <4>1. Disturb
        BY <1>4, <1>8, <2>1, <3>1
      <4>2. QED
        BY <1>1, <4>1, DisturbIs, DisturbedOK, Zenon
    <3>2. CASE o = walk.at
      <4>1. walk' = walk
        BY <1>4, <1>8, <2>1, <3>2
      <4>2. WalkOK(walk, RemoveObj(list, q[p]), Out(q, p))
        BY <1>1, <1>8, <2>1, <3>2, TakenOK
      <4>3. QED
        BY <2>1, <4>1, <4>2
    <3>3. QED
      BY <3>1, <3>2
  <2>6. Sound(list', walk')
    BY <2>3, <2>5, Zenon DEF Sound
  <2>7. QED
    BY <1>2, <1>8, <2>1, <2>2, <2>3, <2>4, <2>5, <2>6 DEF o, p
<1>9. QED
  BY <1>6, <1>7, <1>8

\* setsize
LEMMA LimitStep ==
  ASSUME MaxObj \in Nat, Sound(list, walk), NEW n \in Nat, SetSize(n)
  PROVE  /\ Sound(list', walk') /\ walk' = walk /\ Objects(list') = Objects(list)
         /\ list'.max = n /\ ret' = Done
<1>1. PICK q : Linked(list, q) /\ WalkOK(walk, list, q)
  BY Zenon DEF Sound
<1>2. list' = [list EXCEPT !.max = n] /\ ret' = Done /\ walk' = walk
  BY DEF SetSize
<1>3. Linked(list', q) /\ list'.max = n /\ list'.data = list.data /\ Objects(list') = Objects(list)
  BY <1>1, <1>2, Limited
<1>4. WalkOK(walk, list', q)
  BY <1>1, <1>3, UntouchedOK
<1>5. QED
  BY <1>2, <1>3, <1>4, Zenon DEF Sound

\* reverse
LEMMA TurnStep ==
  ASSUME MaxObj \in Nat, Sound(list, walk), ReverseList
  PROVE  /\ Sound(list', walk') /\ Objects(list') = Reverse(Objects(list))
         /\ list'.max = list.max /\ ret' = ret
<1>1. PICK q : Linked(list, q) /\ WalkOK(walk, list, q)
  BY Zenon DEF Sound
<1> DEFINE m == [list EXCEPT !.first = list.last, !.last = list.first, !.prev = list.next, !.next = list.prev]
<1>2. list' = m /\ ret' = ret /\ Disturb
  BY DEF ReverseList
<1>3. Linked(m, Reverse(q))
  BY <1>1, TurnLinked
<1>4. m.data = list.data /\ m.max = list.max
  <2>1. list \in LinkRecord
    BY <1>1 DEF Linked
  <2>2. QED
    BY <2>1 DEF LinkRecord
<1> HIDE DEF m
<1>5. Objects(m) = Reverse(Objects(list))
  BY <1>1, <1>3, <1>4, TurnReverses
<1>6. WalkOK(walk', m, Reverse(q))
  BY <1>1, <1>2, DisturbIs, DisturbedOK, Zenon
<1>7. QED
  BY <1>2, <1>3, <1>4, <1>5, <1>6, Zenon DEF Sound

\* clear
LEMMA ClearStep ==
  ASSUME MaxObj \in Nat, Sound(list, walk), Clear
  PROVE  /\ Sound(list', walk') /\ (walk = NoWalk => walk' = NoWalk) /\ Objects(list') = <<>>
         /\ list'.max = list.max /\ ret' = ret
<1>1. PICK q : Linked(list, q) /\ WalkOK(walk, list, q)
  BY Zenon DEF Sound
<1>2. list.max \in Nat
  BY SoundFacts
<1>3. list' = [EmptyList EXCEPT !.max = list.max] /\ ret' = ret /\ Disturb
  BY DEF Clear
<1>4. Linked(list', <<>>) /\ list'.max = list.max /\ Objects(list') = <<>>
  BY <1>2, <1>3, Emptied
<1>5. walk' = Disturbed(walk) /\ (walk = NoWalk => walk' = NoWalk)
  BY <1>3, DisturbIs
<1>6. WalkOK(walk', list', <<>>)
  BY <1>1, <1>5, DisturbedOK, Zenon
<1>7. QED
  BY <1>3, <1>4, <1>5, <1>6, Zenon DEF Sound

\* getnext
LEMMA WalkStep ==
  ASSUME MaxObj \in Nat, Sound(list, walk), GetNext
  PROVE  Sound(list', walk') /\ list' = list /\ ret' = ret
<1> DEFINE o == IF walk.started THEN walk.next ELSE list.first
<1>1. PICK q : Linked(list, q) /\ WalkOK(walk, list, q)
  BY Zenon DEF Sound
<1>2. /\ o = Nil \/ o \in Live(list)
      /\ walk' = IF o = Nil THEN NoWalk ELSE Gone(walk, list, o)
      /\ list' = list /\ ret' = ret
  BY DEF GetNext, Gone
<1> HIDE DEF o
<1>3. CASE o = Nil
  <2>1. WalkOK(walk', list, q)
    BY <1>2, <1>3, NoWalkOK
  <2>2. QED
    BY <1>1, <1>2, <2>1, Zenon DEF Sound
<1>4. CASE o # Nil
  <2>1. walk' = Gone(walk, list, o) /\ o \in Live(list)
    BY <1>2, <1>4
  <2>2. WalkOK(Gone(walk, list, o), list, q)
    BY <1>1, <2>1, GoneOK DEF o
  <2>3. QED
    BY <1>1, <1>2, <2>1, <2>2, Zenon DEF Sound
<1>5. QED
  BY <1>3, <1>4

-----------------------------------------------------------------------------
(* Every container, after any calls *)

ListInv ==
  /\ kind \in Kinds /\ Sound(list, walk)
  /\ kind # "list" =>
       walk = NoWalk /\ log \in Seq(Seq(Unit)) /\ KeptAs(kind, Objects(list), log)

\* What the constants are.
LEMMA DataFacts ==
  ASSUME ListAssumption
  PROVE  /\ MaxObj \in Nat /\ MaxSize \in Nat /\ Index \subseteq Int /\ Failed # Done
         /\ \A d \in Data : d \in Seq(Unit) /\ d # <<>> /\ Str(d) \in Seq(Unit)
         /\ \A n \in Int64 : n \in Seq(Unit) /\ <<n[1]>> \in Seq(Unit)
<1>1. MaxObj \in Nat /\ MaxSize \in Nat /\ Index \subseteq Int /\ \A d \in Data : d \in Seq(Unit) /\ d # <<>>
  BY DEF ListAssumption, Unit
<1>2. Failed # Done
  <2>1. Len(<<>>) = 0 /\ Len(<<2>>) = 1
    BY SMT
  <2>2. QED
    BY <2>1 DEF Failed, Done
<1>3. ASSUME NEW d \in Seq(Unit)
      PROVE  Str(d) \in Seq(Unit)
  <2>1. <<0>> \in Seq(Unit)
    BY SMT DEF Unit
  <2>2. d \o <<0>> \in Seq(Unit)
    BY <2>1, ConcatProperties
  <2>3. QED
    BY <2>2 DEF Str
<1>4. ASSUME NEW n \in Int64
      PROVE  n \in Seq(Unit) /\ <<n[1]>> \in Seq(Unit)
  <2>1. PICK lo \in Unit, hi \in Unit : n = <<lo, hi>>
    BY DEF Int64, Unit
  <2>2. n[1] = lo
    BY <2>1
  <2>3. <<lo, hi>> \in Seq(Unit) /\ <<lo>> \in Seq(Unit)
    BY SMT DEF Unit
  <2>4. QED
    BY <2>1, <2>2, <2>3
<1>5. QED
  BY <1>1, <1>2, <1>3, <1>4

\* A container is empty at first.
LEMMA InitListInv ==
  ASSUME ListAssumption, ListInit
  PROVE  ListInv
<1>1. kind \in Kinds /\ list = EmptyList /\ walk = NoWalk /\ log = <<>> /\ MaxObj \in Nat
  BY DataFacts DEF ListInit
<1>2. EmptyList = [EmptyList EXCEPT !.max = 0] /\ 0 \in Nat
  BY DEF EmptyList
<1>3. Linked(list, <<>>) /\ Objects(list) = <<>>
  BY <1>1, <1>2, Emptied
<1>4. Sound(list, walk)
  BY <1>1, <1>3, NoWalkOK, Zenon DEF Sound
<1>5. log \in Seq(Seq(Unit)) /\ KeptAs(kind, Objects(list), log)
  <2>1. Len(<<>>) = 0 /\ 1 .. 0 = {} /\ <<>> \in Seq(Seq(Unit))
    BY EmptySeq, SMT
  <2>2. QED
    BY <1>1, <1>3, <2>1 DEF KeptAs
<1>6. QED
  BY <1>1, <1>4, <1>5 DEF ListInv

\* Calls on a qlist,
LEMMA ListKeeps ==
  ASSUME ListAssumption, ListInv, ListNext
  PROVE  ListInv'
<1>1. kind = "list" /\ kind' = kind /\ kind \in Kinds /\ Sound(list, walk) /\ MaxObj \in Nat /\ MaxSize \in Nat
  BY DataFacts DEF ListNext, ListInv
<1>2. SUFFICES Sound(list', walk')
  BY <1>1 DEF ListInv
<1>3. ASSUME NEW i \in Index, NEW d \in Data, AddAt(i, d)
      PROVE  Sound(list', walk')
  <2>1. i \in Int /\ d \in Seq(Unit)
    BY DataFacts
  <2>2. QED
    BY <1>1, <1>3, <2>1, AddStep
<1>4. ASSUME NEW i \in Index, NEW remove \in BOOLEAN, Taken(i, remove)
      PROVE  Sound(list', walk')
  <2>1. i \in Int
    BY DataFacts
  <2>2. QED
    BY <1>1, <1>4, <2>1, TakeStep
<1>5. ASSUME NEW i \in Index, GetAt(i, FALSE, Datum(i)) \/ GetAt(i, TRUE, Datum(i)) \/ RemoveAtIndex(i)
      PROVE  Sound(list', walk')
  <2>1. Taken(i, FALSE) \/ Taken(i, TRUE)
    BY <1>5, Zenon DEF GetAt, RemoveAtIndex, Taken
  <2>2. QED
    BY <1>4, <2>1
<1>6. ASSUME NEW n \in 0 .. MaxSize, SetSize(n)
      PROVE  Sound(list', walk')
  <2>1. n \in Nat
    BY <1>1, SMT
  <2>2. QED
    BY <1>1, <1>6, <2>1, LimitStep
<1>7. ReverseList => Sound(list', walk')
  BY <1>1, TurnStep
<1>8. Clear => Sound(list', walk')
  BY <1>1, ClearStep
<1>9. GetNext => Sound(list', walk')
  BY <1>1, WalkStep
<1>10. QED
  BY <1>3, <1>5, <1>6, <1>7, <1>8, <1>9, Zenon DEF ListNext

\* ...pushes on one of the others,
LEMMA PushStep ==
  ASSUME ListAssumption, ListInv, kind # "list", kind' = kind,
         NEW i \in {0, -1}, i = (IF kind = "stack" THEN 0 ELSE -1),
         NEW d \in Seq(Unit), NEW y \in Seq(Unit), Same(kind, d, y), Push(i, d, y)
  PROVE  ListInv'
<1> DEFINE S == Seq(Unit)
           s == Objects(list)
           p == Position(list, i) + 1
<1>1. /\ kind \in Kinds /\ Sound(list, walk) /\ walk = NoWalk /\ log \in Seq(S) /\ KeptAs(kind, s, log)
      /\ MaxObj \in Nat /\ Failed # Done
  BY DataFacts DEF ListInv
<1>2. s \in Seq(S) /\ list.num = Len(s) /\ list.num \in Nat
  BY <1>1, SoundFacts
<1>3. AddAt(i, d) /\ log' = IF ret' = Done THEN Append(log, y) ELSE log
  BY Zenon DEF Push
<1>4. i \in Int
  BY SMT
<1>5. /\ Sound(list', walk') /\ walk' = NoWalk
      /\ MayAdd(list, i, d) => ret' = Done /\ Objects(list') = InsertAt(s, p, d)
      /\ ~MayAdd(list, i, d) => ret' = Failed /\ list' = list
  BY <1>1, <1>3, <1>4, AddStep
<1>6. p = IF kind = "stack" THEN 1 ELSE Len(s) + 1
  <2>1. CASE kind = "stack"
    <3>1. i = 0 /\ Position(list, i) = 0
      BY <2>1, SMT DEF Position
    <3>2. QED
      BY <2>1, <3>1
  <2>2. CASE kind # "stack"
    <3>1. i = -1 /\ Position(list, i) = Len(s)
      BY <1>2, <2>2, SMT DEF Position
    <3>2. QED
      BY <2>2, <3>1
  <2>3. QED
    BY <2>1, <2>2
<1> HIDE DEF S, s, p
<1>7. CASE MayAdd(list, i, d)
  <2>1. log' = Append(log, y) /\ Objects(list') = InsertAt(s, p, d)
    BY <1>3, <1>5, <1>7
  <2>2. d \in S /\ y \in S
    BY DEF S
  <2>3. KeptAs(kind, InsertAt(s, p, d), Append(log, y)) /\ Append(log, y) \in Seq(S)
    BY <1>1, <1>2, <1>6, <2>2, PushKeeps
  <2>4. QED
    BY <1>1, <1>5, <2>1, <2>3 DEF ListInv, S
<1>8. CASE ~MayAdd(list, i, d)
  <2>1. log' = log /\ list' = list
    BY <1>1, <1>3, <1>5, <1>8
  <2>2. QED
    BY <1>1, <1>5, <2>1 DEF ListInv, S, s
<1>9. QED
  BY <1>7, <1>8

\* ...and pops.
LEMMA PopStep ==
  ASSUME ListAssumption, ListInv, kind # "list", kind' = kind, Pops
  PROVE  ListInv'
<1> DEFINE S == Seq(Unit)
           s == Objects(list)
<1>1. /\ kind \in Kinds /\ Sound(list, walk) /\ walk = NoWalk /\ log \in Seq(S) /\ KeptAs(kind, s, log)
      /\ MaxObj \in Nat
  BY DataFacts DEF ListInv
<1>2. s \in Seq(S) /\ list.num = Len(s) /\ list.num \in Nat /\ Len(log) = Len(s)
  BY <1>1, SoundFacts DEF KeptAs
<1>3. PICK i \in Index \cup {0}, remove \in BOOLEAN :
        /\ \/ GetAt(i, remove, Datum(i))
           \/ i = 0 /\ GetAt(0, remove, AsString(Datum(0)))
           \/ i = 0 /\ PopInt(remove)
        /\ IF remove THEN Forget(i) ELSE UNCHANGED log
  BY Zenon DEF Pops
<1>4. i \in Int
  BY DataFacts
<1>5. Taken(i, remove)
  <2>1. GetAt(i, remove, Datum(i)) => Taken(i, remove)
    BY Zenon DEF GetAt, Taken
  <2>2. GetAt(0, remove, AsString(Datum(0))) => Taken(0, remove)
    BY Zenon DEF GetAt, Taken
  <2>3. PopInt(remove) => Taken(0, remove)
    BY Zenon DEF PopInt, GetAt, Taken
  <2>4. QED
    BY <1>3, <2>1, <2>2, <2>3
<1> DEFINE p == PlaceAt(list, i)
           a == IF kind = "stack" THEN Len(log) + 1 - p ELSE p
<1>6. /\ Sound(list', walk') /\ walk' = NoWalk
      /\ p \in 1 .. Len(s) => Objects(list') = IF remove THEN RemoveAt(s, p) ELSE s
      /\ p \notin 1 .. Len(s) => list' = list
  BY <1>1, <1>4, <1>5, TakeStep
<1>7. p \in Int /\ (a \in 1 .. Len(log) <=> p \in 1 .. Len(s)) /\ p = Spot(kind, Len(log), a)
  <2>1. p \in Int
    BY <1>2, <1>4, SMT DEF PlaceAt
  <2> HIDE DEF p
  <2>2. QED
    BY <1>2, <2>1, SMT DEF Spot
<1>8. remove => log' = IF a \notin 1 .. Len(log) THEN log ELSE RemoveAt(log, a)
  <2>1. remove => Forget(i)
    BY <1>3
  <2>2. QED
    BY <2>1, Zenon DEF Forget, PlaceAt
<1>9. ~remove => log' = log
  BY <1>3
<1> HIDE DEF S, s, p, a
<1>10. CASE remove /\ p \in 1 .. Len(s)
  <2>1. Objects(list') = RemoveAt(s, p) /\ log' = RemoveAt(log, a) /\ a \in 1 .. Len(log)
    BY <1>6, <1>7, <1>8, <1>10
  <2>2. RemoveAt(log, a) \in Seq(S) /\ KeptAs(kind, RemoveAt(s, Spot(kind, Len(log), a)), RemoveAt(log, a))
    BY <1>1, <1>2, <2>1, PopKeeps
  <2>3. QED
    BY <1>1, <1>6, <1>7, <2>1, <2>2 DEF ListInv, S
<1>11. CASE ~(remove /\ p \in 1 .. Len(s))
  <2>1. Objects(list') = s /\ log' = log
    BY <1>6, <1>7, <1>8, <1>9, <1>11 DEF s
  <2>2. QED
    BY <1>1, <1>6, <2>1 DEF ListInv, S
<1>12. QED
  BY <1>10, <1>11

\* So every call on a stack, a queue or a vector keeps its order,
LEMMA StoreKeeps ==
  ASSUME ListAssumption, ListInv, StoreNext
  PROVE  ListInv'
<1>1. kind \in {"stack", "queue", "vector"} /\ kind # "list" /\ kind' = kind /\ kind \in Kinds
  BY DEF StoreNext, ListInv
<1>2. /\ Sound(list, walk) /\ walk = NoWalk /\ log \in Seq(Seq(Unit)) /\ KeptAs(kind, Objects(list), log)
      /\ MaxObj \in Nat /\ MaxSize \in Nat
  BY <1>1, DataFacts DEF ListInv
<1>3. /\ \A d \in Data : d \in Seq(Unit) /\ d # <<>> /\ Str(d) \in Seq(Unit)
      /\ \A n \in Int64 : n \in Seq(Unit) /\ <<n[1]>> \in Seq(Unit)
      /\ \A d : Same(kind, d, d)
  BY DataFacts DEF Same
<1>4. Pops => ListInv'
  BY <1>1, PopStep
<1>5. EmptyOut => ListInv'
  <2>1. SUFFICES ASSUME EmptyOut PROVE ListInv'
    OBVIOUS
  <2>2. Clear /\ log' = <<>>
    BY <2>1 DEF EmptyOut
  <2>3. Sound(list', walk') /\ walk' = NoWalk /\ Objects(list') = <<>>
    BY <1>2, <2>2, ClearStep
  <2>4. <<>> \in Seq(Seq(Unit)) /\ KeptAs(kind, <<>>, <<>>)
    <3>1. Len(<<>>) = 0 /\ 1 .. 0 = {} /\ <<>> \in Seq(Seq(Unit))
      BY EmptySeq, SMT
    <3>2. QED
      BY <3>1 DEF KeptAs
  <2>5. QED
    BY <1>1, <2>2, <2>3, <2>4 DEF ListInv
<1>6. ResizeStore => ListInv'
  <2>1. SUFFICES ASSUME NEW n \in 0 .. MaxSize, SetSize(n), log' = log
                 PROVE  ListInv'
    BY DEF ResizeStore
  <2>2. n \in Nat
    BY <1>2, SMT
  <2>3. Sound(list', walk') /\ walk' = walk /\ Objects(list') = Objects(list)
    BY <1>2, <2>1, <2>2, LimitStep
  <2>4. QED
    BY <1>1, <1>2, <2>1, <2>3 DEF ListInv
<1>7. CASE kind = "stack" /\ StackNext
  <2>1. 0 \in {0, -1} /\ 0 = (IF kind = "stack" THEN 0 ELSE -1)
    BY <1>7
  <2>2. StackPush => ListInv'
    BY <1>1, <1>3, <2>1, PushStep DEF StackPush
  <2>3. StackPushStr => ListInv'
    BY <1>1, <1>3, <2>1, PushStep DEF StackPushStr
  <2>4. StackPushInt => ListInv'
    <3>1. \A n \in Int64 : Same(kind, <<n[1]>>, n)
      BY <1>7 DEF Same
    <3>2. QED
      BY <1>1, <1>3, <2>1, <3>1, PushStep DEF StackPushInt
  <2>5. QED
    BY <1>4, <1>5, <1>6, <1>7, <2>2, <2>3, <2>4 DEF StackNext
<1>8. CASE kind = "queue" /\ QueueNext
  <2>1. -1 \in {0, -1} /\ -1 = (IF kind = "stack" THEN 0 ELSE -1)
    BY <1>8
  <2>2. QueuePush => ListInv'
    BY <1>1, <1>3, <2>1, PushStep DEF QueuePush
  <2>3. QueuePushStr => ListInv'
    BY <1>1, <1>3, <2>1, PushStep DEF QueuePushStr
  <2>4. QueuePushInt => ListInv'
    BY <1>1, <1>3, <2>1, PushStep DEF QueuePushInt
  <2>5. QED
    BY <1>4, <1>5, <1>6, <1>8, <2>2, <2>3, <2>4 DEF QueueNext
<1>9. CASE kind = "vector" /\ VectorNext
  <2>1. -1 \in {0, -1} /\ -1 = (IF kind = "stack" THEN 0 ELSE -1)
    BY <1>9
  <2>2. VectorAdd => ListInv'
    BY <1>1, <1>3, <2>1, PushStep DEF VectorAdd
  <2>3. VectorAddStr => ListInv'
    <3>1. <<>> \in Seq(Unit)
      BY EmptySeq
    <3>2. QED
      BY <1>1, <1>3, <2>1, <3>1, PushStep DEF VectorAddStr
  <2>4. ToArray \/ AsText => list' = list /\ walk' = walk /\ log' = log
    BY DEF ToArray, AsText
  <2>5. ToArray \/ AsText => ListInv'
    BY <1>1, <1>2, <2>4 DEF ListInv
  <2>6. QED
    BY <1>5, <1>9, <2>2, <2>3, <2>5 DEF VectorNext
<1>10. QED
  BY <1>7, <1>8, <1>9 DEF StoreNext

\* ...and every step the invariant.
LEMMA NextListInv ==
  ASSUME ListAssumption, ListInv, [ContainerNext]_listVars
  PROVE  ListInv'
<1>1. CASE ListNext
  BY <1>1, ListKeeps
<1>2. CASE StoreNext
  BY <1>2, StoreKeeps
<1>3. CASE UNCHANGED listVars
  BY <1>3 DEF ListInv, listVars
<1>4. QED
  BY <1>1, <1>2, <1>3 DEF ContainerNext

\* After any calls, at either end and in the middle, the links of a qlist lead
\* through its objects from end to end and back, no object is lost, the counters
\* are right, a walk may take what it has just seen (qlist.c:506), and a stack, a
\* queue and a vector give back what was pushed in their order.
THEOREM WellLinkedCorrect == ListAssumption => (ContainerSpec => []ListsWellLinked)
<1> SUFFICES ASSUME ListAssumption PROVE ContainerSpec => []ListsWellLinked
  OBVIOUS
<1>1. ListInit => ListInv
  BY InitListInv
<1>2. ListInv /\ [ContainerNext]_listVars => ListInv'
  BY NextListInv
<1>3. ListInv => ListsWellLinked
  <2> SUFFICES ASSUME ListInv PROVE WellLinked /\ WalkInOrder /\ InOrder
    BY DEF ListsWellLinked
  <2>1. MaxObj \in Nat /\ Sound(list, walk)
    BY DataFacts DEF ListInv
  <2>2. PICK q : Linked(list, q) /\ WalkOK(walk, list, q)
    BY <2>1, Zenon DEF Sound
  <2>3. WellLinked /\ WalkInOrder
    BY <2>1, <2>2, LinkedWell, WalksWell
  <2>4. InOrder
    <3>1. CASE kind = "list"
      BY <3>1 DEF InOrder
    <3>2. CASE kind # "list"
      <4>1. log \in Seq(Seq(Unit)) /\ KeptAs(kind, Objects(list), log) /\ Objects(list) \in Seq(Seq(Unit))
        BY <2>1, <3>2, SoundFacts DEF ListInv
      <4>2. QED
        BY <4>1, KeptInOrder
    <3>3. QED
      BY <3>1, <3>2
  <2>5. QED
    BY <2>3, <2>4
<1>4. QED
  BY <1>1, <1>2, <1>3, PTL DEF ContainerSpec

-----------------------------------------------------------------------------
(* A qlist is a deque *)

\* addat is the deque's Add,
LEMMA AddIsAdd ==
  ASSUME MaxObj \in Nat, Sound(list, walk), NEW i \in Int, NEW d \in Seq(Unit), d # <<>>, AddAt(i, d)
  PROVE  D!Add(i, d)
<1> DEFINE s == Objects(list)
           p == D!Place(i, Len(s) + 1)
<1>1. list.num = Len(s) /\ Len(s) \in Nat /\ list.max \in Nat
  BY SoundFacts
<1>2. p = Position(list, i)
  BY <1>1, SMT DEF D!Place, Position
<1>3. MayAdd(list, i, d) <=> (list.max = 0 \/ Len(s) < list.max) /\ p \in 0 .. Len(s)
  BY <1>1, <1>2 DEF MayAdd
<1>4. /\ list'.max = list.max
      /\ MayAdd(list, i, d) => ret' = Done /\ Objects(list') = InsertAt(s, p + 1, d)
      /\ ~MayAdd(list, i, d) => ret' = Failed /\ list' = list
  BY <1>2, AddStep
<1> HIDE DEF p
<1>5. IF (list.max = 0 \/ Len(s) < list.max) /\ p \in 0 .. Len(s)
      THEN Objects(list') = InsertAt(s, p + 1, d) /\ ret' = D!Done /\ list'.max = list.max
      ELSE ret' = D!Failed /\ Objects(list') = s /\ list'.max = list.max
  BY <1>3, <1>4 DEF D!Done, D!Failed, Done, Failed
<1>6. InsertAt(s, p + 1, d) = D!InsertAt(s, p + 1, d)
  BY Zenon DEF InsertAt, D!InsertAt
<1>7. QED
  BY <1>5, <1>6 DEF D!Add, p

\* ...getat, popat and removeat are its Take.
LEMMA TakeIsTake ==
  ASSUME MaxObj \in Nat, Sound(list, walk), NEW i \in Int, NEW remove \in BOOLEAN, NEW told \in BOOLEAN,
         GetAt(i, remove, IF told THEN Datum(i) ELSE Done)
  PROVE  D!Take(i, remove, told)
<1> DEFINE s == Objects(list)
           p == D!Place(i, Len(s))
           at == PlaceAt(list, i)
<1>1. list.num = Len(s) /\ Len(s) \in Nat
  BY SoundFacts
<1>2. at = p + 1 /\ (at \in 1 .. Len(s) <=> p \in 0 .. Len(s) - 1)
  BY <1>1, SMT DEF D!Place, PlaceAt
<1>3. /\ Taken(i, remove)
      /\ ret' = IF GetObj(list, i) = Nil THEN Failed ELSE IF told THEN Datum(i) ELSE Done
  BY Zenon DEF GetAt, Taken
<1>4. /\ list'.max = list.max
      /\ at \in 1 .. Len(s) =>
           /\ GetObj(list, i) # Nil /\ Datum(i) = s[at]
           /\ Objects(list') = IF remove THEN RemoveAt(s, at) ELSE s
      /\ at \notin 1 .. Len(s) => GetObj(list, i) = Nil /\ list' = list
  BY <1>3, TakeStep
<1> HIDE DEF p, at
<1>5. IF p \in 0 .. Len(s) - 1
      THEN /\ ret' = IF told THEN s[p + 1] ELSE D!Done
           /\ Objects(list') = IF remove THEN RemoveAt(s, p + 1) ELSE s
           /\ list'.max = list.max
      ELSE ret' = D!Failed /\ Objects(list') = s /\ list'.max = list.max
  BY <1>2, <1>3, <1>4 DEF D!Done, D!Failed, Done, Failed
<1>6. RemoveAt(s, p + 1) = D!RemoveAt(s, p + 1)
  BY Zenon DEF RemoveAt, D!RemoveAt
<1>7. QED
  BY <1>5, <1>6 DEF D!Take, p

\* Every call on a qlist is one on a deque.
LEMMA ListIsDeque ==
  ASSUME ListAssumption, ListInv, ListNext
  PROVE  D!DequeNext \/ UNCHANGED <<list, ret, log>>
<1>1. Sound(list, walk) /\ MaxObj \in Nat /\ MaxSize \in Nat
  BY DataFacts DEF ListInv
<1>2. ASSUME NEW i \in Index
      PROVE  /\ \A d \in Data : AddAt(i, d) => D!Add(i, d)
             /\ GetAt(i, FALSE, Datum(i)) => D!Take(i, FALSE, TRUE)
             /\ GetAt(i, TRUE, Datum(i)) => D!Take(i, TRUE, TRUE)
             /\ RemoveAtIndex(i) => D!Take(i, TRUE, FALSE)
  <2>1. i \in Int /\ \A d \in Data : d \in Seq(Unit) /\ d # <<>>
    BY DataFacts
  <2>2. \A d \in Data : AddAt(i, d) => D!Add(i, d)
    BY <1>1, <2>1, AddIsAdd
  <2>3. \A remove, told \in BOOLEAN :
          GetAt(i, remove, IF told THEN Datum(i) ELSE Done) => D!Take(i, remove, told)
    BY <1>1, <2>1, TakeIsTake
  <2>4. GetAt(i, FALSE, Datum(i)) => D!Take(i, FALSE, TRUE)
    BY <2>3
  <2>5. GetAt(i, TRUE, Datum(i)) => D!Take(i, TRUE, TRUE)
    BY <2>3
  <2>6. RemoveAtIndex(i) => D!Take(i, TRUE, FALSE)
    BY <2>3 DEF RemoveAtIndex
  <2>7. QED
    BY <2>2, <2>4, <2>5, <2>6
<1>3. ASSUME NEW n \in 0 .. MaxSize, SetSize(n)
      PROVE  D!Limit(n)
  <2>1. n \in Nat
    BY <1>1, SMT
  <2>2. Objects(list') = Objects(list) /\ list'.max = n /\ ret' = Done
    BY <1>1, <1>3, <2>1, LimitStep
  <2>3. QED
    BY <2>2 DEF D!Limit, D!Done, Done
<1>4. ReverseList => D!Turn
  <2>1. Reverse(Objects(list)) = D!Reverse(Objects(list))
    BY Zenon DEF Reverse, D!Reverse
  <2>2. QED
    BY <1>1, <2>1, TurnStep DEF D!Turn
<1>5. Clear => D!Empty
  BY <1>1, ClearStep DEF D!Empty
<1>6. CASE log' = <<>> /\ \E n \in 0 .. MaxSize : SetSize(n)
  BY <1>3, <1>6, Zenon DEF D!DequeNext
<1>7. CASE log' = <<>> /\ (ReverseList \/ Clear)
  BY <1>4, <1>5, <1>7, Zenon DEF D!DequeNext
<1>8. CASE UNCHANGED log /\ GetNext
  BY <1>8 DEF GetNext
<1>9. ASSUME NEW i \in Index,
             \/ log' = <<"add", i>> /\ \E d \in Data : AddAt(i, d)
             \/ log' = <<"get", i>> /\ GetAt(i, FALSE, Datum(i))
             \/ log' = <<"pop", i>> /\ GetAt(i, TRUE, Datum(i))
             \/ log' = <<"remove", i>> /\ RemoveAtIndex(i)
      PROVE  D!DequeNext
  <2>1. \/ log' = <<"add", i>> /\ \E d \in Data : D!Add(i, d)
        \/ log' = <<"get", i>> /\ D!Take(i, FALSE, TRUE)
        \/ log' = <<"pop", i>> /\ D!Take(i, TRUE, TRUE)
        \/ log' = <<"remove", i>> /\ D!Take(i, TRUE, FALSE)
    BY <1>2, <1>9, Zenon
  <2>2. QED
    BY <2>1, Zenon DEF D!DequeNext
<1>10. QED
  BY <1>6, <1>7, <1>8, <1>9, Zenon DEF ListNext

\* A vector is made into what was added.
LEMMA VectorSerial ==
  ASSUME ListAssumption, ListInv, [ContainerNext]_listVars, ~(UNCHANGED listVars)
  PROVE  SerialStep
<1> DEFINE made == {FlattenSeq(log), Str(FlattenSeq([i \in 1 .. Len(log) |-> Text(log[i])]))}
<1>1. SUFFICES ASSUME kind = "vector", list' = list, ret' \notin {Done, Failed}
               PROVE  ret' \in made
  BY DEF SerialStep
<1>2. /\ Sound(list, walk) /\ MaxObj \in Nat /\ walk = NoWalk /\ log \in Seq(Seq(Unit))
      /\ KeptAs(kind, Objects(list), log)
  BY <1>1, DataFacts DEF ListInv
<1>3. Objects(list) \in Seq(Seq(Unit)) /\ list.num = Len(Objects(list))
  BY <1>2, SoundFacts
<1>4. Objects(list) = log
  <2>1. Len(log) = Len(Objects(list)) /\ \A i \in 1 .. Len(log) : Objects(list)[i] = log[i]
    BY <1>1, <1>2 DEF KeptAs, Same, Spot
  <2>2. QED
    BY <1>2, <1>3, <2>1, SeqEqual
<1>5. VectorNext
  BY <1>1 DEF ContainerNext, ListNext, StoreNext
<1>6. ASSUME NEW i, NEW d, NEW y, Push(i, d, y)
      PROVE  ret' \in {Done, Failed}
  BY <1>6 DEF Push, AddAt
<1>7. ~VectorAdd /\ ~VectorAddStr
  BY <1>1, <1>6 DEF VectorAdd, VectorAddStr
<1>8. ToArray => ret' \in made
  BY <1>1, <1>4 DEF ToArray
<1>9. AsText => ret' \in made
  <2>1. SUFFICES ASSUME AsText PROVE ret' \in made
    OBVIOUS
  <2>2. ret' = IF list.num = 0 THEN Failed
               ELSE Str(FlattenSeq([i \in 1 .. list.num |-> Text(Objects(list)[i])]))
    BY <2>1 DEF AsText
  <2>3. ret' = Str(FlattenSeq([i \in 1 .. Len(log) |-> Text(log[i])]))
    BY <1>1, <1>3, <1>4, <2>2
  <2>4. QED
    BY <2>3
<1>10. ~EmptyOut
  <2>1. SUFFICES ASSUME EmptyOut PROVE FALSE
    OBVIOUS
  <2>2. Objects(list') = <<>> /\ walk' = NoWalk /\ ret' = ret /\ log' = <<>>
    BY <1>2, <2>1, ClearStep DEF EmptyOut
  <2>3. log = <<>>
    BY <1>1, <1>4, <2>2
  <2>4. kind' = kind
    BY <1>1 DEF ContainerNext, ListNext, StoreNext, listVars
  <2>5. QED
    BY <1>1, <1>2, <2>2, <2>3, <2>4 DEF listVars
<1>11. QED
  BY <1>5, <1>7, <1>8, <1>9, <1>10 DEF VectorNext

\* Every call on a qlist does to the sequence of its data what a deque promises,
\* from whichever end an index counts and whichever end is nearer, and a vector
\* is made into what was added, one after the other.
THEOREM DequesCorrect == ListAssumption => (ContainerSpec => ListsAreDeques)
<1> SUFFICES ASSUME ListAssumption PROVE ContainerSpec => ListsAreDeques
  OBVIOUS
<1>1. ListInit => ListInv
  BY InitListInv
<1>2. ListInv /\ [ContainerNext]_listVars => ListInv'
  BY NextListInv
<1>3. ListInv /\ [ContainerNext]_listVars => [(kind \in Kinds) => DequeStep /\ SerialStep]_listVars
  <2> SUFFICES ASSUME ListInv, [ContainerNext]_listVars, ~(UNCHANGED listVars)
               PROVE  DequeStep /\ SerialStep
    OBVIOUS
  <2>1. DequeStep
    <3>1. SUFFICES ASSUME kind = "list" PROVE D!DequeNext \/ UNCHANGED <<list, ret, log>>
      BY DEF DequeStep
    <3>2. ListNext
      BY <3>1 DEF ContainerNext, StoreNext
    <3>3. QED
      BY <3>2, ListIsDeque
  <2>2. SerialStep
    BY VectorSerial
  <2>3. QED
    BY <2>1, <2>2
<1>4. QED
  BY <1>1, <1>2, <1>3, PTL DEF ContainerSpec, ListsAreDeques
-----------------------------------------------------------------------------
(* qlisttbl: sets of places, in order *)

\* A sequence lists a set of numbers in order.
Lists(q, S) ==
  /\ q \in [1 .. Cardinality(S) -> S]
  /\ \A i, j \in 1 .. Cardinality(S) : i < j => q[i] < q[j]

\* All of them, and none twice.
Covers(q, S) ==
  /\ \A x \in S : \E i \in 1 .. Cardinality(S) : q[i] = x
  /\ \A i, j \in 1 .. Cardinality(S) : q[i] = q[j] => i = j

\* Places are moved and keep their order.
Moves(f, S, R) ==
  /\ f \in [S -> R]
  /\ \A x, y \in S : x < y => f[x] < f[y]
  /\ \A y \in R : \E x \in S : f[x] = y

Moved(f, S, R) ==
  /\ Cardinality(R) = Cardinality(S)
  /\ Ascending(R) = [i \in 1 .. Cardinality(S) |-> f[Ascending(S)[i]]]

\* What the provers need of a set of places: it is finite.
LEMMA PlacesFinite ==
  ASSUME NEW b \in Nat, NEW S \in SUBSET (1 .. b)
  PROVE  IsFiniteSet(S) /\ Cardinality(S) \in Nat /\ Cardinality(S) <= b /\ S \subseteq Nat
<1>1. IsFiniteSet(1 .. b) /\ Cardinality(1 .. b) = b
  <2>1. 1 \in Int /\ b \in Int /\ (IF 1 > b THEN 0 ELSE b - 1 + 1) = b
    BY SMT
  <2>2. QED
    BY <2>1, FS_Interval
<1>2. IsFiniteSet(S) /\ Cardinality(S) <= b
  BY <1>1, FS_Subset
<1>3. QED
  BY <1>2, FS_CardinalityType

\* It can be listed,
LEMMA ListsExist ==
  ASSUME NEW b \in Nat, NEW S \in SUBSET (1 .. b)
  PROVE  \E q : Lists(q, S)
<1> DEFINE T == {n \in Nat : \A R \in SUBSET (1 .. n) : \E q : Lists(q, R)}
<1>1. 0 \in T
  <2>1. SUFFICES ASSUME NEW R \in SUBSET (1 .. 0) PROVE \E q : Lists(q, R)
    OBVIOUS
  <2>2. R = {} /\ Cardinality(R) = 0
    <3>1. R = {}
      BY SMT
    <3>2. QED
      BY <3>1, FS_EmptySet
  <2>3. Lists([i \in 1 .. 0 |-> 0], R)
    BY <2>2, SMT DEF Lists
  <2>4. QED
    BY <2>3
<1>2. ASSUME NEW n \in Nat, n \in T PROVE n + 1 \in T
  <2>1. SUFFICES ASSUME NEW R \in SUBSET (1 .. n + 1) PROVE \E q : Lists(q, R)
    BY SMT
  <2> DEFINE Q == R \ {n + 1}
             c == Cardinality(Q)
  <2>2. Q \in SUBSET (1 .. n)
    BY SMT
  <2>3. PICK q : Lists(q, Q)
    BY <1>2, <2>2
  <2>4. CASE n + 1 \notin R
    <3>1. Q = R
      BY <2>4
    <3>2. QED
      BY <2>3, <3>1
  <2>5. CASE n + 1 \in R
    <3>1. R = Q \cup {n + 1} /\ n + 1 \notin Q
      BY <2>5
    <3>2. IsFiniteSet(Q) /\ c \in Nat
      BY <2>2, PlacesFinite
    <3>3. Cardinality(Q \cup {n + 1}) = c + 1
      BY <3>1, <3>2, FS_AddElement
    <3>4. Cardinality(R) = c + 1
      BY <3>1, <3>3
    <3>5. q \in [1 .. c -> Q] /\ \A i, j \in 1 .. c : i < j => q[i] < q[j]
      BY <2>3 DEF Lists
    <3> DEFINE r == [i \in 1 .. c + 1 |-> IF i = c + 1 THEN n + 1 ELSE q[i]]
    <3> HIDE DEF c
    <3>6. \A i \in 1 .. c + 1 : r[i] \in R /\ (i # c + 1 => i \in 1 .. c /\ r[i] = q[i] /\ q[i] < n + 1)
      <4>1. \A i \in 1 .. c + 1 : i # c + 1 => i \in 1 .. c
        BY <3>2, SMT
      <4>2. \A i \in 1 .. c : q[i] \in Q /\ q[i] < n + 1
        <5>1. \A i \in 1 .. c : q[i] \in Q
          BY <3>5
        <5>2. \A x \in Q : x < n + 1
          BY <2>2, SMT
        <5>3. QED
          BY <5>1, <5>2
      <4>3. QED
        BY <2>5, <4>1, <4>2
    <3>7. \A i, j \in 1 .. c + 1 : i < j => r[i] < r[j]
      <4>1. SUFFICES ASSUME NEW i \in 1 .. c + 1, NEW j \in 1 .. c + 1, i < j PROVE r[i] < r[j]
        OBVIOUS
      <4>2. i # c + 1
        BY <3>2, <4>1, SMT
      <4>3. CASE j = c + 1
        BY <3>6, <4>2, <4>3
      <4>4. CASE j # c + 1
        BY <3>5, <3>6, <4>1, <4>2, <4>4
      <4>5. QED
        BY <4>3, <4>4
    <3>8. r \in [1 .. c + 1 -> R]
      BY <3>6
    <3>9. Lists(r, R)
      BY <3>4, <3>7, <3>8 DEF Lists
    <3>10. QED
      BY <3>9
  <2>6. QED
    BY <2>4, <2>5
<1>3. Nat \subseteq T
  <2> HIDE DEF T
  <2>1. QED
    BY <1>1, <1>2, NumberInduction
<1>4. QED
  BY <1>3

\* and each of its places is in the list, once.
LEMMA ListsAll ==
  ASSUME NEW b \in Nat, NEW S \in SUBSET (1 .. b), NEW q, Lists(q, S)
  PROVE  Covers(q, S)
<1> DEFINE c == Cardinality(S)
<1>1. IsFiniteSet(S) /\ c \in Nat /\ S \subseteq Nat
  BY PlacesFinite
<1>2. q \in [1 .. c -> S] /\ \A i, j \in 1 .. c : i < j => q[i] < q[j]
  BY DEF Lists
<1> HIDE DEF c
<1>3. \A i, j \in 1 .. c : q[i] = q[j] => i = j
  <2>1. SUFFICES ASSUME NEW i \in 1 .. c, NEW j \in 1 .. c, i < j PROVE q[i] # q[j]
    BY <1>1, SMT
  <2>2. q[i] < q[j] /\ q[i] \in Nat
    BY <1>1, <1>2, <2>1
  <2>3. QED
    BY <2>2, SMT
<1>4. q \in Injection(1 .. c, S)
  BY <1>2, <1>3 DEF Injection, IsInjective
<1>5. Cardinality(1 .. c) = c
  <2>1. 1 \in Int /\ c \in Int /\ (IF 1 > c THEN 0 ELSE c - 1 + 1) = c
    BY <1>1, SMT
  <2>2. QED
    BY <2>1, FS_Interval
<1>6. q \in Surjection(1 .. c, S)
  BY <1>1, <1>4, <1>5, FS_Injection DEF c
<1>7. \A x \in S : \E i \in 1 .. c : q[i] = x
  BY <1>6 DEF Surjection
<1>8. QED
  BY <1>3, <1>7 DEF c, Covers

\* There is one list only.
LEMMA ListsOnce ==
  ASSUME NEW b \in Nat, NEW S \in SUBSET (1 .. b), NEW q, Lists(q, S), NEW r, Lists(r, S)
  PROVE  q = r
<1> DEFINE c == Cardinality(S)
           T == {n \in Nat : \A i \in 1 .. c : i <= n => q[i] = r[i]}
<1>1. c \in Nat /\ S \subseteq Nat
  BY PlacesFinite
<1>2. /\ q \in [1 .. c -> S] /\ r \in [1 .. c -> S]
      /\ \A i, j \in 1 .. c : i < j => q[i] < q[j] /\ r[i] < r[j]
  BY DEF Lists
<1>3. /\ \A x \in S : (\E i \in 1 .. c : q[i] = x) /\ (\E i \in 1 .. c : r[i] = x)
      /\ \A i, j \in 1 .. c : (q[i] = q[j] => i = j) /\ (r[i] = r[j] => i = j)
  <2>1. Covers(q, S) /\ Covers(r, S)
    BY ListsAll
  <2>2. QED
    BY <2>1 DEF Covers
<1> HIDE DEF c
<1>4. 0 \in T
  BY SMT
<1>5. ASSUME NEW n \in Nat, n \in T PROVE n + 1 \in T
  <2>1. SUFFICES ASSUME n + 1 \in 1 .. c PROVE q[n + 1] = r[n + 1]
    <3>1. \A i \in 1 .. c : i <= n + 1 => i <= n \/ i = n + 1
      BY SMT
    <3>2. n + 1 \in Nat
      BY SMT
    <3>3. QED
      BY <1>5, <2>1, <3>1, <3>2
  <2>2. PICK k \in 1 .. c : q[n + 1] = r[k]
    BY <1>2, <1>3, <2>1
  <2>3. PICK l \in 1 .. c : r[n + 1] = q[l]
    BY <1>2, <1>3, <2>1
  <2>4. k >= n + 1
    <3>1. SUFFICES ASSUME k <= n PROVE FALSE
      BY SMT
    <3>2. q[k] = r[k]
      BY <1>5, <3>1
    <3>3. k = n + 1
      BY <1>3, <2>1, <2>2, <3>2
    <3>4. QED
      BY <3>1, <3>3, SMT
  <2>5. l >= n + 1
    <3>1. SUFFICES ASSUME l <= n PROVE FALSE
      BY SMT
    <3>2. q[l] = r[l]
      BY <1>5, <3>1
    <3>3. l = n + 1
      BY <1>3, <2>1, <2>3, <3>2
    <3>4. QED
      BY <3>1, <3>3, SMT
  <2>6. q[n + 1] \in Nat /\ r[n + 1] \in Nat /\ r[k] \in Nat /\ q[l] \in Nat
    BY <1>1, <1>2, <2>1
  <2>7. k = n + 1 \/ r[n + 1] < r[k]
    <3>1. k = n + 1 \/ n + 1 < k
      BY <2>4, SMT
    <3>2. QED
      BY <1>2, <2>1, <3>1
  <2>8. l = n + 1 \/ q[n + 1] < q[l]
    <3>1. l = n + 1 \/ n + 1 < l
      BY <2>5, SMT
    <3>2. QED
      BY <1>2, <2>1, <3>1
  <2>9. CASE k = n + 1 \/ l = n + 1
    BY <2>2, <2>3, <2>9
  <2>10. CASE r[n + 1] < r[k] /\ q[n + 1] < q[l]
    BY <2>2, <2>3, <2>6, <2>10, SMT
  <2>11. QED
    BY <2>7, <2>8, <2>9, <2>10
<1>6. Nat \subseteq T
  <2> HIDE DEF T
  <2>1. QED
    BY <1>4, <1>5, NumberInduction
<1>7. \A i \in 1 .. c : q[i] = r[i]
  <2>1. \A i \in 1 .. c : c \in T /\ i <= c
    BY <1>1, <1>6, SMT
  <2>2. QED
    BY <2>1
<1>8. q = [i \in 1 .. c |-> q[i]] /\ r = [i \in 1 .. c |-> r[i]]
  BY <1>2
<1>9. QED
  BY <1>7, <1>8

\* So Ascending lists it, and whatever lists it is Ascending.
LEMMA AscendingLists ==
  ASSUME NEW b \in Nat, NEW S \in SUBSET (1 .. b)
  PROVE  Lists(Ascending(S), S)
<1> DEFINE G(q) == /\ q \in [1 .. Cardinality(S) -> S]
                   /\ \A i, j \in DOMAIN q : i < j => q[i] < q[j]
<1>1. \A q : G(q) <=> Lists(q, S)
  BY DEF Lists
<1>2. \E q \in [1 .. Cardinality(S) -> S] : \A i, j \in DOMAIN q : i < j => q[i] < q[j]
  BY <1>1, ListsExist
<1>3. /\ Ascending(S) \in [1 .. Cardinality(S) -> S]
      /\ \A i, j \in DOMAIN Ascending(S) : i < j => Ascending(S)[i] < Ascending(S)[j]
  BY <1>2 DEF Ascending
<1>4. QED
  BY <1>3 DEF Lists

LEMMA AscendingIs ==
  ASSUME NEW b \in Nat, NEW S \in SUBSET (1 .. b), NEW q, Lists(q, S)
  PROVE  Ascending(S) = q
BY AscendingLists, ListsOnce

\* When places are moved and keep their order, so does their list.
LEMMA AscendingMoved ==
  ASSUME NEW b \in Nat, NEW S \in SUBSET (1 .. b), NEW d \in Nat, NEW R \in SUBSET (1 .. d),
         NEW f, Moves(f, S, R)
  PROVE  Moved(f, S, R)
<1> DEFINE c == Cardinality(S)
           q == Ascending(S)
           r == [i \in 1 .. c |-> f[q[i]]]
<1>1. IsFiniteSet(S) /\ c \in Nat /\ S \subseteq Nat /\ R \subseteq Nat
  BY PlacesFinite
<1> f \in [S -> R] /\ (\A x, y \in S : x < y => f[x] < f[y]) /\ \A y \in R : \E x \in S : f[x] = y
  BY DEF Moves
<1>2. \A x, y \in S : f[x] = f[y] => x = y
  <2>1. SUFFICES ASSUME NEW x \in S, NEW y \in S, x < y PROVE f[x] # f[y]
    BY <1>1, SMT
  <2>2. f[x] < f[y] /\ f[x] \in Nat
    BY <1>1, <2>1
  <2>3. QED
    BY <2>2, SMT
<1>3. f \in Bijection(S, R)
  BY <1>2 DEF Bijection, Injection, IsInjective, Surjection
<1>4. Cardinality(R) = c
  BY <1>1, <1>3, FS_Bijection DEF ExistsBijection
<1>5. q \in [1 .. c -> S] /\ \A i, j \in 1 .. c : i < j => q[i] < q[j]
  BY AscendingLists DEF Lists
<1> HIDE DEF c, q
<1>6. Lists(r, R)
  <2>1. \A i \in 1 .. c : f[q[i]] \in R
    BY <1>5
  <2>2. \A i, j \in 1 .. c : i < j => f[q[i]] < f[q[j]]
    BY <1>5
  <2>3. QED
    BY <1>4, <2>1, <2>2 DEF Lists
<1>7. Ascending(R) = r
  BY <1>6, AscendingIs
<1>8. QED
  BY <1>4, <1>7 DEF c, q, Moved

\* The elements at a set of places.
LEMMA ElementsAtAre ==
  ASSUME NEW E, NEW s \in Seq(E), NEW S \in SUBSET (1 .. Len(s))
  PROVE  /\ ElementsAt(s, S) \in Seq(E) /\ Len(ElementsAt(s, S)) = Cardinality(S)
         /\ Len(Ascending(S)) = Cardinality(S) /\ Cardinality(S) \in Nat
         /\ ElementsAt(s, S) = [i \in 1 .. Cardinality(S) |-> s[Ascending(S)[i]]]
<1> DEFINE c == Cardinality(S)
           q == Ascending(S)
<1>1. Len(s) \in Nat /\ \A k \in 1 .. Len(s) : s[k] \in E
  BY LenProperties
<1>2. c \in Nat
  BY <1>1, PlacesFinite
<1>3. q \in [1 .. c -> S]
  BY <1>1, AscendingLists DEF Lists
<1>4. Len(q) = c
  BY <1>2, <1>3, LenProperties, IsASeq
<1>5. ElementsAt(s, S) = [i \in 1 .. c |-> s[q[i]]]
  BY <1>4 DEF ElementsAt, Pick
<1>6. \A i \in 1 .. c : s[q[i]] \in E
  BY <1>1, <1>3
<1> DEFINE r == [i \in 1 .. c |-> s[q[i]]]
<1> HIDE DEF c, q
<1>7. r \in Seq(E) /\ Len(r) = c
  BY <1>2, <1>6, IsASeq, LenProperties
<1>8. QED
  BY <1>2, <1>4, <1>5, <1>7 DEF c, q

\* Elements that are moved and keep their order are the same ones.
LEMMA ElementsMoved ==
  ASSUME NEW E, NEW s \in Seq(E), NEW S \in SUBSET (1 .. Len(s)),
         NEW u \in Seq(E), NEW R \in SUBSET (1 .. Len(u)), NEW f, Moves(f, S, R),
         \A x \in S : u[f[x]] = s[x]
  PROVE  ElementsAt(u, R) = ElementsAt(s, S) /\ Cardinality(R) = Cardinality(S)
<1> DEFINE c == Cardinality(S)
           q == Ascending(S)
<1>1. Len(s) \in Nat /\ Len(u) \in Nat
  BY LenProperties
<1>2. Cardinality(R) = c /\ Ascending(R) = [i \in 1 .. c |-> f[q[i]]]
  <2> DEFINE b == Len(s)
             d == Len(u)
  <2>1. b \in Nat /\ d \in Nat /\ S \in SUBSET (1 .. b) /\ R \in SUBSET (1 .. d)
    BY <1>1
  <2> HIDE DEF b, d
  <2>2. Moved(f, S, R)
    BY <2>1, AscendingMoved
  <2>3. QED
    BY <2>2 DEF Moved
<1>3. q \in [1 .. c -> S]
  BY <1>1, AscendingLists DEF Lists
<1>4. ElementsAt(s, S) = [i \in 1 .. c |-> s[q[i]]]
  BY ElementsAtAre
<1>5. ElementsAt(u, R) = [i \in 1 .. c |-> u[Ascending(R)[i]]]
  BY <1>2, ElementsAtAre
<1> HIDE DEF c, q
<1>6. \A i \in 1 .. c : u[Ascending(R)[i]] = s[q[i]]
  BY <1>2, <1>3
<1>7. QED
  BY <1>2, <1>4, <1>5, <1>6 DEF c, Moves

\* The nearest of some places.
Extreme(S, x, forward) ==
  /\ x \in S
  /\ forward => \A y \in S : x <= y
  /\ ~forward => \A y \in S : x >= y

LEMMA NearestIs ==
  ASSUME NEW b \in Nat, NEW S \in SUBSET (1 .. b), S # {}, NEW forward \in BOOLEAN
  PROVE  Extreme(S, Nearest(S, forward), forward)
<1> DEFINE c == Cardinality(S)
           q == Ascending(S)
<1>1. c \in Nat /\ IsFiniteSet(S) /\ S \subseteq Nat
  BY PlacesFinite
<1>2. q \in [1 .. c -> S] /\ \A i, j \in 1 .. c : i < j => q[i] < q[j]
  BY AscendingLists DEF Lists
<1>3. \A x \in S : \E i \in 1 .. c : q[i] = x
  <2>1. Lists(q, S)
    BY AscendingLists
  <2>2. Covers(q, S)
    BY <2>1, ListsAll
  <2>3. QED
    BY <2>2 DEF Covers
<1>4. c # 0
  BY <1>1, FS_EmptySet
<1> HIDE DEF c, q
<1>5. 1 \in 1 .. c /\ c \in 1 .. c /\ \A i \in 1 .. c : (i = 1 \/ 1 < i) /\ (i = c \/ i < c)
  BY <1>1, <1>4, SMT
<1>6. ASSUME NEW y \in S PROVE q[1] <= y /\ q[c] >= y
  <2>1. PICK i \in 1 .. c : q[i] = y
    BY <1>3
  <2>2. q[1] \in Nat /\ q[c] \in Nat /\ y \in Nat
    BY <1>1, <1>2, <1>5
  <2>3. i = 1 \/ q[1] < y
    BY <1>2, <1>5, <2>1
  <2>4. i = c \/ y < q[c]
    BY <1>2, <1>5, <2>1
  <2>5. QED
    BY <2>1, <2>2, <2>3, <2>4, SMT
<1>7. \E x \in S : \A y \in S : IF forward THEN x <= y ELSE x >= y
  <2>1. CASE forward
    BY <1>2, <1>5, <1>6, <2>1
  <2>2. CASE ~forward
    BY <1>2, <1>5, <1>6, <2>2
  <2>3. QED
    BY <2>1, <2>2
<1>8. Nearest(S, forward) \in S /\ \A y \in S : IF forward THEN Nearest(S, forward) <= y ELSE Nearest(S, forward) >= y
  <2> DEFINE x == CHOOSE x \in S : \A y \in S : IF forward THEN x <= y ELSE x >= y
  <2>1. x \in S /\ \A y \in S : IF forward THEN x <= y ELSE x >= y
    BY <1>7
  <2>2. Nearest(S, forward) = x
    BY DEF Nearest
  <2>3. QED
    BY <2>1, <2>2
<1>9. QED
  BY <1>8 DEF Extreme

LEMMA NearestOnly ==
  ASSUME NEW b \in Nat, NEW S \in SUBSET (1 .. b), NEW forward \in BOOLEAN, NEW x, Extreme(S, x, forward)
  PROVE  Nearest(S, forward) = x
<1>1. S # {} /\ x \in S
  BY DEF Extreme
<1>2. Extreme(S, Nearest(S, forward), forward)
  BY <1>1, NearestIs
<1>3. Nearest(S, forward) \in Nat /\ x \in Nat
  BY <1>1, <1>2, PlacesFinite DEF Extreme
<1>4. Nearest(S, forward) <= x /\ Nearest(S, forward) >= x
  BY <1>1, <1>2 DEF Extreme
<1>5. QED
  BY <1>3, <1>4, SMT

\* One place less: the list without its first or without its last.
FirstOf(p, Q) ==
  Ascending(Q \cup {p}) =
    [i \in 1 .. Cardinality(Q) + 1 |-> IF i = 1 THEN p ELSE Ascending(Q)[i - 1]]
LastOf(p, Q) ==
  Ascending(Q \cup {p}) =
    [i \in 1 .. Cardinality(Q) + 1 |-> IF i = Cardinality(Q) + 1 THEN p ELSE Ascending(Q)[i]]

LEMMA OnePlace ==
  ASSUME NEW b \in Nat, NEW Q \in SUBSET (1 .. b), NEW p \in 1 .. b, p \notin Q
  PROVE  /\ Cardinality(Q \cup {p}) = Cardinality(Q) + 1
         /\ (\A x \in Q : p < x) => FirstOf(p, Q)
         /\ (\A x \in Q : x < p) => LastOf(p, Q)
<1> DEFINE c == Cardinality(Q)
           q == Ascending(Q)
           S == Q \cup {p}
<1>1. c \in Nat /\ IsFiniteSet(Q) /\ Q \subseteq Nat
  BY PlacesFinite
<1>2. q \in [1 .. c -> Q] /\ \A i, j \in 1 .. c : i < j => q[i] < q[j]
  BY AscendingLists DEF Lists
<1>3. Cardinality(S) = c + 1
  BY <1>1, FS_AddElement
<1>4. S \in SUBSET (1 .. b)
  OBVIOUS
<1> HIDE DEF c, q
<1>5. ASSUME \A x \in Q : p < x PROVE FirstOf(p, Q)
  <2> DEFINE r == [i \in 1 .. c + 1 |-> IF i = 1 THEN p ELSE q[i - 1]]
  <2>1. \A i \in 1 .. c + 1 : i # 1 => i - 1 \in 1 .. c
    BY <1>1, SMT
  <2>2. r \in [1 .. c + 1 -> S]
    BY <1>2, <2>1
  <2>3. \A i, j \in 1 .. c + 1 : i < j => r[i] < r[j]
    <3>1. SUFFICES ASSUME NEW i \in 1 .. c + 1, NEW j \in 1 .. c + 1, i < j PROVE r[i] < r[j]
      OBVIOUS
    <3>2. j # 1 /\ (i # 1 => i - 1 < j - 1)
      BY <1>1, <3>1, SMT
    <3>3. r[j] = q[j - 1] /\ q[j - 1] \in Q
      BY <1>2, <2>1, <3>2
    <3>4. CASE i = 1
      BY <1>5, <3>3, <3>4
    <3>5. CASE i # 1
      BY <1>2, <2>1, <3>2, <3>3, <3>5
    <3>6. QED
      BY <3>4, <3>5
  <2>4. Lists(r, S)
    BY <1>3, <2>2, <2>3 DEF Lists
  <2>5. Ascending(S) = r
    BY <1>4, <2>4, AscendingIs
  <2>6. QED
    BY <2>5 DEF FirstOf, c, q
<1>6. ASSUME \A x \in Q : x < p PROVE LastOf(p, Q)
  <2> DEFINE r == [i \in 1 .. c + 1 |-> IF i = c + 1 THEN p ELSE q[i]]
  <2>1. \A i \in 1 .. c + 1 : i # c + 1 => i \in 1 .. c
    BY <1>1, SMT
  <2>2. r \in [1 .. c + 1 -> S]
    BY <1>2, <2>1
  <2>3. \A i, j \in 1 .. c + 1 : i < j => r[i] < r[j]
    <3>1. SUFFICES ASSUME NEW i \in 1 .. c + 1, NEW j \in 1 .. c + 1, i < j PROVE r[i] < r[j]
      OBVIOUS
    <3>2. i # c + 1
      BY <1>1, <3>1, SMT
    <3>3. r[i] = q[i] /\ q[i] \in Q
      BY <1>2, <2>1, <3>2
    <3>4. CASE j = c + 1
      BY <1>6, <3>3, <3>4
    <3>5. CASE j # c + 1
      BY <1>2, <2>1, <3>1, <3>2, <3>3, <3>5
    <3>6. QED
      BY <3>4, <3>5
  <2>4. Lists(r, S)
    BY <1>3, <2>2, <2>3 DEF Lists
  <2>5. Ascending(S) = r
    BY <1>4, <2>4, AscendingIs
  <2>6. QED
    BY <2>5 DEF LastOf, c, q
<1>7. QED
  BY <1>3, <1>5, <1>6 DEF c

\* The elements at some places, in the order in which a walk comes to them.
Along(u, S, back) == IF back THEN Reverse(ElementsAt(u, S)) ELSE ElementsAt(u, S)
IsAlong(a, u, S, back) ==
  \A i \in 1 .. Cardinality(S) :
    /\ back => a[i] = u[Ascending(S)[Cardinality(S) - i + 1]]
    /\ ~back => a[i] = u[Ascending(S)[i]]

LEMMA AlongIs ==
  ASSUME NEW E, NEW u \in Seq(E), NEW S \in SUBSET (1 .. Len(u)), NEW back \in BOOLEAN
  PROVE  /\ Along(u, S, back) \in Seq(E) /\ Len(Along(u, S, back)) = Cardinality(S)
         /\ Cardinality(S) \in Nat
         /\ IsAlong(Along(u, S, back), u, S, back)
<1> DEFINE c == Cardinality(S)
           e == ElementsAt(u, S)
<1>1. c \in Nat /\ e \in Seq(E) /\ Len(e) = c /\ e = [i \in 1 .. c |-> u[Ascending(S)[i]]]
  BY ElementsAtAre
<1> HIDE DEF c, e
<1>2. \A i \in 1 .. c : c - i + 1 \in 1 .. c
  BY <1>1, SMT
<1>3. Reverse(e) = [i \in 1 .. c |-> e[c - i + 1]]
  BY <1>1 DEF Reverse
<1>4. \A i \in 1 .. c : e[i] \in E
  BY <1>1, LenProperties
<1>5. Reverse(e) \in Seq(E) /\ Len(Reverse(e)) = c
  <2> DEFINE r == [i \in 1 .. c |-> e[c - i + 1]]
  <2>1. \A i \in 1 .. c : e[c - i + 1] \in E
    BY <1>2, <1>4
  <2>2. r \in Seq(E) /\ Len(r) = c
    BY <1>1, <2>1, IsASeq, LenProperties
  <2>3. QED
    BY <1>3, <2>2
<1>6. CASE back
  <2>1. Along(u, S, back) = Reverse(e)
    BY <1>6 DEF Along, e
  <2>2. \A i \in 1 .. c : Reverse(e)[i] = u[Ascending(S)[c - i + 1]]
    BY <1>1, <1>2, <1>3
  <2>3. QED
    BY <1>1, <1>5, <1>6, <2>1, <2>2 DEF c, IsAlong
<1>7. CASE ~back
  <2>1. Along(u, S, back) = e
    BY <1>7 DEF Along, e
  <2>2. QED
    BY <1>1, <1>7, <2>1 DEF c, IsAlong
<1>8. QED
  BY <1>6, <1>7

\* First the nearest place, then the others.
Peeled(u, S, back, p) == Along(u, S, back) = <<u[p]>> \o Along(u, S \ {p}, back)

LEMMA Peel ==
  ASSUME NEW E, NEW u \in Seq(E), NEW S \in SUBSET (1 .. Len(u)), NEW back \in BOOLEAN,
         NEW p, Extreme(S, p, ~back)
  PROVE  Peeled(u, S, back, p)
<1> DEFINE Q == S \ {p}
           c == Cardinality(Q)
           a == Along(u, S, back)
           d == Along(u, Q, back)
           n == Len(u)
<1>1. n \in Nat /\ p \in S /\ Q \in SUBSET (1 .. n) /\ Q \cup {p} = S /\ p \in 1 .. n /\ p \notin Q
  BY LenProperties DEF Extreme
<1>2. /\ a \in Seq(E) /\ Len(a) = Cardinality(S)
      /\ IsAlong(a, u, S, back)
  BY AlongIs
<1>3. /\ d \in Seq(E) /\ Len(d) = c /\ c \in Nat
      /\ IsAlong(d, u, Q, back)
  BY <1>1, AlongIs
<1>4. Cardinality(S) = c + 1
  BY <1>1, OnePlace
<1>5. u[p] \in E
  BY <1>1, LenProperties
<1> DEFINE r == <<u[p]>> \o d
<1>6. /\ r \in Seq(E) /\ Len(r) = c + 1
      /\ \A i \in 1 .. c + 1 : r[i] = IF i = 1 THEN u[p] ELSE d[i - 1]
  <2>1. <<u[p]>> \in Seq(E) /\ Len(<<u[p]>>) = 1 /\ <<u[p]>>[1] = u[p]
    BY <1>5, SMT
  <2>2. /\ r \in Seq(E) /\ Len(r) = 1 + Len(d)
        /\ \A i \in 1 .. 1 + Len(d) : r[i] = IF i <= 1 THEN <<u[p]>>[i] ELSE d[i - 1]
    BY <1>3, <2>1, ConcatProperties
  <2>3. 1 + Len(d) = c + 1 /\ \A i \in 1 .. c + 1 : i <= 1 <=> i = 1
    BY <1>3, SMT
  <2>4. QED
    BY <2>1, <2>2, <2>3
<1> HIDE DEF a, c, d, r
<1>7. ASSUME NEW i \in 1 .. c + 1 PROVE a[i] = r[i]
  <2>1. CASE back
    <3>1. \A x \in Q : x < p
      <4>1. \A x \in Q : x <= p /\ x # p /\ x \in Nat /\ p \in Nat
        BY <1>1, <2>1 DEF Extreme
      <4>2. QED
        BY <4>1, SMT
    <3>2. Ascending(S) = [j \in 1 .. c + 1 |-> IF j = c + 1 THEN p ELSE Ascending(Q)[j]]
      <4>1. LastOf(p, Q)
        BY <1>1, <3>1, OnePlace
      <4>2. QED
        BY <1>1, <4>1 DEF LastOf, c
    <3>3. c + 1 - i + 1 \in 1 .. c + 1 /\ (i = 1 <=> c + 1 - i + 1 = c + 1)
      BY <1>3, SMT
    <3>4. a[i] = u[Ascending(S)[c + 1 - i + 1]]
      <4>1. i \in 1 .. Cardinality(S)
        BY <1>4
      <4>2. a[i] = u[Ascending(S)[Cardinality(S) - i + 1]]
        BY <1>2, <2>1, <4>1 DEF IsAlong
      <4>3. QED
        BY <1>3, <1>4, <4>2
    <3>5. CASE i = 1
      BY <1>6, <3>2, <3>3, <3>4, <3>5
    <3>6. CASE i # 1
      <4>1. i - 1 \in 1 .. c /\ c - (i - 1) + 1 = c + 1 - i + 1
        BY <1>3, <3>6, SMT
      <4>2. d[i - 1] = u[Ascending(Q)[c - (i - 1) + 1]]
        BY <1>3, <2>1, <4>1 DEF IsAlong, c
      <4>3. QED
        BY <1>6, <3>2, <3>3, <3>4, <3>6, <4>1, <4>2
    <3>7. QED
      BY <3>5, <3>6
  <2>2. CASE ~back
    <3>1. \A x \in Q : p < x
      <4>1. \A x \in Q : p <= x /\ x # p /\ x \in Nat /\ p \in Nat
        BY <1>1, <2>2 DEF Extreme
      <4>2. QED
        BY <4>1, SMT
    <3>2. Ascending(S) = [j \in 1 .. c + 1 |-> IF j = 1 THEN p ELSE Ascending(Q)[j - 1]]
      <4>1. FirstOf(p, Q)
        BY <1>1, <3>1, OnePlace
      <4>2. QED
        BY <1>1, <4>1 DEF FirstOf, c
    <3>3. a[i] = u[Ascending(S)[i]]
      BY <1>2, <1>4, <2>2 DEF IsAlong
    <3>4. CASE i = 1
      BY <1>6, <3>2, <3>3, <3>4
    <3>5. CASE i # 1
      <4>1. i - 1 \in 1 .. c
        BY <1>3, <3>5, SMT
      <4>2. d[i - 1] = u[Ascending(Q)[i - 1]]
        BY <1>3, <2>2, <4>1 DEF IsAlong, c
      <4>3. QED
        BY <1>6, <3>2, <3>3, <3>5, <4>2
    <3>6. QED
      BY <3>4, <3>5
  <2>3. QED
    BY <2>1, <2>2
<1>8. Len(a) = Len(r)
  BY <1>2, <1>4, <1>6
<1>9. a = r
  BY <1>2, <1>4, <1>6, <1>7, <1>8, SeqEqual
<1>10. QED
  BY <1>9 DEF a, r, d, Peeled

-----------------------------------------------------------------------------
(* qlisttbl: names *)

ListTable ==
  [items : Seq(Entry), lookupcase : BOOLEAN, sortflag : 0 .. 2,
   putdir : BOOLEAN, getdir : BOOLEAN, nextdir : BOOLEAN]

\* Elements of one name, as the table compares them, and what it sorts by.
Like(t, a, b) == NameMatch(t, a, b.name)
Rank(t, a) == IF t.lookupcase THEN a.name[1] ELSE 2 * a.name[2] + a.name[1]

LEMMA NamesAre ==
  ASSUME ListTblAssumption, NEW a \in Entry
  PROVE  a.name \in Name /\ a.name[1] \in 1 .. 2 /\ a.name[2] \in 0 .. 1 /\ a.name = <<a.name[1], a.name[2]>>
<1>1. a.name \in Name /\ a.name \in (1 .. 2) \X (0 .. 1)
  BY DEF ListTblAssumption
<1>2. QED
  BY <1>1

LEMMA Ranks ==
  ASSUME ListTblAssumption, NEW t, NEW a \in Entry, NEW b \in Entry
  PROVE  /\ Rank(t, a) \in Int
         /\ NameCmp(t, a.name, b.name) = Rank(t, a) - Rank(t, b)
         /\ Like(t, a, b) <=> Rank(t, a) = Rank(t, b)
<1>1. /\ a.name[1] \in 1 .. 2 /\ a.name[2] \in 0 .. 1 /\ a.name = <<a.name[1], a.name[2]>>
      /\ b.name[1] \in 1 .. 2 /\ b.name[2] \in 0 .. 1 /\ b.name = <<b.name[1], b.name[2]>>
  BY NamesAre
<1>2. CASE t.lookupcase
  BY <1>1, <1>2, SMT DEF Rank, NameCmp, Like, NameMatch
<1>3. CASE ~t.lookupcase
  <2>1. a.name = b.name <=> a.name[1] = b.name[1] /\ a.name[2] = b.name[2]
    BY <1>1
  <2>2. 2 * a.name[2] + a.name[1] = 2 * b.name[2] + b.name[1] <=> a.name[1] = b.name[1] /\ a.name[2] = b.name[2]
    BY <1>1, SMT
  <2>3. Like(t, a, b) <=> a.name = b.name
    BY <1>3 DEF Like, NameMatch
  <2>4. Rank(t, a) = 2 * a.name[2] + a.name[1] /\ Rank(t, b) = 2 * b.name[2] + b.name[1]
    BY <1>3 DEF Rank
  <2>5. NameCmp(t, a.name, b.name) = (2 * a.name[2] + a.name[1]) - (2 * b.name[2] + b.name[1])
    BY <1>3 DEF NameCmp
  <2>6. 2 * a.name[2] + a.name[1] \in Int
    BY <1>1, SMT
  <2>7. QED
    BY <2>1, <2>2, <2>3, <2>4, <2>5, <2>6
<1>4. QED
  BY <1>2, <1>3

\* Who has a name is like all others that have it.
LEMMA MatchLike ==
  ASSUME NEW t, NEW a, NEW b, NEW x, NameMatch(t, a, x)
  PROVE  NameMatch(t, b, x) <=> Like(t, a, b)
BY DEF NameMatch, Like

\* In a table that is sorted the elements of a name are next to one another.
Grouped(t) ==
  t.sortflag # 0 =>
    \A i, j, k \in 1 .. Len(t.items) :
      i < j /\ j < k /\ Like(t, t.items[i], t.items[k]) => Like(t, t.items[i], t.items[j])

-----------------------------------------------------------------------------
(* qlisttbl: walks *)

WalkName(name) == name = {} \/ \E x : name = {x}

\* Where a walk begins, and where it may be.
Start(t) == IF t.nextdir THEN Len(t.items) ELSE 1
Valid(t, from) == IF t.nextdir THEN from \in 0 .. Len(t.items) ELSE from \in 1 .. Len(t.items) + 1

\* What there is still to see.
Left(t, name, from) == Places(t, name) \cap Remaining(t, from)

\* All of it is reached from there.
Onward(t, name, from) == Left(t, name, from) \subseteq Ahead(t, name, from)

LEMMA PlacesAre ==
  ASSUME NEW t \in ListTable, NEW name, NEW from
  PROVE  /\ Len(t.items) \in Nat /\ t.items \in Seq(Entry) /\ t.nextdir \in BOOLEAN
         /\ Places(t, name) \in SUBSET (1 .. Len(t.items))
         /\ Left(t, name, from) \in SUBSET (1 .. Len(t.items))
         /\ Remaining(t, Start(t)) = 1 .. Len(t.items)
<1>1. t.items \in Seq(Entry) /\ t.nextdir \in BOOLEAN
  BY DEF ListTable
<1>2. QED
  BY <1>1, LenProperties DEF Places, Left, Remaining, Start

\* getnext at the beginning finds the nearest element,
LEMMA NextFirst ==
  ASSUME NEW t \in ListTable, NEW w, WalkName(w.name), w.from = 0
  PROVE  NextPlace(t, w) = Nearest(Places(t, w.name), ~t.nextdir)
<1> DEFINE S == Places(t, w.name)
           n == Len(t.items)
           fwd == ~t.nextdir
           start == IF w.name # {} THEN FindObj(t, CHOOSE x \in w.name : TRUE, ~t.nextdir)
                    ELSE IF t.nextdir THEN Len(t.items) ELSE 1
           A == Ahead(t, w.name, start)
<1>1. n \in Nat /\ S \in SUBSET (1 .. n) /\ t.nextdir \in BOOLEAN
  BY PlacesAre
<1>2. NextPlace(t, w) = IF start = 0 THEN 0 ELSE Nearest(A \cap S, fwd)
  BY DEF NextPlace
<1>3. CASE w.name # {}
  <2>1. PICK x : w.name = {x}
    BY <1>3 DEF WalkName
  <2>2. start = Nearest(S, fwd)
    <3>1. (CHOOSE y \in w.name : TRUE) = x
      BY <2>1
    <3>2. QED
      BY <2>1, <3>1 DEF FindObj
  <2> HIDE DEF start
  <2>3. CASE S = {}
    BY <1>2, <2>2, <2>3 DEF Nearest
  <2>4. CASE S # {}
    <3>1. Extreme(S, start, fwd)
      BY <1>1, <2>2, <2>4, NearestIs
    <3>2. start \in S /\ start \in 1 .. n /\ start # 0 /\ start \in Nat
      BY <1>1, <3>1, SMT DEF Extreme
    <3>3. start \in A
      <4>1. start \in Remaining(t, start) /\ \A q \in Remaining(t, start) : ~(IF t.nextdir THEN q > start ELSE q < start)
        BY <1>1, <3>2, SMT DEF Remaining
      <4>2. QED
        BY <4>1 DEF Ahead
    <3>4. Extreme(A \cap S, start, fwd)
      BY <3>1, <3>2, <3>3 DEF Extreme
    <3>5. A \cap S \in SUBSET (1 .. n)
      BY <1>1
    <3>6. Nearest(A \cap S, fwd) = start
      BY <1>1, <3>4, <3>5, NearestOnly
    <3>7. QED
      BY <1>2, <2>2, <3>2, <3>6
  <2>5. QED
    BY <2>3, <2>4
<1>4. CASE w.name = {}
  <2>1. S = 1 .. n
    BY <1>4 DEF Places
  <2>2. start = Start(t)
    BY <1>4 DEF Start
  <2>3. A = 1 .. n
    <3>1. A = Remaining(t, Start(t))
      BY <1>4, <2>2 DEF Ahead
    <3>2. QED
      BY <3>1, PlacesAre
  <2>4. A \cap S = S
    BY <2>1, <2>3
  <2>5. start = 0 => S = {}
    <3>1. start = 0 => n = 0
      BY <2>2, SMT DEF Start
    <3>2. n = 0 => 1 .. n = {}
      BY SMT
    <3>3. QED
      BY <2>1, <3>1, <3>2
  <2>6. QED
    BY <1>2, <2>4, <2>5 DEF Nearest
<1>5. QED
  BY <1>3, <1>4

\* and further on the nearest of what is left.
LEMMA NextFrom ==
  ASSUME NEW t \in ListTable, NEW w, w.from # 0, Onward(t, w.name, w.from)
  PROVE  NextPlace(t, w) = Nearest(Left(t, w.name, w.from), ~t.nextdir)
<1>1. NextPlace(t, w) = Nearest(Ahead(t, w.name, w.from) \cap Places(t, w.name), ~t.nextdir)
  BY DEF NextPlace
<1>2. Ahead(t, w.name, w.from) \cap Places(t, w.name) = Left(t, w.name, w.from)
  BY DEF Onward, Left, Ahead
<1>3. QED
  BY <1>1, <1>2

\* At the end nothing is left.
LEMMA NoneLeft ==
  ASSUME NEW t \in ListTable, NEW name, NEW from, Valid(t, from), AtEnd(t, from)
  PROVE  Left(t, name, from) = {}
<1>1. Len(t.items) \in Nat /\ t.nextdir \in BOOLEAN
  BY PlacesAre
<1>2. Remaining(t, from) = {}
  BY <1>1, SMT DEF Valid, AtEnd, Remaining
<1>3. QED
  BY <1>2 DEF Left

\* Behind a place that was found there is the rest of what was left, and all of it
\* is reached.
FoundAt(t, name, from, p) ==
  /\ p \in 1 .. Len(t.items) /\ p # 0 /\ Extreme(Left(t, name, from), p, ~t.nextdir)
  /\ Valid(t, After(t, p)) /\ Onward(t, name, After(t, p))
  /\ Left(t, name, After(t, p)) = Left(t, name, from) \ {p}

LEMMA GoesOn ==
  ASSUME NEW t \in ListTable, Grouped(t), NEW name, WalkName(name), NEW from, Valid(t, from) \/ from = Start(t),
         Left(t, name, from) # {}
  PROVE  FoundAt(t, name, from, Nearest(Left(t, name, from), ~t.nextdir))
<1> DEFINE S == Left(t, name, from)
           n == Len(t.items)
           p == Nearest(S, ~t.nextdir)
           d == After(t, p)
<1>1. /\ n \in Nat /\ S \in SUBSET (1 .. n) /\ t.nextdir \in BOOLEAN
      /\ Places(t, name) \in SUBSET (1 .. n)
  BY PlacesAre
<1>2. Extreme(S, p, ~t.nextdir)
  BY <1>1, NearestIs
<1>3. p \in 1 .. n /\ p # 0 /\ p \in S /\ p \in Places(t, name) /\ p \in Remaining(t, from)
  <2>1. p \in S
    BY <1>2 DEF Extreme
  <2>2. QED
    BY <1>1, <2>1, SMT DEF Left
<1>4. from \in Nat
  BY <1>1, SMT DEF Valid, Start
<1> HIDE DEF p
<1>5. Valid(t, d)
  BY <1>1, <1>3, SMT DEF Valid, After
<1>6. Left(t, name, d) = S \ {p}
  <2>1. CASE t.nextdir
    <3>1. Remaining(t, d) = 1 .. p - 1 /\ Remaining(t, from) = 1 .. from /\ p <= from
      BY <1>3, <2>1, SMT DEF Remaining, After
    <3>2. \A x \in S : x \in 1 .. n /\ p >= x
      BY <1>1, <1>2, <2>1 DEF Extreme
    <3>3. \A x \in S : x # p => x \in 1 .. p - 1
      BY <1>1, <1>3, <3>2, SMT
    <3>4. \A x \in 1 .. p - 1 : x \in 1 .. from /\ x # p
      BY <1>1, <1>3, <1>4, <3>1, SMT
    <3>5. QED
      BY <3>1, <3>3, <3>4 DEF Left
  <2>2. CASE ~t.nextdir
    <3>1. Remaining(t, d) = p + 1 .. n /\ Remaining(t, from) = from .. n /\ from <= p
      BY <1>3, <2>2, SMT DEF Remaining, After
    <3>2. \A x \in S : x \in 1 .. n /\ p <= x
      BY <1>1, <1>2, <2>2 DEF Extreme
    <3>3. \A x \in S : x # p => x \in p + 1 .. n
      BY <1>1, <1>3, <3>2, SMT
    <3>4. \A x \in p + 1 .. n : x \in from .. n /\ x # p
      BY <1>1, <1>3, <1>4, <3>1, SMT
    <3>5. QED
      BY <3>1, <3>3, <3>4 DEF Left
  <2>3. QED
    BY <2>1, <2>2
<1>7. Onward(t, name, d)
  <2>1. SUFFICES ASSUME NEW r \in Places(t, name), r \in Remaining(t, d), name # {}, t.sortflag # 0,
                        NEW q \in Remaining(t, d), IF t.nextdir THEN q > r ELSE q < r
                 PROVE  q \in Places(t, name)
    BY DEF Onward, Left, Ahead
  <2>2. PICK x : name = {x}
    BY <2>1 DEF WalkName
  <2>3. \A y \in 1 .. n : y \in Places(t, name) <=> NameMatch(t, t.items[y], x)
    BY <2>2 DEF Places
  <2>4. r \in 1 .. n /\ NameMatch(t, t.items[r], x) /\ NameMatch(t, t.items[p], x)
    BY <1>1, <1>3, <2>1, <2>3
  <2>5. CASE t.nextdir
    <3>1. q \in 1 .. n /\ r < q /\ q < p
      BY <1>1, <1>3, <2>1, <2>4, <2>5, SMT DEF Remaining, After
    <3>2. Like(t, t.items[r], t.items[p])
      BY <2>4, MatchLike
    <3>3. Like(t, t.items[r], t.items[q])
      BY <1>3, <2>1, <2>4, <3>1, <3>2 DEF Grouped
    <3>4. QED
      BY <2>3, <2>4, <3>1, <3>3, MatchLike
  <2>6. CASE ~t.nextdir
    <3>1. q \in 1 .. n /\ p < q /\ q < r
      BY <1>1, <1>3, <2>1, <2>4, <2>6, SMT DEF Remaining, After
    <3>2. Like(t, t.items[p], t.items[r])
      BY <2>4, MatchLike
    <3>3. Like(t, t.items[p], t.items[q])
      BY <1>3, <2>1, <2>4, <3>1, <3>2 DEF Grouped
    <3>4. QED
      BY <2>3, <2>4, <3>1, <3>3, MatchLike
  <2>7. QED
    BY <2>5, <2>6
<1>8. QED
  BY <1>2, <1>3, <1>5, <1>6, <1>7 DEF FoundAt, p

\* A function may be defined by what it is at 0 and how it goes on.
Unfolds(g, a, h, n) == g[0] = a /\ \A i \in 1 .. n : g[i] = h[<<g[i - 1], i>>]

LEMMA Recursive ==
  ASSUME NEW N \in Nat, NEW X, NEW a \in X, NEW h \in [X \X (1 .. N) -> X]
  PROVE  \E g \in [0 .. N -> X] : Unfolds(g, a, h, N)
<1> DEFINE T == {n \in Nat : n <= N => \E g \in [0 .. n -> X] : Unfolds(g, a, h, n)}
<1>1. 0 \in T
  <2> DEFINE g == [i \in 0 .. 0 |-> a]
  <2>1. g \in [0 .. 0 -> X] /\ g[0] = a /\ 1 .. 0 = {}
    BY SMT
  <2>2. Unfolds(g, a, h, 0)
    BY <2>1 DEF Unfolds
  <2>3. QED
    BY <2>1, <2>2
<1>2. ASSUME NEW n \in Nat, n \in T PROVE n + 1 \in T
  <2>1. SUFFICES ASSUME n + 1 <= N PROVE \E g \in [0 .. n + 1 -> X] : Unfolds(g, a, h, n + 1)
    BY SMT
  <2>2. n <= N /\ n + 1 \in 1 .. N
    BY <2>1, SMT
  <2>3. PICK g \in [0 .. n -> X] : Unfolds(g, a, h, n)
    BY <1>2, <2>2
  <2> DEFINE r == [i \in 0 .. n + 1 |-> IF i = n + 1 THEN h[<<g[n], n + 1>>] ELSE g[i]]
  <2>4. n \in 0 .. n /\ \A i \in 0 .. n + 1 : i # n + 1 => i \in 0 .. n
    BY SMT
  <2>5. h[<<g[n], n + 1>>] \in X
    BY <2>2, <2>4
  <2>6. r \in [0 .. n + 1 -> X]
    BY <2>4, <2>5
  <2>7. r[0] = a
    <3>1. 0 \in 0 .. n + 1 /\ 0 # n + 1
      BY SMT
    <3>2. QED
      BY <2>3, <3>1 DEF Unfolds
  <2>8. ASSUME NEW i \in 1 .. n + 1 PROVE r[i] = h[<<r[i - 1], i>>]
    <3>1. i \in 0 .. n + 1 /\ i - 1 \in 0 .. n + 1 /\ i - 1 # n + 1 /\ (i = n + 1 => i - 1 = n) /\ (i # n + 1 => i \in 1 .. n)
      BY SMT
    <3>2. r[i - 1] = g[i - 1]
      BY <3>1
    <3>3. CASE i = n + 1
      BY <3>1, <3>2, <3>3
    <3>4. CASE i # n + 1
      <4>1. r[i] = g[i]
        BY <3>1, <3>4
      <4>2. QED
        BY <2>3, <3>1, <3>2, <3>4, <4>1 DEF Unfolds
    <3>5. QED
      BY <3>3, <3>4
  <2> HIDE DEF r
  <2>9. Unfolds(r, a, h, n + 1)
    BY <2>7, <2>8 DEF Unfolds
  <2>10. QED
    BY <2>6, <2>9
<1>3. Nat \subseteq T
  <2> HIDE DEF T
  <2>1. QED
    BY <1>1, <1>2, NumberInduction
<1>4. N \in T /\ N <= N
  BY <1>3, SMT
<1>5. QED
  BY <1>4

-----------------------------------------------------------------------------
(* qlisttbl: getmulti and remove *)

\* All the places, as a sequence.
AllPlaces(t) == [i \in 1 .. Len(t.items) |-> i]

\* One turn of the loop of getmulti.
Next1(t, name, s) ==
  LET from == IF s = <<>> THEN 0 ELSE After(t, Last(s))
      p == IF s # <<>> /\ AtEnd(t, from) THEN 0
           ELSE NextPlace(t, [name |-> {name}, from |-> from])
  IN IF p = 0 THEN s ELSE Append(s, p)

\* Where it goes on, and what it has found: what was found and what is left are all.
GoesFrom(t, s) == IF s = <<>> THEN Start(t) ELSE After(t, Last(s))
FoundSo(t, name, s, n) ==
  /\ s \in Seq(1 .. Len(t.items))
  /\ s # <<>> => Valid(t, GoesFrom(t, s)) /\ Onward(t, {name}, GoesFrom(t, s))
  /\ Along(AllPlaces(t), Places(t, {name}), t.nextdir) =
       s \o Along(AllPlaces(t), Left(t, {name}, GoesFrom(t, s)), t.nextdir)
  /\ Len(s) = n \/ Left(t, {name}, GoesFrom(t, s)) = {}

LEMMA AllPlacesAre ==
  ASSUME NEW t \in ListTable
  PROVE  AllPlaces(t) \in Seq(1 .. Len(t.items)) /\ Len(AllPlaces(t)) = Len(t.items)
<1> DEFINE n == Len(t.items)
           a == [i \in 1 .. n |-> i]
<1>1. n \in Nat
  BY PlacesAre
<1> HIDE DEF n
<1>2. a \in Seq(1 .. n)
  BY <1>1, IsASeq
<1>3. Len(a) = n
  BY <1>1, <1>2, LenProperties
<1>4. QED
  BY <1>2, <1>3 DEF AllPlaces, n

\* A place that is 0 or one of the table.
LEMMA NextPlaceIn ==
  ASSUME NEW t \in ListTable, NEW w
  PROVE  NextPlace(t, w) \in 0 .. Len(t.items)
<1> DEFINE n == Len(t.items)
<1>1. n \in Nat /\ t.nextdir \in BOOLEAN /\ Places(t, w.name) \in SUBSET (1 .. n)
  BY PlacesAre
<1>2. ASSUME NEW start
      PROVE  Nearest(Ahead(t, w.name, start) \cap Places(t, w.name), ~t.nextdir) \in 0 .. n
  <2> DEFINE S == Ahead(t, w.name, start) \cap Places(t, w.name)
  <2>1. S \in SUBSET (1 .. n)
    BY <1>1
  <2>2. CASE S = {}
    <3>1. Nearest(S, ~t.nextdir) = 0
      BY <2>2 DEF Nearest
    <3>2. QED
      BY <1>1, <3>1, SMT
  <2>3. CASE S # {}
    <3>1. Extreme(S, Nearest(S, ~t.nextdir), ~t.nextdir)
      BY <1>1, <2>1, <2>3, NearestIs
    <3>2. Nearest(S, ~t.nextdir) \in 1 .. n
      BY <2>1, <3>1 DEF Extreme
    <3> HIDE DEF S
    <3>3. QED
      BY <1>1, <3>2, SMT DEF S
  <2>4. QED
    BY <2>2, <2>3
<1>3. 0 \in 0 .. n
  BY <1>1, SMT
<1>4. QED
  BY <1>2, <1>3 DEF NextPlace

LEMMA AppendAlong ==
  ASSUME NEW E, NEW s \in Seq(E), NEW x \in E, NEW r \in Seq(E)
  PROVE  s \o (<<x>> \o r) = Append(s, x) \o r
<1>1. <<x>> \in Seq(E)
  BY SMT
<1>2. Append(s, x) = s \o <<x>>
  BY AppendIsConcat
<1>3. QED
  BY <1>1, <1>2, ConcatAssociative

LEMMA NothingAlong ==
  ASSUME NEW E, NEW u \in Seq(E), NEW back \in BOOLEAN
  PROVE  Along(u, {}, back) = <<>>
<1>1. {} \in SUBSET (1 .. Len(u)) /\ Cardinality({}) = 0
  BY FS_EmptySet
<1>2. Along(u, {}, back) \in Seq(E) /\ Len(Along(u, {}, back)) = 0
  BY <1>1, AlongIs
<1>3. QED
  BY <1>2, EmptySeq

\* A turn finds the next one, if there is one.
LEMMA TurnFinds ==
  ASSUME NEW t \in ListTable, Grouped(t), NEW name, NEW n \in Nat, NEW s, FoundSo(t, name, s, n)
  PROVE  FoundSo(t, name, Next1(t, name, s), n + 1)
<1> DEFINE P == 1 .. Len(t.items)
           all == AllPlaces(t)
           from == GoesFrom(t, s)
           L == Left(t, {name}, from)
           w == [name |-> {name}, from |-> IF s = <<>> THEN 0 ELSE from]
           p == IF s # <<>> /\ AtEnd(t, from) THEN 0 ELSE NextPlace(t, w)
           whole == Along(all, Places(t, {name}), t.nextdir)
<1>1. /\ s \in Seq(P) /\ (s # <<>> => Valid(t, from) /\ Onward(t, {name}, from))
      /\ whole = s \o Along(all, L, t.nextdir)
      /\ Len(s) = n \/ L = {}
  BY DEF FoundSo
<1>2. /\ Len(t.items) \in Nat /\ t.nextdir \in BOOLEAN /\ Places(t, {name}) \in SUBSET P /\ L \in SUBSET P
      /\ Remaining(t, Start(t)) = P
  BY PlacesAre
<1>3. all \in Seq(P) /\ Len(all) = Len(t.items) /\ \A i \in P : all[i] = i
  BY AllPlacesAre DEF AllPlaces
<1>4. Next1(t, name, s) = IF p = 0 THEN s ELSE Append(s, p)
  BY DEF Next1, GoesFrom
<1>5. WalkName({name})
  BY DEF WalkName
<1>6. p = Nearest(L, ~t.nextdir)
  <2>1. CASE s = <<>>
    <3>1. w.from = 0 /\ w.name = {name}
      BY <2>1
    <3>2. NextPlace(t, w) = Nearest(Places(t, {name}), ~t.nextdir)
      BY <1>5, <3>1, NextFirst
    <3>3. L = Places(t, {name})
      BY <1>2, <2>1 DEF Left, GoesFrom
    <3>4. QED
      BY <2>1, <3>2, <3>3
  <2>2. CASE s # <<>> /\ AtEnd(t, from)
    BY <1>1, <2>2, NoneLeft DEF Nearest
  <2>3. CASE s # <<>> /\ ~AtEnd(t, from)
    <3>1. w.from = from /\ w.name = {name}
      BY <2>3
    <3>2. from # 0
      BY <1>2, <2>3, SMT DEF AtEnd
    <3>3. NextPlace(t, w) = Nearest(L, ~t.nextdir)
      BY <1>1, <2>3, <3>1, <3>2, NextFrom
    <3>4. QED
      BY <2>3, <3>3
  <2>4. QED
    BY <2>1, <2>2, <2>3
<1> HIDE DEF p
<1>7. CASE L = {}
  <2>1. p = 0
    BY <1>6, <1>7 DEF Nearest
  <2>2. Next1(t, name, s) = s
    BY <1>4, <2>1
  <2>3. QED
    BY <1>1, <1>7, <2>2 DEF FoundSo
<1>8. CASE L # {}
  <2>1. FoundAt(t, {name}, from, p)
    <3>1. Valid(t, from) \/ from = Start(t)
      BY <1>1 DEF GoesFrom
    <3>2. QED
      BY <1>5, <1>6, <1>8, <3>1, GoesOn
  <2>2. /\ p \in P /\ p # 0 /\ Extreme(L, p, ~t.nextdir)
        /\ Valid(t, After(t, p)) /\ Onward(t, {name}, After(t, p))
        /\ Left(t, {name}, After(t, p)) = L \ {p}
    BY <2>1 DEF FoundAt
  <2> DEFINE s2 == Append(s, p)
  <2>3. Next1(t, name, s) = s2
    BY <1>4, <2>2
  <2>4. s2 \in Seq(P) /\ Len(s2) = Len(s) + 1 /\ s2[Len(s2)] = p /\ s2 # <<>>
    <3>1. s2 \in Seq(P) /\ Len(s2) = Len(s) + 1 /\ s2[Len(s) + 1] = p
      BY <1>1, <2>2, AppendProperties
    <3>2. Len(s2) # 0
      BY <1>1, <3>1, LenProperties, SMT
    <3> HIDE DEF s2
    <3>3. QED
      BY <3>1, <3>2, EmptySeq
  <2> HIDE DEF s2
  <2>5. GoesFrom(t, s2) = After(t, p)
    BY <2>4 DEF GoesFrom, Last
  <2>6. Along(all, L, t.nextdir) = <<p>> \o Along(all, L \ {p}, t.nextdir)
    <3>1. all[p] = p
      BY <1>3, <2>2
    <3>2. L \in SUBSET (1 .. Len(all))
      BY <1>2, <1>3
    <3>3. Along(all, L, t.nextdir) = <<all[p]>> \o Along(all, L \ {p}, t.nextdir)
      <4> HIDE DEF all, L, P
      <4>1. t.nextdir \in BOOLEAN /\ all \in Seq(P) /\ Extreme(L, p, ~t.nextdir)
        BY <1>2, <1>3, <2>2
      <4>2. Peeled(all, L, t.nextdir, p)
        BY <3>2, <4>1, Peel
      <4>3. QED
        BY <4>2 DEF Peeled
    <3>4. QED
      BY <3>1, <3>3
  <2>7. Along(all, L \ {p}, t.nextdir) \in Seq(P)
    <3>1. L \ {p} \in SUBSET (1 .. Len(all))
      BY <1>2, <1>3
    <3>2. QED
      BY <1>2, <1>3, <3>1, AlongIs
  <2>8. whole = s2 \o Along(all, L \ {p}, t.nextdir)
    <3> DEFINE r == Along(all, L \ {p}, t.nextdir)
    <3>1. r \in Seq(P) /\ s \in Seq(P) /\ p \in P
      BY <1>1, <2>2, <2>7
    <3>2. whole = s \o (<<p>> \o r)
      BY <1>1, <2>6
    <3> HIDE DEF r, P, whole
    <3>3. s \o (<<p>> \o r) = Append(s, p) \o r
      BY <3>1, AppendAlong
    <3>4. QED
      BY <3>2, <3>3 DEF s2, r
  <2>9. Len(s2) = n + 1
    BY <1>1, <1>8, <2>4
  <2>10. FoundSo(t, name, s2, n + 1)
    BY <2>2, <2>4, <2>5, <2>8, <2>9 DEF FoundSo
  <2>11. QED
    BY <2>3, <2>10
<1>9. QED
  BY <1>7, <1>8

\* getmulti finds all the elements of a name, in the order of a walk.
LEMMA MultiIs ==
  ASSUME NEW t \in ListTable, Grouped(t), NEW name
  PROVE  Multi(t, name) = Along(AllPlaces(t), Places(t, {name}), t.nextdir)
<1> DEFINE N == Len(t.items)
           P == 1 .. N
           X == Seq(P)
           all == AllPlaces(t)
           h == [y \in X \X (1 .. N) |-> Next1(t, name, y[1])]
           F(f) == [n \in 0 .. N |->
                      IF n = 0 THEN <<>>
                      ELSE LET s == f[n - 1]
                               from == IF s = <<>> THEN 0 ELSE After(t, Last(s))
                               p == IF s # <<>> /\ AtEnd(t, from) THEN 0
                                    ELSE NextPlace(t, [name |-> {name}, from |-> from])
                           IN IF p = 0 THEN s ELSE Append(s, p)]
           G(f) == [n \in 0 .. N |-> IF n = 0 THEN <<>> ELSE Next1(t, name, f[n - 1])]
           at == CHOOSE f : f = F(f)
<1>1. N \in Nat /\ t.nextdir \in BOOLEAN /\ Places(t, {name}) \in SUBSET P /\ Remaining(t, Start(t)) = P
  BY PlacesAre
<1>2. \A f : F(f) = G(f)
  BY DEF Next1
<1>3. Multi(t, name) = at[N]
  BY DEF Multi
<1>4. h \in [X \X (1 .. N) -> X]
  <2>1. ASSUME NEW s \in X PROVE Next1(t, name, s) \in X
    <3> DEFINE from == IF s = <<>> THEN 0 ELSE After(t, Last(s))
               p == IF s # <<>> /\ AtEnd(t, from) THEN 0
                    ELSE NextPlace(t, [name |-> {name}, from |-> from])
    <3>1. Next1(t, name, s) = IF p = 0 THEN s ELSE Append(s, p)
      BY DEF Next1
    <3>2. p \in 0 .. N
      <4>1. 0 \in 0 .. N
        BY <1>1, SMT
      <4>2. QED
        BY <4>1, NextPlaceIn
    <3> HIDE DEF p, from
    <3>3. p # 0 => p \in P
      BY <1>1, <3>2, SMT
    <3>4. QED
      <4>1. p # 0 => Append(s, p) \in Seq(P)
        <5> HIDE DEF P
        <5>1. QED
          BY <2>1, <3>3, AppendProperties
      <4>2. QED
        BY <2>1, <3>1, <4>1
  <2>2. QED
    BY <2>1
<1>5. <<>> \in X
  BY EmptySeq
<1>6. PICK g \in [0 .. N -> X] : Unfolds(g, <<>>, h, N)
  <2> HIDE DEF X, h
  <2>1. QED
    BY <1>1, <1>4, <1>5, Recursive
<1>7. g = G(g)
  <2>1. ASSUME NEW n \in 0 .. N PROVE g[n] = IF n = 0 THEN <<>> ELSE Next1(t, name, g[n - 1])
    <3>1. CASE n = 0
      BY <1>6, <3>1 DEF Unfolds
    <3>2. CASE n # 0
      <4>1. n \in 1 .. N /\ n - 1 \in 0 .. N
        BY <1>1, <3>2, SMT
      <4>2. g[n] = h[<<g[n - 1], n>>]
        BY <1>6, <4>1 DEF Unfolds
      <4>3. <<g[n - 1], n>> \in X \X (1 .. N)
        BY <4>1
      <4>4. QED
        BY <3>2, <4>2, <4>3
    <3>3. QED
      BY <3>1, <3>2
  <2>2. QED
    BY <2>1
<1>8. at = G(at)
  <2>1. at = F(at)
    <3>1. g = F(g)
      BY <1>2, <1>7
    <3> HIDE DEF F, G
    <3>2. QED
      BY <3>1
  <2> HIDE DEF F, G, at
  <2>2. QED
    BY <1>2, <2>1
<1> HIDE DEF at
<1>9. at[0] = <<>> /\ \A n \in 1 .. N : at[n] = Next1(t, name, at[n - 1])
  <2>1. 0 \in 0 .. N /\ \A n \in 1 .. N : n \in 0 .. N /\ n # 0
    BY <1>1, SMT
  <2>2. QED
    BY <1>8, <2>1
<1> DEFINE T == {n \in Nat : n <= N => FoundSo(t, name, at[n], n)}
<1>10. 0 \in T
  <2>1. Left(t, {name}, GoesFrom(t, <<>>)) = Places(t, {name})
    BY <1>1 DEF Left, GoesFrom
  <2>2. Along(all, Places(t, {name}), t.nextdir) \in Seq(P)
    <3>1. all \in Seq(P) /\ Places(t, {name}) \in SUBSET (1 .. Len(all))
      BY <1>1, AllPlacesAre
    <3>2. QED
      BY <1>1, <3>1, AlongIs
  <2>3. Along(all, Places(t, {name}), t.nextdir) = <<>> \o Along(all, Places(t, {name}), t.nextdir)
    BY <2>2, ConcatEmptySeq
  <2>4. FoundSo(t, name, <<>>, 0)
    BY <1>5, <2>1, <2>3, EmptySeq DEF FoundSo
  <2>5. QED
    BY <1>9, <2>4
<1>11. ASSUME NEW n \in Nat, n \in T PROVE n + 1 \in T
  <2>1. SUFFICES ASSUME n + 1 <= N PROVE FoundSo(t, name, at[n + 1], n + 1)
    BY SMT
  <2>2. n <= N /\ n + 1 \in 1 .. N /\ (n + 1) - 1 = n
    BY <1>1, <2>1, SMT
  <2>3. FoundSo(t, name, at[n], n)
    BY <1>11, <2>2
  <2>4. at[n + 1] = Next1(t, name, at[n])
    BY <1>9, <2>2
  <2>5. QED
    BY <2>3, <2>4, TurnFinds
<1>12. Nat \subseteq T
  <2> HIDE DEF T
  <2>1. QED
    BY <1>10, <1>11, NumberInduction
<1> DEFINE s == at[N]
           L == Left(t, {name}, GoesFrom(t, s))
           whole == Along(all, Places(t, {name}), t.nextdir)
<1>13. s \in Seq(P) /\ whole = s \o Along(all, L, t.nextdir) /\ (Len(s) = N \/ L = {})
  <2>1. N \in T /\ N <= N
    BY <1>1, <1>12, SMT
  <2>2. FoundSo(t, name, s, N)
    BY <2>1
  <2>3. QED
    BY <2>2 DEF FoundSo
<1>14. all \in Seq(P) /\ Len(all) = N /\ L \in SUBSET P
  BY AllPlacesAre, PlacesAre
<1> DEFINE r == Along(all, L, t.nextdir)
<1>15. r \in Seq(P) /\ Len(r) = Cardinality(L) /\ Cardinality(L) \in Nat
  <2>1. L \in SUBSET (1 .. Len(all))
    BY <1>14
  <2>2. QED
    BY <1>1, <1>14, <2>1, AlongIs
<1>16. whole \in Seq(P) /\ Len(whole) <= N
  <2>1. Places(t, {name}) \in SUBSET (1 .. Len(all))
    BY <1>1, <1>14
  <2>2. whole \in Seq(P) /\ Len(whole) = Cardinality(Places(t, {name}))
    BY <1>1, <1>14, <2>1, AlongIs
  <2>3. QED
    BY <1>1, <2>2, PlacesFinite
<1> HIDE DEF s, L, whole
<1>17. r = <<>>
  <2>1. CASE L = {}
    BY <1>1, <1>14, <2>1, NothingAlong
  <2>2. CASE Len(s) = N
    <3>1. Len(whole) = Len(s) + Len(r)
      BY <1>13, <1>15, ConcatProperties
    <3> HIDE DEF r
    <3>2. Len(r) = 0
      BY <1>1, <1>15, <1>16, <2>2, <3>1, SMT
    <3>3. QED
      BY <1>15, <3>2, EmptySeq
  <2>3. QED
    BY <1>13, <2>1, <2>2
<1>18. whole = s
  BY <1>13, <1>17, ConcatEmptySeq
<1>19. QED
  BY <1>3, <1>18 DEF s, whole

\* So getmulti answers with the elements of the name in that order,
LEMMA GetMultiIs ==
  ASSUME NEW t \in ListTable, Grouped(t), NEW name
  PROVE  GetMulti(t, name) = InDirection(t, Matching(t, {name}))
<1> DEFINE S == Places(t, {name})
           n == Len(t.items)
           all == AllPlaces(t)
           c == Cardinality(S)
           back == t.nextdir
           q == Along(all, S, back)
           r == Along(t.items, S, back)
           g == GetMulti(t, name)
<1>1. n \in Nat /\ back \in BOOLEAN /\ S \in SUBSET (1 .. n) /\ t.items \in Seq(Entry)
  BY PlacesAre
<1>2. all \in Seq(1 .. n) /\ Len(all) = n /\ \A i \in 1 .. n : all[i] = i
  BY AllPlacesAre DEF AllPlaces
<1>3. q \in Seq(1 .. n) /\ Len(q) = c /\ IsAlong(q, all, S, back)
  <2>1. S \in SUBSET (1 .. Len(all))
    BY <1>1, <1>2
  <2>2. back \in BOOLEAN /\ all \in Seq(1 .. n)
    BY <1>1, <1>2
  <2> HIDE DEF all, S, n
  <2>3. QED
    BY <2>1, <2>2, AlongIs
<1>4. r \in Seq(Entry) /\ Len(r) = c /\ IsAlong(r, t.items, S, back) /\ c \in Nat
  BY <1>1, AlongIs
<1>5. g = [i \in 1 .. c |-> t.items[q[i]]]
  <2>1. Multi(t, name) = q
    BY MultiIs
  <2>2. QED
    BY <1>3, <2>1 DEF GetMulti, Pick
<1>6. InDirection(t, Matching(t, {name})) = r
  BY DEF InDirection, Matching, Along
<1>7. Ascending(S) \in [1 .. c -> S]
  BY <1>1, AscendingLists DEF Lists
<1> HIDE DEF c, q, r, all, S
<1>8. ASSUME NEW i \in 1 .. c PROVE t.items[q[i]] = r[i]
  <2>1. c - i + 1 \in 1 .. c
    BY <1>4, SMT
  <2>2. \A k \in 1 .. c : all[Ascending(S)[k]] = Ascending(S)[k]
    BY <1>1, <1>2, <1>7
  <2>3. CASE back
    <3>1. q[i] = all[Ascending(S)[c - i + 1]] /\ r[i] = t.items[Ascending(S)[c - i + 1]]
      BY <1>3, <1>4, <2>3 DEF IsAlong, c
    <3>2. QED
      BY <2>1, <2>2, <3>1
  <2>4. CASE ~back
    <3>1. q[i] = all[Ascending(S)[i]] /\ r[i] = t.items[Ascending(S)[i]]
      BY <1>3, <1>4, <2>4 DEF IsAlong, c
    <3>2. QED
      BY <2>2, <3>1
  <2>5. QED
    BY <2>3, <2>4
<1>9. \A i \in 1 .. c : r[i] \in Entry
  BY <1>4, LenProperties
<1>10. g \in Seq(Entry) /\ Len(g) = c
  <2>1. \A i \in 1 .. c : t.items[q[i]] \in Entry
    BY <1>8, <1>9
  <2> HIDE DEF g
  <2>2. g \in Seq(Entry)
    BY <1>4, <1>5, <2>1, IsASeq
  <2>3. DOMAIN g = 1 .. c
    BY <1>5
  <2>4. QED
    BY <1>4, <2>2, <2>3, LenProperties
<1>11. \A i \in 1 .. c : g[i] = r[i]
  BY <1>5, <1>8
<1>12. g = r
  <2> HIDE DEF g
  <2>1. QED
    BY <1>4, <1>10, <1>11, SeqEqual
<1>13. QED
  BY <1>6, <1>12

\* and remove takes just them.
LEMMA RemovedIs ==
  ASSUME NEW t \in ListTable, Grouped(t), NEW name
  PROVE  Removed(t, name) = [t EXCEPT !.items = ElementsAt(t.items, (1 .. Len(t.items)) \ Places(t, {name}))]
<1> DEFINE S == Places(t, {name})
           n == Len(t.items)
           all == AllPlaces(t)
           c == Cardinality(S)
           back == t.nextdir
           q == Along(all, S, back)
<1>1. n \in Nat /\ back \in BOOLEAN /\ S \in SUBSET (1 .. n) /\ t.items \in Seq(Entry)
  BY PlacesAre
<1>2. all \in Seq(1 .. n) /\ Len(all) = n /\ \A i \in 1 .. n : all[i] = i
  BY AllPlacesAre DEF AllPlaces
<1>3. q \in Seq(1 .. n) /\ Len(q) = c /\ IsAlong(q, all, S, back) /\ c \in Nat
  <2>1. S \in SUBSET (1 .. Len(all))
    BY <1>1, <1>2
  <2>2. back \in BOOLEAN /\ all \in Seq(1 .. n)
    BY <1>1, <1>2
  <2> HIDE DEF all, S, n
  <2>3. QED
    BY <2>1, <2>2, AlongIs
<1>4. Multi(t, name) = q
  BY MultiIs
<1>5. Ascending(S) \in [1 .. c -> S] /\ \A x \in S : \E i \in 1 .. c : Ascending(S)[i] = x
  <2>1. Lists(Ascending(S), S)
    BY <1>1, AscendingLists
  <2>2. Covers(Ascending(S), S)
    BY <1>1, <2>1, ListsAll
  <2>3. QED
    BY <2>1, <2>2 DEF Lists, Covers
<1> HIDE DEF c, q, all, S
<1>6. \A k \in 1 .. c : all[Ascending(S)[k]] = Ascending(S)[k] /\ c - k + 1 \in 1 .. c /\ c - (c - k + 1) + 1 = k
  <2>1. \A k \in 1 .. c : c - k + 1 \in 1 .. c /\ c - (c - k + 1) + 1 = k
    BY <1>3, SMT
  <2>2. QED
    BY <1>1, <1>2, <1>5, <2>1
<1>7. {q[i] : i \in 1 .. c} = S
  <2>1. CASE back
    <3>1. \A i \in 1 .. c : q[i] = Ascending(S)[c - i + 1]
      <4>1. \A i \in 1 .. c : q[i] = all[Ascending(S)[c - i + 1]]
        BY <1>3, <2>1 DEF IsAlong, c
      <4>2. QED
        BY <1>6, <4>1
    <3>2. \A x \in S : \E i \in 1 .. c : q[i] = x
      <4>1. SUFFICES ASSUME NEW x \in S PROVE \E i \in 1 .. c : q[i] = x
        OBVIOUS
      <4>2. PICK k \in 1 .. c : Ascending(S)[k] = x
        BY <1>5
      <4>3. q[c - k + 1] = Ascending(S)[c - (c - k + 1) + 1]
        BY <1>6, <3>1
      <4>4. QED
        BY <1>6, <4>2, <4>3
    <3>3. \A i \in 1 .. c : q[i] \in S
      BY <1>5, <1>6, <3>1
    <3>4. QED
      BY <3>2, <3>3
  <2>2. CASE ~back
    <3>1. \A i \in 1 .. c : q[i] = Ascending(S)[i]
      <4>1. \A i \in 1 .. c : q[i] = all[Ascending(S)[i]]
        BY <1>3, <2>2 DEF IsAlong, c
      <4>2. QED
        BY <1>6, <4>1
    <3>2. QED
      BY <1>5, <3>1
  <2>3. QED
    BY <2>1, <2>2
<1>8. ToSet(q) = S
  <2>1. DOMAIN q = 1 .. c
    BY <1>3, LenProperties
  <2>2. QED
    BY <1>7, <2>1 DEF ToSet
<1>9. Removed(t, name) = [t EXCEPT !.items = ElementsAt(t.items, (1 .. Len(t.items)) \ ToSet(Multi(t, name)))]
  BY DEF Removed
<1>10. QED
  BY <1>4, <1>8, <1>9 DEF S

-----------------------------------------------------------------------------
(* qlisttbl: elements of one name stay together *)

\* Each element of u is like one of t, and these do not change their order.
Follows(u, t, g) ==
  /\ u.lookupcase = t.lookupcase /\ (u.sortflag # 0 => t.sortflag # 0)
  /\ g \in [1 .. Len(u.items) -> 1 .. Len(t.items)]
  /\ \A i, j \in 1 .. Len(u.items) : i < j => g[i] <= g[j]
  /\ \A i \in 1 .. Len(u.items) : Like(t, u.items[i], t.items[g[i]])

\* What is compared depends on nothing else in the table.
LEMMA SameLike ==
  ASSUME NEW u, NEW t, u.lookupcase = t.lookupcase, NEW a, NEW b
  PROVE  Like(u, a, b) = Like(t, a, b)
BY DEF Like, NameMatch

LEMMA LikeIsEquivalence ==
  ASSUME NEW t, NEW a, NEW b, Like(t, a, b), NEW c
  PROVE  Like(t, a, a) /\ Like(t, b, a) /\ (Like(t, b, c) <=> Like(t, a, c)) /\ (Like(t, c, b) <=> Like(t, c, a))
BY DEF Like, NameMatch

LEMMA FollowsGrouped ==
  ASSUME NEW u \in ListTable, NEW t \in ListTable, Grouped(t), NEW g, Follows(u, t, g)
  PROVE  Grouped(u)
<1> DEFINE m == Len(u.items)
           n == Len(t.items)
<1>1. SUFFICES ASSUME u.sortflag # 0, NEW i \in 1 .. m, NEW j \in 1 .. m, NEW k \in 1 .. m, i < j, j < k,
                      Like(u, u.items[i], u.items[k])
               PROVE  Like(u, u.items[i], u.items[j])
  BY DEF Grouped
<1>2. i < k /\ m \in Nat /\ n \in Nat
  BY <1>1, PlacesAre, SMT
<1>3. g[i] \in 1 .. n /\ g[j] \in 1 .. n /\ g[k] \in 1 .. n /\ g[i] <= g[j] /\ g[j] <= g[k]
  BY <1>1 DEF Follows
<1>4. /\ Like(t, u.items[i], t.items[g[i]]) /\ Like(t, u.items[j], t.items[g[j]])
      /\ Like(t, u.items[k], t.items[g[k]])
  BY <1>1 DEF Follows
<1>5. Like(t, t.items[g[i]], t.items[g[k]])
  <2>1. Like(t, u.items[i], u.items[k])
    BY <1>1, SameLike DEF Follows
  <2>2. QED
    BY <1>4, <2>1, LikeIsEquivalence
<1>6. Like(t, t.items[g[i]], t.items[g[j]])
  <2>1. CASE g[i] = g[j]
    BY <1>4, <2>1, LikeIsEquivalence
  <2>2. CASE g[j] = g[k]
    BY <1>5, <2>2
  <2>3. CASE g[i] # g[j] /\ g[j] # g[k]
    <3>1. g[i] < g[j] /\ g[j] < g[k]
      BY <1>3, <2>3, SMT
    <3>2. QED
      BY <1>1, <1>3, <1>5, <3>1 DEF Grouped, Follows
  <2>4. QED
    BY <2>1, <2>2, <2>3
<1>7. Like(t, u.items[i], u.items[j])
  BY <1>4, <1>6, LikeIsEquivalence
<1>8. QED
  BY <1>7, SameLike DEF Follows

\* Taking elements out,
LEMMA KeptGrouped ==
  ASSUME NEW t \in ListTable, Grouped(t), NEW S \in SUBSET (1 .. Len(t.items))
  PROVE  LET u == [t EXCEPT !.items = ElementsAt(t.items, S)]
         IN  u \in ListTable /\ Grouped(u)
<1> DEFINE e == ElementsAt(t.items, S)
           c == Cardinality(S)
           n == Len(t.items)
           u == [t EXCEPT !.items = e]
<1>1. n \in Nat /\ t.items \in Seq(Entry)
  BY PlacesAre
<1>2. e \in Seq(Entry) /\ Len(e) = c /\ c \in Nat /\ e = [i \in 1 .. c |-> t.items[Ascending(S)[i]]]
  BY <1>1, ElementsAtAre
<1>3. Ascending(S) \in [1 .. c -> S] /\ \A i, j \in 1 .. c : i < j => Ascending(S)[i] < Ascending(S)[j]
  BY <1>1, AscendingLists DEF Lists
<1> HIDE DEF e, c
<1>4. u \in ListTable /\ u.items = e
  BY <1>2 DEF ListTable
<1>5. u.lookupcase = t.lookupcase /\ u.sortflag = t.sortflag
  BY DEF ListTable
<1> HIDE DEF u
<1>6. Follows(u, t, Ascending(S))
  <2>1. \A i \in 1 .. c : Like(t, u.items[i], t.items[Ascending(S)[i]])
    <3>1. \A i \in 1 .. c : u.items[i] = t.items[Ascending(S)[i]]
      BY <1>2, <1>4
    <3>2. \A x : Like(t, x, x)
      BY DEF Like, NameMatch
    <3>3. QED
      BY <3>1, <3>2
  <2>2. \A i, j \in 1 .. c : i < j => Ascending(S)[i] <= Ascending(S)[j]
    <3>1. \A i \in 1 .. c : Ascending(S)[i] \in Nat
      <4>1. S \subseteq Nat
        BY <1>1, SMT
      <4>2. QED
        BY <1>3, <4>1
    <3>2. \A x, y \in Nat : x < y => x <= y
      BY SMT
    <3>3. QED
      BY <1>3, <3>1, <3>2
  <2>3. Ascending(S) \in [1 .. c -> 1 .. n]
    BY <1>3
  <2>4. QED
    BY <1>2, <1>4, <1>5, <2>1, <2>2, <2>3 DEF Follows
<1>7. Grouped(u)
  BY <1>4, <1>6, FollowsGrouped
<1>8. QED
  BY <1>4, <1>7 DEF u, e

\* putting one in next to its like, or at an end when it has none,
PlaceOK(t, o, p) ==
  /\ p \in 1 .. Len(t.items) + 1
  /\ t.sortflag # 0 =>
       \/ p \in 1 .. Len(t.items) /\ Like(t, t.items[p], o)
       \/ p - 1 \in 1 .. Len(t.items) /\ Like(t, t.items[p - 1], o)
       \/ (p = 1 \/ p = Len(t.items) + 1) /\ \A i \in 1 .. Len(t.items) : ~Like(t, t.items[i], o)

LEMMA PlaceForIs ==
  ASSUME NEW t \in ListTable, NEW o \in Entry, NEW first \in BOOLEAN
  PROVE  PlaceOK(t, o, PlaceFor(t, o.name, first))
<1> DEFINE S == Places(t, {o.name})
           n == Len(t.items)
           m == FindObj(t, o.name, first)
           p == PlaceFor(t, o.name, first)
<1>1. n \in Nat /\ S \in SUBSET (1 .. n)
  BY PlacesAre
<1>2. m = Nearest(S, first)
  BY DEF FindObj
<1>3. \A i \in 1 .. n : i \in S <=> Like(t, t.items[i], o)
  BY DEF Places, Like
<1>4. CASE S = {}
  <2>1. m = 0
    BY <1>2, <1>4 DEF Nearest
  <2>2. p = 1 \/ p = n + 1
    BY <2>1 DEF PlaceFor
  <2>3. p \in 1 .. n + 1
    BY <1>1, <2>2, SMT
  <2>4. QED
    BY <1>3, <1>4, <2>2, <2>3 DEF PlaceOK
<1>5. CASE S # {}
  <2>1. Extreme(S, m, first)
    BY <1>1, <1>2, <1>5, NearestIs
  <2>2. m \in S /\ m \in 1 .. n
    BY <1>1, <2>1 DEF Extreme
  <2>3. m # 0 /\ m \in 1 .. n + 1 /\ m + 1 \in 1 .. n + 1 /\ (m + 1) - 1 = m /\ 1 \in 1 .. n + 1 /\ n + 1 \in 1 .. n + 1
    BY <1>1, <2>2, SMT
  <2>4. CASE t.sortflag = 0
    <3>1. p = 1 \/ p = n + 1
      BY <2>4 DEF PlaceFor
    <3>2. QED
      BY <2>3, <2>4, <3>1 DEF PlaceOK
  <2>5. CASE t.sortflag # 0
    <3>1. p = IF first THEN m ELSE m + 1
      BY <2>3, <2>5 DEF PlaceFor
    <3>2. CASE first
      BY <1>3, <2>2, <2>3, <3>1, <3>2 DEF PlaceOK
    <3>3. CASE ~first
      BY <1>3, <2>2, <2>3, <3>1, <3>3 DEF PlaceOK
    <3>4. QED
      BY <3>2, <3>3
  <2>6. QED
    BY <2>4, <2>5
<1>6. QED
  BY <1>4, <1>5

\* What is inserted, where, and what else is there.
InsertedAt(u, t, o, p) ==
  /\ u \in ListTable /\ Len(u.items) = Len(t.items) + 1
  /\ With(u.items, t.items, p, o)
  /\ u.lookupcase = t.lookupcase /\ u.sortflag = t.sortflag /\ u.putdir = t.putdir
  /\ u.getdir = t.getdir /\ u.nextdir = t.nextdir

LEMMA InsertedIs ==
  ASSUME NEW t \in ListTable, NEW o \in Entry, NEW first \in BOOLEAN
  PROVE  InsertedAt(Inserted(t, o, first), t, o, PlaceFor(t, o.name, first))
<1> DEFINE p == PlaceFor(t, o.name, first)
           r == InsertAt(t.items, p, o)
           u == Inserted(t, o, first)
<1>1. t.items \in Seq(Entry)
  BY DEF ListTable
<1>2. p \in 1 .. Len(t.items) + 1
  BY PlaceForIs DEF PlaceOK
<1> HIDE DEF p
<1>3. r \in Seq(Entry) /\ Len(r) = Len(t.items) + 1 /\ With(r, t.items, p, o)
  BY <1>1, <1>2, InsertFacts
<1>4. u = [t EXCEPT !.items = r]
  BY DEF Inserted, p
<1> HIDE DEF r, u
<1>5. /\ u \in ListTable /\ u.items = r
      /\ u.lookupcase = t.lookupcase /\ u.sortflag = t.sortflag /\ u.putdir = t.putdir
      /\ u.getdir = t.getdir /\ u.nextdir = t.nextdir
  BY <1>3, <1>4 DEF ListTable
<1>6. QED
  BY <1>3, <1>5 DEF InsertedAt, p, u

LEMMA InsertedGrouped ==
  ASSUME NEW t \in ListTable, Grouped(t), NEW o \in Entry, NEW u, NEW p, InsertedAt(u, t, o, p), PlaceOK(t, o, p)
  PROVE  Grouped(u)
<1> DEFINE n == Len(t.items)
<1>1. n \in Nat
  BY PlacesAre
<1>2. /\ u \in ListTable /\ Len(u.items) = n + 1 /\ u.lookupcase = t.lookupcase /\ u.sortflag = t.sortflag
      /\ \A k \in 1 .. n + 1 : u.items[k] = IF k < p THEN t.items[k] ELSE IF k = p THEN o ELSE t.items[k - 1]
  BY DEF InsertedAt, With
<1>3. p \in 1 .. n + 1
  BY DEF PlaceOK
<1> HIDE DEF n
<1>4. \A k \in 1 .. n + 1 : (k < p => k \in 1 .. n) /\ (~(k < p) /\ k # p => k - 1 \in 1 .. n)
  BY <1>1, <1>3, SMT
<1>5. CASE u.sortflag = 0
  BY <1>5 DEF Grouped
<1>6. ASSUME NEW m \in 1 .. n, m = p \/ m = p - 1, Like(t, t.items[m], o) PROVE Grouped(u)
  <2> DEFINE g == [k \in 1 .. n + 1 |-> IF k < p THEN k ELSE IF k = p THEN m ELSE k - 1]
  <2>1. g \in [1 .. n + 1 -> 1 .. n]
    BY <1>4
  <2>2. \A i, j \in 1 .. n + 1 : i < j => g[i] <= g[j]
    <3>1. \A i, j \in 1 .. n + 1 : i < j =>
            (IF i < p THEN i ELSE IF i = p THEN m ELSE i - 1) <= (IF j < p THEN j ELSE IF j = p THEN m ELSE j - 1)
      BY <1>1, <1>3, <1>6, SMT
    <3>2. QED
      BY <3>1
  <2>3. ASSUME NEW i \in 1 .. n + 1 PROVE Like(t, u.items[i], t.items[g[i]])
    <3>1. CASE i = p
      <4>1. u.items[i] = o /\ g[i] = m
        BY <1>2, <1>3, <3>1
      <4>2. QED
        BY <1>6, <4>1, LikeIsEquivalence
    <3>2. CASE i # p
      <4>1. u.items[i] = t.items[g[i]]
        BY <1>2, <3>2
      <4>2. QED
        BY <4>1 DEF Like, NameMatch
    <3>3. QED
      BY <3>1, <3>2
  <2> HIDE DEF g
  <2>4. Follows(u, t, g)
    BY <1>2, <2>1, <2>2, <2>3 DEF Follows, n
  <2>5. QED
    BY <1>2, <2>4, FollowsGrouped
<1>7. ASSUME p = 1 \/ p = n + 1, \A i \in 1 .. n : ~Like(t, t.items[i], o) PROVE Grouped(u)
  <2>1. SUFFICES ASSUME u.sortflag # 0, NEW i \in 1 .. n + 1, NEW j \in 1 .. n + 1, NEW k \in 1 .. n + 1, i < j, j < k,
                        Like(u, u.items[i], u.items[k])
                 PROVE  Like(u, u.items[i], u.items[j])
    BY <1>2 DEF Grouped
  <2>2. Like(t, u.items[i], u.items[k])
    BY <1>2, <2>1, SameLike
  <2>3. CASE p = 1
    <3>1. ~(i < p) /\ ~(j < p) /\ j # p /\ ~(k < p) /\ k # p
      BY <1>1, <2>1, <2>3, SMT
    <3>2. u.items[j] = t.items[j - 1] /\ u.items[k] = t.items[k - 1] /\ j - 1 \in 1 .. n /\ k - 1 \in 1 .. n
      BY <1>2, <1>4, <3>1
    <3>3. i # p
      <4>1. SUFFICES ASSUME i = p PROVE FALSE
        OBVIOUS
      <4>2. u.items[i] = o
        BY <1>2, <3>1, <4>1
      <4>3. Like(t, t.items[k - 1], o)
        BY <2>2, <3>2, <4>2, LikeIsEquivalence
      <4>4. QED
        BY <1>7, <3>2, <4>3
    <3>4. u.items[i] = t.items[i - 1] /\ i - 1 \in 1 .. n
      BY <1>2, <1>4, <3>1, <3>3
    <3>5. i - 1 < j - 1 /\ j - 1 < k - 1
      BY <2>1, SMT
    <3>6. Like(t, t.items[i - 1], t.items[j - 1])
      BY <1>2, <2>1, <2>2, <3>2, <3>4, <3>5 DEF Grouped, n
    <3>7. QED
      BY <1>2, <3>2, <3>4, <3>6, SameLike
  <2>4. CASE p = n + 1
    <3>1. i < p /\ j < p
      BY <1>1, <2>1, <2>4, SMT
    <3>2. u.items[i] = t.items[i] /\ u.items[j] = t.items[j] /\ i \in 1 .. n /\ j \in 1 .. n
      BY <1>2, <1>4, <3>1
    <3>3. k < p
      <4>1. SUFFICES ASSUME k = p PROVE FALSE
        BY <1>1, <2>4, SMT
      <4>2. u.items[k] = o
        BY <1>2, <4>1, SMT
      <4>3. Like(t, t.items[i], o)
        BY <2>2, <3>2, <4>2
      <4>4. QED
        BY <1>7, <3>2, <4>3
    <3>4. u.items[k] = t.items[k] /\ k \in 1 .. n
      BY <1>2, <1>4, <3>3
    <3>5. Like(t, t.items[i], t.items[j])
      BY <1>2, <2>1, <2>2, <3>2, <3>4 DEF Grouped, n
    <3>6. QED
      BY <1>2, <3>2, <3>5, SameLike
  <2>5. QED
    BY <1>7, <2>3, <2>4
<1>8. CASE u.sortflag # 0
  <2>1. \/ p \in 1 .. n /\ Like(t, t.items[p], o)
        \/ p - 1 \in 1 .. n /\ Like(t, t.items[p - 1], o)
        \/ (p = 1 \/ p = n + 1) /\ \A i \in 1 .. n : ~Like(t, t.items[i], o)
    BY <1>2, <1>8 DEF PlaceOK, n
  <2>2. QED
    BY <1>6, <1>7, <2>1
<1>9. QED
  BY <1>5, <1>8

\* turning them round,
LEMMA ReverseIs ==
  ASSUME NEW s \in Seq(Entry)
  PROVE  /\ Reverse(s) \in Seq(Entry) /\ Len(Reverse(s)) = Len(s)
         /\ \A i \in 1 .. Len(s) : Reverse(s)[i] = s[Len(s) - i + 1]
<1> DEFINE n == Len(s)
           r == [i \in 1 .. n |-> s[n - i + 1]]
<1>1. n \in Nat /\ \A i \in 1 .. n : s[i] \in Entry
  BY LenProperties
<1> HIDE DEF n
<1>2. \A i \in 1 .. n : n - i + 1 \in 1 .. n
  BY <1>1, SMT
<1>3. r \in Seq(Entry)
  BY <1>1, <1>2, IsASeq
<1>4. Len(r) = n
  BY <1>1, <1>3, LenProperties
<1>5. Reverse(s) = r
  BY DEF Reverse, n
<1>6. QED
  BY <1>3, <1>4, <1>5 DEF n

LEMMA TurnedGrouped ==
  ASSUME NEW t \in ListTable, Grouped(t), NEW flag \in 0 .. 2, t.sortflag = 0 => flag = 0
  PROVE  LET u == [t EXCEPT !.items = Reverse(t.items), !.sortflag = flag]
         IN  u \in ListTable /\ Grouped(u)
<1> DEFINE r == Reverse(t.items)
           n == Len(t.items)
           u == [t EXCEPT !.items = r, !.sortflag = flag]
<1>1. n \in Nat /\ t.items \in Seq(Entry)
  BY PlacesAre
<1>2. r \in Seq(Entry) /\ Len(r) = n /\ \A i \in 1 .. n : r[i] = t.items[n - i + 1]
  BY <1>1, ReverseIs
<1> HIDE DEF r
<1>3. u \in ListTable /\ u.items = r /\ u.lookupcase = t.lookupcase /\ u.sortflag = flag
  BY <1>2 DEF ListTable
<1> HIDE DEF u, n
<1>4. Grouped(u)
  <2>1. SUFFICES ASSUME flag # 0, NEW i \in 1 .. n, NEW j \in 1 .. n, NEW k \in 1 .. n, i < j, j < k,
                        Like(u, u.items[i], u.items[k])
                 PROVE  Like(u, u.items[i], u.items[j])
    BY <1>2, <1>3 DEF Grouped
  <2>2. /\ n - i + 1 \in 1 .. n /\ n - j + 1 \in 1 .. n /\ n - k + 1 \in 1 .. n
        /\ n - k + 1 < n - j + 1 /\ n - j + 1 < n - i + 1
    BY <1>1, <2>1, SMT
  <2>3. /\ u.items[i] = t.items[n - i + 1] /\ u.items[j] = t.items[n - j + 1]
        /\ u.items[k] = t.items[n - k + 1]
    BY <1>2, <1>3
  <2>4. Like(t, t.items[n - k + 1], t.items[n - i + 1])
    <3>1. Like(t, u.items[i], u.items[k])
      BY <1>3, <2>1, SameLike
    <3>2. QED
      BY <2>3, <3>1, LikeIsEquivalence
  <2>5. Like(t, t.items[n - k + 1], t.items[n - j + 1])
    BY <2>1, <2>2, <2>4 DEF Grouped, n
  <2>6. Like(t, t.items[n - i + 1], t.items[n - j + 1])
    BY <2>4, <2>5, LikeIsEquivalence
  <2>7. QED
    BY <1>3, <2>3, <2>6, SameLike
<1>5. QED
  BY <1>3, <1>4 DEF u, r

\* or taking one.
LEMMA OneOutGrouped ==
  ASSUME NEW t \in ListTable, Grouped(t), NEW p \in 1 .. Len(t.items)
  PROVE  LET u == [t EXCEPT !.items = RemoveAt(t.items, p)]
         IN  u \in ListTable /\ Grouped(u)
<1> DEFINE r == RemoveAt(t.items, p)
           n == Len(t.items)
           u == [t EXCEPT !.items = r]
           g == [i \in 1 .. n - 1 |-> IF i < p THEN i ELSE i + 1]
<1>1. n \in Nat /\ t.items \in Seq(Entry)
  BY PlacesAre
<1>2. r \in Seq(Entry) /\ Len(r) = n - 1 /\ \A i \in 1 .. n - 1 : r[i] = IF i < p THEN t.items[i] ELSE t.items[i + 1]
  BY <1>1, RemoveFacts
<1> HIDE DEF r
<1>3. u \in ListTable /\ u.items = r /\ u.lookupcase = t.lookupcase /\ u.sortflag = t.sortflag
  BY <1>2 DEF ListTable
<1> HIDE DEF u, n
<1>4. p \in 1 .. n
  BY DEF n
<1>5. g \in [1 .. n - 1 -> 1 .. n]
  <2>1. \A i \in 1 .. n - 1 : i \in 1 .. n /\ i + 1 \in 1 .. n
    BY <1>1, SMT
  <2>2. QED
    BY <2>1
<1>6. \A i, j \in 1 .. n - 1 : i < j => g[i] <= g[j]
  <2>1. \A i, j \in 1 .. n - 1 : i < j => (IF i < p THEN i ELSE i + 1) <= (IF j < p THEN j ELSE j + 1)
    BY <1>1, <1>4, SMT
  <2>2. QED
    BY <2>1
<1>7. ASSUME NEW i \in 1 .. n - 1 PROVE Like(t, u.items[i], t.items[g[i]])
  <2>1. u.items[i] = t.items[g[i]]
    BY <1>2, <1>3
  <2>2. QED
    BY <2>1 DEF Like, NameMatch
<1> HIDE DEF g
<1>8. Follows(u, t, g)
  BY <1>2, <1>3, <1>5, <1>6, <1>7 DEF Follows, n
<1>9. Grouped(u)
  BY <1>3, <1>8, FollowsGrouped
<1>10. QED
  BY <1>3, <1>9 DEF u, r

-----------------------------------------------------------------------------
(* qlisttbl: sorting *)

\* What has to come first is less.
SortKey(t, a, descending) == IF descending THEN 0 - Rank(t, a) ELSE Rank(t, a)

LEMMA BehindIs ==
  ASSUME ListTblAssumption, NEW t, NEW a \in Entry, NEW b \in Entry, NEW d \in BOOLEAN
  PROVE  /\ SortKey(t, a, d) \in Int
         /\ Behind(t, a, b, d) <=> SortKey(t, a, d) > SortKey(t, b, d)
         /\ SortKey(t, a, d) = SortKey(t, b, d) <=> Like(t, a, b)
<1>1. /\ Rank(t, a) \in Int /\ NameCmp(t, a.name, b.name) = Rank(t, a) - Rank(t, b) /\ Rank(t, b) \in Int
      /\ Like(t, a, b) <=> Rank(t, a) = Rank(t, b)
  BY Ranks
<1>2. CASE d
  BY <1>1, <1>2, SMT DEF SortKey, Behind
<1>3. CASE ~d
  BY <1>1, <1>3, SMT DEF SortKey, Behind
<1>4. QED
  BY <1>2, <1>3

\* Up to a place, what is behind another one is not before any of those.
Settled(t, s, d, from, to) ==
  \A a, b \in 1 .. to : a < b /\ b > from => SortKey(t, s[a], d) <= SortKey(t, s[b], d)

\* Another order, in which the elements of each name have the order they had.
MatchesIn(t, s, name) == {p \in 1 .. Len(s) : NameMatch(t, s[p], name)}
Keeps(t, s, r) ==
  /\ r \in Seq(Entry) /\ Len(r) = Len(s)
  /\ \A name : ElementsAt(r, MatchesIn(t, r, name)) = ElementsAt(s, MatchesIn(t, s, name))

LEMMA SwapIs ==
  ASSUME NEW s \in Seq(Entry), NEW k \in 1 .. Len(s), k + 1 \in 1 .. Len(s)
  PROVE  /\ Swap(s, k) \in Seq(Entry) /\ Len(Swap(s, k)) = Len(s)
         /\ Swap(s, k)[k] = s[k + 1] /\ Swap(s, k)[k + 1] = s[k]
         /\ \A x \in 1 .. Len(s) : x # k /\ x # k + 1 => Swap(s, k)[x] = s[x]
<1> DEFINE u == [s EXCEPT ![k] = s[k + 1]]
           v == [u EXCEPT ![k + 1] = s[k]]
<1>1. s[k] \in Entry /\ s[k + 1] \in Entry
  BY LenProperties
<1>2. u \in Seq(Entry) /\ Len(u) = Len(s) /\ \A x \in 1 .. Len(s) : u[x] = IF x = k THEN s[k + 1] ELSE s[x]
  BY <1>1, ExceptSeq
<1> HIDE DEF u
<1>3. v \in Seq(Entry) /\ Len(v) = Len(u) /\ \A x \in 1 .. Len(u) : v[x] = IF x = k + 1 THEN s[k] ELSE u[x]
  BY <1>1, <1>2, ExceptSeq
<1>4. Swap(s, k) = v
  BY DEF Swap, u
<1> HIDE DEF v
<1>5. k # k + 1
  BY SMT
<1>6. QED
  BY <1>2, <1>3, <1>4, <1>5

\* Exchanging neighbours of different names keeps the elements of each name in order.
LEMMA SwapKeeps ==
  ASSUME NEW t, NEW s \in Seq(Entry), NEW k \in 1 .. Len(s), k + 1 \in 1 .. Len(s), ~Like(t, s[k], s[k + 1])
  PROVE  Keeps(t, s, Swap(s, k))
<1> DEFINE r == Swap(s, k)
           n == Len(s)
<1>1. /\ r \in Seq(Entry) /\ Len(r) = n /\ r[k] = s[k + 1] /\ r[k + 1] = s[k]
      /\ \A x \in 1 .. n : x # k /\ x # k + 1 => r[x] = s[x]
  BY SwapIs
<1> HIDE DEF r
<1>2. n \in Nat /\ k \in 1 .. n /\ k + 1 \in 1 .. n /\ k # k + 1
  BY LenProperties, SMT
<1>3. ASSUME NEW name
      PROVE  ElementsAt(r, MatchesIn(t, r, name)) = ElementsAt(s, MatchesIn(t, s, name))
  <2> DEFINE S == MatchesIn(t, s, name)
             R == MatchesIn(t, r, name)
             f == [x \in S |-> IF x = k THEN k + 1 ELSE IF x = k + 1 THEN k ELSE x]
  <2>1. S \in SUBSET (1 .. n) /\ R \in SUBSET (1 .. Len(r))
    BY <1>1 DEF MatchesIn
  <2>2. ~(k \in S /\ k + 1 \in S)
    BY MatchLike DEF MatchesIn
  <2>3. /\ \A x \in 1 .. n : (x \in S <=> NameMatch(t, s[x], name)) /\ (x \in R <=> NameMatch(t, r[x], name))
    BY <1>1 DEF MatchesIn
  <2> HIDE DEF S, R
  <2>4. \A x \in S : f[x] \in R /\ r[f[x]] = s[x]
    <3>1. SUFFICES ASSUME NEW x \in S PROVE f[x] \in R /\ r[f[x]] = s[x]
      OBVIOUS
    <3>2. f[x] \in 1 .. n /\ r[f[x]] = s[x]
      BY <1>1, <1>2, <2>1
    <3>3. QED
      BY <2>1, <2>3, <3>2
  <2>5. \A x, y \in S : x < y => f[x] < f[y]
    <3>1. SUFFICES ASSUME NEW x \in S, NEW y \in S, x < y PROVE f[x] < f[y]
      OBVIOUS
    <3>2. x \in Nat /\ y \in Nat /\ k \in Nat /\ ~(x = k /\ y = k + 1)
      BY <1>2, <2>1, <2>2, SMT
    <3>3. (IF x = k THEN k + 1 ELSE IF x = k + 1 THEN k ELSE x) < (IF y = k THEN k + 1 ELSE IF y = k + 1 THEN k ELSE y)
      <4>1. CASE x = k
        BY <3>1, <3>2, <4>1, SMT
      <4>2. CASE x = k + 1
        BY <3>1, <3>2, <4>2, SMT
      <4>3. CASE x # k /\ x # k + 1
        BY <3>1, <3>2, <4>3, SMT
      <4>4. QED
        BY <4>1, <4>2, <4>3
    <3>4. QED
      BY <3>3
  <2>6. ASSUME NEW y \in R PROVE \E x \in S : f[x] = y
    <3> DEFINE x == IF y = k THEN k + 1 ELSE IF y = k + 1 THEN k ELSE y
    <3>1. x \in 1 .. n /\ s[x] = r[y] /\ y \in 1 .. n
      BY <1>1, <1>2, <2>1
    <3>2. x \in S
      BY <2>3, <3>1
    <3>3. f[x] = y
      BY <1>2, <3>2
    <3>4. QED
      BY <3>2, <3>3
  <2>7. Moves(f, S, R) /\ \A x \in S : r[f[x]] = s[x]
    BY <2>4, <2>5, <2>6 DEF Moves
  <2> HIDE DEF f
  <2>8. QED
    BY <1>1, <2>1, <2>7, ElementsMoved DEF S, R
<1>4. QED
  BY <1>1, <1>3 DEF Keeps, r

\* What a pass has found out after so many of its steps.
Bubbled(t, s, n, d, u, k) ==
  /\ u.s \in Seq(Entry) /\ Len(u.s) = Len(s) /\ u.n \in 0 .. k
  /\ Keeps(t, s, u.s)
  /\ Settled(t, u.s, d, n, Len(s)) /\ Settled(t, u.s, d, u.n, k + 1)

LEMMA BubbleStep ==
  ASSUME ListTblAssumption, NEW t, NEW s \in Seq(Entry), NEW n \in 1 .. Len(s), NEW d \in BOOLEAN,
         NEW k \in 1 .. n - 1, NEW u, Bubbled(t, s, n, d, u, k - 1)
  PROVE  Bubbled(t, s, n, d,
           IF Behind(t, u.s[k], u.s[k + 1], d) THEN [s |-> Swap(u.s, k), n |-> k] ELSE u, k)
<1> DEFINE L == Len(s)
           K(x) == SortKey(t, x, d)
           a == u.s
<1>1. L \in Nat /\ n \in 1 .. L /\ k \in 1 .. L /\ k + 1 \in 1 .. L /\ k + 1 <= n
  BY LenProperties, SMT
<1>2. /\ a \in Seq(Entry) /\ Len(a) = L /\ u.n \in 0 .. k - 1 /\ Keeps(t, s, a)
      /\ \A x, y \in 1 .. L : x < y /\ y > n => K(a[x]) <= K(a[y])
      /\ \A x, y \in 1 .. k : x < y /\ y > u.n => K(a[x]) <= K(a[y])
  <2>1. k - 1 + 1 = k
    BY SMT
  <2>2. QED
    BY <2>1 DEF Bubbled, Settled
<1>3. \A x \in 1 .. L : a[x] \in Entry
  BY <1>2, LenProperties
<1>4. \A x, y \in Entry : /\ K(x) \in Int /\ (Behind(t, x, y, d) <=> K(x) > K(y))
                          /\ (K(x) = K(y) <=> Like(t, x, y))
  BY BehindIs
<1> HIDE DEF L, K
<1>5. \A x \in 1 .. L : K(a[x]) \in Int
  BY <1>3, <1>4
<1>6. CASE Behind(t, a[k], a[k + 1], d)
  <2> DEFINE r == Swap(a, k)
             v == [s |-> r, n |-> k]
  <2>1. K(a[k]) > K(a[k + 1])
    BY <1>1, <1>3, <1>4, <1>6
  <2>2. /\ r \in Seq(Entry) /\ Len(r) = L /\ r[k] = a[k + 1] /\ r[k + 1] = a[k]
        /\ \A x \in 1 .. L : x # k /\ x # k + 1 => r[x] = a[x]
    BY <1>1, <1>2, SwapIs
  <2>3. Keeps(t, a, r)
    <3>1. ~Like(t, a[k], a[k + 1])
      <4>1. K(a[k]) # K(a[k + 1])
        BY <1>1, <1>5, <2>1, SMT
      <4>2. QED
        BY <1>1, <1>3, <1>4, <4>1
    <3>2. QED
      BY <1>1, <1>2, <3>1, SwapKeeps
  <2> HIDE DEF r
  <2>4. Keeps(t, s, r)
    BY <1>2, <2>3 DEF Keeps
  <2>5. \A x, y \in 1 .. L : x < y /\ y > n => K(r[x]) <= K(r[y])
    <3>1. SUFFICES ASSUME NEW x \in 1 .. L, NEW y \in 1 .. L, x < y, y > n PROVE K(r[x]) <= K(r[y])
      OBVIOUS
    <3>2. y # k /\ y # k + 1 /\ k < y /\ k + 1 < y
      BY <1>1, <3>1, SMT
    <3>3. r[y] = a[y]
      BY <2>2, <3>2
    <3>4. r[x] = a[x] \/ r[x] = a[k] \/ r[x] = a[k + 1]
      BY <2>2
    <3>5. K(a[x]) <= K(a[y]) /\ K(a[k]) <= K(a[y]) /\ K(a[k + 1]) <= K(a[y])
      BY <1>1, <1>2, <3>1, <3>2
    <3>6. QED
      BY <3>3, <3>4, <3>5
  <2>6. \A x, y \in 1 .. k + 1 : x < y /\ y > k => K(r[x]) <= K(r[y])
    <3>1. SUFFICES ASSUME NEW x \in 1 .. k + 1, NEW y \in 1 .. k + 1, x < y, y > k PROVE K(r[x]) <= K(r[y])
      OBVIOUS
    <3>2. y = k + 1 /\ x \in 1 .. k /\ x \in 1 .. L /\ x # k + 1 /\ (x = k \/ x < k) /\ k \in 1 .. k
      BY <1>1, <3>1, SMT
    <3>3. r[y] = a[k]
      BY <2>2, <3>2
    <3>4. CASE x = k
      <4>1. r[x] = a[k + 1]
        BY <2>2, <3>4
      <4>2. QED
        BY <1>1, <1>5, <2>1, <3>3, <4>1, SMT
    <3>5. CASE x # k
      <4>1. r[x] = a[x]
        BY <2>2, <3>2, <3>5
      <4>2. k > u.n
        BY <1>1, <1>2, SMT
      <4>3. K(a[x]) <= K(a[k])
        BY <1>2, <3>2, <3>5, <4>2
      <4>4. QED
        BY <3>3, <4>1, <4>3
    <3>6. QED
      BY <3>4, <3>5
  <2>7. v.s = r /\ v.n = k /\ k \in 0 .. k
    BY <1>1, SMT
  <2>8. Bubbled(t, s, n, d, v, k)
    BY <2>2, <2>4, <2>5, <2>6, <2>7 DEF Bubbled, Settled, L, K
  <2>9. QED
    BY <1>6, <2>8 DEF r
<1>7. CASE ~Behind(t, a[k], a[k + 1], d)
  <2>1. K(a[k]) <= K(a[k + 1])
    <3>1. ~(K(a[k]) > K(a[k + 1]))
      BY <1>1, <1>3, <1>4, <1>7
    <3>2. QED
      BY <1>1, <1>5, <3>1, SMT
  <2>2. \A x, y \in 1 .. k + 1 : x < y /\ y > u.n => K(a[x]) <= K(a[y])
    <3>1. SUFFICES ASSUME NEW x \in 1 .. k + 1, NEW y \in 1 .. k + 1, x < y, y > u.n PROVE K(a[x]) <= K(a[y])
      OBVIOUS
    <3>2. CASE y # k + 1
      <4>1. x \in 1 .. k /\ y \in 1 .. k
        BY <1>1, <3>1, <3>2, SMT
      <4>2. QED
        BY <1>2, <3>1, <4>1
    <3>3. CASE y = k + 1
      <4>1. x \in 1 .. k /\ (x = k \/ x < k) /\ k \in 1 .. k /\ k > u.n /\ x \in 1 .. L
        BY <1>1, <1>2, <3>1, <3>3, SMT
      <4>2. x = k \/ K(a[x]) <= K(a[k])
        BY <1>2, <4>1
      <4>3. QED
        BY <1>1, <1>5, <2>1, <3>3, <4>1, <4>2, SMT
    <3>4. QED
      BY <3>2, <3>3
  <2>3. u.n \in 0 .. k
    BY <1>1, <1>2, SMT
  <2>4. Bubbled(t, s, n, d, u, k)
    BY <1>2, <2>2, <2>3 DEF Bubbled, Settled, L, K
  <2>5. QED
    BY <1>7, <2>4
<1>8. QED
  BY <1>6, <1>7

\* A pass leaves less to be done, and what it leaves alone is where it belongs.
Passed(t, s, d, u, n) ==
  /\ u \in [s : Seq(Entry), n : Nat]
  /\ u.s \in Seq(Entry) /\ Len(u.s) = Len(s) /\ u.n \in 0 .. n
  /\ Keeps(t, s, u.s) /\ Settled(t, u.s, d, u.n, Len(s))

LEMMA SameKeeps ==
  ASSUME NEW t, NEW s \in Seq(Entry)
  PROVE  Keeps(t, s, s)
BY DEF Keeps

LEMMA PassIs ==
  ASSUME ListTblAssumption, NEW t, NEW s \in Seq(Entry), NEW n \in 1 .. Len(s), NEW d \in BOOLEAN,
         Settled(t, s, d, n, Len(s))
  PROVE  Passed(t, s, d, Pass(t, s, n, d), n - 1)
<1> DEFINE N == n - 1
           L == Len(s)
           a0 == [s |-> s, n |-> 0]
           turn(u, i) == IF Behind(t, u.s[i], u.s[i + 1], d) THEN [s |-> Swap(u.s, i), n |-> i] ELSE u
           X == {u \in [s : Seq(Entry), n : Nat] : Len(u.s) = L}
           h == [y \in X \X (1 .. N) |-> turn(y[1], y[2])]
           F(f) == [i \in 0 .. N |->
                      IF i = 0 THEN [s |-> s, n |-> 0]
                      ELSE LET u == f[i - 1] IN
                           IF Behind(t, u.s[i], u.s[i + 1], d) THEN [s |-> Swap(u.s, i), n |-> i]
                           ELSE u]
           G(f) == [i \in 0 .. N |-> IF i = 0 THEN a0 ELSE turn(f[i - 1], i)]
           at == CHOOSE f : f = F(f)
<1>1. N \in Nat /\ L \in Nat /\ \A i \in 1 .. N : i \in 1 .. L /\ i + 1 \in 1 .. L /\ i \in Nat
  BY LenProperties, SMT
<1>2. Pass(t, s, n, d) = at[N]
  BY DEF Pass
<1>3. \A f : F(f) = G(f)
  OBVIOUS
<1>4. a0 \in X
  BY <1>1
<1>17. ASSUME NEW u \in X, NEW i \in 1 .. N PROVE turn(u, i) \in X
  <2>1. u.s \in Seq(Entry) /\ Len(u.s) = L
    OBVIOUS
  <2>2. Swap(u.s, i) \in Seq(Entry) /\ Len(Swap(u.s, i)) = L
    BY <1>1, <2>1, SwapIs
  <2>3. [s |-> Swap(u.s, i), n |-> i] \in X
    BY <1>1, <2>2
  <2>4. QED
    BY <2>3
<1>5. h \in [X \X (1 .. N) -> X]
  <2> HIDE DEF X, turn
  <2>1. QED
    BY <1>17
<1>6. PICK g \in [0 .. N -> X] : Unfolds(g, a0, h, N)
  <2> HIDE DEF X, h, N, a0
  <2>1. QED
    BY <1>1, <1>4, <1>5, Recursive
<1>7. g = G(g)
  <2>1. ASSUME NEW i \in 0 .. N PROVE g[i] = IF i = 0 THEN a0 ELSE turn(g[i - 1], i)
    <3>1. CASE i = 0
      BY <1>6, <3>1 DEF Unfolds
    <3>2. CASE i # 0
      <4>1. i \in 1 .. N /\ i - 1 \in 0 .. N
        BY <1>1, <3>2, SMT
      <4>2. g[i] = h[<<g[i - 1], i>>]
        BY <1>6, <4>1 DEF Unfolds
      <4>3. <<g[i - 1], i>> \in X \X (1 .. N)
        <5> HIDE DEF X, N
        <5>1. QED
          BY <4>1
      <4> HIDE DEF turn, X, N
      <4>4. h[<<g[i - 1], i>>] = turn(g[i - 1], i)
        BY <4>3
      <4>5. QED
        BY <3>2, <4>2, <4>4
    <3>3. QED
      BY <3>1, <3>2
  <2> HIDE DEF turn, X, N, a0
  <2>2. QED
    BY <2>1
<1>8. at = G(at)
  <2>1. at = F(at)
    <3>1. g = F(g)
      BY <1>3, <1>7
    <3> HIDE DEF F, G
    <3>2. QED
      BY <3>1
  <2> HIDE DEF F, G, at
  <2>2. QED
    BY <1>3, <2>1
<1> HIDE DEF at, turn
<1>9. at[0] = a0 /\ \A i \in 1 .. N : at[i] = turn(at[i - 1], i)
  <2>1. 0 \in 0 .. N /\ \A i \in 1 .. N : i \in 0 .. N /\ i # 0
    BY <1>1, SMT
  <2> HIDE DEF N, a0
  <2>2. QED
    BY <1>8, <2>1
<1> HIDE DEF X
<1> DEFINE T == {i \in Nat : i <= N => at[i] \in X /\ Bubbled(t, s, n, d, at[i], i)}
<1>10. 0 \in T
  <2>1. a0.s = s /\ a0.n = 0 /\ 0 \in 0 .. 0
    BY SMT
  <2>2. Settled(t, s, d, 0, 0 + 1)
    BY SMT DEF Settled
  <2>3. Bubbled(t, s, n, d, a0, 0)
    BY <2>1, <2>2, SameKeeps DEF Bubbled
  <2>4. QED
    BY <1>4, <1>9, <2>3
<1>11. ASSUME NEW i \in Nat, i \in T PROVE i + 1 \in T
  <2>1. SUFFICES ASSUME i + 1 <= N PROVE at[i + 1] \in X /\ Bubbled(t, s, n, d, at[i + 1], i + 1)
    BY SMT
  <2>2. i <= N /\ i + 1 \in 1 .. N /\ (i + 1) - 1 = i
    BY <1>1, <2>1, SMT
  <2>3. at[i] \in X /\ Bubbled(t, s, n, d, at[i], (i + 1) - 1)
    BY <1>11, <2>2
  <2>4. at[i + 1] = turn(at[i], i + 1)
    BY <1>9, <2>2
  <2> DEFINE j == i + 1
  <2>5. j \in 1 .. n - 1
    BY <2>2
  <2> HIDE DEF j
  <2>6. Bubbled(t, s, n, d, turn(at[i], j), j)
    BY <2>3, <2>5, BubbleStep DEF turn, j
  <2>7. turn(at[i], j) \in X
    BY <1>17, <2>2, <2>3 DEF j
  <2>8. QED
    BY <2>4, <2>6, <2>7 DEF j
<1>12. Nat \subseteq T
  <2> HIDE DEF T
  <2>1. QED
    BY <1>10, <1>11, NumberInduction
<1>13. at[N] \in X /\ Bubbled(t, s, n, d, at[N], N)
  <2>1. N \in T /\ N <= N
    BY <1>1, <1>12, SMT
  <2>2. QED
    BY <2>1
<1> DEFINE u == at[N]
<1> HIDE DEF u
<1>14. /\ u.s \in Seq(Entry) /\ Len(u.s) = L /\ u.n \in 0 .. N /\ Keeps(t, s, u.s)
       /\ \A x, y \in 1 .. L : x < y /\ y > n => SortKey(t, u.s[x], d) <= SortKey(t, u.s[y], d)
       /\ \A x, y \in 1 .. n : x < y /\ y > u.n => SortKey(t, u.s[x], d) <= SortKey(t, u.s[y], d)
  <2>1. N + 1 = n
    BY <1>1, SMT
  <2>2. QED
    BY <1>13, <2>1 DEF Bubbled, Settled, u
<1>15. Settled(t, u.s, d, u.n, L)
  <2>1. SUFFICES ASSUME NEW x \in 1 .. L, NEW y \in 1 .. L, x < y, y > u.n
                 PROVE  SortKey(t, u.s[x], d) <= SortKey(t, u.s[y], d)
    BY DEF Settled
  <2>2. CASE y > n
    BY <1>14, <2>1, <2>2
  <2>3. CASE ~(y > n)
    <3>1. x \in 1 .. n /\ y \in 1 .. n
      BY <1>1, <2>1, <2>3, SMT
    <3>2. QED
      BY <1>14, <2>1, <3>1
  <2>4. QED
    BY <2>2, <2>3
<1>16. QED
  BY <1>2, <1>13, <1>14, <1>15 DEF Passed, u, X

\* What sort_ makes of a table.
SortedWell(t, d, r) ==
  /\ r = [t EXCEPT !.items = r.items]
  /\ Keeps(t, t.items, r.items) /\ Settled(t, r.items, d, 0, Len(t.items))

LEMMA SortedIs ==
  ASSUME ListTblAssumption, NEW t \in ListTable, NEW d \in BOOLEAN
  PROVE  SortedWell(t, d, Sorted(t, d))
<1> DEFINE s == t.items
           L == Len(s)
           N == L + 1
           a0 == [s |-> s, n |-> L]
           turn(u) == IF u.n = 0 THEN u ELSE Pass(t, u.s, u.n, d)
           X == {u \in [s : Seq(Entry), n : 0 .. L] : Passed(t, s, d, u, L)}
           h == [y \in X \X (1 .. N) |-> turn(y[1])]
           F(f) == [k \in 0 .. L + 1 |->
                      IF k = 0 THEN [s |-> t.items, n |-> Len(t.items)]
                      ELSE IF f[k - 1].n = 0 THEN f[k - 1]
                      ELSE Pass(t, f[k - 1].s, f[k - 1].n, d)]
           G(f) == [k \in 0 .. N |-> IF k = 0 THEN a0 ELSE turn(f[k - 1])]
           at == CHOOSE f : f = F(f)
<1>1. L \in Nat /\ N \in Nat /\ s \in Seq(Entry)
  BY PlacesAre, SMT
<1>2. Sorted(t, d) = [t EXCEPT !.items = at[N].s]
  BY DEF Sorted
<1>3. \A f : F(f) = G(f)
  OBVIOUS
<1>4. a0 \in X
  <2>1. L \in 0 .. L
    BY <1>1, SMT
  <2>2. Settled(t, s, d, L, L)
    BY <1>1, SMT DEF Settled
  <2>3. Passed(t, s, d, a0, L)
    <3>1. Keeps(t, s, s)
      BY <1>1, SameKeeps
    <3>2. a0 \in [s : Seq(Entry), n : Nat] /\ a0.s = s /\ a0.n = L
      BY <1>1
    <3> HIDE DEF a0
    <3>3. QED
      BY <1>1, <2>1, <2>2, <3>1, <3>2 DEF Passed
  <2>4. QED
    BY <1>1, <2>1, <2>3
<1>5. ASSUME NEW u \in X
      PROVE  turn(u) \in X /\ (u.n # 0 => turn(u).n \in 0 .. u.n - 1) /\ (u.n = 0 => turn(u) = u)
  <2>1. CASE u.n = 0
    BY <2>1
  <2>2. CASE u.n # 0
    <3> DEFINE v == Pass(t, u.s, u.n, d)
               n == u.n
    <3>1. /\ u.s \in Seq(Entry) /\ Len(u.s) = L /\ n \in 1 .. L /\ Keeps(t, s, u.s)
          /\ Settled(t, u.s, d, n, L)
      <4>1. Passed(t, s, d, u, L) /\ n \in 0 .. L
        OBVIOUS
      <4>2. n \in 1 .. L
        BY <1>1, <2>2, <4>1, SMT
      <4>3. QED
        BY <4>1, <4>2 DEF Passed
    <3>2. Passed(t, u.s, d, v, n - 1)
      <4> DEFINE b == u.s
      <4>1. b \in Seq(Entry) /\ n \in 1 .. Len(b) /\ Settled(t, b, d, n, Len(b))
        BY <3>1
      <4> HIDE DEF b, n
      <4>2. Passed(t, b, d, Pass(t, b, n, d), n - 1)
        BY <4>1, PassIs
      <4>3. QED
        BY <4>2 DEF b, n
    <3> HIDE DEF v
    <3>3. /\ v.s \in Seq(Entry) /\ Len(v.s) = L /\ v.n \in 0 .. n - 1 /\ Keeps(t, u.s, v.s)
          /\ Settled(t, v.s, d, v.n, L)
      BY <3>1, <3>2 DEF Passed
    <3>4. Keeps(t, s, v.s)
      BY <3>1, <3>3 DEF Keeps
    <3>5. v.n \in 0 .. L
      BY <1>1, <3>1, <3>3, SMT
    <3>6. Passed(t, s, d, v, L)
      BY <3>2, <3>3, <3>4, <3>5 DEF Passed
    <3>7. v \in [s : Seq(Entry), n : 0 .. L]
      <4>1. v = [s |-> v.s, n |-> v.n]
        <5>1. v \in [s : Seq(Entry), n : Nat]
          BY <3>2 DEF Passed
        <5>2. QED
          BY <5>1
      <4>2. QED
        BY <3>3, <3>5, <4>1
    <3>8. turn(u) = v
      BY <2>2 DEF v
    <3>9. QED
      BY <2>2, <3>3, <3>6, <3>7, <3>8
  <2>3. QED
    BY <2>1, <2>2
<1> HIDE DEF X
<1>6. h \in [X \X (1 .. N) -> X]
  <2> HIDE DEF turn
  <2>1. QED
    BY <1>5
<1>7. PICK g \in [0 .. N -> X] : Unfolds(g, a0, h, N)
  <2> HIDE DEF h, N, a0
  <2>1. QED
    BY <1>1, <1>4, <1>6, Recursive
<1>8. g = G(g)
  <2>1. ASSUME NEW i \in 0 .. N PROVE g[i] = IF i = 0 THEN a0 ELSE turn(g[i - 1])
    <3>1. CASE i = 0
      BY <1>7, <3>1 DEF Unfolds
    <3>2. CASE i # 0
      <4>1. i \in 1 .. N /\ i - 1 \in 0 .. N
        BY <1>1, <3>2, SMT
      <4>2. g[i] = h[<<g[i - 1], i>>]
        BY <1>7, <4>1 DEF Unfolds
      <4>3. <<g[i - 1], i>> \in X \X (1 .. N)
        <5> HIDE DEF N
        <5>1. QED
          BY <4>1
      <4> HIDE DEF turn, N
      <4>4. h[<<g[i - 1], i>>] = turn(g[i - 1])
        BY <4>3
      <4>5. QED
        BY <3>2, <4>2, <4>4
    <3>3. QED
      BY <3>1, <3>2
  <2> HIDE DEF turn, N, a0
  <2>2. QED
    BY <2>1
<1>9. at = G(at)
  <2>1. at = F(at)
    <3>1. g = F(g)
      BY <1>3, <1>8
    <3> HIDE DEF F, G
    <3>2. QED
      BY <3>1
  <2> HIDE DEF F, G, at
  <2>2. QED
    BY <1>3, <2>1
<1> HIDE DEF at, turn
<1>10. at[0] = a0 /\ \A i \in 1 .. N : at[i] = turn(at[i - 1])
  <2>1. 0 \in 0 .. N /\ \A i \in 1 .. N : i \in 0 .. N /\ i # 0
    BY <1>1, SMT
  <2> HIDE DEF N, a0
  <2>2. QED
    BY <1>9, <2>1
<1> DEFINE T == {i \in Nat : i <= N => at[i] \in X /\ at[i].n \in 0 .. L /\ (at[i].n = 0 \/ at[i].n <= L - i)}
<1>11. 0 \in T
  <2>1. a0.n = L /\ L \in 0 .. L /\ L <= L - 0
    BY <1>1, SMT
  <2> HIDE DEF a0
  <2>2. QED
    BY <1>4, <1>10, <2>1
<1>12. ASSUME NEW i \in Nat, i \in T PROVE i + 1 \in T
  <2>1. SUFFICES ASSUME i + 1 <= N
                 PROVE  at[i + 1] \in X /\ at[i + 1].n \in 0 .. L /\ (at[i + 1].n = 0 \/ at[i + 1].n <= L - (i + 1))
    BY SMT
  <2>2. i <= N /\ i + 1 \in 1 .. N /\ (i + 1) - 1 = i
    BY <1>1, <2>1, SMT
  <2>3. at[i] \in X /\ at[i].n \in 0 .. L /\ (at[i].n = 0 \/ at[i].n <= L - i)
    BY <1>12, <2>2
  <2>4. at[i + 1] = turn(at[i])
    BY <1>10, <2>2
  <2>5. turn(at[i]) \in X /\ (at[i].n # 0 => turn(at[i]).n \in 0 .. at[i].n - 1) /\ (at[i].n = 0 => turn(at[i]) = at[i])
    BY <1>5, <2>3
  <2>6. CASE at[i].n = 0
    BY <2>3, <2>4, <2>5, <2>6
  <2>7. CASE at[i].n # 0
    <3> DEFINE m == at[i].n
               k == turn(at[i]).n
    <3>1. m \in 0 .. L /\ m <= L - i /\ k \in 0 .. m - 1
      BY <2>3, <2>5, <2>7
    <3> HIDE DEF m, k
    <3>2. k \in 0 .. L /\ k <= L - (i + 1)
      BY <1>1, <3>1, SMT
    <3>3. QED
      BY <2>4, <2>5, <3>2 DEF k
  <2>8. QED
    BY <2>6, <2>7
<1>13. Nat \subseteq T
  <2> HIDE DEF T
  <2>1. QED
    BY <1>11, <1>12, NumberInduction
<1> DEFINE v == at[N]
<1>14. v \in X /\ v.n \in 0 .. L /\ (v.n = 0 \/ v.n <= L - N)
  <2>1. N \in T /\ N <= N
    BY <1>1, <1>13, SMT
  <2>2. QED
    BY <2>1
<1> HIDE DEF v
<1>15. v.n = 0
  BY <1>1, <1>14, SMT
<1>16. v.s \in Seq(Entry) /\ Keeps(t, s, v.s) /\ Settled(t, v.s, d, 0, L)
  BY <1>14, <1>15 DEF X, Passed
<1>17. Sorted(t, d) = [t EXCEPT !.items = v.s]
  BY <1>2 DEF v
<1>18. Sorted(t, d).items = v.s
  BY <1>17 DEF ListTable
<1>19. QED
  BY <1>16, <1>17, <1>18 DEF SortedWell

-----------------------------------------------------------------------------
(* qlisttbl: what sorting, putting and loading promise *)

LEMMA SortedGrouped ==
  ASSUME ListTblAssumption, NEW t \in ListTable, NEW d \in BOOLEAN
  PROVE  Sorted(t, d) \in ListTable /\ Grouped(Sorted(t, d))
<1> DEFINE u == Sorted(t, d)
           r == u.items
           n == Len(t.items)
           K(x) == SortKey(t, x, d)
<1>1. u = [t EXCEPT !.items = r] /\ Keeps(t, t.items, r) /\ Settled(t, r, d, 0, n)
  BY SortedIs DEF SortedWell
<1> HIDE DEF u
<1>2. r \in Seq(Entry) /\ Len(r) = n /\ n \in Nat
  BY <1>1, PlacesAre DEF Keeps
<1>3. u \in ListTable /\ u.lookupcase = t.lookupcase
  <2> HIDE DEF r
  <2>1. QED
    BY <1>1, <1>2 DEF ListTable
<1>4. \A x \in 1 .. n : r[x] \in Entry
  BY <1>2, LenProperties
<1>5. \A x, y \in 1 .. n : /\ K(r[x]) \in Int
                           /\ K(r[x]) = K(r[y]) <=> Like(t, r[x], r[y])
                           /\ x < y => K(r[x]) <= K(r[y])
  <2>1. SUFFICES ASSUME NEW x \in 1 .. n, NEW y \in 1 .. n
                 PROVE  /\ K(r[x]) \in Int
                        /\ K(r[x]) = K(r[y]) <=> Like(t, r[x], r[y])
                        /\ x < y => K(r[x]) <= K(r[y])
    OBVIOUS
  <2>2. y > 0
    BY <1>2, SMT
  <2>3. QED
    BY <1>1, <1>4, <2>2, BehindIs DEF Settled
<1> HIDE DEF K, r, n
<1>6. ASSUME NEW i \in 1 .. n, NEW j \in 1 .. n, NEW k \in 1 .. n, i < j, j < k, Like(t, r[i], r[k])
      PROVE  Like(t, r[i], r[j])
  <2>1. i < k
    BY <1>2, <1>6, SMT
  <2>2. K(r[i]) = K(r[k]) /\ K(r[i]) <= K(r[j]) /\ K(r[j]) <= K(r[k])
    BY <1>5, <1>6, <2>1
  <2>3. K(r[i]) = K(r[j])
    BY <1>5, <2>2, SMT
  <2>4. QED
    BY <1>5, <2>3
<1>7. Grouped(u)
  BY <1>2, <1>3, <1>6, SameLike DEF Grouped, r
<1>8. QED
  BY <1>3, <1>7 DEF u

\* What SortsStably says of one table and one direction.
Stably(t, d, s) ==
  /\ \A i \in 1 .. Len(s.items) - 1 : ~Behind(t, s.items[i], s.items[i + 1], d)
  /\ \A name \in Name : Matching(s, {name}) = Matching(t, {name})
  /\ Len(s.items) = Len(t.items)

LEMMA SortsWell ==
  ASSUME ListTblAssumption, NEW t \in ListTable, NEW d \in BOOLEAN
  PROVE  Stably(t, d, Sorted(t, d))
<1> DEFINE u == Sorted(t, d)
           r == u.items
           n == Len(t.items)
<1>1. u = [t EXCEPT !.items = r] /\ Keeps(t, t.items, r) /\ Settled(t, r, d, 0, n)
  BY SortedIs DEF SortedWell
<1> HIDE DEF u
<1>2. /\ r \in Seq(Entry) /\ Len(r) = n /\ n \in Nat
      /\ \A name : ElementsAt(r, MatchesIn(t, r, name)) = ElementsAt(t.items, MatchesIn(t, t.items, name))
  BY <1>1, PlacesAre DEF Keeps
<1>3. u.lookupcase = t.lookupcase
  <2> HIDE DEF r
  <2>1. QED
    BY <1>1 DEF ListTable
<1>4. ASSUME NEW i \in 1 .. n - 1 PROVE ~Behind(t, r[i], r[i + 1], d)
  <2>1. i \in 1 .. n /\ i + 1 \in 1 .. n /\ i < i + 1 /\ i + 1 > 0
    BY <1>2, SMT
  <2>2. r[i] \in Entry /\ r[i + 1] \in Entry
    BY <1>2, <2>1, LenProperties
  <2>3. SortKey(t, r[i], d) <= SortKey(t, r[i + 1], d)
    BY <1>1, <2>1 DEF Settled
  <2>4. SortKey(t, r[i], d) \in Int /\ SortKey(t, r[i + 1], d) \in Int
    BY <2>2, BehindIs
  <2>5. ~(SortKey(t, r[i], d) > SortKey(t, r[i + 1], d))
    BY <2>3, <2>4, SMT
  <2>6. QED
    BY <2>2, <2>5, BehindIs
<1>5. ASSUME NEW name PROVE Matching(u, {name}) = Matching(t, {name})
  <2>1. Places(u, {name}) = MatchesIn(t, r, name) /\ Places(t, {name}) = MatchesIn(t, t.items, name)
    BY <1>3 DEF Places, MatchesIn, NameMatch
  <2>2. QED
    BY <1>2, <2>1 DEF Matching
<1>6. QED
  BY <1>2, <1>4, <1>5 DEF Stably, u

\* A file is loaded line by line.
LoadedBy(g, t, lines) ==
  /\ g[0] = t
  /\ \A i \in 1 .. Len(NoComment(lines)) : g[i] = Inserted(g[i - 1], NoComment(lines)[i], FALSE)
  /\ Loaded(t, lines) = g[Len(NoComment(lines))]

LEMMA NoCommentIs ==
  ASSUME NEW lines \in Seq(Entry)
  PROVE  NoComment(lines) \in Seq(Entry) /\ Len(NoComment(lines)) \in Nat
<1> DEFINE S == {p \in 1 .. Len(lines) : lines[p].name \notin Comment}
<1>1. S \in SUBSET (1 .. Len(lines))
  OBVIOUS
<1> HIDE DEF S
<1>2. ElementsAt(lines, S) \in Seq(Entry) /\ Len(ElementsAt(lines, S)) = Cardinality(S) /\ Cardinality(S) \in Nat
  BY <1>1, ElementsAtAre
<1>3. QED
  BY <1>2 DEF NoComment, S

LEMMA LoadedIs ==
  ASSUME NEW t \in ListTable, Grouped(t), NEW lines \in Seq(Entry)
  PROVE  \E g \in [0 .. Len(NoComment(lines)) -> {u \in ListTable : Grouped(u)}] : LoadedBy(g, t, lines)
<1> DEFINE kept == NoComment(lines)
           N == Len(kept)
           X == {u \in ListTable : Grouped(u)}
           h == [y \in X \X (1 .. N) |-> Inserted(y[1], kept[y[2]], FALSE)]
           F(f) == [n \in 0 .. Len(kept) |-> IF n = 0 THEN t ELSE Inserted(f[n - 1], kept[n], FALSE)]
           G(f) == [n \in 0 .. N |-> IF n = 0 THEN t ELSE Inserted(f[n - 1], kept[n], FALSE)]
           after == CHOOSE f : f = F(f)
<1>1. kept \in Seq(Entry) /\ N \in Nat /\ \A i \in 1 .. N : kept[i] \in Entry
  BY NoCommentIs, LenProperties
<1>2. Loaded(t, lines) = after[N]
  BY DEF Loaded
<1> HIDE DEF kept
<1>3. t \in X
  OBVIOUS
<1>4. ASSUME NEW u \in X, NEW o \in Entry PROVE Inserted(u, o, FALSE) \in X
  <2>1. u \in ListTable /\ Grouped(u) /\ FALSE \in BOOLEAN
    OBVIOUS
  <2>2. InsertedAt(Inserted(u, o, FALSE), u, o, PlaceFor(u, o.name, FALSE)) /\ PlaceOK(u, o, PlaceFor(u, o.name, FALSE))
    BY <2>1, InsertedIs, PlaceForIs
  <2>3. Grouped(Inserted(u, o, FALSE))
    BY <2>1, <2>2, InsertedGrouped
  <2>4. Inserted(u, o, FALSE) \in ListTable
    BY <2>2 DEF InsertedAt
  <2>5. QED
    BY <2>3, <2>4
<1> HIDE DEF X
<1>5. h \in [X \X (1 .. N) -> X]
  BY <1>1, <1>4
<1>6. PICK g \in [0 .. N -> X] : Unfolds(g, t, h, N)
  <2> HIDE DEF h, N
  <2>1. QED
    BY <1>1, <1>3, <1>5, Recursive
<1>7. \A i \in 1 .. N : g[i] = Inserted(g[i - 1], kept[i], FALSE)
  <2>1. SUFFICES ASSUME NEW i \in 1 .. N PROVE g[i] = Inserted(g[i - 1], kept[i], FALSE)
    OBVIOUS
  <2>2. i - 1 \in 0 .. N
    BY <1>1, SMT
  <2>3. g[i] = h[<<g[i - 1], i>>]
    BY <1>6 DEF Unfolds
  <2>4. <<g[i - 1], i>> \in X \X (1 .. N)
    BY <2>2
  <2>5. QED
    BY <2>3, <2>4
<1>8. g[0] = t
  BY <1>6 DEF Unfolds
<1>9. g = G(g)
  <2>1. ASSUME NEW i \in 0 .. N PROVE g[i] = IF i = 0 THEN t ELSE Inserted(g[i - 1], kept[i], FALSE)
    <3>1. i = 0 \/ i \in 1 .. N
      BY <1>1, SMT
    <3>2. i \in 1 .. N => i # 0
      BY <1>1, SMT
    <3>3. QED
      BY <1>7, <1>8, <3>1, <3>2
  <2> HIDE DEF N
  <2>2. QED
    BY <2>1
<1>10. \A f : F(f) = G(f)
  OBVIOUS
<1>11. after = G(after)
  <2>1. after = F(after)
    <3>1. g = F(g)
      BY <1>9, <1>10
    <3> HIDE DEF F, G
    <3>2. QED
      BY <3>1
  <2> HIDE DEF F, G, after
  <2>2. QED
    BY <1>10, <2>1
<1> HIDE DEF after
<1>12. after[0] = t /\ \A i \in 1 .. N : after[i] = Inserted(after[i - 1], kept[i], FALSE)
  <2>1. 0 \in 0 .. N /\ \A i \in 1 .. N : i \in 0 .. N /\ i # 0
    BY <1>1, SMT
  <2> HIDE DEF N
  <2>2. QED
    BY <1>11, <2>1
<1> DEFINE T == {i \in Nat : i <= N => after[i] = g[i]}
<1>13. 0 \in T
  BY <1>8, <1>12
<1>14. ASSUME NEW i \in Nat, i \in T PROVE i + 1 \in T
  <2>1. SUFFICES ASSUME i + 1 <= N PROVE after[i + 1] = g[i + 1]
    BY SMT
  <2>2. i <= N /\ i + 1 \in 1 .. N /\ (i + 1) - 1 = i
    BY <1>1, <2>1, SMT
  <2>3. after[i] = g[i]
    BY <1>14, <2>2
  <2>4. after[i + 1] = Inserted(after[i], kept[i + 1], FALSE) /\ g[i + 1] = Inserted(g[i], kept[i + 1], FALSE)
    BY <1>7, <1>12, <2>2
  <2>5. QED
    BY <2>3, <2>4
<1>15. Nat \subseteq T
  <2> HIDE DEF T
  <2>1. QED
    BY <1>13, <1>14, NumberInduction
<1>16. after[N] = g[N]
  <2>1. N \in T /\ N <= N
    BY <1>1, <1>15, SMT
  <2>2. QED
    BY <2>1
<1>17. LoadedBy(g, t, lines)
  BY <1>2, <1>7, <1>8, <1>16 DEF LoadedBy, kept
<1>18. QED
  BY <1>17 DEF X, kept

LEMMA LoadedGrouped ==
  ASSUME NEW t \in ListTable, Grouped(t), NEW lines \in Seq(Entry)
  PROVE  Loaded(t, lines) \in ListTable /\ Grouped(Loaded(t, lines))
<1>1. PICK g \in [0 .. Len(NoComment(lines)) -> {u \in ListTable : Grouped(u)}] : LoadedBy(g, t, lines)
  BY LoadedIs
<1>2. Len(NoComment(lines)) \in 0 .. Len(NoComment(lines))
  <2>1. Len(NoComment(lines)) \in Nat
    BY NoCommentIs
  <2>2. QED
    BY <2>1, SMT
<1>3. QED
  BY <1>1, <1>2 DEF LoadedBy

\* One element in addition: where it is, and where those are that were there.
PlacedSo(u, t, o, p) ==
  /\ p \in Places(u, {o.name}) /\ u.items[p] = o
  /\ \A q \in Places(u, {o.name}) :
       \/ q = p
       \/ q < p /\ q \in Places(t, {o.name})
       \/ q > p /\ q - 1 \in Places(t, {o.name})

LEMMA PutPlaces ==
  ASSUME NEW t \in ListTable, NEW o \in Entry, NEW u, NEW p \in 1 .. Len(t.items) + 1, InsertedAt(u, t, o, p)
  PROVE  PlacedSo(u, t, o, p)
<1> DEFINE n == Len(t.items)
<1>1. /\ n \in Nat /\ Len(u.items) = n + 1 /\ u.lookupcase = t.lookupcase
      /\ \A k \in 1 .. n + 1 : u.items[k] = IF k < p THEN t.items[k] ELSE IF k = p THEN o ELSE t.items[k - 1]
  BY PlacesAre DEF InsertedAt, With
<1>2. \A k : /\ k \in Places(u, {o.name}) <=> k \in 1 .. n + 1 /\ Like(t, u.items[k], o)
             /\ k \in Places(t, {o.name}) <=> k \in 1 .. n /\ Like(t, t.items[k], o)
  BY <1>1 DEF Places, Like, NameMatch
<1> HIDE DEF n
<1>3. p \in 1 .. n + 1 /\ ~(p < p)
  BY <1>1, SMT DEF n
<1>4. u.items[p] = o
  BY <1>1, <1>3
<1>5. p \in Places(u, {o.name})
  <2>1. Like(t, o, o)
    BY DEF Like, NameMatch
  <2>2. QED
    BY <1>2, <1>3, <1>4, <2>1
<1>6. ASSUME NEW q \in Places(u, {o.name})
      PROVE  \/ q = p
             \/ q < p /\ q \in Places(t, {o.name})
             \/ q > p /\ q - 1 \in Places(t, {o.name})
  <2>1. q \in 1 .. n + 1 /\ Like(t, u.items[q], o)
    BY <1>2, <1>6
  <2>2. (q < p => q \in 1 .. n) /\ (q < p \/ q = p \/ q > p) /\ (q > p => q - 1 \in 1 .. n /\ ~(q < p) /\ q # p)
    BY <1>1, <1>3, <2>1, SMT
  <2>3. CASE q < p
    <3>1. u.items[q] = t.items[q]
      BY <1>1, <2>1, <2>3
    <3>2. QED
      BY <1>2, <2>1, <2>2, <2>3, <3>1
  <2>4. CASE q > p
    <3>1. u.items[q] = t.items[q - 1]
      BY <1>1, <2>1, <2>2, <2>4
    <3>2. QED
      BY <1>2, <2>1, <2>2, <2>4, <3>1
  <2>5. QED
    BY <2>2, <2>3, <2>4
<1>7. QED
  BY <1>4, <1>5, <1>6 DEF PlacedSo

\* get finds what was put, if it looks from the end it was put to.
LEMMA PutIsFound ==
  ASSUME NEW t \in ListTable, NEW o \in Entry, NEW first \in BOOLEAN, t.putdir = first, t.getdir = first
  PROVE  Get(Inserted(t, o, first), o.name) = {o.data}
<1> DEFINE p == PlaceFor(t, o.name, first)
           u == Inserted(t, o, first)
           S == Places(t, {o.name})
           R == Places(u, {o.name})
           n == Len(t.items)
           m == FindObj(t, o.name, first)
<1>1. n \in Nat /\ S \in SUBSET (1 .. n) /\ InsertedAt(u, t, o, p) /\ p \in 1 .. n + 1
  BY PlacesAre, InsertedIs, PlaceForIs DEF PlaceOK
<1>2. u \in ListTable /\ u.getdir = first /\ Len(u.items) = n + 1
  BY <1>1 DEF InsertedAt
<1>3. R \in SUBSET (1 .. Len(u.items))
  BY <1>2, PlacesAre
<1>4. p \in R /\ u.items[p] = o /\ \A q \in R : q = p \/ (q < p /\ q \in S) \/ (q > p /\ q - 1 \in S)
  <2>1. PlacedSo(u, t, o, p)
    <3> HIDE DEF u, p
    <3>1. QED
      BY <1>1, PutPlaces
  <2>2. QED
    BY <2>1 DEF PlacedSo
<1>5. p = IF t.sortflag # 0 /\ m # 0 THEN (IF first THEN m ELSE m + 1)
          ELSE IF first THEN 1 ELSE n + 1
  <2>1. (IF t.sortflag = 0 THEN first ELSE t.putdir) = first
    OBVIOUS
  <2>2. QED
    BY <2>1 DEF PlaceFor
<1>6. S # {} => Extreme(S, m, first)
  <2>1. m = Nearest(S, first)
    BY DEF FindObj
  <2>2. QED
    BY <1>1, <2>1, NearestIs
<1>7. S = {} => m = 0
  BY DEF FindObj, Nearest
<1> HIDE DEF S, R, p, u, n, m
<1>8. ASSUME NEW q \in R PROVE (first => p <= q) /\ (~first => p >= q)
  <2>1. q \in 1 .. n + 1 /\ p \in 1 .. n + 1
    BY <1>1, <1>2, <1>3
  <2>2. CASE q = p
    BY <1>1, <2>1, <2>2, SMT
  <2>3. CASE q # p
    <3>1. (q < p /\ q \in S) \/ (q > p /\ q - 1 \in S)
      BY <1>4, <2>3
    <3>2. Extreme(S, m, first) /\ m \in 1 .. n /\ m # 0
      <4>1. Extreme(S, m, first)
        BY <1>6, <3>1
      <4>2. m \in 1 .. n
        BY <1>1, <4>1 DEF Extreme
      <4>3. m # 0
        BY <1>1, <4>2, SMT
      <4>4. QED
        BY <4>1, <4>2, <4>3
    <3>3. p = IF t.sortflag # 0 THEN (IF first THEN m ELSE m + 1) ELSE IF first THEN 1 ELSE n + 1
      BY <1>5, <3>2
    <3>4. CASE first
      <4>1. (p = m \/ p = 1) /\ \A x \in S : m <= x
        BY <3>2, <3>3, <3>4 DEF Extreme
      <4>2. p <= q
        <5>1. CASE q < p /\ q \in S
          <6>1. m <= q
            BY <4>1, <5>1
          <6>2. QED
            BY <1>1, <2>1, <3>2, <4>1, <5>1, <6>1, SMT
        <5>2. CASE q > p
          BY <1>1, <2>1, <5>2, SMT
        <5>3. QED
          BY <3>1, <5>1, <5>2
      <4>3. QED
        BY <3>4, <4>2
    <3>5. CASE ~first
      <4>1. (p = m + 1 \/ p = n + 1) /\ \A x \in S : m >= x
        BY <3>2, <3>3, <3>5 DEF Extreme
      <4>2. p >= q
        <5>1. CASE q > p /\ q - 1 \in S
          <6>1. m >= q - 1
            BY <4>1, <5>1
          <6>2. QED
            BY <1>1, <2>1, <3>2, <4>1, <5>1, <6>1, SMT
        <5>2. CASE q < p
          BY <1>1, <2>1, <5>2, SMT
        <5>3. QED
          BY <3>1, <5>1, <5>2
      <4>3. QED
        BY <3>5, <4>2
    <3>6. QED
      BY <3>4, <3>5
  <2>4. QED
    BY <2>2, <2>3
<1>9. Extreme(R, p, first)
  BY <1>4, <1>8 DEF Extreme
<1>10. FindObj(u, o.name, u.getdir) = p
  <2>1. n + 1 \in Nat /\ R \in SUBSET (1 .. n + 1)
    BY <1>1, <1>2, <1>3, SMT
  <2> DEFINE b == n + 1
  <2> HIDE DEF b
  <2>2. b \in Nat /\ R \in SUBSET (1 .. b)
    BY <2>1 DEF b
  <2>3. Nearest(R, first) = p
    BY <1>9, <2>2, NearestOnly
  <2>4. QED
    BY <1>2, <2>3 DEF FindObj, R
<1>11. p # 0
  BY <1>1, SMT
<1>12. Get(u, o.name) = {o.data}
  BY <1>4, <1>10, <1>11 DEF Get
<1>13. QED
  BY <1>12 DEF u

\* Of a unique name there is one when it has been put.
LEMMA PutIsUnique ==
  ASSUME NEW t \in ListTable, NEW o \in Entry, NEW first \in BOOLEAN, Places(t, {o.name}) = {}
  PROVE  Len(Matching(Inserted(t, o, first), {o.name})) = 1
<1> DEFINE p == PlaceFor(t, o.name, first)
           u == Inserted(t, o, first)
           R == Places(u, {o.name})
<1>1. InsertedAt(u, t, o, p) /\ p \in 1 .. Len(t.items) + 1
  BY InsertedIs, PlaceForIs DEF PlaceOK
<1>2. u \in ListTable
  BY <1>1 DEF InsertedAt
<1> HIDE DEF u, p
<1>3. R = {p}
  <2>1. PlacedSo(u, t, o, p)
    BY <1>1, PutPlaces
  <2>2. \A q \in Places(t, {o.name}) : FALSE
    OBVIOUS
  <2>3. p \in R /\ \A q \in R : q = p
    BY <2>1, <2>2 DEF PlacedSo
  <2>4. QED
    BY <2>3
<1>4. R \in SUBSET (1 .. Len(u.items)) /\ u.items \in Seq(Entry)
  BY <1>2, PlacesAre
<1>5. Cardinality(R) = 1
  BY <1>3, FS_Singleton
<1> HIDE DEF R
<1>6. Len(ElementsAt(u.items, R)) = 1
  BY <1>4, <1>5, ElementsAtAre
<1>7. QED
  BY <1>6 DEF Matching, R, u

\* remove_ leaves none of the name, and changes nothing else.
CleanOf(u, t, name) ==
  /\ u \in ListTable /\ Grouped(u) /\ Places(u, {name}) = {}
  /\ u.putdir = t.putdir /\ u.getdir = t.getdir

LEMMA RemovedClean ==
  ASSUME NEW t \in ListTable, Grouped(t), NEW name
  PROVE  CleanOf(Removed(t, name), t, name)
<1> DEFINE n == Len(t.items)
           S == (1 .. n) \ Places(t, {name})
           e == ElementsAt(t.items, S)
           u == [t EXCEPT !.items = e]
           c == Cardinality(S)
<1>1. Removed(t, name) = u
  BY RemovedIs
<1>2. n \in Nat /\ t.items \in Seq(Entry) /\ S \in SUBSET (1 .. n)
  BY PlacesAre
<1>3. u \in ListTable /\ Grouped(u)
  BY <1>2, KeptGrouped
<1>4. e \in Seq(Entry) /\ Len(e) = c /\ c \in Nat /\ e = [i \in 1 .. c |-> t.items[Ascending(S)[i]]]
  <2> HIDE DEF S
  <2>1. QED
    BY <1>2, ElementsAtAre
<1>5. Ascending(S) \in [1 .. c -> S]
  <2> HIDE DEF S
  <2>1. QED
    BY <1>2, AscendingLists DEF Lists
<1>6. /\ u.items = e /\ u.lookupcase = t.lookupcase /\ u.putdir = t.putdir /\ u.getdir = t.getdir
  <2> HIDE DEF e
  <2>1. QED
    BY DEF ListTable
<1>7. \A x \in S : ~NameMatch(t, t.items[x], name)
  BY DEF Places
<1> HIDE DEF S, u, c
<1>8. \A i \in 1 .. c : ~NameMatch(t, e[i], name)
  BY <1>4, <1>5, <1>7
<1> HIDE DEF e
<1>9. Places(u, {name}) = {}
  BY <1>4, <1>6, <1>8 DEF Places, NameMatch
<1>10. QED
  BY <1>1, <1>3, <1>6, <1>9 DEF CleanOf

-----------------------------------------------------------------------------
(* qlisttbl: getnext, and what may be removed under it *)

Cursors ==
  [on : BOOLEAN, name : {{}} \cup {{x} : x \in Name}, from : Nat, seen : Seq(Entry), due : Seq(Entry)]

\* What a walk has seen and what it will see are all it has to see.
Walking(t, w) ==
  /\ Valid(t, w.from) /\ Onward(t, w.name, w.from)
  /\ w.due = w.seen \o Along(t.items, Left(t, w.name, w.from), t.nextdir)
CursorOK(t, w) == w \in Cursors /\ (w.on => Walking(t, w))

\* A walk that begins.
Fresh(t, w) == w.from = 0 /\ w.seen = <<>> /\ w.due = Along(t.items, Places(t, w.name), t.nextdir)

\* The walk that goes on behind p.
Stepped(t, w, p) ==
  [w EXCEPT !.on = TRUE, !.from = After(t, p), !.seen = Append(@, t.items[p])]
StepOK(t, w, p) ==
  /\ p = 0 => w.seen = w.due
  /\ p # 0 => CursorOK(t, Stepped(t, w, p))

LEMMA WalkGoes ==
  ASSUME NEW t \in ListTable, Grouped(t), NEW w \in Cursors, w.on => Walking(t, w), ~w.on => Fresh(t, w),
         NEW p, p = IF w.on /\ AtEnd(t, w.from) THEN 0 ELSE NextPlace(t, w)
  PROVE  StepOK(t, w, p)
<1> DEFINE from == IF w.on THEN w.from ELSE Start(t)
           L == Left(t, w.name, from)
           n == Len(t.items)
           rest == Along(t.items, L, t.nextdir)
<1>1. /\ n \in Nat /\ t.nextdir \in BOOLEAN /\ L \in SUBSET (1 .. n) /\ t.items \in Seq(Entry)
      /\ Places(t, w.name) \in SUBSET (1 .. n) /\ Remaining(t, Start(t)) = 1 .. n
  BY PlacesAre
<1>2. WalkName(w.name) /\ w.seen \in Seq(Entry) /\ w.due \in Seq(Entry)
  BY DEF WalkName, Cursors
<1>3. L = IF w.on THEN Left(t, w.name, w.from) ELSE Places(t, w.name)
  BY <1>1 DEF Left
<1>4. p = Nearest(L, ~t.nextdir)
  <2>1. CASE ~w.on
    <3>1. w.from = 0
      BY <2>1 DEF Fresh
    <3>2. NextPlace(t, w) = Nearest(Places(t, w.name), ~t.nextdir)
      BY <1>2, <3>1, NextFirst
    <3>3. QED
      BY <1>3, <2>1, <3>2
  <2>2. CASE w.on /\ AtEnd(t, w.from)
    <3>1. Left(t, w.name, w.from) = {}
      BY <2>2, NoneLeft DEF Walking
    <3>2. QED
      BY <1>3, <2>2, <3>1 DEF Nearest
  <2>3. CASE w.on /\ ~AtEnd(t, w.from)
    <3>1. w.from # 0
      BY <1>1, <2>3, SMT DEF AtEnd
    <3>2. Onward(t, w.name, w.from)
      BY <2>3 DEF Walking
    <3>3. NextPlace(t, w) = Nearest(Left(t, w.name, w.from), ~t.nextdir)
      BY <3>1, <3>2, NextFrom
    <3>4. QED
      BY <1>3, <2>3, <3>3
  <2>4. QED
    BY <2>1, <2>2, <2>3
<1>5. rest \in Seq(Entry)
  <2> HIDE DEF L
  <2>1. QED
    BY <1>1, AlongIs
<1>6. w.due = w.seen \o rest
  <2>1. CASE w.on
    BY <2>1 DEF Walking
  <2>2. CASE ~w.on
    <3>1. w.seen = <<>> /\ w.due = rest
      BY <1>3, <2>2 DEF Fresh
    <3> HIDE DEF rest
    <3>2. <<>> \o rest = rest
      BY <1>5, ConcatEmptySeq
    <3>3. QED
      BY <3>1, <3>2
  <2>3. QED
    BY <2>1, <2>2
<1>7. Valid(t, from) \/ from = Start(t)
  BY DEF Walking
<1> HIDE DEF from
<1>8. CASE L = {}
  <2>1. p = 0
    BY <1>4, <1>8 DEF Nearest
  <2>2. rest = <<>>
    BY <1>1, <1>8, NothingAlong
  <2> HIDE DEF rest
  <2>3. w.seen \o <<>> = w.seen
    BY <1>2, ConcatEmptySeq
  <2>4. QED
    BY <1>6, <2>1, <2>2, <2>3 DEF StepOK
<1>9. CASE L # {}
  <2>1. FoundAt(t, w.name, from, p)
    BY <1>2, <1>4, <1>7, <1>9, GoesOn
  <2>2. /\ p \in 1 .. n /\ p # 0 /\ Extreme(L, p, ~t.nextdir)
        /\ Valid(t, After(t, p)) /\ Onward(t, w.name, After(t, p))
        /\ Left(t, w.name, After(t, p)) = L \ {p}
    BY <2>1 DEF FoundAt
  <2> DEFINE v == Stepped(t, w, p)
             r == Along(t.items, L \ {p}, t.nextdir)
             x == t.items[p]
  <2>3. x \in Entry /\ After(t, p) \in Nat
    <3>1. x \in Entry
      BY <1>1, <2>2, LenProperties
    <3>2. After(t, p) \in Nat
      BY <1>1, <2>2, SMT DEF After
    <3>3. QED
      BY <3>1, <3>2
  <2>4. rest = <<x>> \o r
    <3> HIDE DEF L
    <3>1. Peeled(t.items, L, t.nextdir, p)
      BY <1>1, <2>2, Peel
    <3>2. QED
      BY <3>1 DEF Peeled
  <2>5. r \in Seq(Entry)
    <3>1. L \ {p} \in SUBSET (1 .. Len(t.items))
      BY <1>1
    <3>2. QED
      BY <1>1, <3>1, AlongIs
  <2> HIDE DEF rest, r, x
  <2>6. w.due = Append(w.seen, x) \o r
    <3> DEFINE a == w.seen
    <3>1. a \in Seq(Entry) /\ x \in Entry /\ r \in Seq(Entry)
      BY <1>2, <2>3, <2>5
    <3> HIDE DEF a
    <3>2. a \o (<<x>> \o r) = Append(a, x) \o r
      BY <3>1, AppendAlong
    <3>3. QED
      BY <1>6, <2>4, <3>2 DEF a
  <2>7. Append(w.seen, x) \in Seq(Entry)
    BY <1>2, <2>3, AppendProperties
  <2>8. v \in Cursors /\ v.on /\ v.name = w.name /\ v.from = After(t, p) /\ v.seen = Append(w.seen, x) /\ v.due = w.due
    <3>1. v = [w EXCEPT !.on = TRUE, !.from = After(t, p), !.seen = Append(w.seen, x)]
      BY DEF Stepped, x
    <3> HIDE DEF v
    <3>2. QED
      BY <2>3, <2>7, <3>1 DEF Cursors
  <2> HIDE DEF v, L
  <2>9. Walking(t, v)
    <3>1. v.due = v.seen \o Along(t.items, Left(t, v.name, v.from), t.nextdir)
      BY <2>2, <2>6, <2>8 DEF r
    <3>2. QED
      BY <2>2, <2>8, <3>1 DEF Walking
  <2>10. CursorOK(t, v)
    BY <2>8, <2>9 DEF CursorOK
  <2>11. QED
    BY <2>2, <2>10 DEF StepOK, v
<1>10. QED
  BY <1>8, <1>9

\* The table without what has just been seen, and where the walk then is.
Less(t, p) == [t EXCEPT !.items = RemoveAt(t.items, p)]
SeenAt(t, from) == IF t.nextdir THEN from + 1 ELSE from - 1
Back(t, from) == IF t.nextdir THEN from ELSE from - 1
LessOK(u, t, name, from, to) ==
  /\ Valid(u, to) /\ Onward(u, name, to) /\ u.nextdir = t.nextdir /\ to \in Nat
  /\ Along(u.items, Left(u, name, to), u.nextdir) = Along(t.items, Left(t, name, from), t.nextdir)

LEMMA RemovedUnderWalk ==
  ASSUME NEW t \in ListTable, Grouped(t), NEW name, NEW from, Valid(t, from), Onward(t, name, from),
         SeenAt(t, from) \in 1 .. Len(t.items)
  PROVE  LessOK(Less(t, SeenAt(t, from)), t, name, from, Back(t, from))
<1> DEFINE p == SeenAt(t, from)
           to == Back(t, from)
           u == Less(t, p)
           r == u.items
           n == Len(t.items)
           back == t.nextdir
           f == [x \in Left(t, name, from) |-> IF back THEN x ELSE x - 1]
<1>1. n \in Nat /\ t.items \in Seq(Entry) /\ back \in BOOLEAN /\ p \in 1 .. n
  BY PlacesAre
<1>2. from \in Nat
  BY <1>1, SMT DEF Valid
<1>3. /\ to \in Nat
      /\ back => to = from /\ p = from + 1 /\ to <= n - 1
      /\ ~back => to = from - 1 /\ p = to /\ from = to + 1 /\ to \in 1 .. n
  BY <1>1, <1>2, SMT DEF Back, SeenAt
<1>4. u \in ListTable /\ Grouped(u)
  <2> HIDE DEF p
  <2>1. QED
    BY <1>1, OneOutGrouped DEF Less
<1>5. u.nextdir = back /\ u.lookupcase = t.lookupcase /\ u.sortflag = t.sortflag /\ r = RemoveAt(t.items, p)
  <2> HIDE DEF p
  <2> DEFINE q == RemoveAt(t.items, p)
  <2>1. u = [t EXCEPT !.items = q]
    BY DEF Less
  <2> HIDE DEF q, u
  <2>2. u.nextdir = t.nextdir /\ u.lookupcase = t.lookupcase /\ u.sortflag = t.sortflag /\ u.items = q
    BY <2>1 DEF ListTable
  <2>3. QED
    BY <2>2 DEF q
<1> HIDE DEF u, p, to
<1>6. r \in Seq(Entry) /\ Len(r) = n - 1 /\ \A i \in 1 .. n - 1 : r[i] = IF i < p THEN t.items[i] ELSE t.items[i + 1]
  BY <1>1, <1>5, RemoveFacts
<1>7. Valid(u, to)
  BY <1>1, <1>3, <1>5, <1>6, SMT DEF Valid
<1>8. /\ back => Remaining(t, from) = 1 .. to /\ Remaining(u, to) = 1 .. to
      /\ ~back => Remaining(t, from) = to + 1 .. n /\ Remaining(u, to) = to .. n - 1
  BY <1>3, <1>5, <1>6 DEF Remaining
\* An element that is still to be seen, and its place when the other one is removed.
<1>9. ASSUME NEW x \in Remaining(t, from)
      PROVE  LET y == IF back THEN x ELSE x - 1
             IN  /\ x \in 1 .. n /\ y \in Remaining(u, to) /\ y \in 1 .. n - 1 /\ r[y] = t.items[x]
                 /\ y \in Places(u, name) <=> x \in Places(t, name)
  <2> DEFINE y == IF back THEN x ELSE x - 1
  <2>1. /\ x \in 1 .. n /\ y \in Remaining(u, to) /\ y \in 1 .. n - 1
        /\ (back => y = x /\ y < p) /\ (~back => y + 1 = x /\ ~(y < p))
    <3>1. CASE back
      BY <1>1, <1>3, <1>8, <1>9, <3>1, SMT
    <3>2. CASE ~back
      BY <1>1, <1>3, <1>8, <1>9, <3>2, SMT
    <3>3. QED
      BY <3>1, <3>2
  <2> HIDE DEF y
  <2>2. r[y] = t.items[x]
    BY <1>6, <2>1
  <2>3. y \in Places(u, name) <=> x \in Places(t, name)
    <3>1. y \in 1 .. Len(r)
      BY <1>6, <2>1
    <3>2. QED
      BY <1>5, <2>1, <2>2, <3>1 DEF Places, NameMatch
  <2>4. QED
    BY <2>1, <2>2, <2>3 DEF y
<1>10. ASSUME NEW y \in Remaining(u, to)
       PROVE  LET x == IF back THEN y ELSE y + 1
              IN  x \in Remaining(t, from) /\ y = (IF back THEN x ELSE x - 1) /\ y \in Nat
  <2>1. CASE back
    BY <1>1, <1>3, <1>8, <1>10, <2>1, SMT
  <2>2. CASE ~back
    BY <1>1, <1>3, <1>8, <1>10, <2>2, SMT
  <2>3. QED
    BY <2>1, <2>2
<1> HIDE DEF r, n, back
<1>11. Moves(f, Left(t, name, from), Left(u, name, to)) /\ \A x \in Left(t, name, from) : r[f[x]] = t.items[x]
  <2> DEFINE S == Left(t, name, from)
             R == Left(u, name, to)
  <2>1. \A x \in S : x \in Remaining(t, from) /\ x \in Places(t, name)
    BY DEF Left
  <2>2. \A y \in R : y \in Remaining(u, to) /\ y \in Places(u, name)
    BY DEF Left
  <2>3. \A x : x \in Remaining(t, from) /\ x \in Places(t, name) => x \in S
    BY DEF Left
  <2>4. \A y : y \in Remaining(u, to) /\ y \in Places(u, name) => y \in R
    BY DEF Left
  <2> HIDE DEF S, R
  <2>5. \A x \in S : f[x] = (IF back THEN x ELSE x - 1)
    BY DEF S
  <2>6. DOMAIN f = S /\ f = [x \in S |-> f[x]]
    BY DEF S
  <2> HIDE DEF f
  <2>7. \A x \in S : f[x] \in R /\ r[f[x]] = t.items[x] /\ x \in Nat
    BY <1>9, <2>1, <2>4, <2>5
  <2>8. \A x, y \in S : x < y => f[x] < f[y]
    <3>1. SUFFICES ASSUME NEW x \in S, NEW y \in S, x < y PROVE f[x] < f[y]
      OBVIOUS
    <3>2. x \in Nat /\ y \in Nat
      BY <2>7
    <3>3. CASE back
      BY <2>5, <3>1, <3>3
    <3>4. CASE ~back
      BY <2>5, <3>1, <3>2, <3>4
    <3>5. QED
      BY <3>3, <3>4
  <2>9. ASSUME NEW y \in R PROVE \E x \in S : f[x] = y
    <3> DEFINE x == IF back THEN y ELSE y + 1
    <3>1. x \in Remaining(t, from) /\ y = IF back THEN x ELSE x - 1
      BY <1>10, <2>2
    <3> HIDE DEF x
    <3>2. x \in S
      BY <1>9, <2>2, <2>3, <3>1
    <3>3. QED
      BY <2>5, <3>1, <3>2
  <2>10. f \in [S -> R]
    BY <2>6, <2>7
  <2>11. Moves(f, S, R)
    BY <2>8, <2>9, <2>10 DEF Moves
  <2>12. QED
    BY <2>7, <2>11 DEF S, R
<1> HIDE DEF f
<1>12. ElementsAt(r, Left(u, name, to)) = ElementsAt(t.items, Left(t, name, from))
  <2>1. Left(t, name, from) \in SUBSET (1 .. Len(t.items)) /\ Left(u, name, to) \in SUBSET (1 .. Len(r))
    BY <1>4, PlacesAre DEF r
  <2>2. r \in Seq(Entry) /\ t.items \in Seq(Entry)
    BY <1>1, <1>6
  <2>3. QED
    BY <1>11, <2>1, <2>2, ElementsMoved
<1>13. Along(r, Left(u, name, to), u.nextdir) = Along(t.items, Left(t, name, from), t.nextdir)
  BY <1>5, <1>12 DEF Along, back
<1>14. Onward(u, name, to)
  <2>1. SUFFICES ASSUME NEW y \in Left(u, name, to), name # {}, u.sortflag # 0,
                        NEW q \in Remaining(u, to), IF u.nextdir THEN q > y ELSE q < y
                 PROVE  q \in Places(u, name)
    BY DEF Onward, Ahead, Left
  <2>2. y \in Remaining(u, to) /\ y \in Places(u, name)
    BY DEF Left
  <2> DEFINE x == IF back THEN y ELSE y + 1
             z == IF back THEN q ELSE q + 1
  <2>3. /\ x \in Remaining(t, from) /\ y = (IF back THEN x ELSE x - 1) /\ y \in Nat
        /\ z \in Remaining(t, from) /\ q = (IF back THEN z ELSE z - 1) /\ q \in Nat
    BY <1>10, <2>1, <2>2
  <2>4. IF back THEN z > x ELSE z < x
    <3>1. CASE back
      BY <1>5, <2>1, <3>1
    <3>2. CASE ~back
      <4>1. q < y
        BY <1>5, <2>1, <3>2
      <4>2. q + 1 < y + 1
        BY <2>3, <4>1, SMT
      <4>3. QED
        BY <3>2, <4>2
    <3>3. QED
      BY <3>1, <3>2
  <2> HIDE DEF x, z
  <2>5. x \in Places(t, name)
    BY <1>9, <2>2, <2>3
  <2>6. x \in Ahead(t, name, from)
    BY <2>3, <2>5 DEF Onward, Left
  <2>7. z \in Places(t, name)
    BY <1>5, <2>1, <2>3, <2>4, <2>6 DEF Ahead, back
  <2>8. QED
    BY <1>9, <2>3, <2>7
<1>15. QED
  BY <1>3, <1>5, <1>7, <1>13, <1>14 DEF LessOK, u, p, to, r, back

-----------------------------------------------------------------------------
(* qlisttbl: every call keeps the elements of a name together, and the walk in step *)

TableOK(t, c) == t \in ListTable /\ Grouped(t) /\ CursorOK(t, c)
ListTblInv == TableOK(tbl, cursor)

LEMMA CursorIs ==
  ASSUME NEW t
  PROVE  CursorOK(t, NoCursor) /\ NoCursor \in Cursors /\ NoCursor.on = FALSE
<1>1. <<>> \in Seq(Entry)
  BY EmptySeq
<1>2. NoCursor \in Cursors /\ NoCursor.on = FALSE
  BY <1>1 DEF NoCursor, Cursors
<1>3. QED
  BY <1>2 DEF CursorOK

LEMMA NewTableIs == NewTable \in ListTable /\ NewTable.sortflag = 0 /\ NewTable.items = <<>> /\ Grouped(NewTable)
<1>1. <<>> \in Seq(Entry)
  BY EmptySeq
<1>2. NewTable \in ListTable /\ NewTable.sortflag = 0 /\ NewTable.items = <<>>
  BY <1>1 DEF NewTable, ListTable
<1>3. QED
  BY <1>2 DEF Grouped

\* A call that ends the walk when it changes the table.
LEMMA EndsKeep ==
  ASSUME ListTblInv, NEW u \in ListTable, Grouped(u), tbl' = u, Ends
  PROVE  ListTblInv'
<1>1. TableOK(tbl, cursor)
  BY DEF ListTblInv
<1>2. PICK t : t = tbl
  OBVIOUS
<1>3. PICK c : c = cursor
  OBVIOUS
<1>4. PICK d : d = cursor'
  OBVIOUS
<1>5. CursorOK(t, c)
  BY <1>1, <1>2, <1>3 DEF TableOK
<1>6. d = IF u = t THEN c ELSE NoCursor
  BY <1>2, <1>3, <1>4 DEF Ends
<1>7. CursorOK(u, d)
  BY <1>5, <1>6, CursorIs
<1>8. TableOK(u, d)
  BY <1>7 DEF TableOK
<1>9. QED
  BY <1>4, <1>8 DEF ListTblInv

\* Settings that do not concern the order.
LEMMA DirsKeep ==
  ASSUME NEW t \in ListTable, Grouped(t), NEW b \in BOOLEAN
  PROVE  /\ [t EXCEPT !.putdir = b] \in ListTable /\ Grouped([t EXCEPT !.putdir = b])
         /\ [t EXCEPT !.getdir = b] \in ListTable /\ Grouped([t EXCEPT !.getdir = b])
         /\ [t EXCEPT !.nextdir = b] \in ListTable /\ Grouped([t EXCEPT !.nextdir = b])
<1>1. ASSUME NEW u \in ListTable, u.items = t.items, u.lookupcase = t.lookupcase, u.sortflag = t.sortflag
      PROVE  Grouped(u)
  BY <1>1 DEF Grouped, Like, NameMatch
<1> DEFINE x == [t EXCEPT !.putdir = b]
           y == [t EXCEPT !.getdir = b]
           z == [t EXCEPT !.nextdir = b]
<1>2. x \in ListTable /\ x.items = t.items /\ x.lookupcase = t.lookupcase /\ x.sortflag = t.sortflag
  BY DEF ListTable
<1>3. y \in ListTable /\ y.items = t.items /\ y.lookupcase = t.lookupcase /\ y.sortflag = t.sortflag
  BY DEF ListTable
<1>4. z \in ListTable /\ z.items = t.items /\ z.lookupcase = t.lookupcase /\ z.sortflag = t.sortflag
  BY DEF ListTable
<1> HIDE DEF x, y, z
<1>5. x \in ListTable /\ Grouped(x) /\ y \in ListTable /\ Grouped(y) /\ z \in ListTable /\ Grouped(z)
  BY <1>1, <1>2, <1>3, <1>4
<1>6. QED
  BY <1>5 DEF x, y, z

\* qlisttbl_caseinsensitive and the like sort again when what is compared changes.
CaseSet(t, insensitive) ==
  LET v == [t EXCEPT !.lookupcase = insensitive]
  IN  IF insensitive # t.lookupcase /\ v.sortflag # 0 THEN Sorted(v, v.sortflag = 2) ELSE v
SortSet(t, sort, descending) ==
  LET v == [t EXCEPT !.sortflag = IF ~sort THEN 0 ELSE IF descending THEN 2 ELSE 1]
  IN  IF sort /\ v.sortflag # t.sortflag THEN Sorted(v, descending) ELSE v

LEMMA CaseKeeps ==
  ASSUME ListTblAssumption, NEW t \in ListTable, Grouped(t), NEW b \in BOOLEAN
  PROVE  CaseSet(t, b) \in ListTable /\ Grouped(CaseSet(t, b))
<1> DEFINE v == [t EXCEPT !.lookupcase = b]
           d == v.sortflag = 2
<1>1. v \in ListTable /\ v.sortflag = t.sortflag /\ (b = t.lookupcase => v = t)
  BY DEF ListTable
<1>2. d \in BOOLEAN
  OBVIOUS
<1>3. CaseSet(t, b) = IF b # t.lookupcase /\ v.sortflag # 0 THEN Sorted(v, d) ELSE v
  BY DEF CaseSet
<1> HIDE DEF v, d
<1>4. Sorted(v, d) \in ListTable /\ Grouped(Sorted(v, d))
  BY <1>1, <1>2, SortedGrouped
<1>5. v.sortflag = 0 => Grouped(v)
  BY DEF Grouped
<1>6. CASE b # t.lookupcase /\ v.sortflag # 0
  BY <1>3, <1>4, <1>6
<1>7. CASE ~(b # t.lookupcase /\ v.sortflag # 0)
  BY <1>1, <1>3, <1>5, <1>7
<1>8. QED
  BY <1>6, <1>7

LEMMA SortKeeps ==
  ASSUME ListTblAssumption, NEW t \in ListTable, Grouped(t), NEW sort \in BOOLEAN, NEW d \in BOOLEAN
  PROVE  SortSet(t, sort, d) \in ListTable /\ Grouped(SortSet(t, sort, d))
<1> DEFINE f == IF ~sort THEN 0 ELSE IF d THEN 2 ELSE 1
           v == [t EXCEPT !.sortflag = f]
<1>1. f \in 0 .. 2
  BY SMT
<1>2. SortSet(t, sort, d) = IF sort /\ v.sortflag # t.sortflag THEN Sorted(v, d) ELSE v
  BY DEF SortSet
<1>3. ~sort => f = 0
  OBVIOUS
<1> HIDE DEF f
<1>4. v \in ListTable /\ v.sortflag = f /\ (f = t.sortflag => v = t)
  BY <1>1 DEF ListTable
<1> HIDE DEF v
<1>5. Sorted(v, d) \in ListTable /\ Grouped(Sorted(v, d))
  BY <1>4, SortedGrouped
<1>6. v.sortflag = 0 => Grouped(v)
  BY DEF Grouped
<1>7. CASE sort /\ v.sortflag # t.sortflag
  BY <1>2, <1>5, <1>7
<1>8. CASE ~(sort /\ v.sortflag # t.sortflag)
  BY <1>2, <1>3, <1>4, <1>6, <1>8
<1>9. QED
  BY <1>7, <1>8

LEMMA PutKeeps ==
  ASSUME NEW t \in ListTable, Grouped(t), NEW o \in Entry, NEW first \in BOOLEAN
  PROVE  Inserted(t, o, first) \in ListTable /\ Grouped(Inserted(t, o, first))
<1>1. InsertedAt(Inserted(t, o, first), t, o, PlaceFor(t, o.name, first)) /\ PlaceOK(t, o, PlaceFor(t, o.name, first))
  BY InsertedIs, PlaceForIs
<1>2. Inserted(t, o, first) \in ListTable
  BY <1>1 DEF InsertedAt
<1>3. QED
  BY <1>1, <1>2, InsertedGrouped

\* What a put does to the table.
PutTable(t, e, unique) == Inserted(IF unique THEN Removed(t, e.name) ELSE t, e, t.putdir)

\* What PutStep says of it.
PutWell(t, e, unique, u) ==
  /\ u \in ListTable /\ Grouped(u)
  /\ unique => Len(Matching(u, {e.name})) = 1
  /\ t.putdir = t.getdir => Get(u, e.name) = {e.data}

LEMMA PutIs ==
  ASSUME NEW t \in ListTable, Grouped(t), NEW e \in Entry, NEW unique \in BOOLEAN
  PROVE  PutWell(t, e, unique, PutTable(t, e, unique))
<1> DEFINE v == IF unique THEN Removed(t, e.name) ELSE t
           first == t.putdir
           u == Inserted(v, e, first)
<1>1. /\ v \in ListTable /\ Grouped(v) /\ v.putdir = first /\ v.getdir = t.getdir /\ first \in BOOLEAN
      /\ unique => Places(v, {e.name}) = {}
  <2>1. CleanOf(Removed(t, e.name), t, e.name)
    BY RemovedClean
  <2>2. first \in BOOLEAN
    BY DEF ListTable
  <2>3. CASE unique
    BY <2>1, <2>2, <2>3 DEF CleanOf
  <2>4. CASE ~unique
    BY <2>2, <2>4
  <2>5. QED
    BY <2>3, <2>4
<1>2. PutTable(t, e, unique) = u
  BY DEF PutTable
<1> HIDE DEF v, first
<1>3. u \in ListTable /\ Grouped(u)
  BY <1>1, PutKeeps
<1>4. unique => Len(Matching(u, {e.name})) = 1
  BY <1>1, PutIsUnique
<1>5. first = t.getdir => Get(u, e.name) = {e.data}
  BY <1>1, PutIsFound
<1>6. QED
  BY <1>2, <1>3, <1>4, <1>5 DEF PutWell, first

\* A call of getnext: the walk goes on, or has seen all and is over.
NextOK(t, c, d) ==
  /\ TableOK(t, d)
  /\ c.on /\ ~d.on => c.seen = c.due

WalkFor(t, c, name) ==
  IF c.on THEN c ELSE [NoCursor EXCEPT !.name = name, !.due = InDirection(t, Matching(t, name))]
FoundBy(t, w) == IF w.on /\ AtEnd(t, w.from) THEN 0 ELSE NextPlace(t, w)
GoneTo(t, w, p) == IF p = 0 THEN NoCursor ELSE Stepped(t, w, p)

LEMMA NextKeeps ==
  ASSUME NEW t, NEW c, TableOK(t, c), NEW name \in {{}} \cup {{x} : x \in Name},
         NEW w, w = WalkFor(t, c, name), NEW p, p = FoundBy(t, w), NEW d, d = GoneTo(t, w, p)
  PROVE  NextOK(t, c, d)
<1>1. t \in ListTable /\ Grouped(t) /\ c \in Cursors /\ (c.on => Walking(t, c))
  BY DEF TableOK, CursorOK
<1>2. w \in Cursors /\ (w.on => Walking(t, w)) /\ (~w.on => Fresh(t, w)) /\ (c.on => w = c)
  <2>1. CASE c.on
    BY <1>1, <2>1 DEF WalkFor
  <2>2. CASE ~c.on
    <3> DEFINE due == InDirection(t, Matching(t, name))
    <3>1. due = Along(t.items, Places(t, name), t.nextdir)
      BY DEF InDirection, Matching, Along
    <3>2. Along(t.items, Places(t, name), t.nextdir) \in Seq(Entry)
      <4>1. Places(t, name) \in SUBSET (1 .. Len(t.items)) /\ t.items \in Seq(Entry) /\ t.nextdir \in BOOLEAN
        BY <1>1, PlacesAre
      <4>2. QED
        BY <4>1, AlongIs
    <3>3. w = [NoCursor EXCEPT !.name = name, !.due = due]
      BY <2>2 DEF WalkFor
    <3> HIDE DEF due
    <3>4. <<>> \in Seq(Entry) /\ due \in Seq(Entry)
      BY <3>1, <3>2, EmptySeq
    <3>8. w = [on |-> FALSE, name |-> name, from |-> 0, seen |-> <<>>, due |-> due]
      BY <3>3 DEF NoCursor
    <3>5. w \in Cursors /\ w.on = FALSE /\ w.from = 0 /\ w.seen = <<>> /\ w.name = name /\ w.due = due
      BY <3>4, <3>8 DEF Cursors
    <3>6. Fresh(t, w)
      BY <3>1, <3>5 DEF Fresh
    <3>7. QED
      BY <2>2, <3>5, <3>6
  <2>3. QED
    BY <2>1, <2>2
<1>3. StepOK(t, w, p)
  BY <1>1, <1>2, WalkGoes DEF FoundBy
<1>4. CASE p = 0
  <2>1. d = NoCursor /\ w.seen = w.due
    BY <1>3, <1>4 DEF StepOK, GoneTo
  <2>2. CursorOK(t, d)
    BY <2>1, CursorIs
  <2>3. QED
    BY <1>1, <1>2, <2>1, <2>2 DEF NextOK, TableOK
<1>5. CASE p # 0
  <2>1. d = Stepped(t, w, p)
    BY <1>5 DEF GoneTo
  <2>2. CursorOK(t, d)
    BY <1>3, <1>5, <2>1 DEF StepOK
  <2>3. d.on
    <3>1. Stepped(t, w, p).on
      BY <1>2 DEF Stepped, Cursors
    <3>2. QED
      BY <2>1, <3>1
  <2>4. QED
    BY <1>1, <2>2, <2>3 DEF NextOK, TableOK
<1>6. QED
  BY <1>4, <1>5

\* The walk stays in step when what it has just seen is removed.
LEMMA SeenKeeps ==
  ASSUME NEW t, NEW c, TableOK(t, c), c.on, SeenAt(t, c.from) \in 1 .. Len(t.items),
         NEW u, u = Less(t, SeenAt(t, c.from)),
         NEW d, d = [c EXCEPT !.from = IF t.nextdir THEN c.from ELSE c.from - 1]
  PROVE  NextOK(u, c, d)
<1>1. t \in ListTable /\ Grouped(t) /\ c \in Cursors /\ Walking(t, c)
  BY DEF TableOK, CursorOK
<1>2. Valid(t, c.from) /\ Onward(t, c.name, c.from)
      /\ c.due = c.seen \o Along(t.items, Left(t, c.name, c.from), t.nextdir)
  BY <1>1 DEF Walking
<1> DEFINE to == Back(t, c.from)
           p == SeenAt(t, c.from)
<1>3. LessOK(u, t, c.name, c.from, to)
  BY <1>1, <1>2, RemovedUnderWalk
<1>4. u \in ListTable /\ Grouped(u)
  <2>1. p \in 1 .. Len(t.items)
    OBVIOUS
  <2> HIDE DEF p
  <2>2. Less(t, p) \in ListTable /\ Grouped(Less(t, p))
    BY <1>1, <2>1, OneOutGrouped DEF Less
  <2>3. QED
    BY <2>2 DEF p
<1>5. d = [c EXCEPT !.from = to]
  BY DEF Back
<1>6. to \in Nat
  BY <1>3 DEF LessOK
<1> HIDE DEF to
<1>7. d \in Cursors /\ d.on = c.on /\ d.name = c.name /\ d.from = to /\ d.seen = c.seen /\ d.due = c.due
  BY <1>1, <1>5, <1>6 DEF Cursors
<1>8. Walking(u, d)
  BY <1>2, <1>3, <1>7 DEF LessOK, Walking
<1>9. QED
  BY <1>4, <1>7, <1>8 DEF NextOK, TableOK, CursorOK

LEMMA ListTblStarts == ListTblInit => ListTblInv
BY NewTableIs, CursorIs DEF ListTblInit, ListTblInv, TableOK

\* A step keeps the invariant, and a walk that is over has seen all.
LEMMA ListTblStep ==
  ASSUME ListTblAssumption, ListTblInv, ListTblNext
  PROVE  ListTblInv' /\ SeesAll
<1>1. PICK t : t = tbl
  OBVIOUS
<1>2. PICK c : c = cursor
  OBVIOUS
<1>3. TableOK(t, c) /\ t \in ListTable /\ Grouped(t)
  BY <1>1, <1>2 DEF ListTblInv, TableOK
<1>4. ASSUME NEW u \in ListTable, Grouped(u), tbl' = u, Ends PROVE ListTblInv' /\ SeesAll
  BY <1>4, EndsKeep DEF Ends, SeesAll
<1>5. ASSUME NEW b \in BOOLEAN, SetCase(b) PROVE ListTblInv' /\ SeesAll
  <2>1. tbl' = CaseSet(t, b) /\ Ends
    BY <1>1, <1>5 DEF SetCase, CaseSet
  <2>2. QED
    BY <1>3, <1>4, <2>1, CaseKeeps
<1>6. ASSUME NEW b \in BOOLEAN, SetPutDir(b) \/ SetGetDir(b) \/ SetNextDir(b) PROVE ListTblInv' /\ SeesAll
  <2>1. Ends /\ (\/ tbl' = [t EXCEPT !.putdir = b] \/ tbl' = [t EXCEPT !.getdir = b] \/ tbl' = [t EXCEPT !.nextdir = b])
    BY <1>1, <1>6 DEF SetPutDir, SetGetDir, SetNextDir
  <2>2. PICK u : u = tbl'
    OBVIOUS
  <2>3. u \in ListTable /\ Grouped(u)
    BY <1>3, <2>1, <2>2, DirsKeep
  <2>4. QED
    BY <1>4, <2>1, <2>2, <2>3
<1>7. ASSUME NEW b \in BOOLEAN, SortOnce(b) PROVE ListTblInv' /\ SeesAll
  <2>1. tbl' = Sorted(t, b) /\ Ends
    BY <1>1, <1>7 DEF SortOnce
  <2>2. QED
    BY <1>3, <1>4, <2>1, SortedGrouped
<1>8. ASSUME NEW sort \in BOOLEAN, NEW b \in BOOLEAN, SetSort(sort, b) PROVE ListTblInv' /\ SeesAll
  <2>1. tbl' = SortSet(t, sort, b) /\ Ends
    BY <1>1, <1>8 DEF SetSort, SortSet
  <2>2. QED
    BY <1>3, <1>4, <2>1, SortKeeps
<1>9. ASSUME NEW e \in Entry, Load(<<e>>) PROVE ListTblInv' /\ SeesAll
  <2>1. tbl' = Loaded(t, <<e>>) /\ Ends
    BY <1>1, <1>9 DEF Load
  <2>2. <<e>> \in Seq(Entry)
    BY SMT
  <2>3. Loaded(t, <<e>>) \in ListTable /\ Grouped(Loaded(t, <<e>>))
    BY <1>3, <2>2, LoadedGrouped
  <2>4. QED
    BY <1>4, <2>1, <2>3
<1>10. ASSUME NEW e \in Entry, NEW unique \in BOOLEAN, Put(e, unique) PROVE ListTblInv' /\ SeesAll
  <2>1. tbl' = PutTable(t, e, unique) /\ Ends
    BY <1>1, <1>10 DEF Put, PutTable
  <2>2. PutTable(t, e, unique) \in ListTable /\ Grouped(PutTable(t, e, unique))
    BY <1>3, PutIs DEF PutWell
  <2>3. QED
    BY <1>4, <2>1, <2>2
<1>11. ASSUME NEW name, RemoveName(name) PROVE ListTblInv' /\ SeesAll
  <2>1. tbl' = Removed(t, name) /\ Ends
    BY <1>1, <1>11 DEF RemoveName
  <2>2. Removed(t, name) \in ListTable /\ Grouped(Removed(t, name))
    BY <1>3, RemovedClean DEF CleanOf
  <2>3. QED
    BY <1>4, <2>1, <2>2
<1>12. ASSUME NEW name \in {{}} \cup {{x} : x \in Name}, GetNextOf(name) PROVE ListTblInv' /\ SeesAll
  <2>1. PICK w : w = WalkFor(t, c, name)
    OBVIOUS
  <2>2. PICK p : p = FoundBy(t, w)
    OBVIOUS
  <2>3. PICK d : d = cursor'
    OBVIOUS
  <2>4. d = GoneTo(t, w, p) /\ tbl' = t
    BY <1>1, <1>2, <1>12, <2>1, <2>2, <2>3 DEF GetNextOf, WalkFor, FoundBy, GoneTo, Stepped
  <2>5. NextOK(t, c, d)
    BY <1>3, <2>1, <2>2, <2>4, NextKeeps
  <2>6. QED
    BY <1>2, <2>3, <2>4, <2>5 DEF NextOK, ListTblInv, SeesAll
<1>13. ASSUME RemoveSeen PROVE ListTblInv' /\ SeesAll
  <2>1. PICK d : d = cursor'
    OBVIOUS
  <2>2. PICK u : u = tbl'
    OBVIOUS
  <2>3. /\ c.on /\ SeenAt(t, c.from) \in 1 .. Len(t.items) /\ u = Less(t, SeenAt(t, c.from))
        /\ d = [c EXCEPT !.from = IF t.nextdir THEN c.from ELSE c.from - 1]
    BY <1>1, <1>2, <1>13, <2>1, <2>2 DEF RemoveSeen, SeenAt, Less
  <2>4. NextOK(u, c, d)
    BY <1>3, <2>3, SeenKeeps
  <2>5. QED
    BY <1>2, <2>1, <2>2, <2>4 DEF NextOK, ListTblInv, SeesAll
<1>14. ASSUME ReverseTable PROVE ListTblInv' /\ SeesAll
  <2> DEFINE flag == IF t.sortflag = 1 THEN 2 ELSE IF t.sortflag = 2 THEN 1 ELSE 0
             u == [t EXCEPT !.items = Reverse(t.items), !.sortflag = flag]
  <2>1. tbl' = u /\ Ends
    BY <1>1, <1>14 DEF ReverseTable
  <2>2. flag \in 0 .. 2 /\ (t.sortflag = 0 => flag = 0)
    BY SMT
  <2>3. u \in ListTable /\ Grouped(u)
    <3> HIDE DEF flag
    <3>1. QED
      BY <1>3, <2>2, TurnedGrouped
  <2>4. QED
    BY <1>4, <2>1, <2>3
<1>15. ASSUME ClearTable PROVE ListTblInv' /\ SeesAll
  <2> DEFINE u == [t EXCEPT !.items = <<>>]
  <2>1. tbl' = u /\ Ends
    BY <1>1, <1>15 DEF ClearTable
  <2>2. <<>> \in Seq(Entry) /\ Len(<<>>) = 0
    BY EmptySeq
  <2>3. u \in ListTable /\ u.items = <<>>
    BY <1>3, <2>2 DEF ListTable
  <2> HIDE DEF u
  <2>4. Grouped(u)
    BY <2>2, <2>3, SMT DEF Grouped
  <2>5. QED
    BY <1>4, <2>1, <2>3, <2>4
<1>16. QED
  BY <1>5, <1>6, <1>7, <1>8, <1>9, <1>10, <1>11, <1>12, <1>13, <1>14, <1>15 DEF ListTblNext

\* What a put does, in any state of the table.
LEMMA PutsWell ==
  ASSUME ListTblInv
  PROVE  PutStep
<1>1. PICK t : t = tbl
  OBVIOUS
<1>2. PICK u : u = tbl'
  OBVIOUS
<1>3. t \in ListTable /\ Grouped(t)
  BY <1>1 DEF ListTblInv, TableOK
<1>4. SUFFICES ASSUME NEW e \in Entry, NEW unique \in BOOLEAN, Put(e, unique)
               PROVE  /\ unique => Len(Matching(tbl', {e.name})) = 1
                      /\ tbl.putdir = tbl.getdir => Get(tbl', e.name) = {e.data}
  BY DEF PutStep
<1>5. u = PutTable(t, e, unique)
  BY <1>1, <1>2, <1>4 DEF Put, PutTable
<1>6. PutWell(t, e, unique, u)
  BY <1>3, <1>5, PutIs
<1>7. QED
  BY <1>1, <1>2, <1>6 DEF PutWell

LEMMA TableIsGood ==
  ASSUME ListTblAssumption, ListTblInv
  PROVE  FindsAll /\ SortsStably
<1>1. tbl \in ListTable /\ Grouped(tbl)
  BY DEF ListTblInv, TableOK
<1>2. FindsAll
  BY <1>1, GetMultiIs DEF FindsAll
<1>3. SortsStably
  <2>1. \A d \in BOOLEAN : Stably(tbl, d, Sorted(tbl, d))
    BY <1>1, SortsWell
  <2>2. QED
    BY <2>1 DEF SortsStably, Stably
<1>4. QED
  BY <1>2, <1>3

LEMMA ListTblInvariant == ListTblAssumption => (ListTblSpec => []ListTblInv)
<1> SUFFICES ASSUME ListTblAssumption PROVE ListTblSpec => []ListTblInv
  OBVIOUS
<1>1. ListTblInit => ListTblInv
  BY ListTblStarts
<1>2. ListTblInv /\ [ListTblNext]_listTblVars => ListTblInv'
  <2>1. ASSUME ListTblInv, ListTblNext PROVE ListTblInv'
    BY <2>1, ListTblStep
  <2>2. ASSUME ListTblInv, UNCHANGED listTblVars PROVE ListTblInv'
    BY <2>2 DEF ListTblInv, listTblVars
  <2>3. QED
    BY <2>1, <2>2
<1>3. QED
  BY <1>1, <1>2, PTL DEF ListTblSpec

\* In a qlisttbl getmulti and remove find all the elements of a name, and sorting
\* is stable and loses nothing: the part of TablesAgree about the list table, for
\* every set of names and elements.
THEOREM ListTblFinds == ListTblAssumption => (ListTblSpec => [](FindsAll /\ SortsStably))
<1> SUFFICES ASSUME ListTblAssumption PROVE ListTblSpec => [](FindsAll /\ SortsStably)
  OBVIOUS
<1>1. ListTblInv => FindsAll /\ SortsStably
  BY TableIsGood
<1>2. ListTblSpec => []ListTblInv
  BY ListTblInvariant
<1>3. QED
  BY <1>1, <1>2, PTL

\* What is put is found, alone if it is to be unique, and a walk sees all that was
\* there although what it has just seen may be removed: the steps of ListTblKeeps,
\* for every set of names and elements.
THEOREM ListTblKeepsCorrect == ListTblAssumption => (ListTblSpec => [][PutStep /\ SeesAll]_listTblVars)
<1> SUFFICES ASSUME ListTblAssumption PROVE ListTblSpec => [][PutStep /\ SeesAll]_listTblVars
  OBVIOUS
<1>1. ListTblInv /\ [ListTblNext]_listTblVars => [PutStep /\ SeesAll]_listTblVars
  <2>1. ASSUME ListTblInv, ListTblNext PROVE PutStep /\ SeesAll
    BY <2>1, ListTblStep, PutsWell
  <2>2. QED
    BY <2>1
<1>2. ListTblSpec => []ListTblInv
  BY ListTblInvariant
<1>3. ListTblSpec => [][ListTblNext]_listTblVars
  BY PTL DEF ListTblSpec
<1>4. QED
  BY <1>1, <1>2, <1>3, PTL
=============================================================================
