----------------------------- MODULE WireProofs -----------------------------
(***************************************************************************)
(* Proofs about what goes over a connection.  First the session, for any   *)
(* requests, any number of them and any size of contents: client and       *)
(* server are in step, and the server does what the head of its answer     *)
(* says.  Then qio, for any bytes, any sizes of calls and chunks and any   *)
(* peer: what a call says it did is what it did, and a connection that is  *)
(* drained has nothing left.                                               *)
(***************************************************************************)
EXTENDS HttpSession, QIo, FiniteSetTheorems, SequenceTheorems, TLAPS

-----------------------------------------------------------------------------
(* A request, part by part *)

Size(r) == Len(Parts(r)) + 2

\* Part j of request k.
Part(k, r, j) == Message(k, r)[j]

PartName == {"method", "header", "data", "size", "last", "crlf"}

\* The lines of n chunks.
LEMMA ChunkLines ==
  ASSUME NEW n \in Nat, NEW A, A = [i \in 1 .. 3 * n |-> <<"size", "data", "crlf">>[1 + ((i - 1) % 3)]]
  PROVE  /\ A \in Seq(PartName) /\ Len(A) = 3 * n
         /\ \A c \in Nat : c < n => A[1 + 3 * c] = "size" /\ A[2 + 3 * c] = "data" /\ A[3 + 3 * c] = "crlf"
<1> DEFINE T == <<"size", "data", "crlf">>
<1>1. T[1] = "size" /\ T[2] = "data" /\ T[3] = "crlf"
  BY SMT
<1> DEFINE D == 1 .. 3 * n
<1>2. A = [i \in D |-> T[1 + ((i - 1) % 3)]]
  OBVIOUS
<1> HIDE DEF T
<1>3. \A i \in D : 1 + ((i - 1) % 3) = 1 \/ 1 + ((i - 1) % 3) = 2 \/ 1 + ((i - 1) % 3) = 3
  BY SMT
<1>4. \A c \in Nat : c < n => 1 + 3 * c \in D /\ 2 + 3 * c \in D /\ 3 + 3 * c \in D
  BY SMT
<1>5. \A c \in Nat : /\ 1 + ((1 + 3 * c - 1) % 3) = 1 /\ 1 + ((2 + 3 * c - 1) % 3) = 2
                     /\ 1 + ((3 + 3 * c - 1) % 3) = 3
  BY SMT
<1>6. \A i \in D : A[i] = T[1 + ((i - 1) % 3)]
  BY <1>2
<1>7. \A i \in D : A[i] \in PartName
  BY <1>1, <1>3, <1>6 DEF PartName
<1>8. 3 * n \in Nat
  BY SMT
<1>9. A \in [1 .. 3 * n -> PartName]
  BY <1>2, <1>7
<1>10. A \in Seq(PartName) /\ Len(A) = 3 * n
  BY <1>8, <1>9, SMT
<1>11. \A c \in Nat : c < n => A[1 + 3 * c] = "size" /\ A[2 + 3 * c] = "data" /\ A[3 + 3 * c] = "crlf"
  BY <1>1, <1>4, <1>5, <1>6
<1>12. QED
  BY <1>10, <1>11

\* A concatenation, place by place.
LEMMA Joined ==
  ASSUME NEW S, NEW A \in Seq(S), NEW B \in Seq(S), NEW a \in Nat, Len(A) = a
  PROVE  /\ A \o B \in Seq(S) /\ Len(A \o B) = a + Len(B)
         /\ \A i \in 1 .. a : (A \o B)[i] = A[i]
         /\ \A i \in 1 .. Len(B) : (A \o B)[a + i] = B[i]
<1>1. A \o B \in Seq(S) /\ Len(A \o B) = a + Len(B) /\ Len(B) \in Nat
  BY SMT
<1>2. \A i \in 1 .. a : (A \o B)[i] = A[i]
  BY SMT
<1>3. \A i \in 1 .. Len(B) : (A \o B)[a + i] = B[i]
  BY SMT
<1>4. QED
  BY <1>1, <1>2, <1>3

\* Chunks and the lines that end them.
LEMMA ChunksAndEnd ==
  ASSUME NEW n \in Nat, NEW A, A = [i \in 1 .. 3 * n |-> <<"size", "data", "crlf">>[1 + ((i - 1) % 3)]],
         NEW B, B = <<"last", "crlf">>
  PROVE  /\ A \o B \in Seq(PartName) /\ Len(A \o B) = 3 * n + 2
         /\ \A c \in Nat : c < n =>
              (A \o B)[1 + 3 * c] = "size" /\ (A \o B)[2 + 3 * c] = "data" /\ (A \o B)[3 + 3 * c] = "crlf"
         /\ (A \o B)[3 * n + 1] = "last" /\ (A \o B)[3 * n + 2] = "crlf"
<1>2. /\ A \in Seq(PartName) /\ Len(A) = 3 * n
      /\ \A c \in Nat : c < n => A[1 + 3 * c] = "size" /\ A[2 + 3 * c] = "data" /\ A[3 + 3 * c] = "crlf"
  BY ChunkLines
<1>3. B \in Seq(PartName) /\ Len(B) = 2 /\ B[1] = "last" /\ B[2] = "crlf"
  BY SMT DEF PartName
<1>4. 3 * n \in Nat /\ 1 \in 1 .. 2 /\ 2 \in 1 .. 2
  BY SMT
<1>5. /\ A \o B \in Seq(PartName) /\ Len(A \o B) = 3 * n + Len(B)
      /\ \A i \in 1 .. 3 * n : (A \o B)[i] = A[i]
      /\ \A i \in 1 .. Len(B) : (A \o B)[3 * n + i] = B[i]
  <2>1. A \in Seq(PartName) /\ B \in Seq(PartName) /\ 3 * n \in Nat /\ Len(A) = 3 * n
    BY <1>2, <1>3, <1>4
  <2>2. QED
    BY ONLY <2>1, Joined
<1>6. \A c \in Nat : c < n => 1 + 3 * c \in 1 .. 3 * n /\ 2 + 3 * c \in 1 .. 3 * n /\ 3 + 3 * c \in 1 .. 3 * n
  BY SMT
<1>7. QED
  BY <1>2, <1>3, <1>4, <1>5, <1>6

\* A chunked body, line by line.
LEMMA ChunkParts ==
  ASSUME NEW r, NEW n \in Nat, r.chunks = n
  PROVE  /\ Parts(r) \in Seq(PartName) /\ Len(Parts(r)) = 3 * n + 2
         /\ \A c \in Nat : c < n =>
              Parts(r)[1 + 3 * c] = "size" /\ Parts(r)[2 + 3 * c] = "data" /\ Parts(r)[3 + 3 * c] = "crlf"
         /\ Parts(r)[3 * n + 1] = "last" /\ Parts(r)[3 * n + 2] = "crlf"
<1>1. n >= 0
  BY SMT
<1>2. PICK A, B : /\ A = [i \in 1 .. 3 * n |-> <<"size", "data", "crlf">>[1 + ((i - 1) % 3)]]
                  /\ B = <<"last", "crlf">>
  BY Zenon
<1>3. Parts(r) = A \o B
  BY <1>1, <1>2, Zenon DEF Parts
<1>4. /\ A \o B \in Seq(PartName) /\ Len(A \o B) = 3 * n + 2
      /\ \A c \in Nat : c < n =>
           (A \o B)[1 + 3 * c] = "size" /\ (A \o B)[2 + 3 * c] = "data" /\ (A \o B)[3 + 3 * c] = "crlf"
      /\ (A \o B)[3 * n + 1] = "last" /\ (A \o B)[3 * n + 2] = "crlf"
  BY <1>2, ChunksAndEnd
<1>5. QED
  BY <1>3, <1>4, Zenon

\* What a request is made of, by the place in it.
LEMMA PartFacts ==
  ASSUME SessionAssumption, NEW r \in Request
  PROVE  /\ Parts(r) \in Seq(PartName)
         /\ r.chunks < 0 => Len(Parts(r)) = Load(r) /\ \A i \in 1 .. Load(r) : Parts(r)[i] = "data"
         /\ Load(r) \in Nat
<1>1. r.len \in Int /\ r.chunks \in Int /\ (r.len >= 0 \/ r.len = -1) /\ (r.chunks >= 0 \/ r.chunks = -1)
  BY SMT DEF SessionAssumption
<1>2. CASE r.chunks < 0
  <2>1. ~(r.chunks >= 0)
    BY <1>1, <1>2, SMT
  <2>2. Load(r) \in Nat
    BY <1>1, <2>1, SMT DEF Load
  <2>3. Parts(r) = [i \in 1 .. Load(r) |-> "data"]
    BY <2>1, Zenon DEF Parts
  <2>4. QED
    BY <1>2, <2>2, <2>3, SMT DEF PartName
<1>3. CASE r.chunks >= 0
  <2>1. r.chunks \in Nat /\ ~(r.chunks < 0)
    BY <1>1, <1>3, SMT
  <2>2. Load(r) = r.chunks
    BY <1>3 DEF Load
  <2>3. QED
    BY <2>1, <2>2, ChunkParts
<1>4. QED
  BY <1>1, <1>2, <1>3

\* A message is the header and what follows it.
LEMMA MessageSize ==
  ASSUME SessionAssumption, NEW r \in Request, NEW k
  PROVE  /\ Size(r) \in Nat /\ Size(r) >= 2 /\ Len(Message(k, r)) = Size(r)
         /\ Message(k, r) \in Seq([req : {k}, part : PartName])
<1> DEFINE P == Parts(r)
           Q == <<"method", "header">> \o P
<1>1. P \in Seq(PartName) /\ Len(P) \in Nat
  BY PartFacts
<1> HIDE DEF P
<1>2. Q \in Seq(PartName) /\ Len(Q) = Len(P) + 2 /\ Q[1] = "method" /\ Q[2] = "header"
  BY <1>1, SMT DEF PartName
<1>3. \A i \in 1 .. Len(P) : Q[i + 2] = P[i]
  BY <1>1, SMT
<1>4. Message(k, r) = [i \in 1 .. Len(Q) |-> [req |-> k, part |-> Q[i]]]
  BY DEF Message, P
<1> HIDE DEF Q
<1>5. Size(r) = Len(Q) /\ Size(r) \in Nat /\ Size(r) >= 2
  BY <1>1, <1>2, SMT DEF Size, P
<1>6. \A j \in 1 .. Size(r) : Part(k, r, j) = [req |-> k, part |-> Q[j]]
  BY <1>4, <1>5, SMT DEF Part
<1>7. \A j \in 1 .. Size(r) : Q[j] \in PartName
  BY <1>2, <1>5, SMT
<1>8. Message(k, r) \in Seq([req : {k}, part : PartName]) /\ Len(Message(k, r)) = Size(r)
  BY <1>2, <1>4, <1>5, <1>7, SMT
<1>9. QED
  BY <1>5, <1>8

AllData(k, r) ==
  Size(r) = Load(r) + 2 /\ \A i \in 1 .. Load(r) : Part(k, r, 2 + i).part = "data"

InChunks(k, r, n) ==
  /\ Size(r) = 3 * n + 4
  /\ \A c \in Nat : c < n => /\ Part(k, r, 3 + 3 * c).part = "size"
                            /\ Part(k, r, 4 + 3 * c).part = "data"
                            /\ Part(k, r, 5 + 3 * c).part = "crlf"
  /\ Part(k, r, 3 + 3 * n).part = "last" /\ Part(k, r, 4 + 3 * n).part = "crlf"

\* Its parts, one by one.
LEMMA MessageFacts ==
  ASSUME SessionAssumption, NEW r \in Request, NEW k
  PROVE  /\ \A j \in 1 .. Size(r) : Part(k, r, j).req = k /\ Part(k, r, j) \in [req : {k}, part : PartName]
         /\ Part(k, r, 1).part = "method" /\ Part(k, r, 2).part = "header"
         /\ r.chunks < 0 => AllData(k, r)
         /\ \A n \in Nat : r.chunks = n => InChunks(k, r, n)
<1> DEFINE P == Parts(r)
           Q == <<"method", "header">> \o P
<1>1. P \in Seq(PartName) /\ Len(P) \in Nat
  BY PartFacts
<1> HIDE DEF P
<1>2. Q \in Seq(PartName) /\ Len(Q) = Len(P) + 2 /\ Q[1] = "method" /\ Q[2] = "header"
  BY <1>1, SMT DEF PartName
<1>3. \A i \in 1 .. Len(P) : Q[i + 2] = P[i]
  BY <1>1, SMT
<1>4. Message(k, r) = [i \in 1 .. Len(Q) |-> [req |-> k, part |-> Q[i]]]
  BY DEF Message, P
<1> HIDE DEF Q
<1>5. Size(r) = Len(Q) /\ Size(r) \in Nat /\ Size(r) >= 2
  BY <1>1, <1>2, SMT DEF Size, P
<1>6. \A j \in 1 .. Size(r) : Part(k, r, j) = [req |-> k, part |-> Q[j]]
  BY <1>4, <1>5, SMT DEF Part
<1>7. \A j \in 1 .. Size(r) : Q[j] \in PartName
  BY <1>2, <1>5, SMT
<1>9. \A j \in 1 .. Size(r) : /\ Part(k, r, j).req = k /\ Part(k, r, j) \in [req : {k}, part : PartName]
                              /\ Part(k, r, j).part = Q[j]
  BY <1>6, <1>7, SMT
<1>10. \A i \in 1 .. Len(P) : Part(k, r, i + 2).part = P[i]
  <2>1. \A i \in 1 .. Len(P) : i + 2 \in 1 .. Size(r)
    BY <1>1, <1>2, <1>5, SMT
  <2>2. QED
    BY <2>1, <1>3, <1>9
<1>11. Part(k, r, 1).part = "method" /\ Part(k, r, 2).part = "header"
  <2>1. 1 \in 1 .. Size(r) /\ 2 \in 1 .. Size(r)
    BY <1>5, SMT
  <2>2. QED
    BY <2>1, <1>2, <1>9
<1>12. Size(r) = Len(P) + 2
  BY <1>2, <1>5
<1>13. ASSUME r.chunks < 0
       PROVE  AllData(k, r)
  <2>1. Len(P) = Load(r) /\ Load(r) \in Nat /\ \A i \in 1 .. Load(r) : P[i] = "data"
    BY <1>13, PartFacts DEF P
  <2>2. \A i \in 1 .. Load(r) : 2 + i = i + 2
    BY <2>1, SMT
  <2>3. QED
    BY <2>1, <2>2, <1>10, <1>12 DEF AllData
<1>14. ASSUME NEW n \in Nat, r.chunks = n
       PROVE  InChunks(k, r, n)
  <2>1. /\ Len(P) = 3 * n + 2 /\ P[3 * n + 1] = "last" /\ P[3 * n + 2] = "crlf"
        /\ \A c \in Nat : c < n => P[1 + 3 * c] = "size" /\ P[2 + 3 * c] = "data" /\ P[3 + 3 * c] = "crlf"
    BY <1>14, ChunkParts DEF P
  <2>2. \A c \in Nat : c < n => /\ 1 + 3 * c \in 1 .. 3 * n + 2 /\ 2 + 3 * c \in 1 .. 3 * n + 2 /\ 3 + 3 * c \in 1 .. 3 * n + 2
                                /\ 1 + 3 * c + 2 = 3 + 3 * c /\ 2 + 3 * c + 2 = 4 + 3 * c /\ 3 + 3 * c + 2 = 5 + 3 * c
    BY SMT
  <2>3. /\ 3 * n + 1 \in 1 .. 3 * n + 2 /\ 3 * n + 2 \in 1 .. 3 * n + 2
        /\ 3 * n + 1 + 2 = 3 + 3 * n /\ 3 * n + 2 + 2 = 4 + 3 * n /\ 3 * n + 2 + 2 = 3 * n + 4
    BY SMT
  <2>4. \A c \in Nat : c < n => /\ Part(k, r, 3 + 3 * c).part = "size"
                                /\ Part(k, r, 4 + 3 * c).part = "data"
                                /\ Part(k, r, 5 + 3 * c).part = "crlf"
    BY <2>1, <2>2, <1>10
  <2>5. Part(k, r, 3 + 3 * n).part = "last" /\ Part(k, r, 4 + 3 * n).part = "crlf"
    BY <2>1, <2>3, <1>10
  <2>6. Size(r) = 3 * n + 4
    BY <2>1, <2>3, <1>12
  <2>7. QED
    BY <2>4, <2>5, <2>6 DEF InChunks
<1>15. QED
  BY <1>9, <1>11, <1>13, <1>14

\* A sequence over a set is one over a larger set.
LEMMA SeqGrows ==
  ASSUME NEW S, NEW T, NEW A
  PROVE  (A \in Seq(S) => A \in Seq(S \cup T)) /\ (A \in Seq(T) => A \in Seq(S \cup T))
<1>1. ASSUME NEW U, A \in Seq(U), U \subseteq S \cup T
      PROVE  A \in Seq(S \cup T)
  <2>1. A \in [1 .. Len(A) -> U] /\ Len(A) \in Nat
    BY <1>1, SMT
  <2>2. A \in [1 .. Len(A) -> S \cup T]
    BY <1>1, <2>1
  <2>3. QED
    BY <2>1, <2>2, SMT
<1>2. QED
  BY <1>1

\* What was asked for is a request.
LEMMA AskedSize ==
  ASSUME SessionAssumption, NEW asked \in Seq(Request), NEW k \in 1 .. Len(asked)
  PROVE  asked[k] \in Request /\ Size(asked[k]) \in Nat /\ Size(asked[k]) >= 2
<1>1. asked[k] \in Request
  BY SMT
<1>2. QED
  BY <1>1, MessageSize

-----------------------------------------------------------------------------
(* What is to come *)

Rising(ks, n) == \A x, i \in 1 .. n : x <= i => ks[x] <= ks[i]

\* S goes through the parts of the requests asked: it has part js[i] of request
\* ks[i] at place i.
Way(asked, S, ks, js) ==
  /\ ks \in [1 .. Len(S) + 1 -> Nat] /\ js \in [1 .. Len(S) + 1 -> Nat]
  /\ Rising(ks, Len(S) + 1)
  /\ \A i \in 1 .. Len(S) :
       /\ ks[i] \in 1 .. Len(asked) /\ js[i] \in 1 .. Size(asked[ks[i]])
       /\ S[i] = Part(ks[i], asked[ks[i]], js[i])
       /\ js[i] < Size(asked[ks[i]]) => ks[i + 1] = ks[i] /\ js[i + 1] = js[i] + 1
       /\ js[i] = Size(asked[ks[i]]) => ks[i + 1] = ks[i] + 1 /\ js[i + 1] = 1

\* S begins with part j of request k, and goes to the end of what was asked,
\* unless it was cut.
Ahead(asked, S, k, j, cut) ==
  \E ks, js : /\ Way(asked, S, ks, js) /\ ks[1] = k /\ js[1] = j
              /\ ~cut => ks[Len(S) + 1] = Len(asked) + 1 /\ js[Len(S) + 1] = 1

\* Behind part j of request k.
After(asked, S, k, j, cut) ==
  IF j < Size(asked[k]) THEN Ahead(asked, S, k, j + 1, cut) ELSE Ahead(asked, S, k + 1, 1, cut)

\* When the first part is taken, the rest is what comes behind it.
LEMMA TakeFirst ==
  ASSUME SessionAssumption, NEW asked \in Seq(Request), NEW T, NEW S \in Seq(T), NEW k, NEW j, NEW cut,
         Ahead(asked, S, k, j, cut), S # <<>>
  PROVE  /\ k \in 1 .. Len(asked) /\ j \in 1 .. Size(asked[k]) /\ S[1] = Part(k, asked[k], j)
         /\ After(asked, Tail(S), k, j, cut)
<1>1. PICK ks, js : /\ Way(asked, S, ks, js) /\ ks[1] = k /\ js[1] = j
                    /\ ~cut => ks[Len(S) + 1] = Len(asked) + 1 /\ js[Len(S) + 1] = 1
  BY DEF Ahead
<1>2. /\ Len(S) \in Nat /\ Len(S) > 0 /\ Tail(S) \in Seq(T) /\ Len(Tail(S)) = Len(S) - 1 /\ 1 \in 1 .. Len(S)
      /\ \A i \in 1 .. Len(Tail(S)) : Tail(S)[i] = S[i + 1]
  BY SMT
<1>3. /\ k \in 1 .. Len(asked) /\ j \in 1 .. Size(asked[k]) /\ S[1] = Part(k, asked[k], j)
      /\ j < Size(asked[k]) => ks[2] = k /\ js[2] = j + 1
      /\ j = Size(asked[k]) => ks[2] = k + 1 /\ js[2] = 1
  BY <1>1, <1>2 DEF Way
<1> DEFINE n == Len(S)
           kk == [i \in 1 .. n |-> ks[i + 1]]
           jj == [i \in 1 .. n |-> js[i + 1]]
<1>4. Way(asked, Tail(S), kk, jj)
  <2>1. \A i \in 1 .. n : i + 1 \in 1 .. n + 1 /\ i \in 1 .. n
    BY <1>2, SMT
  <2>2. kk \in [1 .. n -> Nat] /\ jj \in [1 .. n -> Nat]
    BY <1>1, <2>1 DEF Way
  <2>3. n - 1 + 1 = n
    BY <1>2, SMT
  <2>4. \A i \in 1 .. n - 1 : i + 1 \in 1 .. n /\ i \in 1 .. n
    BY <1>2, SMT
  <2>5. ASSUME NEW i \in 1 .. n - 1
        PROVE  /\ kk[i] \in 1 .. Len(asked) /\ jj[i] \in 1 .. Size(asked[kk[i]])
               /\ Tail(S)[i] = Part(kk[i], asked[kk[i]], jj[i])
               /\ jj[i] < Size(asked[kk[i]]) => kk[i + 1] = kk[i] /\ jj[i + 1] = jj[i] + 1
               /\ jj[i] = Size(asked[kk[i]]) => kk[i + 1] = kk[i] + 1 /\ jj[i + 1] = 1
    <3>1. kk[i] = ks[i + 1] /\ jj[i] = js[i + 1] /\ kk[i + 1] = ks[i + 1 + 1] /\ jj[i + 1] = js[i + 1 + 1]
      BY <2>4
    <3>2. i + 1 \in 1 .. n /\ Tail(S)[i] = S[i + 1]
      BY <2>4, <1>2
    <3> HIDE DEF kk, jj
    <3>3. QED
      BY <3>1, <3>2, <1>1 DEF Way
  <2>6. Rising(kk, n)
    <3>1. \A i \in 1 .. n : kk[i] = ks[i + 1] /\ i + 1 \in 1 .. n + 1
      BY <2>1
    <3>2. \A x, i \in 1 .. n : x <= i => x + 1 <= i + 1
      BY <1>2, SMT
    <3>3. Rising(ks, n + 1)
      BY <1>1 DEF Way
    <3> HIDE DEF kk
    <3>4. QED
      BY <3>1, <3>2, <3>3 DEF Rising
  <2> HIDE DEF kk, jj
  <2>7. QED
    BY <2>2, <2>3, <2>5, <2>6, <1>2 DEF Way
<1>5. kk[1] = ks[2] /\ jj[1] = js[2] /\ kk[n] = ks[n + 1] /\ jj[n] = js[n + 1]
  <2>1. 1 \in 1 .. n /\ n \in 1 .. n
    BY <1>2, SMT
  <2>2. QED
    BY <2>1
<1> HIDE DEF kk, jj
<1>6. Len(Tail(S)) + 1 = n
  BY <1>2, SMT
<1>7. ~cut => kk[n] = Len(asked) + 1 /\ jj[n] = 1
  BY <1>1, <1>5
<1>8. Ahead(asked, Tail(S), ks[2], js[2], cut)
  BY <1>4, <1>5, <1>6, <1>7 DEF Ahead
<1>9. Size(asked[k]) \in Nat
  BY <1>3, AskedSize
<1>10. j < Size(asked[k]) \/ j = Size(asked[k])
  BY <1>3, <1>9, SMT
<1>11. QED
  BY <1>3, <1>8, <1>9, <1>10, SMT DEF After

\* At the end of what was asked, or of what was cut, nothing comes.
LEMMA NothingAhead ==
  ASSUME NEW asked, NEW k \in Nat, NEW j \in Nat, NEW cut, ~cut => k = Len(asked) + 1 /\ j = 1
  PROVE  Ahead(asked, <<>>, k, j, cut)
<1> DEFINE ks == [i \in 1 .. 1 |-> k]
           js == [i \in 1 .. 1 |-> j]
<1>1. Len(<<>>) = 0 /\ Len(<<>>) + 1 = 1 /\ \A i \in 1 .. Len(<<>>) : FALSE
  BY SMT
<1>2. ks \in [1 .. 1 -> Nat] /\ js \in [1 .. 1 -> Nat] /\ ks[1] = k /\ js[1] = j
  BY SMT
<1> HIDE DEF ks, js
<1>3. Way(asked, <<>>, ks, js)
  <2>1. \A x \in 1 .. 1 : ks[x] <= ks[x] /\ x = 1
    BY <1>2, SMT
  <2>2. QED
    BY <1>1, <1>2, <2>1 DEF Way, Rising
<1>4. QED
  BY <1>1, <1>2, <1>3 DEF Ahead

\* If nothing comes, and nothing was cut, all that was asked was read.
LEMMA AllRead ==
  ASSUME NEW asked, NEW k, NEW j, Ahead(asked, <<>>, k, j, FALSE)
  PROVE  k = Len(asked) + 1 /\ j = 1
<1>1. Len(<<>>) + 1 = 1
  BY SMT
<1>2. QED
  BY <1>1 DEF Ahead

\* A new request is put behind.
LEMMA AskedMore ==
  ASSUME SessionAssumption, NEW asked \in Seq(Request), NEW r \in Request, NEW T, NEW S \in Seq(T), NEW k, NEW j,
         Ahead(asked, S, k, j, FALSE)
  PROVE  Ahead(Append(asked, r), S \o Message(Len(asked) + 1, r), k, j, FALSE)
<1>1. PICK ks, js : /\ Way(asked, S, ks, js) /\ ks[1] = k /\ js[1] = j
                    /\ ks[Len(S) + 1] = Len(asked) + 1 /\ js[Len(S) + 1] = 1
  BY DEF Ahead
<1> DEFINE n == Len(S)
           z == Size(r)
           a == Len(asked)
           M == Message(a + 1, r)
           kk == [i \in 1 .. n + z + 1 |-> IF i <= n THEN ks[i] ELSE IF i <= n + z THEN a + 1 ELSE a + 2]
           jj == [i \in 1 .. n + z + 1 |-> IF i <= n THEN js[i] ELSE IF i <= n + z THEN i - n ELSE 1]
           more == Append(asked, r)
           U == S \o M
<1>2. n \in Nat /\ a \in Nat /\ z \in Nat /\ z >= 2 /\ Len(M) = z
  <2>1. n \in Nat /\ a \in Nat
    BY SMT
  <2>2. z \in Nat /\ z >= 2 /\ Len(M) = z
    BY MessageSize
  <2>3. QED
    BY <2>1, <2>2
<1>3. /\ \A i \in 1 .. a : more[i] = asked[i]
      /\ more[a + 1] = r /\ Len(more) = a + 1
  BY SMT
<1>4. /\ Len(U) = n + z
      /\ \A i \in 1 .. n : U[i] = S[i]
      /\ \A i \in 1 .. z : U[n + i] = Part(a + 1, r, i)
  <2>1. M \in Seq([req : {a + 1}, part : PartName])
    BY MessageSize
  <2> HIDE DEF M
  <2>2. /\ Len(U) = n + z /\ \A i \in 1 .. n : U[i] = S[i]
        /\ \A i \in 1 .. z : U[n + i] = M[i]
    <3>1. M \in Seq(T \cup [req : {a + 1}, part : PartName]) /\ S \in Seq(T \cup [req : {a + 1}, part : PartName])
      BY <2>1, SeqGrows
    <3>2. n \in Nat /\ Len(S) = n
      BY <1>2
    <3>3. QED
      BY <3>1, <3>2, <1>2, Joined
  <2>3. QED
    BY <2>2 DEF Part, M
<1> HIDE DEF n, z, a, M, more, U
<1>5. /\ ks \in [1 .. n + 1 -> Nat] /\ js \in [1 .. n + 1 -> Nat]
      /\ \A i \in 1 .. n :
            /\ ks[i] \in 1 .. a /\ js[i] \in 1 .. Size(asked[ks[i]])
            /\ S[i] = Part(ks[i], asked[ks[i]], js[i])
            /\ js[i] < Size(asked[ks[i]]) => ks[i + 1] = ks[i] /\ js[i + 1] = js[i] + 1
            /\ js[i] = Size(asked[ks[i]]) => ks[i + 1] = ks[i] + 1 /\ js[i + 1] = 1
      /\ ks[n + 1] = a + 1 /\ js[n + 1] = 1 /\ Rising(ks, n + 1)
  BY <1>1 DEF Way, n, a
<1>6. kk \in [1 .. n + z + 1 -> Nat] /\ jj \in [1 .. n + z + 1 -> Nat]
  <2>1. \A i \in 1 .. n + z + 1 : (i <= n => i \in 1 .. n + 1) /\ (~(i <= n) => i - n \in Nat)
    BY <1>2, SMT
  <2>2. a + 1 \in Nat /\ a + 2 \in Nat /\ 1 \in Nat
    BY <1>2, SMT
  <2>3. QED
    BY <2>1, <2>2, <1>5
<1>7. \A i \in 1 .. n + 1 : kk[i] = ks[i] /\ jj[i] = js[i]
  <2>1. SUFFICES ASSUME NEW i \in 1 .. n + 1
                 PROVE  kk[i] = ks[i] /\ jj[i] = js[i]
    OBVIOUS
  <2>2. i \in 1 .. n + z + 1 /\ (i <= n \/ (~(i <= n) /\ i = n + 1 /\ i <= n + z /\ i - n = 1))
    BY <1>2, SMT
  <2>3. QED
    BY <2>2, <1>5
<1>8. \A i \in 1 .. z : kk[n + i] = a + 1 /\ jj[n + i] = i
  <2>1. SUFFICES ASSUME NEW i \in 1 .. z
                 PROVE  kk[n + i] = a + 1 /\ jj[n + i] = i
    OBVIOUS
  <2>2. n + i \in 1 .. n + z + 1 /\ ~(n + i <= n) /\ n + i <= n + z /\ (n + i) - n = i
    BY <1>2, SMT
  <2>3. QED
    BY <2>2
<1>9. kk[n + z + 1] = a + 2 /\ jj[n + z + 1] = 1
  <2>1. n + z + 1 \in 1 .. n + z + 1 /\ ~(n + z + 1 <= n) /\ ~(n + z + 1 <= n + z)
    BY <1>2, SMT
  <2>2. QED
    BY <2>1
<1> HIDE DEF kk, jj
<1>10. ASSUME NEW i \in 1 .. n + z
       PROVE  /\ kk[i] \in 1 .. a + 1 /\ jj[i] \in 1 .. Size(more[kk[i]])
              /\ U[i] = Part(kk[i], more[kk[i]], jj[i])
              /\ jj[i] < Size(more[kk[i]]) => kk[i + 1] = kk[i] /\ jj[i + 1] = jj[i] + 1
              /\ jj[i] = Size(more[kk[i]]) => kk[i + 1] = kk[i] + 1 /\ jj[i + 1] = 1
  <2>1. CASE i \in 1 .. n
    <3>1. i \in 1 .. n + 1 /\ i + 1 \in 1 .. n + 1
      BY <2>1, <1>2, SMT
    <3>2. kk[i] = ks[i] /\ jj[i] = js[i] /\ kk[i + 1] = ks[i + 1] /\ jj[i + 1] = js[i + 1]
      BY <3>1, <1>7
    <3>3. ks[i] \in 1 .. a /\ \A x \in 1 .. a : x \in 1 .. a + 1
      BY <2>1, <1>2, <1>5, SMT
    <3>4. more[ks[i]] = asked[ks[i]] /\ ks[i] \in 1 .. a + 1
      BY <3>3, <1>3
    <3>5. QED
      BY <2>1, <3>2, <3>4, <1>4, <1>5
  <2>2. CASE i \notin 1 .. n
    <3>1. PICK x \in 1 .. z : i = n + x
      <4>1. i - n \in 1 .. z /\ i = n + (i - n)
        BY <2>2, <1>2, SMT
      <4>2. QED
        BY <4>1
    <3>2. kk[i] = a + 1 /\ jj[i] = x /\ more[kk[i]] = r
      BY <3>1, <1>3, <1>8
    <3>3. Size(more[kk[i]]) = z /\ a + 1 \in 1 .. a + 1
      BY <3>2, <1>2, SMT DEF z
    <3>4. U[i] = Part(kk[i], more[kk[i]], jj[i])
      BY <3>1, <3>2, <1>4
    <3>5. CASE x < z
      <4>1. x + 1 \in 1 .. z /\ i + 1 = n + (x + 1) /\ x # z
        BY <3>1, <3>5, <1>2, SMT
      <4>2. kk[i + 1] = a + 1 /\ jj[i + 1] = x + 1
        BY <4>1, <1>8
      <4>3. QED
        BY <3>2, <3>3, <3>4, <4>1, <4>2
    <3>6. CASE ~(x < z)
      <4>1. x = z /\ i + 1 = n + z + 1 /\ a + 1 + 1 = a + 2
        BY <3>1, <3>6, <1>2, SMT
      <4>2. kk[i + 1] = a + 1 + 1 /\ jj[i + 1] = 1
        BY <4>1, <1>9
      <4>3. QED
        BY <3>2, <3>3, <3>4, <3>6, <4>1, <4>2
    <3>7. QED
      BY <3>5, <3>6
  <2>3. QED
    BY <2>1, <2>2
<1>16. Rising(kk, n + z + 1)
  <2>1. SUFFICES ASSUME NEW x \in 1 .. n + z + 1, NEW i \in 1 .. n + z + 1, x <= i
                 PROVE  kk[x] <= kk[i]
    BY DEF Rising
  <2>2. \A y \in 1 .. n + z + 1 : y \in 1 .. n + 1 \/ (~(y <= n + 1) /\ (y = n + z + 1 \/ (y - n \in 1 .. z /\ n + (y - n) = y)))
    BY <1>2, SMT
  <2>3. \A y \in 1 .. n + z + 1 : ~(y <= n + 1) => kk[y] = a + 1 \/ (kk[y] = a + 2 /\ y = n + z + 1)
    BY <2>2, <1>8, <1>9, Z3
  <2>4. kk[n + 1] = a + 1 /\ n + 1 \in 1 .. n + 1
    BY <1>2, <1>5, <1>7, SMT
  <2>5. \A y \in 1 .. n + 1 : kk[y] <= a + 1
    <3>1. \A y \in 1 .. n + 1 : ks[y] <= ks[n + 1]
      BY <1>5, <2>4, SMT DEF Rising
    <3>2. QED
      BY <3>1, <1>5, <1>7
  <2>6. CASE i \in 1 .. n + 1
    <3>1. x \in 1 .. n + 1
      BY <2>1, <2>6, <1>2, SMT
    <3>2. QED
      BY <2>1, <2>6, <3>1, <1>5, <1>7 DEF Rising
  <2>7. CASE ~(i \in 1 .. n + 1)
    <3>1. kk[i] = a + 1 \/ (kk[i] = a + 2 /\ i = n + z + 1)
      BY <2>2, <2>3, <2>7
    <3>2. kk[x] <= a + 1 \/ (kk[x] = a + 2 /\ x = n + z + 1)
      <4>1. a + 1 <= a + 1
        BY <1>2, SMT
      <4>2. QED
        BY <2>2, <2>3, <2>5, <4>1
    <3>3. kk[x] \in Nat /\ kk[i] \in Nat
      BY <1>6
    <3>4. QED
      BY <2>1, <3>1, <3>2, <3>3, <1>2, SMT
  <2>8. QED
    BY <2>6, <2>7
<1>11. Way(more, U, kk, jj)
  BY <1>3, <1>4, <1>6, <1>10, <1>16 DEF Way
<1>12. kk[1] = k /\ jj[1] = j
  <2>1. 1 \in 1 .. n + 1
    BY <1>2, SMT
  <2>2. QED
    BY <2>1, <1>1, <1>7
<1>13. Len(U) + 1 = n + z + 1 /\ Len(more) + 1 = a + 2
  BY <1>2, <1>3, <1>4, SMT
<1>14. Ahead(more, U, k, j, FALSE)
  BY <1>9, <1>11, <1>12, <1>13 DEF Ahead
<1>15. QED
  BY <1>14 DEF more, U, M, a

\* What is cut off is not missed.
LEMMA CutOff ==
  ASSUME NEW asked, NEW T, NEW S \in Seq(T), NEW U \in Seq(T), NEW k, NEW j, NEW cut,
         Ahead(asked, S \o U, k, j, cut)
  PROVE  Ahead(asked, S, k, j, TRUE)
<1>1. PICK ks, js : Way(asked, S \o U, ks, js) /\ ks[1] = k /\ js[1] = j
  BY DEF Ahead
<1> DEFINE n == Len(S)
           m == Len(S \o U)
           kk == [i \in 1 .. n + 1 |-> ks[i]]
           jj == [i \in 1 .. n + 1 |-> js[i]]
<1>2. n \in Nat /\ m \in Nat /\ n <= m /\ \A i \in 1 .. n : (S \o U)[i] = S[i]
  BY SMT
<1>3. /\ \A i \in 1 .. n : i \in 1 .. m /\ i \in 1 .. n + 1 /\ i + 1 \in 1 .. n + 1
      /\ \A i \in 1 .. n + 1 : i \in 1 .. m + 1
      /\ 1 \in 1 .. n + 1
  BY <1>2, SMT
<1>4. kk \in [1 .. n + 1 -> Nat] /\ jj \in [1 .. n + 1 -> Nat] /\ kk[1] = k /\ jj[1] = j
  BY <1>1, <1>3 DEF Way
<1>5. \A i \in 1 .. n + 1 : kk[i] = ks[i] /\ jj[i] = js[i]
  OBVIOUS
<1> HIDE DEF kk, jj
<1>6. Way(asked, S, kk, jj)
  <2>1. ASSUME NEW i \in 1 .. n
        PROVE  /\ kk[i] \in 1 .. Len(asked) /\ jj[i] \in 1 .. Size(asked[kk[i]])
               /\ S[i] = Part(kk[i], asked[kk[i]], jj[i])
               /\ jj[i] < Size(asked[kk[i]]) => kk[i + 1] = kk[i] /\ jj[i + 1] = jj[i] + 1
               /\ jj[i] = Size(asked[kk[i]]) => kk[i + 1] = kk[i] + 1 /\ jj[i + 1] = 1
    <3>1. i \in 1 .. m /\ (S \o U)[i] = S[i]
      BY <1>2, <1>3
    <3>2. kk[i] = ks[i] /\ jj[i] = js[i] /\ kk[i + 1] = ks[i + 1] /\ jj[i + 1] = js[i + 1]
      BY <1>3, <1>5
    <3>3. QED
      BY <3>1, <3>2, <1>1 DEF Way
  <2>2. Rising(kk, n + 1)
    <3>1. Rising(ks, m + 1)
      BY <1>1 DEF Way
    <3>2. QED
      BY <3>1, <1>3, <1>5 DEF Rising
  <2>3. QED
    BY <2>1, <2>2, <1>4 DEF Way
<1>7. QED
  BY <1>4, <1>6 DEF Ahead

\* Behind the last part of the last request there is nothing.
LEMMA NothingBehind ==
  ASSUME SessionAssumption, NEW asked \in Seq(Request), NEW T, NEW S \in Seq(T), NEW k, NEW cut,
         Ahead(asked, S, k, Size(asked[k]), cut), k = Len(asked)
  PROVE  Len(S) <= 1
<1>1. SUFFICES ASSUME S # <<>>, Tail(S) # <<>>
               PROVE  FALSE
  BY SMT
<1>2. After(asked, Tail(S), k, Size(asked[k]), cut) /\ k \in 1 .. Len(asked)
  BY <1>1, TakeFirst
<1>3. ~(Size(asked[k]) < Size(asked[k]))
  <2>1. Size(asked[k]) \in Nat
    BY <1>2, AskedSize
  <2>2. QED
    BY <2>1, SMT
<1>4. Ahead(asked, Tail(S), k + 1, 1, cut) /\ Tail(S) \in Seq(T)
  BY <1>1, <1>2, <1>3, SMT DEF After
<1>5. k + 1 \in 1 .. Len(asked)
  BY <1>1, <1>4, TakeFirst
<1>6. QED
  BY <1>5, SMT

\* A part is of its request.
LEMMA PartReq ==
  ASSUME SessionAssumption, NEW r \in Request, NEW k, NEW j \in 1 .. Size(r)
  PROVE  Part(k, r, j).req = k /\ Part(k, r, j) \in [req : {k}, part : PartName]
<1>1. \A x \in 1 .. Size(r) : Part(k, r, x).req = k /\ Part(k, r, x) \in [req : {k}, part : PartName]
  BY MessageFacts
<1>2. QED
  BY <1>1

\* What comes is of request k, and of those behind it.
LEMMA NoneBefore ==
  ASSUME SessionAssumption, NEW asked \in Seq(Request), NEW T, NEW S \in Seq(T), NEW k, NEW j, NEW cut, Ahead(asked, S, k, j, cut)
  PROVE  \A i \in 1 .. Len(S) : S[i].req >= k
<1>1. PICK ks, js : Way(asked, S, ks, js) /\ ks[1] = k /\ js[1] = j
  BY DEF Ahead
<1>2. SUFFICES ASSUME NEW i \in 1 .. Len(S)
               PROVE  S[i].req >= k
  OBVIOUS
<1>3. Len(S) \in Nat /\ i \in 1 .. Len(S) + 1 /\ 1 \in 1 .. Len(S) + 1 /\ 1 <= i
  BY SMT
<1>4. ks[i] >= k
  BY <1>1, <1>3, SMT DEF Way, Rising
<1>5. S[i] = Part(ks[i], asked[ks[i]], js[i]) /\ js[i] \in 1 .. Size(asked[ks[i]])
  BY <1>1 DEF Way
<1>6. ks[i] \in 1 .. Len(asked)
  BY <1>1 DEF Way
<1>7. S[i].req = ks[i]
  <2>1. asked[ks[i]] \in Request
    BY <1>6, AskedSize
  <2>2. QED
    BY <1>5, <2>1, PartReq
<1>8. QED
  BY <1>4, <1>7

-----------------------------------------------------------------------------
(* The types *)

Pcs == {"read", "contents", "handle", "open", "put", "size", "chunk", "tail", "last", "out", "next", "closed"}

\* A part of a message that was asked.
Sent == [req : 1 .. Len(reqs), part : PartName]
Answer == [req : 0 .. Len(reqs), code : Codes, keep : BOOLEAN]
Response == [code : Codes, keep : BOOLEAN]

\* The places where PUT reads.
InPut == {"put", "size", "chunk", "tail", "last"}

ClientTypes ==
  /\ reqs \in Seq(Request) /\ Len(reqs) <= MaxReq
  /\ out \in Seq(Sent) /\ wire \in Seq(Sent) /\ eof \in BOOLEAN /\ exit \in BOOLEAN /\ late \in BOOLEAN
  /\ refused \subseteq 1 .. Len(reqs) /\ piped \subseteq 2 .. Len(reqs)
  /\ \A i \in 1 .. Len(out) : out[i].req = Len(reqs)

ChildTypes ==
  /\ pc \in Pcs /\ buf \in Seq(Sent) /\ saved \in Seq(Sent)
  /\ block \in {-1, 0, 1} /\ cur \in 0 .. Len(reqs) /\ want \in Nat
  /\ res \in Response /\ bOut \in BOOLEAN /\ answers \in Seq(Answer)

\* What is known at each place, whatever was read.
Known ==
  /\ pc \in {"put", "chunk", "contents"} => want > 0
  /\ pc \notin {"out", "next", "closed"} => ~bOut
  /\ pc = "contents" =>
       cur # 0 /\ reqs[cur].len \in 1 .. MaxMemory /\ reqs[cur].meth \notin {"PUT", "POST"}
  /\ pc \in {"open"} \cup InPut => cur # 0 /\ reqs[cur].meth = "PUT"
  /\ pc = "handle" => res = NoResponse \/ res.code = "ok"
  /\ pc = "handle" /\ res.code = "ok" => cur # 0 /\ reqs[cur].meth \in {"GET", "DAV"}
  /\ pc \in {"read", "contents", "open"} \cup InPut => res = NoResponse
  /\ bOut => Len(answers) > 0 /\ answers[Len(answers)].keep = res.keep
  /\ pc = "next" => bOut

Types == ClientTypes /\ ChildTypes /\ Known

\* A sequence over a set is one over any set that has it.
LEMMA SeqMono ==
  ASSUME NEW S, NEW T, NEW A \in Seq(S), S \subseteq T
  PROVE  A \in Seq(T)
<1>1. A \in [1 .. Len(A) -> S] /\ Len(A) \in Nat
  BY SMT
<1>2. A \in [1 .. Len(A) -> T]
  BY <1>1
<1>3. QED
  BY <1>1, <1>2, SMT

\* An element of a sequence.
LEMMA ElementOf ==
  ASSUME NEW S, NEW A \in Seq(S)
  PROVE  \A i \in 1 .. Len(A) : A[i] \in S
BY SMT

\* The types hold at first.
LEMMA InitTypes == SessionAssumption /\ Init => Types
<1> SUFFICES ASSUME SessionAssumption, Init
             PROVE  Types
  OBVIOUS
<1>1. MaxReq \in Nat
  BY DEF SessionAssumption
<1>0. Len(<<>>) = 0 /\ (\A i \in 1 .. Len(<<>>) : FALSE) /\ \A S : <<>> \in Seq(S)
  BY SMT
<1>2. ClientTypes
  <2>1. Len(reqs) <= MaxReq
    BY <1>0, <1>1, SMT DEF Init
  <2>2. QED
    BY <1>0, <2>1 DEF Init, ClientTypes
<1>3. ChildTypes
  <2>1. NoResponse \in Response
    BY DEF NoResponse, Response, Codes
  <2>2. 0 \in 0 .. 0 /\ 0 \in Nat
    BY SMT
  <2>3. QED
    BY <1>0, <2>1, <2>2 DEF Init, ChildTypes, Pcs
<1>4. Known
  BY DEF Init, Known, InPut
<1>5. QED
  BY <1>2, <1>3, <1>4 DEF Types

-----------------------------------------------------------------------------
\* What the client does leaves the child where it is.
LEMMA ClientKeepsTypes ==
  ASSUME SessionAssumption, Types,
         (\E r \in Request : Ask(r)) \/ Send \/ Drop \/ HangUp \/ RequestExit \/ UNCHANGED vars
  PROVE  Types'
<1>1. CASE UNCHANGED <<reqs, out, wire, exit>> /\ UNCHANGED <<eof, pc, readVars, resVars, history>>
  BY <1>1 DEF Types, ClientTypes, ChildTypes, Known, Sent, Answer, readVars, resVars, history
<1>2. ASSUME NEW r \in Request, Ask(r)
      PROVE  Types'
  <2>1. /\ reqs' = Append(reqs, r) /\ out' = Message(Len(reqs) + 1, r) /\ Len(reqs) < MaxReq
        /\ piped' \subseteq piped \cup {Len(reqs) + 1} /\ Len(answers) \in Nat
        /\ piped' # piped => Len(answers) < Len(reqs)
        /\ UNCHANGED <<eof, wire, pc, buf, block, cur, want, saved, res, bOut, answers, exit, refused, late>>
    BY <1>2, SMT DEF Ask, Types, ChildTypes, readVars, resVars
  <2>2. /\ Len(reqs) \in Nat /\ reqs' \in Seq(Request) /\ Len(reqs') = Len(reqs) + 1
        /\ \A k \in 1 .. Len(reqs) : reqs'[k] = reqs[k]
    BY <2>1, SMT DEF Types, ClientTypes
  <2>3. Sent \subseteq Sent' /\ Answer \subseteq Answer'
    <3>1. 1 .. Len(reqs) \subseteq 1 .. Len(reqs') /\ 0 .. Len(reqs) \subseteq 0 .. Len(reqs')
      BY <2>2, SMT
    <3>2. QED
      BY <3>1 DEF Sent, Answer
  <2>4. wire' \in Seq(Sent') /\ buf' \in Seq(Sent') /\ saved' \in Seq(Sent') /\ answers' \in Seq(Answer')
    BY <2>1, <2>3, SeqMono DEF Types, ClientTypes, ChildTypes
  <2>5. out' \in Seq(Sent') /\ \A i \in 1 .. Len(out') : out'[i].req = Len(reqs')
    <3> DEFINE k == Len(reqs) + 1
               M == Message(k, r)
    <3>1. M \in Seq([req : {k}, part : PartName])
      BY MessageSize
    <3>2. [req : {k}, part : PartName] \subseteq Sent'
      <4>1. {k} \subseteq 1 .. Len(reqs')
        BY <2>2, SMT
      <4>2. QED
        BY <4>1 DEF Sent
    <3> HIDE DEF M, k
    <3>3. M \in Seq(Sent')
      BY <3>1, <3>2, SeqMono
    <3>4. \A i \in 1 .. Len(M) : M[i].req = k
      <4>1. \A i \in 1 .. Len(M) : M[i] \in [req : {k}, part : PartName]
        BY <3>1, ElementOf
      <4>2. \A x \in [req : {k}, part : PartName] : x.req = k
        OBVIOUS
      <4>3. QED
        BY <4>1, <4>2
    <3>5. QED
      BY <3>3, <3>4, <2>1, <2>2 DEF M, k
  <2>6. refused' \subseteq 1 .. Len(reqs') /\ piped' \subseteq 2 .. Len(reqs') /\ cur' \in 0 .. Len(reqs')
    <3>1. \A k \in 1 .. Len(reqs) : k \in 1 .. Len(reqs) + 1
      BY <2>2, SMT
    <3>2. \A k \in 2 .. Len(reqs) : k \in 2 .. Len(reqs) + 1
      BY <2>2, SMT
    <3>3. piped' # piped => Len(reqs) + 1 \in 2 .. Len(reqs) + 1
      BY <2>1, <2>2, SMT
    <3>4. cur \in 0 .. Len(reqs) + 1
      BY <2>2, SMT DEF Types, ChildTypes
    <3>5. refused \subseteq 1 .. Len(reqs) /\ piped \subseteq 2 .. Len(reqs)
      BY DEF Types, ClientTypes
    <3>6. QED
      BY <2>1, <2>2, <3>1, <3>2, <3>3, <3>4, <3>5
  <2>7. ClientTypes'
    <3>1. Len(reqs') <= MaxReq
      BY <2>1, <2>2, SMT DEF SessionAssumption
    <3>2. QED
      BY <3>1, <2>1, <2>2, <2>4, <2>5, <2>6 DEF Types, ClientTypes
  <2>8. ChildTypes'
    BY <2>1, <2>4, <2>6 DEF Types, ChildTypes, Response
  <2>9. Known'
    <3>1. cur # 0 => cur \in 1 .. Len(reqs)
      BY <2>2, SMT DEF Types, ChildTypes
    <3>2. cur # 0 => reqs'[cur] = reqs[cur]
      BY <3>1, <2>2
    <3>3. QED
      BY <3>2, <2>1 DEF Types, Known
  <2>10. QED
    BY <2>7, <2>8, <2>9 DEF Types
<1>3. ASSUME UNCHANGED <<reqs, pc, readVars, resVars, exit, late, refused, piped>>,
             out' \in Seq(Sent), wire' \in Seq(Sent), eof' \in BOOLEAN,
             \A i \in 1 .. Len(out') : out'[i].req = Len(reqs)
      PROVE  Types'
  BY <1>3 DEF Types, ClientTypes, ChildTypes, Known, Sent, Answer, readVars, resVars
<1>4. CASE Send
  <2>1. /\ out # <<>> /\ out \in Seq(Sent) /\ wire \in Seq(Sent)
        /\ \A i \in 1 .. Len(out) : out[i].req = Len(reqs)
        /\ wire' = Append(wire, out[1]) /\ out' = Tail(out)
    BY <1>4 DEF Send, MaySend, Types, ClientTypes
  <2>2. wire' \in Seq(Sent) /\ out' \in Seq(Sent) /\ \A i \in 1 .. Len(out') : out'[i].req = Len(reqs)
    BY <2>1, SMT
  <2>3. QED
    BY <1>3, <1>4, <2>2 DEF Send, history, Types, ClientTypes
<1>5. CASE Drop \/ HangUp
  <2>1. <<>> \in Seq(Sent) /\ \A i \in 1 .. Len(<<>>) : FALSE
    BY SMT
  <2>2. QED
    BY <1>3, <1>5, <2>1 DEF Drop, HangUp, history, Types, ClientTypes
<1>6. CASE RequestExit
  BY <1>6 DEF RequestExit, Types, ClientTypes, ChildTypes, Known, Sent, Answer, clientVars, readVars, resVars, history
<1>7. CASE UNCHANGED vars
  BY <1>1, <1>7 DEF vars, clientVars
<1>8. QED
  BY <1>2, <1>4, <1>5, <1>6, <1>7

-----------------------------------------------------------------------------
\* httpResponseOut puts out one response, and keeps no connection that was not to
\* be kept.
LEMMA OutFacts ==
  ASSUME Types, ResponseOut
  PROVE  /\ bOut' = TRUE /\ res' \in Response /\ res'.code = res.code /\ (res'.keep => res.keep)
         /\ answers' \in Seq(Answer) /\ Len(answers') > 0 /\ answers'[Len(answers')].keep = res'.keep
         /\ bOut => UNCHANGED <<res, bOut, answers>>
         /\ ~bOut => answers' = Append(answers, [req |-> cur, code |-> res.code, keep |-> res'.keep])
<1>1. /\ res \in Response /\ bOut \in BOOLEAN /\ answers \in Seq(Answer) /\ cur \in 0 .. Len(reqs)
      /\ bOut => Len(answers) > 0 /\ answers[Len(answers)].keep = res.keep
  BY DEF Types, ChildTypes, Known
<1>2. CASE bOut
  <2>1. UNCHANGED <<res, bOut, answers>>
    BY <1>2 DEF ResponseOut, resVars
  <2>2. QED
    BY <1>1, <1>2, <2>1
<1>3. CASE ~bOut
  <2>1. PICK keep : /\ keep = (/\ res.keep /\ ~exit
                               /\ Len(answers) + 1 < MaxKeepAliveRequests \/ MaxKeepAliveRequests = 0)
                    /\ res' = [res EXCEPT !.keep = keep]
                    /\ answers' = Append(answers, [req |-> cur, code |-> res.code, keep |-> keep])
                    /\ bOut' = TRUE
    BY <1>3, Zenon DEF ResponseOut
  <2>2. keep \in BOOLEAN /\ (keep => res.keep)
    BY <2>1
  <2>3. res' \in Response /\ res'.code = res.code /\ res'.keep = keep
    BY <1>1, <2>1, <2>2 DEF Response
  <2>4. [req |-> cur, code |-> res.code, keep |-> keep] \in Answer
    BY <1>1, <2>2 DEF Response, Answer
  <2>5. \A x \in Answer : /\ Append(answers, x) \in Seq(Answer) /\ Len(Append(answers, x)) > 0
                         /\ Append(answers, x)[Len(Append(answers, x))] = x
    BY <1>1, SMT
  <2>6. answers' \in Seq(Answer) /\ Len(answers') > 0 /\ answers'[Len(answers')] = [req |-> cur, code |-> res.code, keep |-> keep]
    BY <2>1, <2>4, <2>5
  <2>7. answers'[Len(answers')].keep = keep
    BY <2>6
  <2>8. QED
    BY <1>3, <2>1, <2>2, <2>3, <2>6, <2>7
<1>4. QED
  BY <1>1, <1>2, <1>3

\* httpResponseSetCode and the status that is put out at the end.
LEMMA RespondFacts ==
  ASSUME Types, NEW code \in Codes, NEW wanted \in BOOLEAN, Respond(code, wanted)
  PROVE  /\ pc' = "out" /\ res' \in Response /\ res'.code = code
         /\ res'.keep => wanted /\ cur # 0
<1>1. KeepAlive(cur, wanted) \in BOOLEAN /\ (KeepAlive(cur, wanted) => wanted /\ cur # 0)
  BY DEF KeepAlive
<1>2. QED
  BY <1>1 DEF Respond, Response

-----------------------------------------------------------------------------
\* Of the client's side, a step of the child changes what was sent and not read,
\* and the history.
LEMMA ChildKeeps ==
  ASSUME Types, UNCHANGED <<clientVars, exit, piped>>,
         wire' \in Seq(Sent), late' \in BOOLEAN, refused' \subseteq 1 .. Len(reqs)
  PROVE  ClientTypes' /\ Sent' = Sent /\ Answer' = Answer
BY DEF Types, ClientTypes, clientVars, Sent, Answer

\* One more part of what was sent, or several, come behind what was read.
LEMMA ReadFacts ==
  ASSUME Types, Read
  PROVE  \E n \in 1 .. Len(wire) :
           /\ block # 1 => n = 1
           /\ buf' = buf \o SubSeq(wire, 1, n) /\ wire' = SubSeq(wire, n + 1, Len(wire))
           /\ buf' \in Seq(Sent) /\ Len(buf') = Len(buf) + n /\ Len(buf') > 0 /\ wire' \in Seq(Sent)
           /\ (buf = <<>> => buf'[1] = wire[1]) /\ (buf # <<>> => buf'[1] = buf[1])
           /\ block' = BlockRead(buf')
           /\ \/ EndOfHeader(buf') /\ cur' = Parsed(buf') /\ AfterHeader(Parsed(buf'))
              \/ ~EndOfHeader(buf') /\ UNCHANGED <<pc, cur, want>>
<1>1. buf \in Seq(Sent) /\ wire \in Seq(Sent) /\ wire # <<>>
  BY DEF Types, ClientTypes, ChildTypes, Read
<1>2. PICK n \in Amount :
        /\ wire' = SubSeq(wire, n + 1, Len(wire))
        /\ block' = BlockRead(buf \o SubSeq(wire, 1, n))
        /\ buf' = buf \o SubSeq(wire, 1, n)
        /\ IF EndOfHeader(buf \o SubSeq(wire, 1, n))
           THEN cur' = Parsed(buf \o SubSeq(wire, 1, n)) /\ AfterHeader(Parsed(buf \o SubSeq(wire, 1, n)))
           ELSE UNCHANGED <<pc, cur, want>>
  BY Zenon DEF Read
<1>3. Len(wire) \in Nat /\ Len(wire) > 0
  BY <1>1, SMT
<1>4. n \in 1 .. Len(wire) /\ (block # 1 => n = 1)
  BY <1>3, SMT DEF Amount
<1> DEFINE A == SubSeq(wire, 1, n)
<1>5. A \in Seq(Sent) /\ Len(A) = n /\ A[1] = wire[1]
  BY <1>1, <1>3, <1>4, SMT
<1>6. wire' \in Seq(Sent)
  BY <1>1, <1>2, <1>3, <1>4, SMT
<1> HIDE DEF A
<1>7. /\ buf \o A \in Seq(Sent) /\ Len(buf \o A) = Len(buf) + n /\ Len(buf \o A) > 0
      /\ (buf = <<>> => (buf \o A)[1] = A[1]) /\ (buf # <<>> => (buf \o A)[1] = buf[1])
  BY <1>1, <1>4, <1>5, SMT
<1>8. buf' = buf \o A
  BY <1>2 DEF A
<1>9. /\ block' = BlockRead(buf')
      /\ \/ EndOfHeader(buf') /\ cur' = Parsed(buf') /\ AfterHeader(Parsed(buf'))
         \/ ~EndOfHeader(buf') /\ UNCHANGED <<pc, cur, want>>
  BY <1>2, Zenon
<1>10. /\ buf' \in Seq(Sent) /\ Len(buf') = Len(buf) + n /\ Len(buf') > 0
       /\ (buf = <<>> => buf'[1] = wire[1]) /\ (buf # <<>> => buf'[1] = buf[1])
  BY <1>5, <1>7, <1>8
<1>11. QED
  BY <1>2, <1>4, <1>6, <1>9, <1>10

\* A read keeps the types.
LEMMA ReadTypes ==
  ASSUME SessionAssumption, Types, Read
  PROVE  Types'
<1>1. PICK n \in 1 .. Len(wire) :
           /\ buf' \in Seq(Sent) /\ Len(buf') > 0 /\ wire' \in Seq(Sent)
           /\ block' = BlockRead(buf')
           /\ \/ EndOfHeader(buf') /\ cur' = Parsed(buf') /\ AfterHeader(Parsed(buf'))
              \/ ~EndOfHeader(buf') /\ UNCHANGED <<pc, cur, want>>
  BY ReadFacts
<1>2. /\ pc = "read" /\ UNCHANGED <<clientVars, saved, res, bOut, answers, exit, refused, piped, late>>
  BY DEF Read, resVars, history
<1>3. ClientTypes' /\ Sent' = Sent /\ Answer' = Answer
  BY <1>1, <1>2, ChildKeeps DEF Types, ClientTypes
<1>4. UNCHANGED reqs
  BY <1>2 DEF clientVars
<1>5. block' \in {-1, 0, 1}
  BY <1>1 DEF BlockRead, Types, ChildTypes
<1>6. Parsed(buf') \in 0 .. Len(reqs)
  <2>1. 1 \in 1 .. Len(buf') /\ Len(reqs) \in Nat /\ 0 \in 0 .. Len(reqs)
    BY <1>1, <1>4, SMT DEF Types, ClientTypes
  <2>2. buf'[1] \in Sent
    BY <2>1, <1>1, ElementOf
  <2>3. buf'[1].req \in 1 .. Len(reqs)
    BY <2>2 DEF Sent
  <2>4. buf'[1].req \in 0 .. Len(reqs)
    BY <2>1, <2>3, SMT
  <2>5. QED
    BY <2>1, <2>4 DEF Parsed
<1>7. MaxMemory \in Nat /\ want \in Nat /\ cur \in 0 .. Len(reqs) /\ res = NoResponse /\ bOut = FALSE
  BY <1>2 DEF SessionAssumption, Types, ChildTypes, Known, InPut
<1>8. CASE EndOfHeader(buf') /\ cur' = Parsed(buf') /\ AfterHeader(Parsed(buf'))
  <2>1. /\ cur' \in 0 .. Len(reqs) /\ want' \in Nat /\ pc' \in {"contents", "handle"}
        /\ pc' = "contents" => /\ want' > 0 /\ cur' # 0 /\ reqs[cur'].meth \notin {"PUT", "POST"}
                               /\ reqs[cur'].len \in 1 .. MaxMemory
    BY <1>6, <1>7, <1>8, SMT DEF AfterHeader
  <2>2. ChildTypes'
    BY <1>1, <1>2, <1>3, <1>4, <1>5, <2>1 DEF Types, ChildTypes, Pcs, Response
  <2>3. Known'
    BY <1>2, <1>4, <1>7, <2>1 DEF Known, InPut, NoResponse
  <2>4. QED
    BY <1>3, <2>2, <2>3 DEF Types
<1>9. CASE ~EndOfHeader(buf') /\ UNCHANGED <<pc, cur, want>>
  <2>1. ChildTypes'
    BY <1>1, <1>2, <1>3, <1>4, <1>5, <1>9 DEF Types, ChildTypes, Pcs, Response
  <2>2. Known'
    BY <1>2, <1>4, <1>7, <1>9 DEF Known, InPut, NoResponse
  <2>3. QED
    BY <1>3, <2>1, <2>2 DEF Types
<1>10. QED
  BY <1>1, <1>8, <1>9

\* A part is taken from what was sent.
LEMMA TakesOne ==
  ASSUME Types, wire # <<>>
  PROVE  /\ Tail(wire) \in Seq(Sent) /\ wire[1] \in Sent
         /\ Append(saved, wire[1]) \in Seq(Sent)
<1>1. wire \in Seq(Sent) /\ saved \in Seq(Sent)
  BY DEF Types, ClientTypes, ChildTypes
<1>2. Tail(wire) \in Seq(Sent) /\ 1 \in 1 .. Len(wire)
  BY <1>1, SMT
<1>3. wire[1] \in Sent
  BY <1>1, <1>2, ElementOf
<1>4. QED
  BY <1>1, <1>2, <1>3, SMT

\* So does the child with every step of its own.
LEMMA ChildKeepsTypes ==
  ASSUME SessionAssumption, Types, Child
  PROVE  Types'
<1>1. /\ wire \in Seq(Sent) /\ late \in BOOLEAN /\ refused \subseteq 1 .. Len(reqs) /\ Len(reqs) \in Nat
      /\ pc \in Pcs /\ buf \in Seq(Sent) /\ saved \in Seq(Sent) /\ block \in {-1, 0, 1}
      /\ cur \in 0 .. Len(reqs) /\ want \in Nat
      /\ res \in Response /\ bOut \in BOOLEAN /\ answers \in Seq(Answer) /\ Known
  BY SMT DEF Types, ClientTypes, ChildTypes
<1>2. NoResponse \in Response /\ MaxMemory \in Nat /\ 0 \in 0 .. Len(reqs) /\ \A S : <<>> \in Seq(S)
  <2>1. NoResponse \in Response /\ MaxMemory \in Nat
    BY DEF NoResponse, Response, Codes, SessionAssumption
  <2>2. 0 \in 0 .. Len(reqs) /\ \A S : <<>> \in Seq(S)
    BY <1>1, SMT
  <2>3. QED
    BY <2>1, <2>2
<1>3. {"none", "ok", "created", "bad", "forbidden", "not allowed", "not implemented"} = Codes
  BY DEF Codes
<1>4. ASSUME UNCHANGED <<clientVars, exit, piped>>, wire' \in Seq(Sent), late' \in BOOLEAN,
             refused' \subseteq 1 .. Len(reqs),
             pc' \in Pcs, buf' \in Seq(Sent), saved' \in Seq(Sent), block' \in {-1, 0, 1},
             cur' \in 0 .. Len(reqs), want' \in Nat,
             res' \in Response, bOut' \in BOOLEAN, answers' \in Seq(Answer), Known'
      PROVE  Types'
  <2>1. ClientTypes' /\ Sent' = Sent /\ Answer' = Answer
    BY <1>4, ChildKeeps
  <2>2. ChildTypes'
    BY <1>4, <2>1 DEF ChildTypes, clientVars, Response
  <2>3. QED
    BY <1>4, <2>1, <2>2 DEF Types
<1>5. CASE Read
  BY <1>5, ReadTypes
<1>6. CASE NoRequest
  <2>1. /\ UNCHANGED <<clientVars, wire, readVars, resVars, exit, refused, piped>>
        /\ pc = "read" /\ pc' = "closed" /\ late' \in BOOLEAN
    BY <1>6 DEF NoRequest, NoInput
  <2>2. Known'
    BY <1>1, <2>1 DEF Known, InPut, clientVars, readVars, resVars
  <2>3. QED
    BY <1>1, <1>4, <2>1, <2>2 DEF readVars, resVars, Pcs
<1>7. CASE ReadContents
  <2>1. /\ pc = "contents" /\ UNCHANGED <<clientVars, buf, block, saved, resVars, exit, refused, piped>>
        /\ \/ wire # <<>> /\ wire' = Tail(wire) /\ want' = want - 1 /\ UNCHANGED <<cur, late>>
              /\ (want = 1 => pc' = "handle") /\ (want # 1 => pc' = pc)
           \/ UNCHANGED <<wire, want>> /\ cur' = 0 /\ late' \in BOOLEAN /\ pc' = "handle"
    BY <1>7 DEF ReadContents, NoInput, history
  <2>2. wire' \in Seq(Sent) /\ late' \in BOOLEAN
    BY <1>1, <2>1, TakesOne
  <2>3. want > 0 /\ res = NoResponse /\ bOut = FALSE
    BY <1>1, <2>1 DEF Known, InPut
  <2>4. want' \in Nat /\ (want # 1 => want - 1 > 0)
    BY <1>1, <2>1, <2>3, SMT
  <2>5. Known'
    BY <1>1, <2>1, <2>3, <2>4 DEF Known, InPut, clientVars, resVars, NoResponse
  <2>6. QED
    BY <1>1, <1>2, <1>4, <2>1, <2>2, <2>4, <2>5 DEF resVars, Pcs
<1>8. ASSUME UNCHANGED <<clientVars, exit, piped, bOut, answers, buf, block, cur>>, wire' \in Seq(Sent), late' \in BOOLEAN,
             refused' \subseteq 1 .. Len(reqs), saved' \in Seq(Sent), want' \in Nat, res' \in Response, pc' = "out",
             pc \notin {"out", "next", "closed"}
      PROVE  Types'
  <2>1. Known'
    BY <1>1, <1>8 DEF Known, InPut
  <2>2. QED
    BY <1>1, <1>4, <1>8, <2>1 DEF Pcs
<1>9. CASE Bad \/ Simple \/ Forbidden
  <2>1. /\ pc \in {"handle", "open"}
        /\ UNCHANGED <<clientVars, exit, piped, bOut, answers, buf, block, cur, wire, late, saved, want>>
        /\ refused' = refused \/ (pc = "open" /\ refused' = refused \cup {cur})
        /\ \E code \in Codes, wanted \in BOOLEAN : Respond(code, wanted)
    BY <1>3, <1>9 DEF Bad, Simple, Forbidden, readVars, history
  <2>2. pc' = "out" /\ res' \in Response
    BY <2>1, RespondFacts
  <2>3. refused' \subseteq 1 .. Len(reqs)
    <3>1. pc = "open" => cur # 0
      BY <1>1 DEF Known
    <3>2. cur # 0 => cur \in 1 .. Len(reqs)
      BY <1>1, SMT
    <3>3. CASE refused' = refused
      BY <1>1, <3>3
    <3>4. CASE pc = "open" /\ refused' = refused \cup {cur}
      BY <1>1, <3>1, <3>2, <3>4
    <3>5. QED
      BY <2>1, <3>3, <3>4
  <2>4. QED
    BY <1>1, <1>8, <2>1, <2>2, <2>3
<1>10. CASE Put
  <2>1. /\ pc = "handle" /\ cur # 0 /\ reqs[cur].meth = "PUT"
        /\ UNCHANGED <<clientVars, exit, piped, bOut, answers, buf, block, cur, wire, late, refused, saved, want>>
        /\ \/ \E code \in Codes, wanted \in BOOLEAN : Respond(code, wanted)
           \/ pc' = "open" /\ UNCHANGED res
    BY <1>3, <1>10 DEF Put, readVars, history
  <2>2. CASE \E code \in Codes, wanted \in BOOLEAN : Respond(code, wanted)
    <3>1. pc' = "out" /\ res' \in Response
      BY <2>2, RespondFacts
    <3>2. QED
      BY <1>1, <1>8, <2>1, <3>1
  <2>3. CASE pc' = "open" /\ UNCHANGED res
    <3>1. res = NoResponse
      BY <1>1, <2>1 DEF Known
    <3>2. Known'
      BY <1>1, <2>1, <2>3, <3>1 DEF Known, InPut, clientVars, NoResponse
    <3>3. QED
      BY <1>1, <1>4, <2>1, <2>3, <3>2 DEF Pcs
  <2>4. QED
    BY <2>1, <2>2, <2>3
<1>11. CASE Stream
  <2>1. /\ pc = "handle" /\ cur # 0 /\ reqs[cur].meth \in {"GET", "DAV"} /\ res.code = "none"
        /\ UNCHANGED <<clientVars, exit, piped, bOut, answers, buf, block, cur, wire, late, refused, saved, want, pc>>
        /\ res' = [code |-> "ok", keep |-> KeepAlive(cur, TRUE)]
    BY <1>11 DEF Stream, readVars, history
  <2>2. KeepAlive(cur, TRUE) \in BOOLEAN
    BY DEF KeepAlive
  <2>3. res' \in Response /\ res'.code = "ok"
    BY <1>3, <2>1, <2>2 DEF Response
  <2>4. Known'
    BY <1>1, <2>1, <2>3 DEF Known, InPut, clientVars
  <2>5. QED
    BY <1>1, <1>4, <2>1, <2>3, <2>4
<1>12. CASE Open
  <2>1. /\ pc = "open" /\ cur # 0 /\ reqs[cur].meth = "PUT" /\ res = NoResponse /\ saved' = <<>>
        /\ UNCHANGED <<clientVars, exit, piped, bOut, answers, buf, block, cur, wire, late, refused>>
    BY <1>1, <1>12 DEF Open, Known, history
  <2>2. CASE reqs[cur].len > 0 /\ pc' = "put" /\ want' = reqs[cur].len /\ UNCHANGED res
    <3>1. want' \in Nat /\ want' > 0
      <4>1. cur \in 1 .. Len(reqs) /\ reqs \in Seq(Request)
        BY <1>1, <2>1, SMT DEF Types, ClientTypes
      <4>2. reqs[cur] \in Request
        BY <4>1, SMT
      <4>3. reqs[cur].len \in Nat \cup {-1}
        BY <4>2 DEF SessionAssumption
      <4>4. QED
        BY <2>2, <4>3, SMT
    <3>2. Known'
      BY <1>1, <2>1, <2>2, <3>1 DEF Known, InPut, clientVars, NoResponse
    <3>3. QED
      BY <1>1, <1>2, <1>4, <2>1, <2>2, <3>1, <3>2 DEF Pcs
  <2>3. CASE pc' = "size" /\ UNCHANGED <<want, res>>
    <3>2. Known'
      BY <1>1, <2>1, <2>3 DEF Known, InPut, clientVars, NoResponse
    <3>3. QED
      BY <1>1, <1>2, <1>4, <2>1, <2>3, <3>2 DEF Pcs
  <2>4. CASE Respond("bad", FALSE) /\ UNCHANGED want
    <3>1. pc' = "out" /\ res' \in Response
      BY <1>3, <2>4, RespondFacts
    <3>2. QED
      BY <1>1, <1>2, <1>8, <2>1, <2>4, <3>1
  <2>5. QED
    BY <1>12, <2>2, <2>3, <2>4 DEF Open
<1>13. CASE PutSave \/ ChunkSave
  <2>1. /\ pc \in {"put", "chunk"} /\ wire # <<>> /\ wire' = Tail(wire) /\ want' = want - 1
        /\ saved' = Append(saved, wire[1])
        /\ UNCHANGED <<clientVars, exit, piped, bOut, answers, buf, block, cur, late, refused>>
        /\ \/ want > 1 /\ UNCHANGED <<pc, res>>
           \/ Respond("created", TRUE)
           \/ pc' = "tail" /\ UNCHANGED res
    BY <1>13 DEF PutSave, ChunkSave, Save, history
  <2>2. wire' \in Seq(Sent) /\ saved' \in Seq(Sent)
    BY <2>1, TakesOne
  <2>3. want > 0 /\ res = NoResponse /\ bOut = FALSE /\ cur # 0 /\ reqs[cur].meth = "PUT"
    BY <1>1, <2>1 DEF Known, InPut
  <2>4. want' \in Nat /\ (want > 1 => want - 1 > 0)
    BY <1>1, <2>1, <2>3, SMT
  <2>5. CASE Respond("created", TRUE)
    <3>1. pc' = "out" /\ res' \in Response
      BY <1>3, <2>5, RespondFacts
    <3>2. QED
      BY <1>1, <1>8, <2>1, <2>2, <2>4, <3>1
  <2>6. CASE \/ want > 1 /\ UNCHANGED <<pc, res>>
             \/ pc' = "tail" /\ UNCHANGED res
    <3>1. Known'
      BY <1>1, <2>1, <2>3, <2>4, <2>6 DEF Known, InPut, clientVars, NoResponse
    <3>2. QED
      BY <1>1, <1>4, <2>1, <2>2, <2>4, <2>6, <3>1 DEF Pcs
  <2>7. QED
    BY <2>1, <2>5, <2>6
<1>14. CASE ChunkSize
  <2>1. /\ pc = "size" /\ wire # <<>> /\ wire' = Tail(wire)
        /\ UNCHANGED <<clientVars, exit, piped, res, bOut, answers, buf, block, cur, saved, late, refused>>
        /\ (pc' = "chunk" /\ want' = 1) \/ (pc' = "last" /\ want' = want)
    BY <1>14 DEF ChunkSize, resVars, history
  <2>2. wire' \in Seq(Sent)
    BY <2>1, TakesOne
  <2>3. res = NoResponse /\ bOut = FALSE /\ cur # 0 /\ reqs[cur].meth = "PUT"
    BY <1>1, <2>1 DEF Known, InPut
  <2>4. want' \in Nat /\ (want' = 1 => want' > 0)
    BY <1>1, <2>1, SMT
  <2>5. Known'
    BY <1>1, <2>1, <2>3, <2>4 DEF Known, InPut, clientVars, NoResponse
  <2>6. QED
    BY <1>1, <1>4, <2>1, <2>2, <2>4, <2>5 DEF Pcs
<1>15. CASE ChunkTail
  <2>1. /\ pc \in {"tail", "last"} /\ wire # <<>> /\ wire' = Tail(wire)
        /\ UNCHANGED <<clientVars, exit, piped, bOut, answers, buf, block, cur, saved, want, late, refused>>
        /\ Respond("created", TRUE) \/ (pc' = "size" /\ UNCHANGED res)
    BY <1>15 DEF ChunkTail, readVars, history
  <2>2. wire' \in Seq(Sent)
    BY <2>1, TakesOne
  <2>3. res = NoResponse /\ bOut = FALSE /\ cur # 0 /\ reqs[cur].meth = "PUT"
    BY <1>1, <2>1 DEF Known, InPut
  <2>4. CASE Respond("created", TRUE)
    <3>1. pc' = "out" /\ res' \in Response
      BY <1>3, <2>4, RespondFacts
    <3>2. QED
      BY <1>1, <1>8, <2>1, <2>2, <3>1
  <2>5. CASE pc' = "size" /\ UNCHANGED res
    <3>1. Known'
      BY <1>1, <2>1, <2>3, <2>5 DEF Known, InPut, clientVars, NoResponse
    <3>2. QED
      BY <1>1, <1>4, <2>1, <2>2, <2>5, <3>1 DEF Pcs
  <2>6. QED
    BY <2>1, <2>4, <2>5
<1>16. CASE PutBroken
  <2>1. /\ pc \in InPut /\ pc' = "out" /\ late' \in BOOLEAN /\ res' = [code |-> "bad", keep |-> FALSE]
        /\ UNCHANGED <<clientVars, exit, piped, wire, bOut, answers, buf, block, cur, saved, want, refused>>
    BY <1>16 DEF PutBroken, NoInput, readVars, InPut
  <2>2. res' \in Response
    BY <1>3, <2>1 DEF Response
  <2>3. QED
    BY <1>1, <1>8, <2>1, <2>2 DEF InPut
<1>17. CASE Streamed \/ Out
  <2>1. /\ pc \in {"handle", "out"} /\ ResponseOut /\ pc' \in {"out", "next"}
        /\ UNCHANGED <<clientVars, exit, piped, wire, late, refused, buf, block, cur, saved, want>>
    BY <1>17 DEF Streamed, Out, readVars, history
  <2>2. /\ bOut' = TRUE /\ res' \in Response
        /\ answers' \in Seq(Answer) /\ Len(answers') > 0 /\ answers'[Len(answers')].keep = res'.keep
    BY <2>1, OutFacts
  <2>3. Known'
    BY <2>1, <2>2 DEF Known, InPut
  <2>4. QED
    BY <1>1, <1>4, <2>1, <2>2, <2>3 DEF Pcs
<1>18. CASE Again
  <2>1. /\ pc = "next" /\ UNCHANGED <<clientVars, exit, piped, wire, late, refused, saved, want, answers>>
        /\ \/ pc' = "read" /\ buf' = <<>> /\ block' = 0 /\ cur' = 0 /\ res' = NoResponse /\ bOut' = FALSE
           \/ pc' = "closed" /\ UNCHANGED <<buf, block, cur, res, bOut>>
    BY <1>18 DEF Again, history
  <2>2. Known'
    BY <1>1, <2>1 DEF Known, InPut
  <2>3. QED
    BY <1>1, <1>2, <1>4, <2>1, <2>2 DEF Pcs
<1>19. QED
  BY <1>5, <1>6, <1>7, <1>9, <1>10, <1>11, <1>12, <1>13, <1>14, <1>15, <1>16, <1>17, <1>18 DEF Child

\* The types hold always, and so the server does what the head of its answer says.
LEMMA TypesInv ==
  ASSUME SessionAssumption
  PROVE  Spec => []Types
<1>1. Init => Types
  BY InitTypes
<1>2. Types /\ [Next]_vars => Types'
  BY ClientKeepsTypes, ChildKeepsTypes DEF Next
<1>3. QED
  BY <1>1, <1>2, PTL DEF Spec

\* The server reads another request if and only if it announced Keep-Alive:
\* httpMain looks at the header that httpResponseOut has put out.
THEOREM DoesAsToldCorrect ==
  ASSUME SessionAssumption
  PROVE  Spec => [][DoesAsToldStep]_vars
<1>1. Types /\ [Next]_vars => DoesAsToldStep
  <2>0. SUFFICES ASSUME Types, [Next]_vars
                 PROVE  DoesAsToldStep
    OBVIOUS
  <2>1. SUFFICES ASSUME pc = "next", pc' # "next"
                 PROVE  pc' = "read" <=> answers[Len(answers)].keep
    BY DEF DoesAsToldStep
  <2>2. bOut /\ answers[Len(answers)].keep = res.keep
    BY <2>0, <2>1 DEF Types, Known
  <2>3. Again
    <3>1. ~UNCHANGED pc
      BY <2>1
    <3>2. \A r \in Request : ~Ask(r)
      BY <3>1 DEF Ask
    <3>3. ~Send /\ ~Drop /\ ~HangUp /\ ~RequestExit /\ ~UNCHANGED vars
      BY <3>1 DEF Send, Drop, HangUp, RequestExit, vars
    <3>4. Child
      BY <2>0, <3>2, <3>3 DEF Next
    <3>5. QED
      BY <2>1, <3>4 DEF Child, Read, NoRequest, ReadContents, Bad, Stream, Streamed, Simple, Put, Forbidden,
                       Open, PutSave, ChunkSize, ChunkSave, ChunkTail, PutBroken, Out
  <2>4. (res.keep /\ pc' = "read") \/ (~res.keep /\ pc' = "closed")
    BY <2>3 DEF Again, GoesOn
  <2>5. QED
    BY <2>2, <2>4
<1>2. QED
  BY <1>1, TypesInv, PTL DEF Spec

-----------------------------------------------------------------------------
(* Where the server is in what the client sends *)

\* The contents of a request that is not read, and not sent any more: its PUT was
\* refused while the client waited for "100 Continue".
Held == out # <<>> /\ Len(reqs) \in refused

Coming == IF Held THEN wire ELSE wire \o out

\* What comes next is part j of request k, and so on to the end of what was asked.
At(k, j) == Ahead(reqs, Coming, k, j, eof)

\* The first j parts of request k were read.
Has(k, j) == After(reqs, Coming, k, j, eof)

\* One of the requests is being read or handled.
Current == Len(answers) + 1

\* A request sent ahead was sent before the answer to the one ahead of it.
SentAhead == \A k \in 2 .. Len(reqs) : k \in piped \/ Len(answers) >= k - 1

\* What waits for "100 Continue" is sent while its request is being served.
OnDemand(t) == reqs[t.req].expect /\ t.part \notin {"method", "header"}
Waits == \A i \in 1 .. Len(wire) : OnDemand(wire[i]) => pc \in InPut /\ cur = wire[i].req

Refusals ==
  /\ \A k \in refused : k <= Len(answers) \/ (pc = "out" /\ cur = k)
  /\ Held => OnDemand(out[1])

Excused(i) == late \/ eof \/ reqs[i].expect

\* Each answer is in its place.
InPlace(i) == answers[i].req = i \/ (answers[i].req = 0 /\ ~answers[i].keep /\ Excused(i))

MethodOf(k) == <<[req |-> k, part |-> "method"]>>

BlockOf(r) == IF r.meth = "GET" THEN 1 ELSE -1

Reading ==
  pc = "read" =>
    \/ buf = <<>> /\ block = 0 /\ At(Current, 1)
    \/ /\ Current <= Len(reqs) /\ Has(Current, 1)
       /\ buf = MethodOf(Current) /\ block = BlockOf(reqs[Current])

Loading ==
  pc = "contents" =>
    cur = Current /\ \E n \in Nat : n + want = reqs[cur].len /\ Has(cur, 2 + n)

Handling ==
  pc = "handle" =>
    /\ cur = 0 => Current <= Len(reqs) /\ Excused(Current)
    /\ cur # 0 => /\ cur = Current
                  /\ reqs[cur].meth \in {"GET", "DAV"} => At(cur + 1, 1)
                  /\ reqs[cur].meth = "PUT" => Has(cur, 2)

Opening ==
  pc = "open" => cur = Current /\ Has(cur, 2) /\ (reqs[cur].len >= 0 \/ reqs[cur].chunks >= 0)

Putting ==
  pc = "put" =>
    /\ cur = Current /\ reqs[cur].len > 0
    /\ \E n \in Nat : n + want = reqs[cur].len /\ saved = Units(cur, n) /\ Has(cur, 2 + n)

Chunks ==
  pc \in {"size", "chunk", "tail", "last"} =>
    /\ cur = Current /\ reqs[cur].chunks >= 0
    /\ \E n \in 0 .. reqs[cur].chunks :
         /\ saved = Units(cur, n)
         /\ pc = "size" => Has(cur, 2 + 3 * n)
         /\ pc = "chunk" => want = 1 /\ n < reqs[cur].chunks /\ Has(cur, 3 + 3 * n)
         /\ pc = "tail" => 0 < n /\ Has(cur, 1 + 3 * n)
         /\ pc = "last" => n = reqs[cur].chunks /\ Has(cur, 3 + 3 * n)

Answering ==
  pc \in {"out", "next"} =>
    /\ cur = 0 => ~res.keep /\ (~bOut => Current <= Len(reqs) /\ Excused(Current))
    /\ cur # 0 => (bOut => cur = Len(answers)) /\ (~bOut => cur = Current)
    /\ res.keep => cur # 0 /\ At(cur + 1, 1)
    /\ pc = "out" /\ res.code = "created" => cur # 0 /\ saved = Contents(cur)

Place == Reading /\ Loading /\ Handling /\ Opening /\ Putting /\ Chunks /\ Answering

\* Client and server are where they should be.
Steps ==
  /\ Len(answers) <= Len(reqs) /\ Waits /\ Refusals
  /\ \A i \in 1 .. Len(answers) : InPlace(i)
  /\ Place

\* Nothing was asked for, and nothing is expected.
LEMMA InitSteps == SessionAssumption /\ Init => SentAhead /\ Steps
<1> SUFFICES ASSUME SessionAssumption, Init
             PROVE  SentAhead /\ Steps
  OBVIOUS
<1>1. Len(<<>>) = 0 /\ (\A i \in 1 .. Len(<<>>) : FALSE) /\ (\A i \in 2 .. Len(<<>>) : FALSE) /\ <<>> \o <<>> = <<>>
      /\ Len(<<>>) + 1 = 1 /\ Len(<<>>) <= Len(<<>>) /\ 1 \in Nat
  BY SMT
<1>2. ~Held /\ Coming = <<>> /\ Current = 1
  BY <1>1 DEF Init, Held, Coming, Current
<1>3. At(Current, 1)
  <2>1. Ahead(<<>>, <<>>, 1, 1, FALSE)
    BY <1>1, NothingAhead
  <2>2. QED
    BY <1>2, <2>1 DEF At, Init
<1>4. SentAhead /\ Waits /\ Refusals /\ \A i \in 1 .. Len(answers) : InPlace(i)
  BY <1>1, <1>2 DEF Init, SentAhead, Waits, Refusals
<1>5. Place
  BY <1>3 DEF Init, Place, Reading, Loading, Handling, Opening, Putting, Chunks, Answering
<1>6. QED
  BY <1>1, <1>4, <1>5 DEF Steps, Init

\* Sequences that the types give.
LEMMA ComingType ==
  ASSUME Types
  PROVE  /\ Coming \in Seq(Sent) /\ reqs \in Seq(Request) /\ wire \in Seq(Sent) /\ out \in Seq(Sent)
         /\ Len(reqs) \in Nat /\ Len(answers) \in Nat /\ eof \in BOOLEAN /\ cur \in 0 .. Len(reqs)
         /\ Len(wire) \in Nat /\ Len(wire) <= Len(Coming) /\ \A i \in 1 .. Len(wire) : Coming[i] = wire[i]
<1>1. /\ reqs \in Seq(Request) /\ wire \in Seq(Sent) /\ out \in Seq(Sent) /\ answers \in Seq(Answer)
      /\ eof \in BOOLEAN /\ cur \in 0 .. Len(reqs)
  BY DEF Types, ClientTypes, ChildTypes
<1>2. Len(reqs) \in Nat /\ Len(answers) \in Nat /\ Len(wire) \in Nat
  BY <1>1, SMT
<1>3. /\ wire \o out \in Seq(Sent) /\ Len(wire) <= Len(wire \o out)
      /\ \A i \in 1 .. Len(wire) : (wire \o out)[i] = wire[i]
  BY <1>1, SMT
<1>4. /\ Coming \in Seq(Sent) /\ Len(wire) <= Len(Coming) /\ \A i \in 1 .. Len(wire) : Coming[i] = wire[i]
  BY <1>1, <1>2, <1>3, SMT DEF Coming
<1>5. QED
  BY <1>1, <1>2, <1>4

\* A part that was sent is taken: what comes behind it is next.
Takes == wire # <<>> /\ wire' = Tail(wire) /\ UNCHANGED <<reqs, out, eof, refused>>

\* The part that is taken is the next one.
LEMMA TakesFacts ==
  ASSUME SessionAssumption, Types, Takes, NEW k, NEW j, At(k, j)
  PROVE  k \in 1 .. Len(reqs) /\ j \in 1 .. Size(reqs[k]) /\ wire[1] = Part(k, reqs[k], j) /\ Has(k, j)'
<1>1. Coming \in Seq(Sent) /\ reqs \in Seq(Request) /\ wire \in Seq(Sent) /\ out \in Seq(Sent)
  BY ComingType
<1>2. wire # <<>> /\ wire' = Tail(wire) /\ UNCHANGED <<reqs, out, eof, refused>>
  BY DEF Takes
<1>3. Tail(wire) \o out = Tail(wire \o out) /\ (wire \o out)[1] = wire[1] /\ wire \o out # <<>>
  BY <1>1, <1>2, SMT
<1>4. Coming # <<>> /\ Coming[1] = wire[1] /\ Coming' = Tail(Coming)
  BY <1>2, <1>3 DEF Coming, Held
<1>5. /\ k \in 1 .. Len(reqs) /\ j \in 1 .. Size(reqs[k]) /\ Coming[1] = Part(k, reqs[k], j)
      /\ After(reqs, Tail(Coming), k, j, eof)
  BY <1>1, <1>4, TakeFirst DEF At
<1>6. QED
  BY <1>2, <1>4, <1>5 DEF Has

-----------------------------------------------------------------------------
(* Steps of the client *)

\* What was asked, refused and sent ahead, and what went wrong, stays so.
Grows ==
  /\ Len(reqs) <= Len(reqs') /\ \A k \in 1 .. Len(reqs) : reqs'[k] = reqs[k]
  /\ refused \subseteq refused' /\ piped \subseteq piped' /\ (late => late') /\ (eof => eof')

\* Every step leaves that so.
LEMMA NextGrows ==
  ASSUME Types, [Next]_vars
  PROVE  Grows
<1>1. reqs \in Seq(Request) /\ Len(reqs) <= Len(reqs)
  BY SMT DEF Types, ClientTypes
<1>2. CASE \E r \in Request : Ask(r)
  <2>1. PICK r \in Request : Ask(r)
    BY <1>2
  <2>2. reqs' = Append(reqs, r) /\ piped \subseteq piped' /\ UNCHANGED <<eof, refused, late>>
    BY <2>1 DEF Ask
  <2>3. Len(reqs) <= Len(reqs') /\ \A k \in 1 .. Len(reqs) : reqs'[k] = reqs[k]
    BY <1>1, <2>1, <2>2, SMT
  <2>4. QED
    BY <2>2, <2>3 DEF Grows
<1>3. CASE Send \/ Drop \/ HangUp \/ RequestExit \/ UNCHANGED vars
  BY <1>1, <1>3 DEF Send, Drop, HangUp, RequestExit, vars, clientVars, history, Grows
<1>4. CASE Child
  <2>1. ASSUME NEW l, NoInput(l)
        PROVE  (late => late') /\ UNCHANGED <<refused, piped>>
    BY <2>1, Zenon DEF NoInput
  <2>2. UNCHANGED <<reqs, eof>> /\ refused \subseteq refused' /\ piped \subseteq piped' /\ (late => late')
    <3>1. CASE NoRequest \/ ReadContents \/ PutBroken
      <4>1. UNCHANGED <<refused, piped>> /\ (late => late')
        BY <2>1, <3>1 DEF NoRequest, ReadContents, PutBroken, history
      <4>2. UNCHANGED <<reqs, eof>>
        BY <3>1 DEF NoRequest, ReadContents, PutBroken, clientVars
      <4>3. QED
        BY <4>1, <4>2
    <3>2. CASE Read
      BY <3>2 DEF Read, clientVars, history
    <3>3. CASE Bad
      BY <3>3 DEF Bad, clientVars, history
    <3>4. CASE Stream
      BY <3>4 DEF Stream, clientVars, history
    <3>5. CASE Streamed
      BY <3>5 DEF Streamed, clientVars, history
    <3>6. CASE Simple
      BY <3>6 DEF Simple, clientVars, history
    <3>7. CASE Put
      BY <3>7 DEF Put, clientVars, history
    <3>8. CASE Forbidden
      BY <3>8 DEF Forbidden, clientVars, history
    <3>9. CASE Open
      BY <3>9 DEF Open, clientVars, history
    <3>10. CASE PutSave
      BY <3>10 DEF PutSave, Save, clientVars, history
    <3>11. CASE ChunkSave
      BY <3>11 DEF ChunkSave, Save, clientVars, history
    <3>12. CASE ChunkSize
      BY <3>12 DEF ChunkSize, clientVars, history
    <3>13. CASE ChunkTail
      BY <3>13 DEF ChunkTail, clientVars, history
    <3>14. CASE Out
      BY <3>14 DEF Out, clientVars, history
    <3>15. CASE Again
      BY <3>15 DEF Again, clientVars, history
    <3>16. QED
      BY <1>4, <3>1, <3>2, <3>3, <3>4, <3>5, <3>6, <3>7, <3>8, <3>9, <3>10, <3>11, <3>12, <3>13, <3>14, <3>15 DEF Child
  <2>3. QED
    BY <1>1, <2>2 DEF Grows
<1>5. QED
  BY <1>2, <1>3, <1>4 DEF Next

\* What is out of order stays out of order.
LEMMA OrderlyBefore ==
  ASSUME Types, Grows, Orderly'
  PROVE  Orderly
<1>1. Len(reqs) \in Nat /\ Len(reqs') \in Nat /\ piped \subseteq 2 .. Len(reqs)
  <2>1. Len(reqs) \in Nat
    BY ComingType
  <2>2. Len(reqs') \in Nat
    BY SMT
  <2>3. QED
    BY <2>1, <2>2 DEF Types, ClientTypes
<1>2. /\ Len(reqs) <= Len(reqs') /\ \A k \in 1 .. Len(reqs) : reqs'[k] = reqs[k]
      /\ refused \subseteq refused' /\ piped \subseteq piped'
  BY DEF Grows
<1>3. \A k \in 1 .. Len(reqs) : k \in 1 .. Len(reqs')
  BY <1>1, <1>2, SMT
<1>4. ASSUME NEW k \in 1 .. Len(reqs), LeftUnread(k)
      PROVE  FALSE
  <2>1. LeftUnread(k)'
    BY <1>2, <1>4 DEF LeftUnread, Contents
  <2>2. QED
    BY <1>3, <2>1 DEF Orderly
<1>5. ASSUME NEW k \in piped
      PROVE  reqs[k - 1].meth # "GET"
  <2>1. k - 1 \in 1 .. Len(reqs)
    BY <1>1, <1>5, SMT
  <2>2. reqs'[k - 1].meth # "GET"
    BY <1>2, <1>5 DEF Orderly
  <2>3. QED
    BY <1>2, <2>1, <2>2
<1>6. QED
  BY <1>4, <1>5 DEF Orderly

\* An answer stays in its place.
LEMMA InPlaceStays ==
  ASSUME Types, Grows, Len(answers) <= Len(reqs), NEW i \in 1 .. Len(answers), answers'[i] = answers[i], InPlace(i)
  PROVE  InPlace(i)'
<1>1. i \in 1 .. Len(reqs)
  <2>1. Len(reqs) \in Nat /\ Len(answers) \in Nat
    BY ComingType
  <2>2. QED
    BY <2>1, SMT
<1>2. reqs'[i] = reqs[i] /\ (late => late') /\ (eof => eof')
  BY <1>1 DEF Grows
<1>3. QED
  BY <1>2 DEF InPlace, Excused

\* A request that is sent while none is waiting for its answer is not sent ahead.
LEMMA SentAheadStays ==
  ASSUME Types, SentAhead, [Next]_vars, Len(answers) <= Len(answers')
  PROVE  SentAhead'
<1>1. Grows
  BY NextGrows
<1>2. Len(reqs) \in Nat /\ Len(answers) \in Nat /\ Len(answers') \in Nat
  <2>1. Len(answers') \in Nat
    BY SMT
  <2>2. QED
    BY <2>1, ComingType
<1>3. SUFFICES ASSUME NEW k \in 2 .. Len(reqs'), ~(k \in piped'), ~(Len(answers') >= k - 1)
               PROVE  FALSE
  BY DEF SentAhead
<1>4. ~(k \in 2 .. Len(reqs))
  <2>1. SUFFICES ASSUME k \in 2 .. Len(reqs)
                 PROVE  FALSE
    OBVIOUS
  <2>2. Len(answers) >= k - 1
    BY <1>1, <1>3, <2>1 DEF SentAhead, Grows
  <2>3. QED
    BY <1>2, <1>3, <2>1, <2>2, SMT
<1>5. Len(reqs') # Len(reqs)
  BY <1>3, <1>4
<1>6. PICK r \in Request : Ask(r)
  <2>1. ~UNCHANGED reqs
    BY <1>5
  <2>2. ~Child
    BY <2>1 DEF Child, Read, NoRequest, ReadContents, Bad, Stream, Streamed, Simple, Put, Forbidden,
            Open, PutSave, ChunkSize, ChunkSave, Save, ChunkTail, PutBroken, Out, Again, clientVars
  <2>3. QED
    BY <2>1, <2>2 DEF Next, Send, Drop, HangUp, RequestExit, vars, clientVars
<1>7. /\ reqs' = Append(reqs, r) /\ answers' = answers
      /\ (Len(answers) < Len(reqs) => piped' = piped \cup {Len(reqs) + 1})
  BY <1>6 DEF Ask, resVars
<1>8. Len(reqs') = Len(reqs) + 1
  BY <1>7, ComingType, SMT
<1>9. k = Len(reqs) + 1
  BY <1>2, <1>3, <1>4, <1>8, SMT
<1>10. Len(answers) < Len(reqs)
  BY <1>2, <1>3, <1>7, <1>9, SMT
<1>11. QED
  BY <1>3, <1>7, <1>9, <1>10

-----------------------------------------------------------------------------
\* What comes of the requests that are not answered still comes.
AtStays == \A k, j : k \in Int /\ k >= Current /\ At(k, j) => At(k, j)'

\* And what comes behind a part that was read.
LEMMA HasStays ==
  ASSUME Types, Grows, AtStays, UNCHANGED answers, NEW k \in 1 .. Len(reqs), k >= Current, NEW j, Has(k, j)
  PROVE  Has(k, j)'
<1>1. Len(answers) \in Nat /\ Len(reqs) \in Nat
  BY ComingType
<1>2. k \in Int /\ k + 1 \in Int /\ k >= Current /\ k + 1 >= Current
  BY <1>1, SMT DEF Current
<1>3. reqs'[k] = reqs[k]
  BY DEF Grows
<1>4. CASE j < Size(reqs[k])
  <2>1. At(k, j + 1)
    BY <1>4 DEF Has, At, After
  <2>2. At(k, j + 1)'
    BY <1>2, <2>1 DEF AtStays
  <2>3. QED
    BY <1>3, <1>4, <2>2 DEF Has, At, After
<1>5. CASE ~(j < Size(reqs[k]))
  <2>1. At(k + 1, 1)
    BY <1>5 DEF Has, At, After
  <2>2. At(k + 1, 1)'
    BY <1>2, <2>1 DEF AtStays
  <2>3. QED
    BY <1>3, <1>5, <2>2 DEF Has, At, After
<1>6. QED
  BY <1>4, <1>5

\* So the server is where it was.
LEMMA PlaceStays ==
  ASSUME Types, Place, Len(answers) <= Len(reqs), Grows, AtStays, UNCHANGED <<pc, readVars, resVars>>
  PROVE  Place'
<1>1. /\ Len(answers) \in Nat /\ Len(reqs) \in Nat /\ cur \in 0 .. Len(reqs)
  BY ComingType
<1>2. UNCHANGED <<pc, buf, block, cur, want, saved, res, bOut, answers>> /\ Current' = Current
  BY DEF readVars, resVars, Current
<1>3. /\ \A k \in 1 .. Len(reqs) : reqs'[k] = reqs[k]
      /\ (late => late') /\ (eof => eof') /\ Len(reqs) <= Len(reqs')
  BY DEF Grows
<1>4. /\ Current \in Int /\ Current >= Current /\ (Current <= Len(reqs) => Current \in 1 .. Len(reqs))
      /\ (Current <= Len(reqs) /\ Len(reqs) <= Len(reqs') => Current <= Len(reqs'))
  <2>1. Len(reqs') \in Nat
    BY SMT
  <2>2. QED
    BY <1>1, <2>1, SMT DEF Current
<1>5. /\ cur # 0 => cur \in 1 .. Len(reqs)
      /\ cur = Current => cur + 1 \in Int /\ cur + 1 >= Current /\ cur >= Current
      /\ cur = Len(answers) => cur + 1 \in Int /\ cur + 1 >= Current
  BY <1>1, SMT DEF Current
<1>6. /\ cur # 0 => reqs'[cur] = reqs[cur]
      /\ Current <= Len(reqs) => reqs'[Current] = reqs[Current]
  BY <1>3, <1>4, <1>5
<1>7. \A j : cur = Current /\ cur # 0 /\ Has(cur, j) => Has(cur, j)'
  <2>1. SUFFICES ASSUME NEW j, cur = Current, cur # 0, Has(cur, j)
                 PROVE  Has(cur, j)'
    OBVIOUS
  <2>2. Has(Current, j) /\ Current \in 1 .. Len(reqs)
    BY <2>1, <1>5
  <2>3. QED
    BY ONLY Types, Grows, AtStays, <1>2, <2>1, <2>2, <1>4, HasStays
<1>8. Reading' /\ Loading' /\ Handling' /\ Opening'
  <2>1. Reading /\ Loading /\ Handling /\ Opening
    BY DEF Place
  <2>2. Reading'
    <3>1. SUFFICES ASSUME pc = "read"
                   PROVE  Reading'
      BY <1>2 DEF Reading
    <3>2. At(Current, 1) => At(Current, 1)'
      BY <1>2, <1>4 DEF AtStays, At
    <3>3. Current <= Len(reqs) /\ Has(Current, 1) => Has(Current, 1)'
      BY ONLY Types, Grows, AtStays, <1>2, <1>4, HasStays
    <3>4. CASE buf = <<>> /\ block = 0 /\ At(Current, 1)
      BY <1>2, <3>1, <3>2, <3>4 DEF Reading
    <3>5. CASE Current <= Len(reqs) /\ Has(Current, 1) /\ buf = MethodOf(Current) /\ block = BlockOf(reqs[Current])
      <4>1. Has(Current, 1)' /\ Current' <= Len(reqs')
        BY <1>2, <1>3, <1>4, <3>3, <3>5
      <4>2. buf' = MethodOf(Current') /\ block' = BlockOf(reqs'[Current'])
        BY <1>2, <1>6, <3>5
      <4>3. QED
        BY <4>1, <4>2 DEF Reading
    <3>6. QED
      BY <2>1, <3>1, <3>4, <3>5 DEF Reading
  <2>3. Loading'
    <3>1. SUFFICES ASSUME pc = "contents"
                   PROVE  Loading'
      BY <1>2 DEF Loading
    <3>2. cur # 0 /\ cur = Current /\ reqs'[cur] = reqs[cur]
      BY <1>6, <2>1, <3>1 DEF Types, Known, Loading
    <3>3. PICK n \in Nat : n + want = reqs[cur].len /\ Has(cur, 2 + n)
      BY <2>1, <3>1 DEF Loading
    <3>4. Has(cur, 2 + n)'
      BY <1>7, <3>2, <3>3
    <3>5. QED
      BY <1>2, <3>2, <3>3, <3>4 DEF Loading
  <2>4. Handling'
    <3>1. cur = Current => (At(cur + 1, 1) => At(cur + 1, 1)')
      BY <1>2, <1>5 DEF AtStays, At
    <3>2. QED
      BY <1>2, <1>3, <1>4, <1>6, <1>7, <2>1, <3>1 DEF Handling, Excused
  <2>5. Opening'
    <3>1. pc = "open" => cur # 0
      BY DEF Types, Known
    <3>2. QED
      BY <1>2, <1>6, <1>7, <2>1, <3>1 DEF Opening
  <2>6. QED
    BY <2>2, <2>3, <2>4, <2>5
<1>9. Putting' /\ Chunks' /\ Answering'
  <2>1. Putting /\ Chunks /\ Answering
    BY DEF Place
  <2>2. pc \in InPut => cur # 0
    BY DEF Types, Known
  <2>3. Putting'
    <3>1. SUFFICES ASSUME pc = "put"
                   PROVE  Putting'
      BY <1>2 DEF Putting
    <3>2. cur # 0 /\ cur = Current /\ reqs[cur].len > 0 /\ reqs'[cur] = reqs[cur]
      BY <1>6, <2>1, <2>2, <3>1 DEF Putting, InPut
    <3>3. PICK n \in Nat : n + want = reqs[cur].len /\ saved = Units(cur, n) /\ Has(cur, 2 + n)
      BY <2>1, <3>1 DEF Putting
    <3>4. Has(cur, 2 + n)'
      BY <1>7, <3>2, <3>3
    <3>5. QED
      BY <1>2, <3>2, <3>3, <3>4 DEF Putting
  <2>4. Chunks'
    <3>1. SUFFICES ASSUME pc \in {"size", "chunk", "tail", "last"}
                   PROVE  Chunks'
      BY <1>2 DEF Chunks
    <3>2. cur # 0 /\ cur = Current /\ reqs[cur].chunks >= 0 /\ reqs'[cur] = reqs[cur]
      BY <1>6, <2>1, <2>2, <3>1 DEF Chunks, InPut
    <3>3. PICK n \in 0 .. reqs[cur].chunks :
         /\ saved = Units(cur, n)
         /\ pc = "size" => Has(cur, 2 + 3 * n)
         /\ pc = "chunk" => want = 1 /\ n < reqs[cur].chunks /\ Has(cur, 3 + 3 * n)
         /\ pc = "tail" => 0 < n /\ Has(cur, 1 + 3 * n)
         /\ pc = "last" => n = reqs[cur].chunks /\ Has(cur, 3 + 3 * n)
      BY <2>1, <3>1 DEF Chunks
    <3>4. /\ Has(cur, 2 + 3 * n) => Has(cur, 2 + 3 * n)'
          /\ Has(cur, 3 + 3 * n) => Has(cur, 3 + 3 * n)'
          /\ Has(cur, 1 + 3 * n) => Has(cur, 1 + 3 * n)'
      BY <1>7, <3>2
    <3>5. QED
      BY <1>2, <3>2, <3>3, <3>4 DEF Chunks, Units
  <2>5. Answering'
    <3>1. cur # 0 => cur = Len(answers) \/ cur = Current \/ pc \notin {"out", "next"}
      BY <2>1 DEF Answering, Types, ChildTypes
    <3>2. cur # 0 /\ pc \in {"out", "next"} => (At(cur + 1, 1) => At(cur + 1, 1)')
      BY <1>2, <1>5, <3>1 DEF AtStays, At
    <3>3. cur # 0 => Contents(cur)' = Contents(cur)
      BY <1>2, <1>6 DEF Contents
    <3>4. cur # 0 \/ cur = 0
      OBVIOUS
    <3>5. SUFFICES ASSUME pc \in {"out", "next"}
                   PROVE  Answering'
      BY <1>2 DEF Answering
    <3>6. cur = 0 => ~res'.keep /\ (~bOut' => Current' <= Len(reqs') /\ Excused(Current)')
      BY <1>2, <1>3, <1>4, <1>6, <2>1, <3>5 DEF Answering, Excused
    <3>7. cur # 0 => (bOut => cur = Len(answers)) /\ (~bOut => cur = Current)
      BY <2>1, <3>5 DEF Answering
    <3>8. res.keep => cur # 0 /\ At(cur + 1, 1)'
      BY <2>1, <3>2, <3>5 DEF Answering
    <3>9. pc = "out" /\ res.code = "created" => cur # 0 /\ saved = Contents(cur)'
      BY <2>1, <3>3, <3>5 DEF Answering
    <3>10. QED
      BY <1>2, <3>6, <3>7, <3>8, <3>9 DEF Answering
  <2>6. QED
    BY <2>3, <2>4, <2>5
<1>10. QED
  BY <1>8, <1>9 DEF Place

-----------------------------------------------------------------------------
\* A new request comes behind what comes.
LEMMA AskComes ==
  ASSUME SessionAssumption, Types, Steps, NEW r \in Request, Ask(r)
  PROVE  AtStays /\ ~Held' /\ Waits'
<1>1. /\ Coming \in Seq(Sent) /\ reqs \in Seq(Request) /\ wire \in Seq(Sent) /\ Len(reqs) \in Nat /\ eof \in BOOLEAN
  BY ComingType
<1>2. /\ ~eof /\ out = <<>> /\ reqs' = Append(reqs, r) /\ out' = Message(Len(reqs) + 1, r)
      /\ UNCHANGED <<eof, wire, pc, buf, block, cur, want, saved, res, bOut, answers, exit, refused, late>>
  BY DEF Ask, readVars, resVars
<1>3. Len(reqs') = Len(reqs) + 1 /\ \A k \in 1 .. Len(reqs) : reqs'[k] = reqs[k]
  BY <1>1, <1>2, SMT
<1>4. ~Held /\ ~Held'
  <2>1. refused \subseteq 1 .. Len(reqs)
    BY DEF Types, ClientTypes
  <2>2. ~(Len(reqs) + 1 \in 1 .. Len(reqs))
    BY <1>1, SMT
  <2>3. QED
    BY <1>2, <1>3, <2>1, <2>2 DEF Held
<1>5. Coming = wire /\ Coming' = wire \o Message(Len(reqs) + 1, r)
  <2>1. wire \o <<>> = wire
    BY <1>1, SMT
  <2>2. QED
    BY <1>2, <1>4, <2>1 DEF Coming
<1>6. AtStays
  <2>1. SUFFICES ASSUME NEW k, NEW j, At(k, j)
                 PROVE  Ahead(reqs', Coming', k, j, eof')
    BY DEF AtStays, At
  <2>2. Ahead(reqs, wire, k, j, FALSE)
    BY <1>1, <1>2, <1>5, <2>1 DEF At
  <2>3. Ahead(Append(reqs, r), wire \o Message(Len(reqs) + 1, r), k, j, FALSE)
    BY <1>1, <2>2, AskedMore
  <2>4. QED
    BY <1>1, <1>2, <1>5, <2>3
<1>7. Waits'
  <2>1. SUFFICES ASSUME NEW i \in 1 .. Len(wire), OnDemand(wire[i])'
                 PROVE  pc \in InPut /\ cur = wire[i].req
    BY <1>2 DEF Waits
  <2>2. wire[i] \in Sent
    BY <1>1, ElementOf
  <2>3. reqs'[wire[i].req] = reqs[wire[i].req]
    BY <1>3, <2>2 DEF Sent
  <2>4. OnDemand(wire[i])
    BY <1>2, <2>1, <2>3 DEF OnDemand
  <2>5. QED
    BY <2>4 DEF Waits, Steps
<1>8. QED
  BY <1>4, <1>6, <1>7

\* What is sent was coming.
LEMMA SendComes ==
  ASSUME SessionAssumption, Types, Steps, Send
  PROVE  AtStays /\ ~Held' /\ Waits'
<1>1. /\ reqs \in Seq(Request) /\ wire \in Seq(Sent) /\ out \in Seq(Sent) /\ Len(reqs) \in Nat /\ Len(answers) \in Nat
  BY ComingType
<1>2. /\ MaySend /\ out # <<>> /\ wire' = Append(wire, out[1]) /\ out' = Tail(out)
      /\ UNCHANGED <<reqs, eof, pc, buf, block, cur, want, saved, res, bOut, answers, exit, refused, late>>
  BY DEF Send, MaySend, readVars, resVars, history
<1>3. OnDemand(out[1]) => pc \in InPut /\ cur = out[1].req
  BY <1>2 DEF MaySend, OnDemand, InPut
<1>4. ~Held
  <2>1. SUFFICES ASSUME Held
                 PROVE  FALSE
    OBVIOUS
  <2>2. OnDemand(out[1])
    BY <2>1 DEF Steps, Refusals
  <2>3. out[1].req = Len(reqs)
    <3>1. 1 \in 1 .. Len(out)
      BY <1>1, <1>2, SMT
    <3>2. QED
      BY <3>1 DEF Types, ClientTypes
  <2>4. pc \in InPut /\ cur = Len(reqs)
    BY <1>3, <2>2, <2>3
  <2>5. cur = Current
    BY <2>4 DEF Steps, Place, Putting, Chunks, InPut
  <2>6. Len(reqs) <= Len(answers)
    BY <2>1, <2>4 DEF Held, Steps, Refusals, InPut
  <2>7. QED
    BY <1>1, <2>4, <2>5, <2>6, SMT DEF Current
<1>5. ~Held' /\ Coming' = Coming
  <2>1. Append(wire, out[1]) \o Tail(out) = wire \o out
    BY <1>1, <1>2, SMT
  <2>2. QED
    BY <1>2, <1>4, <2>1 DEF Held, Coming
<1>6. AtStays
  BY <1>2, <1>5 DEF AtStays, At
<1>7. Waits'
  <2>1. \A i \in 1 .. Len(wire') : (i \in 1 .. Len(wire) /\ wire'[i] = wire[i]) \/ wire'[i] = out[1]
    BY <1>1, <1>2, SMT
  <2>2. \A t : OnDemand(t)' <=> OnDemand(t)
    BY <1>2 DEF OnDemand
  <2>3. \A i \in 1 .. Len(wire) : OnDemand(wire[i]) => pc \in InPut /\ cur = wire[i].req
    BY DEF Steps, Waits
  <2>4. ASSUME NEW i \in 1 .. Len(wire'), OnDemand(wire'[i])
        PROVE  pc \in InPut /\ cur = wire'[i].req
    BY <1>3, <2>1, <2>3, <2>4
  <2>5. QED
    BY <1>2, <2>2, <2>4 DEF Waits, OnDemand
<1>8. QED
  BY <1>5, <1>6, <1>7

\* When the client drops the contents of the last request, it was answered, and
\* nothing is expected of it.
LEMMA DropComes ==
  ASSUME SessionAssumption, Types, Steps, Drop
  PROVE  AtStays /\ ~Held' /\ Waits'
<1>1. /\ Coming \in Seq(Sent) /\ reqs \in Seq(Request) /\ wire \in Seq(Sent) /\ out \in Seq(Sent)
      /\ Len(reqs) \in Nat /\ Len(answers) \in Nat
  BY ComingType
<1>2. /\ out # <<>> /\ Len(answers) >= Len(reqs) /\ out' = <<>>
      /\ UNCHANGED <<reqs, eof, wire, pc, buf, block, cur, want, saved, res, bOut, answers, exit, refused, late>>
  BY DEF Drop, readVars, resVars, history
<1>3. ~Held' /\ Coming' = wire
  <2>1. wire \o <<>> = wire
    BY <1>1, SMT
  <2>2. QED
    BY <1>2, <2>1 DEF Held, Coming
<1>4. AtStays
  <2>1. CASE Held
    <3>1. Coming = wire
      BY <2>1 DEF Coming
    <3>2. QED
      BY <1>2, <1>3, <3>1 DEF AtStays, At
  <2>2. CASE ~Held
    <3>1. Coming # <<>>
      BY <1>1, <1>2, <2>2, SMT DEF Coming
    <3>2. SUFFICES ASSUME NEW k, NEW j, k \in Int, k >= Current, Ahead(reqs, Coming, k, j, eof)
                   PROVE  FALSE
      BY DEF AtStays, At
    <3>3. k \in 1 .. Len(reqs)
      BY <1>1, <3>1, <3>2, TakeFirst
    <3>4. QED
      BY <1>1, <1>2, <3>2, <3>3, SMT DEF Current
  <2>3. QED
    BY <2>1, <2>2
<1>5. Waits'
  BY <1>2 DEF Steps, Waits, OnDemand
<1>6. QED
  BY <1>3, <1>4, <1>5

\* What the client does not send any more is cut off.
LEMMA HangUpComes ==
  ASSUME SessionAssumption, Types, Steps, HangUp
  PROVE  AtStays /\ ~Held' /\ Waits'
<1>1. reqs \in Seq(Request) /\ wire \in Seq(Sent) /\ out \in Seq(Sent)
  BY ComingType
<1>2. /\ out' = <<>> /\ eof' = TRUE
      /\ UNCHANGED <<reqs, wire, pc, buf, block, cur, want, saved, res, bOut, answers, exit, refused, late>>
  BY DEF HangUp, readVars, resVars, history
<1>3. wire \o <<>> = wire /\ <<>> \in Seq(Sent)
  BY <1>1, SMT
<1>4. ~Held' /\ Coming' = wire
  BY <1>2, <1>3 DEF Held, Coming
<1>5. AtStays
  <2>1. SUFFICES ASSUME NEW k, NEW j, Ahead(reqs, Coming, k, j, eof)
                 PROVE  Ahead(reqs, wire, k, j, TRUE)
    BY <1>2, <1>4 DEF AtStays, At
  <2>2. Coming = wire \o <<>> \/ Coming = wire \o out
    BY <1>3 DEF Coming
  <2>3. ASSUME NEW U \in Seq(Sent), Coming = wire \o U
        PROVE  Ahead(reqs, wire, k, j, TRUE)
    <3>1. Ahead(reqs, wire \o U, k, j, eof)
      BY <2>1, <2>3
    <3>2. QED
      BY ONLY <3>1, <1>1, U \in Seq(Sent), CutOff
  <2>4. QED
    BY <1>1, <1>3, <2>2, <2>3
<1>6. Waits'
  BY <1>2 DEF Steps, Waits, OnDemand
<1>7. QED
  BY <1>4, <1>5, <1>6

\* The client keeps in step with the server.
LEMMA ClientKeepsSteps ==
  ASSUME SessionAssumption, Types, Steps,
         (\E r \in Request : Ask(r)) \/ Send \/ Drop \/ HangUp \/ RequestExit \/ UNCHANGED vars
  PROVE  Steps'
<1>1. Grows
  BY NextGrows DEF Next
<1>2. AtStays /\ (Held' => Held /\ out' = out) /\ Waits'
  <2>1. CASE (\E r \in Request : Ask(r)) \/ Send \/ Drop \/ HangUp
    BY <2>1, AskComes, SendComes, DropComes, HangUpComes
  <2>2. CASE RequestExit \/ UNCHANGED vars
    <3>1. UNCHANGED <<reqs, out, eof, wire, refused, pc, cur>>
      BY <2>2 DEF RequestExit, vars, clientVars, history, readVars
    <3>2. AtStays
      BY <3>1 DEF AtStays, At, Coming, Held
    <3>3. Waits'
      BY <3>1 DEF Steps, Waits, OnDemand
    <3>4. QED
      BY <3>1, <3>2, <3>3 DEF Held
  <2>3. QED
    BY <2>1, <2>2
<1>3. UNCHANGED <<pc, readVars, resVars, refused>>
  BY DEF Ask, Send, Drop, HangUp, RequestExit, vars, history
<1>4. UNCHANGED <<pc, cur, answers, refused>>
  BY <1>3 DEF readVars, resVars
<1>5. Len(answers') <= Len(reqs')
  <2>1. Len(reqs) \in Nat /\ Len(answers) \in Nat
    BY ComingType
  <2>2. Len(reqs') \in Nat
    BY SMT
  <2>3. Len(answers) <= Len(reqs) /\ Len(reqs) <= Len(reqs')
    BY <1>1 DEF Steps, Grows
  <2>4. QED
    BY <1>4, <2>1, <2>2, <2>3, SMT
<1>6. Refusals'
  <2>1. Held' => OnDemand(out[1])'
    <3>1. SUFFICES ASSUME Held'
                   PROVE  OnDemand(out[1])'
      OBVIOUS
    <3>2. Held /\ out' = out /\ OnDemand(out[1])
      BY <1>2, <3>1 DEF Steps, Refusals
    <3>3. out[1].req = Len(reqs) /\ Len(reqs) \in 1 .. Len(reqs)
      <4>1. 1 \in 1 .. Len(out)
        BY <3>2, ComingType, SMT DEF Held
      <4>2. QED
        BY <3>2, <4>1 DEF Types, ClientTypes, Held
    <3>4. reqs'[out[1].req] = reqs[out[1].req]
      BY <1>1, <3>3 DEF Grows
    <3>5. QED
      BY <3>2, <3>4 DEF OnDemand
  <2>2. QED
    BY <1>4, <2>1 DEF Steps, Refusals
<1>7. \A i \in 1 .. Len(answers') : InPlace(i)'
  <2>1. SUFFICES ASSUME NEW i \in 1 .. Len(answers)
                 PROVE  InPlace(i)'
    BY <1>4
  <2>2. InPlace(i) /\ answers'[i] = answers[i] /\ Len(answers) <= Len(reqs)
    BY <1>4 DEF Steps
  <2>3. QED
    BY <1>1, <2>2, InPlaceStays
<1>8. Place'
  BY <1>1, <1>2, <1>3, PlaceStays DEF Steps
<1>9. QED
  BY <1>2, <1>5, <1>6, <1>7, <1>8 DEF Steps

-----------------------------------------------------------------------------
(* Steps of the child *)

\* What is sent and not read was so before.
Fewer == \A i \in 1 .. Len(wire') : \E x \in 1 .. Len(wire) : wire'[i] = wire[x]

\* So it is when a part is taken, or none.
LEMMA FewerTaken ==
  ASSUME Types, UNCHANGED wire \/ Takes
  PROVE  Fewer
<1>1. wire \in Seq(Sent)
  BY ComingType
<1>2. CASE UNCHANGED wire
  BY <1>2 DEF Fewer
<1>3. CASE Takes
  <2>1. wire # <<>> /\ wire' = Tail(wire)
    BY <1>3 DEF Takes
  <2>2. \A i \in 1 .. Len(wire') : i + 1 \in 1 .. Len(wire) /\ wire'[i] = wire[i + 1]
    BY <1>1, <2>1, SMT
  <2>3. QED
    BY <2>2 DEF Fewer
<1>4. QED
  BY <1>2, <1>3

\* What waits for "100 Continue" is not there before PUT reads, and not after it.
LEMMA WaitsStay ==
  ASSUME Waits, UNCHANGED reqs, Fewer, pc \notin InPut \/ (pc' \in InPut /\ cur' = cur)
  PROVE  Waits'
<1>1. SUFFICES ASSUME NEW i \in 1 .. Len(wire'), OnDemand(wire[i])'
               PROVE  pc' \in InPut /\ cur' = wire'[i].req
  BY DEF Waits
<1>2. PICK x \in 1 .. Len(wire) : wire'[i] = wire[x]
  BY DEF Fewer
<1>3. OnDemand(wire[x])
  BY <1>1, <1>2 DEF OnDemand
<1>4. pc \in InPut /\ cur = wire[x].req
  BY <1>3 DEF Waits
<1>5. QED
  BY <1>2, <1>4

\* Between two answers it is the place in the message that matters.
LEMMA StepsStay ==
  ASSUME Types, Steps, Grows, UNCHANGED <<reqs, out, refused, answers>>, pc # "out", Waits', Place'
  PROVE  Steps'
<1>1. Refusals'
  BY DEF Steps, Refusals, Held, OnDemand
<1>2. Len(answers') <= Len(reqs') /\ Len(answers) <= Len(reqs)
  BY DEF Steps
<1>3. \A i \in 1 .. Len(answers') : InPlace(i)'
  <2>1. SUFFICES ASSUME NEW i \in 1 .. Len(answers)
                 PROVE  InPlace(i)'
    OBVIOUS
  <2>2. InPlace(i) /\ answers'[i] = answers[i]
    BY DEF Steps
  <2>3. QED
    BY <1>2, <2>2, InPlaceStays
<1>4. QED
  BY <1>1, <1>2, <1>3 DEF Steps

\* Of a step between two answers only the place is to be shown.
LEMMA BetweenAnswers ==
  ASSUME Types, Steps, Grows, UNCHANGED <<reqs, out, refused, answers>>, Fewer,
         pc \notin InPut \/ (pc' \in InPut /\ cur' = cur), pc # "out", Place'
  PROVE  Steps'
<1>1. Waits'
  BY WaitsStay DEF Steps
<1>2. QED
  BY <1>1, StepsStay

\* A message begins with the two parts of its header.
LEMMA HeaderParts ==
  ASSUME SessionAssumption, NEW r \in Request, NEW k
  PROVE  /\ Part(k, r, 1) = [req |-> k, part |-> "method"] /\ Part(k, r, 2) = [req |-> k, part |-> "header"]
         /\ 1 \in 1 .. Size(r) /\ 2 \in 1 .. Size(r) /\ 1 < Size(r)
<1>1. Size(r) \in Nat /\ Size(r) >= 2
  BY MessageSize
<1>2. 1 \in 1 .. Size(r) /\ 2 \in 1 .. Size(r) /\ 1 < Size(r)
  BY <1>1, SMT
<1>3. Part(k, r, 1).part = "method" /\ Part(k, r, 2).part = "header"
  BY MessageFacts
<1>4. Part(k, r, 1) \in [req : {k}, part : PartName] /\ Part(k, r, 2) \in [req : {k}, part : PartName]
  BY <1>2, PartReq
<1>5. QED
  BY <1>2, <1>3, <1>4

\* Units of contents, one by one.
LEMMA UnitsFacts ==
  ASSUME NEW k, NEW n \in Nat
  PROVE  /\ Len(Units(k, n)) = n
         /\ Units(k, n + 1) = Append(Units(k, n), [req |-> k, part |-> "data"])
<1> DEFINE S == {[req |-> k, part |-> "data"]}
           A == Units(k, n)
           B == Units(k, n + 1)
<1>1. A \in Seq(S) /\ Len(A) = n /\ \A i \in 1 .. n : A[i] = [req |-> k, part |-> "data"]
  BY SMT DEF Units
<1>2. n + 1 \in Nat
  BY SMT
<1>3. B \in Seq(S) /\ Len(B) = n + 1 /\ \A i \in 1 .. n + 1 : B[i] = [req |-> k, part |-> "data"]
  BY <1>2, SMT DEF Units
<1>4. [req |-> k, part |-> "data"] \in S
  OBVIOUS
<1> HIDE DEF A, B, S
<1>5. PICK x \in S : x = [req |-> k, part |-> "data"]
  BY <1>4
<1>6. B = Append(A, x)
  <2>1. \A i \in 1 .. n : A[i] = x
    BY <1>1, <1>5
  <2>2. \A i \in 1 .. n + 1 : B[i] = x
    BY <1>3, <1>5
  <2>3. QED
    BY ONLY <1>1, <1>3, <2>1, <2>2, n \in Nat, x \in S, SMT
<1>7. QED
  BY <1>1, <1>5, <1>6 DEF A, B

\* Of a GET, and of a DAV method whose contents are not loaded, there are none.
LEMMA NoContents ==
  ASSUME SessionAssumption, Types, Orderly, NEW k \in 1 .. Len(reqs),
         reqs[k].meth = "GET" \/ (reqs[k].meth = "DAV" /\ reqs[k].len \notin 1 .. MaxMemory)
  PROVE  Size(reqs[k]) = 2 /\ ~(reqs[k].len > 0)
<1>1. reqs[k] \in Request
  BY AskedSize, ComingType
<1>2. /\ reqs[k].len \in Int /\ reqs[k].chunks \in Int /\ MaxMemory \in Nat
      /\ (reqs[k].len = -1 \/ reqs[k].chunks = -1) /\ reqs[k].len >= -1 /\ reqs[k].chunks >= -1
  BY <1>1, SMT DEF SessionAssumption
<1>3. Load(reqs[k]) \in Nat
  BY <1>1, PartFacts
<1>4. Len(Contents(k)) = Load(reqs[k])
  BY <1>3, UnitsFacts DEF Contents
<1>5. Load(reqs[k]) > 0 => Contents(k) # <<>>
  BY <1>4, SMT
<1>6. ~LeftUnread(k)
  BY DEF Orderly
<1>7. ~(reqs[k].chunks >= 0)
  <2>1. SUFFICES ASSUME reqs[k].chunks >= 0
                 PROVE  FALSE
    OBVIOUS
  <2>2. reqs[k].chunks = 0 \/ Load(reqs[k]) > 0
    BY <1>2, <2>1, SMT DEF Load
  <2>3. QED
    BY <1>5, <1>6, <2>1, <2>2 DEF LeftUnread
<1>8. ~(reqs[k].len > 0)
  <2>1. SUFFICES ASSUME reqs[k].len > 0
                 PROVE  FALSE
    OBVIOUS
  <2>2. Load(reqs[k]) > 0
    BY <1>7, <2>1 DEF Load
  <2>3. reqs[k].meth = "GET" \/ (reqs[k].meth = "DAV" /\ reqs[k].len > MaxMemory)
    BY <1>2, <2>1, SMT
  <2>4. QED
    BY <1>5, <1>6, <2>2, <2>3 DEF LeftUnread
<1>9. Load(reqs[k]) = 0 /\ reqs[k].chunks < 0
  BY <1>2, <1>7, <1>8, SMT DEF Load
<1>10. Size(reqs[k]) = Load(reqs[k]) + 2
  BY <1>1, <1>9, MessageFacts DEF AllData
<1>11. QED
  BY <1>8, <1>9, <1>10, SMT

-----------------------------------------------------------------------------
\* The first of what was sent, and the rest.
LEMMA FirstTaken ==
  ASSUME NEW S, NEW A \in Seq(S), A # <<>>
  PROVE  SubSeq(A, 1, 1) = <<A[1]>> /\ SubSeq(A, 2, Len(A)) = Tail(A)
<1>1. Len(A) \in Nat /\ Len(A) > 0 /\ A[1] \in S
  BY SMT
<1>2. SubSeq(A, 1, 1) \in Seq(S) /\ Len(SubSeq(A, 1, 1)) = 1 /\ SubSeq(A, 1, 1)[1] = A[1]
  BY <1>1, SMT
<1>5. <<A[1]>> \in Seq(S) /\ Len(<<A[1]>>) = 1 /\ <<A[1]>>[1] = A[1]
  BY <1>1, SMT
<1>6. SubSeq(A, 2, Len(A)) = Tail(A)
  BY TailIsSubSeq
<1>7. \A i \in 1 .. Len(SubSeq(A, 1, 1)) : SubSeq(A, 1, 1)[i] = <<A[1]>>[i]
  BY <1>2, <1>5, SMT
<1>8. SubSeq(A, 1, 1) = <<A[1]>>
  BY <1>2, <1>5, <1>7, SeqEqual
<1>9. QED
  BY <1>6, <1>8

\* Two parts, one behind the other.
LEMMA TwoOnes ==
  ASSUME NEW x, NEW y
  PROVE  <<x>> \o <<y>> = <<x, y>>
<1> DEFINE S == {x, y}
<1>1. <<x>> \in Seq(S) /\ <<y>> \in Seq(S) /\ <<x, y>> \in Seq(S)
  BY SMT
<1>2. <<x>> \o <<y>> \in Seq(S) /\ Len(<<x>> \o <<y>>) = 2 /\ (<<x>> \o <<y>>)[1] = x /\ (<<x>> \o <<y>>)[2] = y
  BY <1>1, SMT
<1>3. Len(<<x, y>>) = 2 /\ <<x, y>>[1] = x /\ <<x, y>>[2] = y
  BY SMT
<1>4. \A i \in 1 .. Len(<<x, y>>) : (<<x>> \o <<y>>)[i] = <<x, y>>[i]
  BY <1>2, <1>3, SMT
<1>5. QED
  BY <1>1, <1>2, <1>3, <1>4, SeqEqual

\* The method comes first.
LEMMA ReadMethod ==
  ASSUME SessionAssumption, Types, Steps, Read, buf = <<>>, block = 0, At(Current, 1)
  PROVE  Steps'
<1>1. PICK n \in 1 .. Len(wire) :
           /\ block # 1 => n = 1
           /\ buf' = buf \o SubSeq(wire, 1, n) /\ wire' = SubSeq(wire, n + 1, Len(wire))
           /\ block' = BlockRead(buf')
           /\ \/ EndOfHeader(buf')
              \/ UNCHANGED <<pc, cur, want>>
  BY ReadFacts
<1>2. n = 1 /\ pc = "read" /\ wire # <<>>
  BY <1>1 DEF Read
<1>3. UNCHANGED <<reqs, out, eof, refused, piped, late, answers, res, bOut, saved>>
  BY DEF Read, clientVars, history, resVars
<1>4. wire \in Seq(Sent) /\ reqs \in Seq(Request) /\ Len(answers) \in Nat /\ Len(reqs) \in Nat
  BY ComingType
<1>5. wire' = Tail(wire) /\ buf' = <<wire[1]>>
  <2>1. 1 + 1 = 2 /\ <<>> \o <<wire[1]>> = <<wire[1]>>
    BY SMT
  <2>2. SubSeq(wire, 1, 1) = <<wire[1]>> /\ SubSeq(wire, 2, Len(wire)) = Tail(wire)
    BY <1>2, <1>4, FirstTaken
  <2>3. QED
    BY <1>1, <1>2, <2>1, <2>2
<1>6. Takes
  BY <1>2, <1>3, <1>5 DEF Takes
<1>0. Current' = Current
  BY <1>3 DEF Current
<1>7. Current \in 1 .. Len(reqs) /\ wire[1] = Part(Current, reqs[Current], 1) /\ Has(Current, 1)'
  BY <1>0, <1>6, TakesFacts
<1>8. wire[1] = [req |-> Current, part |-> "method"]
  <2>1. reqs[Current] \in Request
    BY <1>4, <1>7, AskedSize
  <2>2. QED
    BY <1>7, <2>1, HeaderParts
<1>9. buf' = MethodOf(Current)
  BY <1>5, <1>8 DEF MethodOf
<1>10. Len(buf') = 1 /\ buf'[1] = wire[1]
  BY <1>5, SMT
<1>11. buf'[1].part = "method" /\ buf'[1].req = Current
  BY <1>8, <1>10
<1>12. ~EndOfHeader(buf')
  <2>1. ~(1 > 1)
    BY SMT
  <2>2. QED
    BY <1>10, <1>11, <2>1 DEF EndOfHeader, Last
<1>13. block' = BlockOf(reqs[Current])
  BY <1>1, <1>11 DEF BlockRead, BlockOf
<1>14. pc' = "read" /\ Current' = Current /\ Current <= Len(reqs)
  <2>1. Current <= Len(reqs)
    BY <1>4, <1>7, SMT
  <2>2. QED
    BY <1>1, <1>2, <1>3, <1>12, <2>1 DEF Current
<1>15. Reading'
  <2>1. Has(Current, 1)'
    BY <1>7
  <2>2. buf' = MethodOf(Current') /\ block' = BlockOf(reqs'[Current']) /\ Current' <= Len(reqs')
    BY <1>3, <1>9, <1>13, <1>14
  <2>3. QED
    BY <2>1, <2>2 DEF Reading
<1>16. Place'
  BY <1>14, <1>15 DEF Place, Loading, Handling, Opening, Putting, Chunks, Answering
<1>17. Grows
  BY <1>3, <1>4, SMT DEF Grows
<1>18. QED
  BY <1>2, <1>3, <1>6, <1>16, <1>17, FewerTaken, BetweenAnswers DEF InPut

\* The rest of the header comes next, and in a piece of its own: a block read
\* finds nothing behind it.
LEMMA ReadHeader ==
  ASSUME SessionAssumption, Types, Steps, SentAhead, Orderly, Read,
         Current <= Len(reqs), Has(Current, 1), buf = MethodOf(Current), block = BlockOf(reqs[Current])
  PROVE  Steps'
<1> DEFINE r == reqs[Current]
<1>1. PICK n \in 1 .. Len(wire) :
           /\ block # 1 => n = 1
           /\ buf' = buf \o SubSeq(wire, 1, n) /\ wire' = SubSeq(wire, n + 1, Len(wire))
           /\ \/ cur' = Parsed(buf') /\ AfterHeader(Parsed(buf'))
              \/ ~EndOfHeader(buf')
  BY ReadFacts
<1>2. /\ pc = "read" /\ wire # <<>>
      /\ UNCHANGED <<reqs, out, eof, refused, piped, late, answers, res, bOut, saved>>
  BY DEF Read, clientVars, history, resVars
<1>3. /\ Coming \in Seq(Sent) /\ wire \in Seq(Sent) /\ reqs \in Seq(Request) /\ Len(answers) \in Nat /\ Len(reqs) \in Nat
      /\ Len(wire) \in Nat /\ Len(wire) <= Len(Coming)
  BY ComingType
<1>4. Current \in 1 .. Len(reqs) /\ Current \in Nat /\ Current # 0
  BY <1>3, SMT DEF Current
<1>5. r \in Request /\ Size(r) \in Nat /\ 1 < Size(r)
  BY <1>3, <1>4, AskedSize, HeaderParts
<1>6. At(Current, 2)
  <2>1. 1 + 1 = 2
    BY SMT
  <2>2. QED
    BY <1>5, <2>1 DEF Has, At, After
<1>7. n = 1
  <2>1. CASE r.meth # "GET"
    BY <1>1, <2>1, SMT DEF BlockOf
  <2>2. CASE r.meth = "GET"
    <3>1. Size(r) = 2
      BY <1>4, <2>2, NoContents
    <3>2. Current = Len(reqs)
      <4>1. SUFFICES ASSUME Current # Len(reqs)
                     PROVE  FALSE
        OBVIOUS
      <4>2. Current + 1 \in 2 .. Len(reqs) /\ (Current + 1) - 1 = Current /\ ~(Len(answers) >= (Current + 1) - 1)
        BY <1>3, <1>4, <4>1, SMT DEF Current
      <4>3. Current + 1 \in piped
        BY <4>2 DEF SentAhead
      <4>4. reqs[(Current + 1) - 1].meth # "GET"
        BY <4>3 DEF Orderly
      <4>5. QED
        BY <2>2, <4>2, <4>4
    <3>3. Ahead(reqs, Coming, Current, Size(reqs[Current]), eof)
      BY <1>6, <3>1 DEF At
    <3>4. Len(Coming) <= 1
      BY <1>3, <3>2, <3>3, NothingBehind
    <3>5. Len(Coming) \in Nat
      BY <1>3, SMT
    <3>6. QED
      BY <1>1, <1>3, <3>4, <3>5, SMT
  <2>3. QED
    BY <2>1, <2>2
<1>8. wire' = Tail(wire) /\ buf' = <<[req |-> Current, part |-> "method"], wire[1]>>
  <2>1. SubSeq(wire, 1, 1) = <<wire[1]>> /\ SubSeq(wire, 2, Len(wire)) = Tail(wire) /\ 1 + 1 = 2
    <3>1. 1 + 1 = 2
      BY SMT
    <3>2. QED
      BY <1>2, <1>3, <3>1, FirstTaken
  <2>2. PICK x : x = [req |-> Current, part |-> "method"]
    OBVIOUS
  <2>3. <<x>> \o <<wire[1]>> = <<x, wire[1]>>
    BY TwoOnes
  <2>4. QED
    BY <1>1, <1>7, <2>1, <2>2, <2>3 DEF MethodOf
<1>9. Takes
  BY <1>2, <1>8 DEF Takes
<1>0. Current' = Current
  BY <1>2 DEF Current
<1>10. wire[1] = Part(Current, r, 2) /\ Has(Current, 2)'
  BY <1>0, <1>6, <1>9, TakesFacts
<1>11. wire[1] = [req |-> Current, part |-> "header"]
  BY <1>5, <1>10, HeaderParts
<1>12. EndOfHeader(buf') /\ Parsed(buf') = Current
  <2>1. Len(buf') = 2 /\ buf'[1] = [req |-> Current, part |-> "method"] /\ buf'[2] = wire[1]
    BY <1>8, SMT
  <2>2. buf'[1].part = "method" /\ buf'[1].req = Current /\ buf'[2].part = "header"
    BY <2>1, <1>11
  <2>3. QED
    BY <2>1, <2>2 DEF EndOfHeader, Last, Parsed
<1>13. cur' = Current /\ AfterHeader(Current) /\ Current' = Current
  BY <1>1, <1>2, <1>12 DEF Current
<1>14. r.len \in Int /\ MaxMemory \in Nat /\ r.meth \in {"GET", "DAV", "PUT", "POST"}
  BY <1>5, SMT DEF SessionAssumption
<1>15. Place'
  <2>1. CASE pc' = "contents"
    <3>1. want' = r.len
      BY <1>13, <2>1 DEF AfterHeader
    <3>2. 0 \in Nat /\ 0 + r.len = r.len /\ 2 + 0 = 2
      BY <1>14, SMT
    <3>3. After(reqs', Coming', cur', 2 + 0, eof')
      BY <1>10, <1>13, <3>2 DEF Has
    <3>4. Loading'
      <4>1. cur' = Current' /\ 0 + want' = reqs'[cur'].len
        BY <1>2, <1>13, <3>1, <3>2
      <4>2. QED
        BY <3>2, <3>3, <4>1 DEF Loading, Has
    <3>5. QED
      BY <2>1, <3>4 DEF Place, Reading, Handling, Opening, Putting, Chunks, Answering
  <2>2. CASE pc' = "handle"
    <3>1. r.meth = "DAV" => r.len \notin 1 .. MaxMemory
      BY <1>4, <1>13, <2>2 DEF AfterHeader
    <3>2. r.meth \in {"GET", "DAV"} => Size(r) = 2
      BY <1>4, <3>1, NoContents
    <3>3. ~(2 < 2)
      BY SMT
    <3>4. r.meth \in {"GET", "DAV"} => At(Current + 1, 1)'
      BY <1>2, <1>10, <1>13, <3>2, <3>3 DEF Has, At, After
    <3>5. Handling'
      BY <1>2, <1>4, <1>10, <1>13, <3>4 DEF Handling, Has, At
    <3>6. QED
      BY <2>2, <3>5 DEF Place, Reading, Loading, Opening, Putting, Chunks, Answering
  <2>3. QED
    BY <1>13, <2>1, <2>2 DEF AfterHeader
<1>16. Grows
  BY <1>2, <1>3, SMT DEF Grows
<1>17. QED
  BY <1>2, <1>9, <1>15, <1>16, FewerTaken, BetweenAnswers DEF InPut

-----------------------------------------------------------------------------
\* What contents of a given length are made of.
LEMMA PlainParts ==
  ASSUME SessionAssumption, NEW r \in Request, r.len > 0, NEW k
  PROVE  /\ Load(r) = r.len /\ r.len \in Nat /\ Size(r) = r.len + 2
         /\ \A n \in Nat : n < r.len => Part(k, r, 3 + n) = [req |-> k, part |-> "data"]
<1>1. r.len \in Nat /\ r.chunks = -1 /\ r.chunks < 0 /\ ~(r.chunks >= 0)
  <2>1. r.len \in Nat \cup {-1} /\ (r.len = -1 \/ r.chunks = -1)
    BY DEF SessionAssumption
  <2>2. QED
    BY <2>1, SMT
<1>2. Load(r) = r.len
  BY <1>1 DEF Load
<1>3. Size(r) = r.len + 2 /\ \A i \in 1 .. r.len : Part(k, r, 2 + i).part = "data"
  <2>1. AllData(k, r)
    BY <1>1, MessageFacts
  <2>2. QED
    BY <1>2, <2>1 DEF AllData
<1>4. ASSUME NEW n \in Nat, n < r.len
      PROVE  Part(k, r, 3 + n) = [req |-> k, part |-> "data"]
  <2>1. n + 1 \in 1 .. r.len /\ 2 + (n + 1) = 3 + n /\ 3 + n \in 1 .. Size(r)
    BY <1>1, <1>3, <1>4, SMT
  <2>2. Part(k, r, 3 + n).part = "data"
    BY <1>3, <2>1
  <2>3. Part(k, r, 3 + n) \in [req : {k}, part : PartName]
    BY <2>1, PartReq
  <2>4. QED
    BY <2>2, <2>3
<1>5. QED
  BY <1>1, <1>2, <1>3, <1>4

\* A request is being handled that was asked.
LEMMA CurrentAsked ==
  ASSUME SessionAssumption, Types, cur # 0
  PROVE  cur \in 1 .. Len(reqs) /\ cur \in Nat /\ reqs[cur] \in Request /\ Size(reqs[cur]) \in Nat
<1>1. cur \in 1 .. Len(reqs) /\ cur \in Nat /\ reqs \in Seq(Request)
  BY ComingType, SMT
<1>2. QED
  BY <1>1, AskedSize

\* The contents are loaded part by part; what comes too late is not waited for.
LEMMA ReadContentsSteps ==
  ASSUME SessionAssumption, Types, Steps, ReadContents
  PROVE  Steps'
<1>1. /\ pc = "contents" /\ UNCHANGED <<reqs, out, eof, refused, piped, answers, buf, block, saved, res, bOut>>
      /\ cur # 0 /\ reqs[cur].len \in 1 .. MaxMemory /\ reqs[cur].meth \notin {"PUT", "POST"} /\ want > 0
  BY DEF ReadContents, NoInput, clientVars, resVars, history, Types, Known
<1>2. Current' = Current /\ want \in Nat
  BY <1>1 DEF Current, Types, ChildTypes
<1>3. cur \in 1 .. Len(reqs) /\ cur \in Nat /\ reqs[cur] \in Request
  BY <1>1, CurrentAsked
<1>4. PICK n \in Nat : cur = Current /\ n + want = reqs[cur].len /\ Has(cur, 2 + n)
  BY <1>1 DEF Steps, Place, Loading
<1>5. reqs[cur].len > 0
  BY <1>1, SMT DEF SessionAssumption
<1>6. Size(reqs[cur]) = reqs[cur].len + 2 /\ reqs[cur].len \in Nat
  BY <1>3, <1>5, PlainParts
<1>7. 2 + n < Size(reqs[cur]) /\ 2 + n + 1 = 3 + n
  BY <1>1, <1>2, <1>4, <1>6, SMT
<1>8. At(cur, 3 + n)
  BY <1>4, <1>7 DEF Has, At, After
<1>9. Grows
  BY NextGrows DEF Next, Child
<1>10. CASE wire # <<>> /\ wire' = Tail(wire) /\ want' = want - 1 /\ UNCHANGED cur
            /\ pc' = IF want = 1 THEN "handle" ELSE pc
  <2>1. Takes
    BY <1>1, <1>10 DEF Takes
  <2>2. After(reqs', Coming', cur', 3 + n, eof')
    BY <1>8, <1>10, <2>1, TakesFacts DEF Has
  <2>3. CASE want = 1
    <3>1. ~(3 + n < Size(reqs[cur]))
      BY <1>4, <1>6, <2>3, SMT
    <3>2. Ahead(reqs', Coming', cur' + 1, 1, eof')
      BY <1>1, <1>10, <2>2, <3>1 DEF After
    <3>3. Handling'
      BY <1>1, <1>2, <1>4, <1>10, <3>2 DEF Handling, At
    <3>4. Place'
      BY <1>10, <2>3, <3>3 DEF Place, Reading, Loading, Opening, Putting, Chunks, Answering
    <3>5. QED
      BY <1>1, <1>9, <2>1, <3>4, FewerTaken, BetweenAnswers DEF InPut
  <2>4. CASE want # 1
    <3>1. n + 1 \in Nat /\ n + 1 + want' = reqs[cur].len /\ 2 + (n + 1) = 3 + n
      BY <1>2, <1>4, <1>6, <1>10, SMT
    <3>2. After(reqs', Coming', cur', 2 + (n + 1), eof')
      BY <2>2, <3>1
    <3>3. Loading'
      BY <1>1, <1>2, <1>4, <1>10, <3>1, <3>2 DEF Loading, Has
    <3>4. Place'
      BY <1>1, <1>10, <2>4, <3>3 DEF Place, Reading, Handling, Opening, Putting, Chunks, Answering
    <3>5. QED
      BY <1>1, <1>9, <2>1, <3>4, FewerTaken, BetweenAnswers DEF InPut
  <2>5. QED
    BY <2>3, <2>4
<1>11. CASE NoInput("handle") /\ cur' = 0 /\ UNCHANGED <<wire, want>>
  <2>1. wire = <<>> /\ pc' = "handle" /\ (late \/ MaySend => late')
    BY <1>11, Zenon DEF NoInput
  <2>2. late' \/ eof \/ reqs[cur].expect
    <3>1. SUFFICES ASSUME ~eof, ~reqs[cur].expect
                   PROVE  MaySend
      BY <2>1
    <3>2. out \in Seq(Sent) /\ reqs \in Seq(Request) /\ Len(reqs) \in Nat /\ eof = FALSE
      BY <3>1, ComingType
    <3>3. wire \o out = out
      BY <2>1, <3>2, SMT
    <3>4. Coming # <<>>
      <4>1. SUFFICES ASSUME Coming = <<>>
                     PROVE  FALSE
        OBVIOUS
      <4>2. Ahead(reqs, <<>>, cur, 3 + n, FALSE)
        BY <1>8, <3>2, <4>1 DEF At
      <4>3. cur = Len(reqs) + 1
        BY <4>2, AllRead
      <4>4. QED
        BY <1>3, <3>2, <4>3, SMT
    <3>5. Coming = out
      BY <2>1, <3>3, <3>4 DEF Coming
    <3>6. out[1] = Part(cur, reqs[cur], 3 + n) /\ 3 + n \in 1 .. Size(reqs[cur])
      BY <1>8, <3>2, <3>4, <3>5, TakeFirst DEF At
    <3>7. out[1].req = cur
      BY <1>3, <3>6, PartReq
    <3>8. QED
      BY <3>1, <3>4, <3>5, <3>7 DEF MaySend
  <2>3. Current <= Len(reqs)
    BY <1>3, <1>4, ComingType, SMT
  <2>4. Handling'
    <3>1. cur' = 0 /\ Current' <= Len(reqs') /\ Excused(Current)'
      BY <1>1, <1>2, <1>4, <1>11, <2>2, <2>3 DEF Excused
    <3>2. QED
      BY <3>1 DEF Handling
  <2>5. Place'
    BY <2>1, <2>4 DEF Place, Reading, Loading, Opening, Putting, Chunks, Answering
  <2>6. QED
    BY <1>1, <1>9, <1>11, <2>5, FewerTaken, BetweenAnswers DEF InPut
<1>12. QED
  BY <1>10, <1>11 DEF ReadContents

-----------------------------------------------------------------------------
\* A response is on its way: it keeps the connection only if all of the request
\* was read.
LEMMA ToOut ==
  ASSUME pc' = "out", UNCHANGED <<reqs, answers, cur, bOut>>, ~bOut, cur # 0, cur = Current,
         res'.keep => Ahead(reqs', Coming', cur + 1, 1, eof'),
         res'.code = "created" => saved' = Contents(cur)
  PROVE  Place'
<1>1. Current' = Current /\ Contents(cur)' = Contents(cur)
  BY DEF Current, Contents
<1>2. Answering'
  <2>1. cur' # 0 /\ cur' = Current' /\ ~bOut'
    BY <1>1
  <2>2. res'.keep => At(cur + 1, 1)'
    BY DEF At
  <2>3. QED
    BY <1>1, <2>1, <2>2 DEF Answering
<1>3. QED
  BY <1>2 DEF Place, Reading, Loading, Handling, Opening, Putting, Chunks

\* A method answers, or goes on to its file, when what it reads itself is next.
LEMMA HandlingSteps ==
  ASSUME SessionAssumption, Types, Steps, NoRequest \/ Bad \/ Stream \/ Simple \/ Put
  PROVE  Steps'
<1>1. /\ pc \in {"read", "handle"} /\ UNCHANGED <<reqs, out, eof, wire, cur, refused, answers, bOut>>
  BY DEF NoRequest, NoInput, Bad, Stream, Simple, Put, clientVars, readVars, resVars, history
<1>2. Grows
  BY NextGrows DEF Next, Child
<1>3. Current' = Current /\ Coming' = Coming /\ bOut = FALSE
  BY <1>1 DEF Current, Coming, Held, Types, ChildTypes, Known
<1>4. SUFFICES Place'
  BY <1>1, <1>2, FewerTaken, BetweenAnswers DEF InPut
<1>5. CASE NoRequest
  <2>1. pc' = "closed"
    BY <1>5 DEF NoRequest, NoInput
  <2>2. QED
    BY <2>1 DEF Place, Reading, Loading, Handling, Opening, Putting, Chunks, Answering
<1>6. CASE Bad
  <2>1. pc = "handle" /\ cur = 0 /\ pc' = "out" /\ res'.code = "bad" /\ ~res'.keep /\ UNCHANGED late
    BY <1>6, RespondFacts DEF Bad, Codes, history
  <2>2. Current <= Len(reqs) /\ Excused(Current)
    BY <2>1 DEF Steps, Place, Handling
  <2>3. Current' <= Len(reqs') /\ Excused(Current)'
    BY <1>1, <1>3, <2>1, <2>2 DEF Excused
  <2>4. Answering'
    BY <1>1, <2>1, <2>3 DEF Answering
  <2>5. QED
    BY <2>1, <2>4 DEF Place, Reading, Loading, Handling, Opening, Putting, Chunks
<1>7. CASE Stream
  <2>1. pc = "handle" /\ cur # 0 /\ pc' = pc
    BY <1>7 DEF Stream
  <2>2. Handling
    BY DEF Steps, Place
  <2>3. /\ cur = Current /\ (reqs[cur].meth \in {"GET", "DAV"} => At(cur + 1, 1)')
        /\ (reqs[cur].meth = "PUT" => Has(cur, 2)')
    BY <1>1, <1>3, <2>1, <2>2 DEF Handling, At, Has
  <2>4. Handling'
    BY <1>1, <1>3, <2>1, <2>3 DEF Handling
  <2>5. QED
    BY <2>1, <2>4 DEF Place, Reading, Loading, Opening, Putting, Chunks, Answering
<1>8. CASE Simple
  <2>1. /\ pc = "handle" /\ cur # 0
        /\ \/ reqs[cur].meth \in {"GET", "DAV"} /\ Respond("ok", TRUE)
           \/ Respond("not allowed", FALSE) \/ Respond("not implemented", FALSE)
    BY <1>8 DEF Simple
  <2>2. pc' = "out" /\ res'.code # "created" /\ (res'.keep => reqs[cur].meth \in {"GET", "DAV"})
    BY <2>1, RespondFacts DEF Codes
  <2>3. cur = Current /\ (reqs[cur].meth \in {"GET", "DAV"} => At(cur + 1, 1))
    BY <2>1 DEF Steps, Place, Handling
  <2>4. res'.keep => Ahead(reqs', Coming', cur + 1, 1, eof')
    BY <1>1, <1>3, <2>2, <2>3 DEF At
  <2>5. QED
    BY <1>1, <1>3, <2>1, <2>2, <2>3, <2>4, ToOut
<1>9. CASE Put
  <2>1. /\ pc = "handle" /\ cur # 0 /\ reqs[cur].meth = "PUT"
        /\ \/ Respond("not allowed", FALSE) \/ Respond("bad", FALSE)
           \/ pc' = "open" /\ (reqs[cur].len >= 0 \/ reqs[cur].chunks >= 0)
    BY <1>9 DEF Put
  <2>2. cur = Current /\ Has(cur, 2)
    BY <2>1 DEF Steps, Place, Handling
  <2>3. CASE pc' = "open" /\ (reqs[cur].len >= 0 \/ reqs[cur].chunks >= 0)
    <3>1. Has(cur, 2)'
      BY <1>1, <1>3, <2>2 DEF Has
    <3>2. Opening'
      BY <1>1, <1>3, <2>2, <2>3, <3>1 DEF Opening
    <3>3. QED
      BY <2>3, <3>2 DEF Place, Reading, Loading, Handling, Putting, Chunks, Answering
  <2>4. CASE Respond("not allowed", FALSE) \/ Respond("bad", FALSE)
    <3>1. pc' = "out" /\ res'.code # "created" /\ ~res'.keep
      BY <2>4, RespondFacts DEF Codes
    <3>2. QED
      BY <1>1, <1>3, <2>1, <2>2, <3>1, ToOut
  <2>5. QED
    BY <2>1, <2>3, <2>4
<1>10. QED
  BY <1>5, <1>6, <1>7, <1>8, <1>9

\* PUT begins with the first part of the contents.
LEMMA OpenSteps ==
  ASSUME SessionAssumption, Types, Steps, Open
  PROVE  Steps'
<1>1. /\ pc = "open" /\ saved' = <<>>
      /\ UNCHANGED <<reqs, out, eof, wire, cur, refused, answers, bOut>>
  BY DEF Open, clientVars, history
<1>2. Grows
  BY NextGrows DEF Next, Child
<1>3. Current' = Current /\ Coming' = Coming /\ bOut = FALSE /\ cur # 0
  BY <1>1 DEF Current, Coming, Held, Types, ChildTypes, Known
<1>4. cur = Current /\ Has(cur, 2)
  BY <1>1 DEF Steps, Place, Opening
<1>5. SUFFICES Place'
  BY <1>1, <1>2, FewerTaken, BetweenAnswers DEF InPut
<1>6. reqs[cur] \in Request
  BY <1>3, CurrentAsked
<1>7. <<>> = Units(cur, 0)
  <2>1. 0 \in Nat
    BY SMT
  <2>2. Len(Units(cur, 0)) = 0
    BY <2>1, UnitsFacts
  <2>3. Units(cur, 0) \in Seq({[req |-> cur, part |-> "data"]})
    BY SMT DEF Units
  <2>4. QED
    BY <2>2, <2>3, EmptySeq, SMT
<1>8. 0 \in Nat /\ 2 + 0 = 2 /\ 2 + 3 * 0 = 2
  BY SMT
<1>9. CASE reqs[cur].len > 0 /\ pc' = "put" /\ want' = reqs[cur].len
  <2>1. reqs[cur].len \in Nat
    BY <1>6, <1>9, PlainParts
  <2>2. 0 + want' = reqs[cur].len
    BY <1>9, <2>1, SMT
  <2>3. saved' = Units(cur', 0) /\ After(reqs', Coming', cur', 2 + 0, eof')
    BY <1>1, <1>3, <1>4, <1>7, <1>8 DEF Has
  <2>4. Putting'
    BY <1>1, <1>3, <1>4, <1>8, <1>9, <2>2, <2>3 DEF Putting, Has
  <2>5. QED
    BY <1>9, <2>4 DEF Place, Reading, Loading, Handling, Opening, Chunks, Answering
<1>10. CASE reqs[cur].chunks >= 0 /\ pc' = "size"
  <2>1. reqs[cur].chunks \in Nat \cup {-1}
    BY <1>6 DEF SessionAssumption
  <2>2. 0 \in 0 .. reqs[cur].chunks
    BY <1>10, <2>1, SMT
  <2>3. saved' = Units(cur', 0) /\ After(reqs', Coming', cur', 2 + 3 * 0, eof')
    BY <1>1, <1>3, <1>4, <1>7, <1>8 DEF Has
  <2>4. Chunks'
    <3>1. cur' = Current' /\ reqs'[cur'].chunks >= 0 /\ 0 \in 0 .. reqs'[cur'].chunks
      BY <1>1, <1>3, <1>4, <1>10, <2>2
    <3>2. QED
      BY <1>10, <2>3, <3>1 DEF Chunks, Has
  <2>5. QED
    BY <1>10, <2>4 DEF Place, Reading, Loading, Handling, Opening, Putting, Answering
<1>11. CASE Respond("bad", FALSE)
  <2>1. pc' = "out" /\ res'.code # "created" /\ ~res'.keep
    BY <1>11, RespondFacts DEF Codes
  <2>2. QED
    BY <1>1, <1>3, <1>4, <2>1, ToOut
<1>12. QED
  BY <1>9, <1>10, <1>11 DEF Open

-----------------------------------------------------------------------------
(* The contents of PUT *)

\* When all of a request is read, nothing of it is sent any more.
LEMMA AllTaken ==
  ASSUME SessionAssumption, Types, Steps, Takes, pc \in InPut, Ahead(reqs', Coming', cur + 1, 1, eof')
  PROVE  Waits'
<1>1. /\ wire \in Seq(Sent) /\ out \in Seq(Sent) /\ reqs \in Seq(Request) /\ cur \in 0 .. Len(reqs) /\ Len(reqs) \in Nat
  BY ComingType
<1>2. wire # <<>> /\ wire' = Tail(wire) /\ UNCHANGED <<reqs, out, eof, refused>>
  BY DEF Takes
<1>3. Tail(wire) \in Seq(Sent) /\ Len(Tail(wire)) = Len(wire) - 1 /\ Len(wire) \in Nat
  BY <1>1, <1>2, SMT
<1>4. \A i \in 1 .. Len(Tail(wire)) : i + 1 \in 1 .. Len(wire) /\ Tail(wire)[i] = wire[i + 1]
  BY <1>1, <1>2, SMT
<1>5. /\ Tail(wire) \o out \in Seq(Sent) /\ Len(Tail(wire)) <= Len(Tail(wire) \o out)
      /\ Len(Tail(wire)) \in Nat /\ Len(Tail(wire) \o out) \in Nat
      /\ \A i \in 1 .. Len(Tail(wire)) : (Tail(wire) \o out)[i] = Tail(wire)[i]
  BY <1>1, <1>3, SMT
<1>6. Coming' = Tail(wire) \/ Coming' = Tail(wire) \o out
  BY <1>2 DEF Coming
<1>7. ASSUME NEW i \in 1 .. Len(Tail(wire)), NEW U \in Seq(Sent), Coming' = U, i \in 1 .. Len(U), U[i] = wire[i + 1]
      PROVE  wire[i + 1].req >= cur + 1
  <2>1. Ahead(reqs, U, cur + 1, 1, eof)
    BY <1>2, <1>7
  <2>2. \A x \in 1 .. Len(U) : U[x].req >= cur + 1
    BY <1>1, <2>1, NoneBefore
  <2>3. QED
    BY <1>7, <2>2
<1>8. ASSUME NEW i \in 1 .. Len(Tail(wire))
      PROVE  wire[i + 1].req >= cur + 1
  <2>1. CASE Coming' = Tail(wire)
    BY <1>3, <1>4, <1>7, <2>1
  <2>2. CASE Coming' = Tail(wire) \o out
    <3>1. i \in 1 .. Len(Tail(wire) \o out) /\ (Tail(wire) \o out)[i] = wire[i + 1]
      <4>1. i \in 1 .. Len(Tail(wire) \o out)
        BY <1>5, SMT
      <4>2. QED
        BY <1>4, <1>5, <4>1
    <3>2. QED
      BY <1>5, <1>7, <2>2, <3>1
  <2>3. QED
    BY <1>6, <2>1, <2>2
<1>9. ASSUME NEW i \in 1 .. Len(Tail(wire)), OnDemand(wire[i + 1])
      PROVE  FALSE
  <2>1. wire[i + 1].req = cur
    BY <1>4, <1>9 DEF Steps, Waits
  <2>2. cur >= cur + 1
    BY <1>8, <2>1
  <2>3. QED
    BY <1>1, <2>2, SMT
<1>10. QED
  BY <1>2, <1>4, <1>9 DEF Waits, OnDemand

\* PUT saves contents of a known length, one unit after the other.
LEMMA PutSaveSteps ==
  ASSUME SessionAssumption, Types, Steps, PutSave
  PROVE  Steps'
<1>1. /\ pc = "put" /\ wire # <<>> /\ wire' = Tail(wire) /\ want' = want - 1 /\ saved' = Append(saved, wire[1])
      /\ (want > 1 => pc' = pc) /\ (~(want > 1) => Respond("created", TRUE))
      /\ UNCHANGED <<reqs, out, eof, cur, refused, answers, bOut>>
  BY DEF PutSave, Save, clientVars, history
<1>2. Grows
  BY NextGrows DEF Next, Child
<1>3. Current' = Current /\ bOut = FALSE /\ cur # 0 /\ want \in Nat /\ want > 0
  BY <1>1 DEF Current, Types, ChildTypes, Known, InPut
<1>4. PICK n \in Nat : cur = Current /\ reqs[cur].len > 0 /\ n + want = reqs[cur].len /\ saved = Units(cur, n) /\ Has(cur, 2 + n)
  BY <1>1 DEF Steps, Place, Putting
<1>5. reqs[cur] \in Request
  BY <1>3, CurrentAsked
<1>6. /\ Load(reqs[cur]) = reqs[cur].len /\ reqs[cur].len \in Nat /\ Size(reqs[cur]) = reqs[cur].len + 2
      /\ \A i \in Nat : i < reqs[cur].len => Part(cur, reqs[cur], 3 + i) = [req |-> cur, part |-> "data"]
  BY <1>4, <1>5, PlainParts
<1>7. 2 + n < Size(reqs[cur]) /\ 2 + n + 1 = 3 + n /\ n < reqs[cur].len
  BY <1>3, <1>4, <1>6, SMT
<1>8. At(cur, 3 + n)
  BY <1>4, <1>7 DEF Has, At, After
<1>9. Takes
  BY <1>1 DEF Takes
<1>10. wire[1] = [req |-> cur, part |-> "data"] /\ After(reqs', Coming', cur', 3 + n, eof')
  <2>1. wire[1] = Part(cur, reqs[cur], 3 + n)
    BY <1>1, <1>8, <1>9, TakesFacts
  <2>2. QED
    BY <1>1, <1>6, <1>7, <1>8, <1>9, <2>1, TakesFacts DEF Has
<1>11. saved' = Units(cur, n + 1)
  BY <1>1, <1>4, <1>10, UnitsFacts
<1>12. CASE want > 1
  <2>1. n + 1 \in Nat /\ n + 1 + want' = reqs[cur].len /\ 2 + (n + 1) = 3 + n
    BY <1>1, <1>3, <1>4, <1>6, SMT
  <2>2. After(reqs', Coming', cur', 2 + (n + 1), eof')
    BY <1>10, <2>1
  <2>3. Putting'
    <3>1. cur' = Current' /\ reqs'[cur'].len > 0 /\ n + 1 + want' = reqs'[cur'].len /\ saved' = Units(cur', n + 1)
      BY <1>1, <1>3, <1>4, <1>11, <2>1
    <3>2. QED
      BY <2>1, <2>2, <3>1 DEF Putting, Has
  <2>4. Place'
    BY <1>1, <1>12, <2>3 DEF Place, Reading, Loading, Handling, Opening, Chunks, Answering
  <2>5. QED
    BY <1>1, <1>2, <1>9, <1>12, <2>4, FewerTaken, BetweenAnswers DEF InPut
<1>13. CASE ~(want > 1)
  <2>1. n + 1 = reqs[cur].len /\ ~(3 + n < Size(reqs[cur]))
    BY <1>3, <1>4, <1>6, <1>13, SMT
  <2>2. Ahead(reqs', Coming', cur + 1, 1, eof')
    BY <1>1, <1>10, <2>1 DEF After
  <2>3. saved' = Contents(cur) /\ pc' = "out"
    BY <1>1, <1>6, <1>11, <1>13, <2>1, RespondFacts DEF Contents, Codes
  <2>4. Place'
    BY <1>1, <1>3, <1>4, <2>2, <2>3, ToOut
  <2>5. Waits'
    BY <1>1, <1>9, <2>2, AllTaken DEF InPut
  <2>6. QED
    BY <1>1, <1>2, <2>4, <2>5, StepsStay
<1>14. QED
  BY <1>12, <1>13

\* If the contents do not come, the answer closes the connection.
LEMMA PutBrokenSteps ==
  ASSUME SessionAssumption, Types, Steps, PutBroken
  PROVE  Steps'
<1>1. /\ pc \in InPut /\ pc' = "out" /\ wire = <<>> /\ res' = [code |-> "bad", keep |-> FALSE]
      /\ UNCHANGED <<reqs, out, eof, wire, cur, refused, answers, bOut>>
  BY DEF PutBroken, NoInput, clientVars, readVars, history, InPut
<1>2. Grows
  BY NextGrows DEF Next, Child
<1>3. bOut = FALSE /\ cur # 0
  BY <1>1 DEF Types, ChildTypes, Known, InPut
<1>4. cur = Current
  BY <1>1 DEF Steps, Place, Putting, Chunks, InPut
<1>5. ~res'.keep /\ res'.code # "created"
  BY <1>1
<1>6. Place'
  BY <1>1, <1>3, <1>4, <1>5, ToOut
<1>7. Waits'
  <2>1. \A i \in 1 .. Len(<<>>) : FALSE
    BY SMT
  <2>2. QED
    BY <1>1, <2>1 DEF Waits
<1>8. QED
  BY <1>1, <1>2, <1>6, <1>7, StepsStay DEF InPut

-----------------------------------------------------------------------------
\* What a chunked body is made of.
Chunked(k, r, m) ==
  /\ Load(r) = m /\ Size(r) = 3 * m + 4
  /\ \A n \in Nat : n < m => /\ Part(k, r, 3 + 3 * n).part = "size"
                            /\ Part(k, r, 4 + 3 * n) = [req |-> k, part |-> "data"]
  /\ Part(k, r, 3 + 3 * m).part = "last"

\* Chunks, by the place of their lines in the message.
LEMMA ChunkedParts ==
  ASSUME SessionAssumption, NEW r \in Request, NEW m \in Nat, r.chunks = m, NEW k
  PROVE  Chunked(k, r, m)
<1>1. Load(r) = m
  BY SMT DEF Load
<1>2. InChunks(k, r, m)
  BY MessageFacts
<1>3. Size(r) = 3 * m + 4 /\ Part(k, r, 3 + 3 * m).part = "last"
  BY <1>2 DEF InChunks
<1>4. ASSUME NEW n \in Nat, n < m
      PROVE  Part(k, r, 3 + 3 * n).part = "size" /\ Part(k, r, 4 + 3 * n) = [req |-> k, part |-> "data"]
  <2>1. Part(k, r, 3 + 3 * n).part = "size" /\ Part(k, r, 4 + 3 * n).part = "data"
    BY <1>2, <1>4 DEF InChunks
  <2>2. 4 + 3 * n \in 1 .. Size(r)
    BY <1>3, <1>4, SMT
  <2>3. Part(k, r, 4 + 3 * n) \in [req : {k}, part : PartName]
    BY <2>2, PartReq
  <2>4. QED
    BY <2>1, <2>3
<1>5. QED
  BY <1>1, <1>3, <1>4 DEF Chunked

\* Where PUT is in a chunked body: behind n chunks.
Behind(n) ==
  /\ saved = Units(cur, n)
  /\ pc = "size" => Has(cur, 2 + 3 * n)
  /\ pc = "chunk" => want = 1 /\ n < reqs[cur].chunks /\ Has(cur, 3 + 3 * n)
  /\ pc = "tail" => 0 < n /\ Has(cur, 1 + 3 * n)
  /\ pc = "last" => n = reqs[cur].chunks /\ Has(cur, 3 + 3 * n)

\* Where PUT is in the chunks.
LEMMA InChunksOf ==
  ASSUME SessionAssumption, Types, Steps, pc \in {"size", "chunk", "tail", "last"}
  PROVE  /\ cur = Current /\ cur # 0 /\ bOut = FALSE /\ reqs[cur] \in Request /\ reqs[cur].chunks \in Nat
         /\ \E n \in 0 .. reqs[cur].chunks : Behind(n)
<1>1. cur # 0 /\ bOut = FALSE
  BY DEF Types, ChildTypes, Known, InPut
<1>2. reqs[cur] \in Request
  BY <1>1, CurrentAsked
<1>3. reqs[cur].chunks \in Nat \cup {-1}
  BY <1>2 DEF SessionAssumption
<1>4. cur = Current /\ reqs[cur].chunks >= 0 /\ \E n \in 0 .. reqs[cur].chunks : Behind(n)
  BY DEF Steps, Place, Chunks, Behind
<1>5. reqs[cur].chunks \in Nat
  BY <1>3, <1>4, SMT
<1>6. QED
  BY <1>1, <1>2, <1>4, <1>5

\* It stays there if it is so many lines further.
LEMMA StaysInChunks ==
  ASSUME pc' \in {"size", "chunk", "tail", "last"}, UNCHANGED <<reqs, answers, cur>>, cur = Current,
         reqs[cur].chunks \in Nat, NEW n \in 0 .. reqs[cur].chunks,
         saved' = Units(cur, n),
         pc' = "size" => After(reqs', Coming', cur', 2 + 3 * n, eof'),
         pc' = "chunk" => want' = 1 /\ n < reqs[cur].chunks /\ After(reqs', Coming', cur', 3 + 3 * n, eof'),
         pc' = "tail" => 0 < n /\ After(reqs', Coming', cur', 1 + 3 * n, eof'),
         pc' = "last" => n = reqs[cur].chunks /\ After(reqs', Coming', cur', 3 + 3 * n, eof')
  PROVE  Place'
<1>1. Current' = Current /\ reqs'[cur'] = reqs[cur] /\ cur' = cur
  BY DEF Current
<1>2. reqs[cur].chunks >= 0
  BY SMT
<1>3. Chunks'
  BY <1>1, <1>2 DEF Chunks, Has
<1>4. QED
  BY <1>3 DEF Place, Reading, Loading, Handling, Opening, Putting, Answering

\* The line with the size of a chunk, or the last one.
LEMMA ChunkSizeSteps ==
  ASSUME SessionAssumption, Types, Steps, ChunkSize
  PROVE  Steps'
<1>1. /\ pc = "size" /\ wire # <<>> /\ wire' = Tail(wire)
      /\ wire[1].part = "size" => pc' = "chunk" /\ want' = 1
      /\ wire[1].part # "size" => pc' = "last"
      /\ UNCHANGED <<reqs, out, eof, cur, saved, refused, answers, bOut>>
  BY DEF ChunkSize, clientVars, resVars, history
<1>2. Grows
  BY NextGrows DEF Next, Child
<1>3. /\ cur = Current /\ cur # 0 /\ reqs[cur] \in Request /\ reqs[cur].chunks \in Nat
      /\ \E n \in 0 .. reqs[cur].chunks : Behind(n)
  BY <1>1, InChunksOf
<1>4. PICK n \in 0 .. reqs[cur].chunks : Behind(n)
  BY <1>3
<1> DEFINE m == reqs[cur].chunks
<1>5. /\ Size(reqs[cur]) = 3 * m + 4
      /\ \A i \in Nat : i < m => Part(cur, reqs[cur], 3 + 3 * i).part = "size"
      /\ Part(cur, reqs[cur], 3 + 3 * m).part = "last"
  <2>1. Chunked(cur, reqs[cur], m)
    BY <1>3, ChunkedParts
  <2>2. QED
    BY <2>1 DEF Chunked
<1>6. 2 + 3 * n < Size(reqs[cur]) /\ 2 + 3 * n + 1 = 3 + 3 * n /\ n \in Nat /\ (n < m \/ (~(n < m) /\ n = m))
  BY <1>3, <1>5, SMT
<1>7. At(cur, 3 + 3 * n)
  BY <1>1, <1>4, <1>6 DEF Behind, Has, At, After
<1>8. Takes
  BY <1>1 DEF Takes
<1>9. wire[1] = Part(cur, reqs[cur], 3 + 3 * n) /\ After(reqs', Coming', cur', 3 + 3 * n, eof')
  BY <1>1, <1>7, <1>8, TakesFacts DEF Has
<1>10. saved' = Units(cur, n)
  BY <1>1, <1>4 DEF Behind
<1>11. Place'
  <2>1. CASE n < m
    <3>1. pc' = "chunk" /\ want' = 1
      BY <1>1, <1>5, <1>6, <1>9, <2>1
    <3>2. QED
      BY <1>1, <1>3, <1>9, <1>10, <2>1, <3>1, StaysInChunks
  <2>2. CASE ~(n < m)
    <3>1. pc' = "last" /\ n = m
      BY <1>1, <1>5, <1>6, <1>9, <2>2
    <3>2. QED
      BY <1>1, <1>3, <1>9, <1>10, <3>1, StaysInChunks
  <2>3. QED
    BY <2>1, <2>2
<1>12. pc' \in InPut
  BY <1>1 DEF InPut
<1>13. QED
  BY <1>1, <1>2, <1>8, <1>11, <1>12, FewerTaken, BetweenAnswers

\* The chunk itself.
LEMMA ChunkSaveSteps ==
  ASSUME SessionAssumption, Types, Steps, ChunkSave
  PROVE  Steps'
<1>1. /\ pc = "chunk" /\ wire # <<>> /\ wire' = Tail(wire) /\ saved' = Append(saved, wire[1])
      /\ ~(want > 1) => pc' = "tail"
      /\ UNCHANGED <<reqs, out, eof, cur, refused, answers, bOut>>
  BY DEF ChunkSave, Save, clientVars, history
<1>2. Grows
  BY NextGrows DEF Next, Child
<1>3. /\ cur = Current /\ cur # 0 /\ reqs[cur] \in Request /\ reqs[cur].chunks \in Nat
      /\ \E n \in 0 .. reqs[cur].chunks : Behind(n)
  BY <1>1, InChunksOf
<1>4. PICK n \in 0 .. reqs[cur].chunks : Behind(n)
  BY <1>3
<1> DEFINE m == reqs[cur].chunks
<1>5. /\ Size(reqs[cur]) = 3 * m + 4
      /\ \A i \in Nat : i < m => Part(cur, reqs[cur], 4 + 3 * i) = [req |-> cur, part |-> "data"]
  <2>1. Chunked(cur, reqs[cur], m)
    BY <1>3, ChunkedParts
  <2>2. QED
    BY <2>1 DEF Chunked
<1>6. want = 1 /\ n < m /\ Has(cur, 3 + 3 * n) /\ saved = Units(cur, n)
  BY <1>1, <1>4 DEF Behind
<1>7. /\ 3 + 3 * n < Size(reqs[cur]) /\ 3 + 3 * n + 1 = 4 + 3 * n /\ n \in Nat
      /\ n + 1 \in 0 .. m /\ 0 < n + 1 /\ 1 + 3 * (n + 1) = 4 + 3 * n
  BY <1>3, <1>5, <1>6, SMT
<1>8. At(cur, 4 + 3 * n)
  BY <1>6, <1>7 DEF Has, At, After
<1>9. Takes
  BY <1>1 DEF Takes
<1>10. wire[1] = [req |-> cur, part |-> "data"] /\ After(reqs', Coming', cur', 4 + 3 * n, eof')
  <2>1. wire[1] = Part(cur, reqs[cur], 4 + 3 * n) /\ After(reqs', Coming', cur', 4 + 3 * n, eof')
    BY <1>1, <1>8, <1>9, TakesFacts DEF Has
  <2>2. QED
    BY <1>5, <1>6, <1>7, <2>1
<1>11. saved' = Units(cur, n + 1)
  BY <1>1, <1>6, <1>7, <1>10, UnitsFacts
<1>12. pc' = "tail"
  <2>1. ~(1 > 1)
    BY SMT
  <2>2. QED
    BY <1>1, <1>6, <2>1
<1>13. After(reqs', Coming', cur', 1 + 3 * (n + 1), eof')
  BY <1>7, <1>10
<1>14. Place'
  BY <1>1, <1>3, <1>7, <1>11, <1>12, <1>13, StaysInChunks
<1>15. QED
  BY <1>1, <1>2, <1>9, <1>12, <1>14, FewerTaken, BetweenAnswers DEF InPut

\* The end of a chunk, or of all of them.
LEMMA ChunkTailSteps ==
  ASSUME SessionAssumption, Types, Steps, ChunkTail
  PROVE  Steps'
<1>1. /\ pc \in {"tail", "last"} /\ wire # <<>> /\ wire' = Tail(wire)
      /\ pc = "last" => Respond("created", TRUE)
      /\ pc # "last" => pc' = "size"
      /\ UNCHANGED <<reqs, out, eof, cur, saved, refused, answers, bOut>>
  BY DEF ChunkTail, clientVars, readVars, history
<1>2. Grows
  BY NextGrows DEF Next, Child
<1>3. /\ cur = Current /\ cur # 0 /\ bOut = FALSE /\ reqs[cur] \in Request /\ reqs[cur].chunks \in Nat
      /\ \E n \in 0 .. reqs[cur].chunks : Behind(n)
  BY <1>1, InChunksOf
<1>4. PICK n \in 0 .. reqs[cur].chunks : Behind(n)
  BY <1>3
<1> DEFINE m == reqs[cur].chunks
<1>5. Size(reqs[cur]) = 3 * m + 4 /\ Load(reqs[cur]) = m
  <2>1. Chunked(cur, reqs[cur], m)
    BY <1>3, ChunkedParts
  <2>2. QED
    BY <2>1 DEF Chunked
<1>6. Takes
  BY <1>1 DEF Takes
<1>7. CASE pc = "tail"
  <2>1. 0 < n /\ Has(cur, 1 + 3 * n) /\ saved' = Units(cur, n)
    BY <1>1, <1>4, <1>7 DEF Behind
  <2>2. 1 + 3 * n < Size(reqs[cur]) /\ 1 + 3 * n + 1 = 2 + 3 * n
    BY <1>3, <1>5, SMT
  <2>3. At(cur, 2 + 3 * n)
    BY <2>1, <2>2 DEF Has, At, After
  <2>4. After(reqs', Coming', cur', 2 + 3 * n, eof')
    BY <1>1, <1>6, <2>3, TakesFacts DEF Has
  <2>5. pc' = "size"
    BY <1>1, <1>7
  <2>6. Place'
    BY <1>1, <1>3, <2>1, <2>4, <2>5, StaysInChunks
  <2>7. QED
    BY <1>1, <1>2, <1>6, <2>5, <2>6, FewerTaken, BetweenAnswers DEF InPut
<1>8. CASE pc = "last"
  <2>1. n = m /\ Has(cur, 3 + 3 * n) /\ saved' = Units(cur, n)
    BY <1>1, <1>4, <1>8 DEF Behind
  <2>2. /\ 3 + 3 * n < Size(reqs[cur]) /\ 3 + 3 * n + 1 = 4 + 3 * n
        /\ ~(4 + 3 * n < Size(reqs[cur]))
    BY <1>3, <1>5, <2>1, SMT
  <2>3. At(cur, 4 + 3 * n)
    BY <2>1, <2>2 DEF Has, At, After
  <2>4. After(reqs', Coming', cur', 4 + 3 * n, eof')
    BY <1>1, <1>6, <2>3, TakesFacts DEF Has
  <2>5. Ahead(reqs', Coming', cur + 1, 1, eof')
    BY <1>1, <2>2, <2>4 DEF After
  <2>6. saved' = Contents(cur) /\ pc' = "out"
    BY <1>1, <1>5, <1>8, <2>1, RespondFacts DEF Contents, Codes
  <2>7. Place'
    BY <1>1, <1>3, <2>5, <2>6, ToOut
  <2>8. Waits'
    BY <1>1, <1>6, <2>5, AllTaken DEF InPut
  <2>9. QED
    BY <1>1, <1>2, <2>7, <2>8, StepsStay
<1>9. QED
  BY <1>1, <1>7, <1>8

-----------------------------------------------------------------------------
\* Both parts of the header are read.
LEMMA ReadSteps ==
  ASSUME SessionAssumption, Types, Steps, SentAhead, Orderly, Read
  PROVE  Steps'
<1>1. pc = "read"
  BY DEF Read
<1>2. Reading
  BY DEF Steps, Place
<1>3. CASE buf = <<>> /\ block = 0 /\ At(Current, 1)
  BY <1>3, ReadMethod
<1>4. CASE Current <= Len(reqs) /\ Has(Current, 1) /\ buf = MethodOf(Current) /\ block = BlockOf(reqs[Current])
  BY <1>4, ReadHeader
<1>5. QED
  BY <1>1, <1>2, <1>3, <1>4 DEF Reading

\* The connection goes on with the next request, at its first part.
LEMMA AgainSteps ==
  ASSUME SessionAssumption, Types, Steps, Again
  PROVE  Steps'
<1>1. pc = "next" /\ bOut /\ UNCHANGED <<reqs, out, eof, wire, refused, answers>>
  BY DEF Again, Types, Known, clientVars, history
<1>2. Grows
  BY NextGrows DEF Next, Child
<1>3. Current' = Current /\ Coming' = Coming
  BY <1>1 DEF Current, Coming, Held
<1>4. SUFFICES Place'
  BY <1>1, <1>2, FewerTaken, BetweenAnswers DEF InPut
<1>5. CASE pc' = "closed"
  BY <1>5 DEF Place, Reading, Loading, Handling, Opening, Putting, Chunks, Answering
<1>6. CASE res.keep /\ pc' = "read" /\ buf' = <<>> /\ block' = 0
  <2>1. cur = Len(answers) /\ At(cur + 1, 1)
    BY <1>1, <1>6 DEF Steps, Place, Answering
  <2>2. Ahead(reqs', Coming', Current', 1, eof')
    BY <1>1, <1>3, <2>1 DEF Current, At
  <2>3. Reading'
    BY <1>6, <2>2 DEF Reading, At
  <2>4. QED
    BY <1>6, <2>3 DEF Place, Loading, Handling, Opening, Putting, Chunks, Answering
<1>7. QED
  BY <1>5, <1>6 DEF Again, GoesOn

\* An answer is put out in its place.
LEMMA AnswerSteps ==
  ASSUME SessionAssumption, Types, Steps, Streamed \/ Out
  PROVE  Steps'
<1>1. /\ ResponseOut /\ UNCHANGED <<reqs, out, eof, wire, refused, late, cur, saved>>
      /\ \/ pc = "handle" /\ res.code = "ok" /\ pc' = "out"
         \/ pc = "out" /\ pc' = "next"
  BY DEF Streamed, Out, clientVars, readVars, history
<1>2. /\ bOut' = TRUE /\ res'.code = res.code /\ (res'.keep => res.keep)
      /\ bOut => UNCHANGED <<res, bOut, answers>>
      /\ ~bOut => answers' = Append(answers, [req |-> cur, code |-> res.code, keep |-> res'.keep])
  BY <1>1, OutFacts
<1>3. Grows
  BY NextGrows DEF Next, Child
<1>4. /\ cur = 0 => ~res.keep /\ (~bOut => Current <= Len(reqs) /\ Excused(Current))
      /\ cur # 0 => (bOut => cur = Len(answers)) /\ (~bOut => cur = Current)
      /\ res.keep => cur # 0 /\ At(cur + 1, 1)
  <2>1. CASE pc = "handle" /\ res.code = "ok"
    <3>1. cur # 0 /\ reqs[cur].meth \in {"GET", "DAV"} /\ ~bOut
      BY <2>1 DEF Types, Known
    <3>2. cur = Current /\ At(cur + 1, 1)
      BY <2>1, <3>1 DEF Steps, Place, Handling
    <3>3. QED
      BY <3>1, <3>2
  <2>2. CASE pc = "out"
    BY <2>2 DEF Steps, Place, Answering
  <2>3. QED
    BY <1>1, <2>1, <2>2
<1>5. /\ Len(answers) \in Nat /\ Len(reqs) \in Nat /\ cur \in 0 .. Len(reqs) /\ answers \in Seq(Answer)
      /\ Len(answers) <= Len(reqs)
  BY ComingType DEF Types, ChildTypes, Steps
<1>6. /\ Len(answers') \in Nat /\ Len(answers) <= Len(answers') /\ Len(answers') <= Len(reqs)
      /\ cur # 0 => cur = Len(answers')
      /\ \A i \in 1 .. Len(answers') : InPlace(i)'
  <2>1. CASE bOut
    <3>1. answers' = answers
      BY <1>2, <2>1
    <3>2. ASSUME NEW i \in 1 .. Len(answers)
          PROVE  InPlace(i)'
      <4>1. InPlace(i) /\ answers'[i] = answers[i]
        BY <3>1 DEF Steps
      <4>2. QED
        BY <1>3, <1>5, <4>1, InPlaceStays
    <3>3. Len(answers) <= Len(answers)
      BY <1>5, SMT
    <3>4. QED
      BY <1>4, <1>5, <2>1, <3>1, <3>2, <3>3
  <2>2. CASE ~bOut
    <3> DEFINE a == [req |-> cur, code |-> res.code, keep |-> res'.keep]
    <3>1. answers' = Append(answers, a)
      BY <1>2, <2>2
    <3>2. a.req = cur /\ a.keep = res'.keep
      OBVIOUS
    <3> HIDE DEF a
    <3>3. /\ Len(answers') = Len(answers) + 1 /\ answers'[Len(answers) + 1] = a
          /\ \A i \in 1 .. Len(answers) : answers'[i] = answers[i]
      BY <1>5, <3>1, SMT
    <3>4. Current <= Len(reqs)
      <4>1. cur # 0 => cur <= Len(reqs)
        BY <1>5, SMT
      <4>2. QED
        BY <1>4, <2>2, <4>1
    <3>5. Len(answers') \in Nat /\ Len(answers) <= Len(answers') /\ Len(answers') <= Len(reqs)
      BY <1>5, <3>3, <3>4, SMT DEF Current
    <3>6. Len(answers') = Current /\ answers'[Current] = a
      BY <3>3 DEF Current
    <3>7. ASSUME NEW i \in 1 .. Len(answers')
          PROVE  InPlace(i)'
      <4>1. CASE i \in 1 .. Len(answers)
        <5>1. InPlace(i) /\ answers'[i] = answers[i]
          BY <3>3, <4>1 DEF Steps
        <5>2. QED
          BY <1>3, <1>5, <4>1, <5>1, InPlaceStays
      <4>2. CASE i \notin 1 .. Len(answers)
        <5>1. i = Current
          BY <1>5, <3>3, <4>2, SMT DEF Current
        <5>2. cur = Current \/ (cur = 0 /\ ~res'.keep /\ Excused(Current))
          BY <1>2, <1>4, <2>2
        <5>3. Excused(Current) => Excused(i)'
          BY <1>1, <5>1 DEF Excused
        <5>4. answers'[i].req = cur /\ answers'[i].keep = res'.keep
          BY <3>2, <3>6, <5>1
        <5>5. QED
          BY <5>1, <5>2, <5>3, <5>4 DEF InPlace
      <4>3. QED
        BY <4>1, <4>2
    <3>8. QED
      BY <1>4, <2>2, <3>5, <3>6, <3>7
  <2>3. QED
    BY <2>1, <2>2
<1>7. Waits'
  <2>1. Waits /\ pc \notin InPut
    BY <1>1 DEF Steps, InPut
  <2>2. QED
    BY <1>1, <2>1, FewerTaken, WaitsStay
<1>8. Refusals'
  <2>1. ASSUME NEW k \in refused
        PROVE  k <= Len(answers')
    <3>1. k \in 1 .. Len(reqs) /\ k # 0 /\ k \in Nat
      <4>1. k \in 1 .. Len(reqs)
        BY DEF Types, ClientTypes
      <4>2. QED
        BY <1>5, <4>1, SMT
    <3>2. k <= Len(answers) \/ cur = k
      BY DEF Steps, Refusals
    <3>3. QED
      BY <1>5, <1>6, <3>1, <3>2, SMT
  <2>2. Held' => OnDemand(out[1])'
    BY <1>1 DEF Steps, Refusals, Held, OnDemand
  <2>3. QED
    BY <1>1, <2>1, <2>2 DEF Refusals
<1>9. Place'
  <2>1. Coming' = Coming
    BY <1>1 DEF Coming, Held
  <2>2. res'.keep => cur # 0 /\ Ahead(reqs', Coming', cur + 1, 1, eof')
    BY <1>1, <1>2, <1>4, <2>1 DEF At
  <2>3. cur = 0 => ~res'.keep
    BY <1>2, <1>4
  <2>4. ~(pc' = "out" /\ res'.code = "created") /\ pc' \in {"out", "next"}
    BY <1>1, <1>2
  <2>5. Answering'
    BY <1>1, <1>2, <1>6, <2>2, <2>3, <2>4 DEF Answering, At
  <2>6. QED
    BY <2>4, <2>5 DEF Place, Reading, Loading, Handling, Opening, Putting, Chunks
<1>10. QED
  BY <1>1, <1>6, <1>7, <1>8, <1>9 DEF Steps

-----------------------------------------------------------------------------
\* What the header of a request with contents is followed by.
LEMMA ContentsFollow ==
  ASSUME SessionAssumption, NEW k \in 1 .. Len(reqs), reqs[k] \in Request, Size(reqs[k]) # 2
  PROVE  /\ Contents(k) # <<>> \/ reqs[k].chunks = 0
         /\ Part(k, reqs[k], 3).part \notin {"method", "header"}
<1> DEFINE r == reqs[k]
<1>1. r.chunks \in Nat \cup {-1} /\ Load(r) \in Nat
  BY PartFacts DEF SessionAssumption
<1>2. Load(r) > 0 => Contents(k) # <<>>
  <2>1. Len(Contents(k)) = Load(r)
    BY <1>1, UnitsFacts DEF Contents
  <2>2. QED
    BY <1>1, <2>1, SMT
<1>3. CASE r.chunks \in Nat
  <2>1. PICK n \in Nat : r.chunks = n
    BY <1>3
  <2>2. InChunks(k, r, n)
    BY <2>1, MessageFacts
  <2>3. Load(r) = n
    BY <2>1, SMT DEF Load
  <2>4. CASE n = 0
    <3>1. 3 + 3 * 0 = 3
      BY SMT
    <3>2. Part(k, r, 3).part = "last"
      BY <2>2, <2>4, <3>1 DEF InChunks
    <3>3. QED
      BY <2>1, <2>4, <3>2
  <2>5. CASE n # 0
    <3>1. 0 \in Nat /\ 0 < n /\ 3 + 3 * 0 = 3 /\ n > 0
      BY <2>5, SMT
    <3>2. Part(k, r, 3 + 3 * 0).part = "size"
      BY <2>2, <3>1 DEF InChunks
    <3>3. QED
      BY <1>2, <2>3, <3>1, <3>2
  <2>6. QED
    BY <2>4, <2>5
<1>4. CASE r.chunks = -1
  <2>1. AllData(k, r)
    <3>1. r.chunks < 0
      BY <1>4, SMT
    <3>2. QED
      BY <3>1, MessageFacts
  <2>2. Load(r) > 0 /\ 1 \in 1 .. Load(r) /\ 2 + 1 = 3
    BY <1>1, <2>1, SMT DEF AllData
  <2>3. Part(k, r, 2 + 1).part = "data"
    BY <2>1, <2>2 DEF AllData
  <2>4. QED
    BY <1>2, <2>2, <2>3
<1>5. QED
  BY <1>1, <1>3, <1>4

\* A PUT that is refused leaves nothing unread, if it has no contents or the
\* client waits with them: what comes next is the next request.
LEMMA RefusedWaits ==
  ASSUME SessionAssumption, Types, Steps, Orderly', Forbidden
  PROVE  Ahead(reqs', Coming', cur + 1, 1, eof') /\ (Held' => OnDemand(out[1])')
<1>1. /\ pc = "open" /\ refused' = refused \cup {cur}
      /\ UNCHANGED <<reqs, out, eof, wire, cur, answers>>
  BY DEF Forbidden, Respond, clientVars, readVars, history
<1>2. cur # 0 /\ cur = Current /\ Has(cur, 2)
  BY <1>1 DEF Types, Known, Steps, Place, Opening
<1>3. cur \in 1 .. Len(reqs) /\ cur \in Nat /\ reqs[cur] \in Request /\ Size(reqs[cur]) \in Nat
  BY <1>2, CurrentAsked
<1>4. /\ Coming \in Seq(Sent) /\ reqs \in Seq(Request) /\ wire \in Seq(Sent) /\ out \in Seq(Sent)
      /\ Len(reqs) \in Nat /\ Len(answers) \in Nat /\ eof \in BOOLEAN
      /\ Len(wire) \in Nat /\ Len(wire) <= Len(Coming) /\ \A i \in 1 .. Len(wire) : Coming[i] = wire[i]
  BY ComingType
<1>5. Len(reqs) \notin refused
  <2>1. SUFFICES ASSUME Len(reqs) \in refused
                 PROVE  FALSE
    OBVIOUS
  <2>2. Len(reqs) <= Len(answers)
    BY <1>1, <2>1 DEF Steps, Refusals
  <2>3. QED
    BY <1>2, <1>3, <1>4, <2>2, SMT DEF Current
<1>6. Coming = wire \o out /\ (Held' => out # <<>> /\ cur = Len(reqs))
  BY <1>1, <1>5 DEF Coming, Held
<1>7. ~(cur + 1 \in 1 .. Len(reqs)) \/ cur # Len(reqs)
  BY <1>4, SMT
<1>8. cur + 1 \in Nat /\ 1 \in Nat /\ wire \o <<>> = wire /\ <<>> \o out = out /\ <<>> \o <<>> = <<>>
  BY <1>3, <1>4, SMT
<1>9. CASE Size(reqs[cur]) = 2
  <2>1. ~(2 < 2)
    BY SMT
  <2>2. Ahead(reqs, Coming, cur + 1, 1, eof)
    BY <1>2, <1>9, <2>1 DEF Has, After
  <2>3. ~Held'
    <3>1. SUFFICES ASSUME Held'
                   PROVE  FALSE
      OBVIOUS
    <3>2. Coming # <<>>
      BY <1>4, <1>6, <3>1, SMT
    <3>3. cur + 1 \in 1 .. Len(reqs)
      BY <1>4, <2>2, <3>2, TakeFirst
    <3>4. QED
      BY <1>6, <1>7, <3>1, <3>3
  <2>4. Coming' = Coming
    BY <1>1, <1>6, <2>3 DEF Coming
  <2>5. QED
    BY <1>1, <2>2, <2>3, <2>4
<1>10. CASE Size(reqs[cur]) # 2
  <2>1. /\ Contents(cur) # <<>> \/ reqs[cur].chunks = 0
        /\ Part(cur, reqs[cur], 3).part \notin {"method", "header"}
    BY <1>3, <1>10, ContentsFollow
  <2>2. reqs[cur].expect
    <3>1. ~LeftUnread(cur)'
      BY <1>1, <1>3 DEF Orderly
    <3>2. Contents(cur)' = Contents(cur)
      BY <1>1 DEF Contents
    <3>3. QED
      BY <1>1, <2>1, <3>1, <3>2 DEF LeftUnread
  <2>3. Ahead(reqs, Coming, cur, 3, eof) /\ 3 \in 1 .. Size(reqs[cur])
    <3>1. 2 < Size(reqs[cur]) /\ 2 + 1 = 3 /\ 3 \in 1 .. Size(reqs[cur])
      <4>1. Size(reqs[cur]) >= 2
        BY <1>3, MessageSize
      <4>2. QED
        BY <1>3, <1>10, <4>1, SMT
    <3>2. QED
      BY <1>2, <3>1 DEF Has, After
  <2>4. Part(cur, reqs[cur], 3).req = cur
    BY <1>3, <2>3, PartReq
  <2>5. OnDemand(Part(cur, reqs[cur], 3))
    BY <2>1, <2>2, <2>4 DEF OnDemand
  <2>6. Coming # <<>> => Coming[1] = Part(cur, reqs[cur], 3)
    BY <1>4, <2>3, TakeFirst
  <2>7. wire = <<>>
    <3>1. SUFFICES ASSUME wire # <<>>
                   PROVE  FALSE
      OBVIOUS
    <3>2. 1 \in 1 .. Len(wire) /\ Coming # <<>>
      BY <1>4, <3>1, SMT
    <3>3. OnDemand(wire[1])
      BY <1>4, <2>5, <2>6, <3>2
    <3>4. pc \in InPut
      BY <3>2, <3>3 DEF Steps, Waits
    <3>5. QED
      BY <1>1, <3>4 DEF InPut
  <2>8. Coming = out
    BY <1>6, <1>8, <2>7
  <2>9. CASE out # <<>>
    <3>1. out[1] = Part(cur, reqs[cur], 3) /\ 1 \in 1 .. Len(out)
      BY <1>4, <2>6, <2>8, <2>9, SMT
    <3>2. cur = Len(reqs)
      BY <2>4, <3>1 DEF Types, ClientTypes
    <3>3. Held' /\ Coming' = <<>>
      BY <1>1, <2>7, <2>9, <3>2 DEF Held, Coming
    <3>4. Ahead(reqs, <<>>, cur + 1, 1, eof)
      BY <1>8, <3>2, NothingAhead
    <3>5. OnDemand(out[1])'
      BY <1>1, <2>5, <3>1 DEF OnDemand
    <3>6. QED
      BY <1>1, <3>3, <3>4, <3>5
  <2>10. CASE out = <<>>
    <3>1. eof
      <4>1. SUFFICES ASSUME eof = FALSE
                     PROVE  FALSE
        BY <1>4
      <4>2. Ahead(reqs, <<>>, cur, 3, FALSE)
        BY <2>3, <2>8, <2>10, <4>1
      <4>3. cur = Len(reqs) + 1
        BY <4>2, AllRead
      <4>4. QED
        BY <1>3, <1>4, <4>3, SMT
    <3>2. ~Held' /\ Coming' = <<>>
      BY <1>1, <1>8, <2>7, <2>10 DEF Held, Coming
    <3>3. Ahead(reqs, <<>>, cur + 1, 1, eof)
      BY <1>8, <3>1, NothingAhead
    <3>4. QED
      BY <1>1, <3>2, <3>3
  <2>11. QED
    BY <2>9, <2>10
<1>11. QED
  BY <1>9, <1>10

\* PUT is refused.
LEMMA ForbiddenSteps ==
  ASSUME SessionAssumption, Types, Steps, Orderly', Forbidden
  PROVE  Steps'
<1>1. /\ pc = "open" /\ refused' = refused \cup {cur} /\ Respond("forbidden", TRUE)
      /\ UNCHANGED <<reqs, out, eof, wire, cur, answers, bOut>>
  BY DEF Forbidden, clientVars, readVars, history
<1>2. Grows
  BY NextGrows DEF Next, Child
<1>3. pc' = "out" /\ res'.code = "forbidden"
  BY <1>1, RespondFacts DEF Codes
<1>4. cur # 0 /\ ~bOut /\ cur = Current
  BY <1>1 DEF Types, Known, Steps, Place, Opening
<1>5. Ahead(reqs', Coming', cur + 1, 1, eof') /\ (Held' => OnDemand(out[1])')
  BY RefusedWaits
<1>6. Place'
  BY <1>1, <1>3, <1>4, <1>5, ToOut
<1>7. Waits'
  <2>1. Waits /\ pc \notin InPut
    BY <1>1 DEF Steps, InPut
  <2>2. QED
    BY <1>1, <2>1, FewerTaken, WaitsStay
<1>8. Refusals'
  BY <1>1, <1>3, <1>5 DEF Steps, Refusals
<1>9. Len(answers') <= Len(reqs') /\ Len(answers) <= Len(reqs)
  BY <1>1 DEF Steps
<1>10. \A i \in 1 .. Len(answers') : InPlace(i)'
  <2>1. SUFFICES ASSUME NEW i \in 1 .. Len(answers)
                 PROVE  InPlace(i)'
    BY <1>1
  <2>2. InPlace(i) /\ answers'[i] = answers[i]
    BY <1>1 DEF Steps
  <2>3. QED
    BY <1>2, <1>9, <2>2, InPlaceStays
<1>11. QED
  BY <1>6, <1>7, <1>8, <1>9, <1>10 DEF Steps

-----------------------------------------------------------------------------
\* As long as nothing is left unread, every step keeps client and server where
\* they should be.
LEMMA ChildKeepsSteps ==
  ASSUME SessionAssumption, Types, Steps, SentAhead, Orderly, Orderly', Child
  PROVE  Steps'
<1>1. CASE Read
  BY <1>1, ReadSteps
<1>2. CASE NoRequest \/ Bad \/ Stream \/ Simple \/ Put
  BY <1>2, HandlingSteps
<1>3. CASE ReadContents
  BY <1>3, ReadContentsSteps
<1>4. CASE Streamed \/ Out
  BY <1>4, AnswerSteps
<1>5. CASE Forbidden
  BY <1>5, ForbiddenSteps
<1>6. CASE Open
  BY <1>6, OpenSteps
<1>7. CASE PutSave
  BY <1>7, PutSaveSteps
<1>8. CASE ChunkSize
  BY <1>8, ChunkSizeSteps
<1>9. CASE ChunkSave
  BY <1>9, ChunkSaveSteps
<1>10. CASE ChunkTail
  BY <1>10, ChunkTailSteps
<1>11. CASE PutBroken
  BY <1>11, PutBrokenSteps
<1>12. CASE Again
  BY <1>12, AgainSteps
<1>13. QED
  BY <1>1, <1>2, <1>3, <1>4, <1>5, <1>6, <1>7, <1>8, <1>9, <1>10, <1>11, <1>12 DEF Child

\* Answers are not taken back.
LEMMA AnswersGrow ==
  ASSUME Types, [Next]_vars
  PROVE  Len(answers) <= Len(answers')
<1>1. answers \in Seq(Answer) /\ Len(answers) \in Nat
  BY ComingType DEF Types, ChildTypes
<1>2. CASE UNCHANGED answers
  BY <1>1, <1>2, SMT
<1>3. CASE Streamed \/ Out
  <2>1. ResponseOut
    BY <1>3 DEF Streamed, Out
  <2>2. UNCHANGED answers \/ \E a : answers' = Append(answers, a)
    BY <2>1, OutFacts
  <2>3. QED
    BY <1>1, <1>2, <2>2, SMT
<1>4. UNCHANGED answers \/ Streamed \/ Out
  <2>1. CASE \E r \in Request : Ask(r)
    BY <2>1 DEF Ask, resVars
  <2>2. CASE Send \/ Drop \/ HangUp \/ RequestExit \/ UNCHANGED vars
    BY <2>2 DEF Send, Drop, HangUp, RequestExit, vars, resVars
  <2>3. CASE Child
    BY <2>3 DEF Child, Read, NoRequest, ReadContents, Bad, Stream, Simple, Put, Forbidden,
            Open, PutSave, ChunkSize, ChunkSave, Save, ChunkTail, PutBroken, Again, resVars
  <2>4. QED
    BY <2>1, <2>2, <2>3 DEF Next
<1>5. QED
  BY <1>2, <1>3, <1>4

\* Client and server are always where they should be, if nothing is left unread.
LEMMA StepsInv ==
  ASSUME SessionAssumption
  PROVE  Spec => [](SentAhead /\ (Orderly => Steps))
<1>1. Init => SentAhead /\ (Orderly => Steps)
  BY InitSteps
<1>2. Types /\ SentAhead /\ (Orderly => Steps) /\ [Next]_vars => SentAhead' /\ (Orderly => Steps)'
  <2>1. SUFFICES ASSUME Types, SentAhead, Orderly => Steps, [Next]_vars
                 PROVE  SentAhead' /\ (Orderly => Steps)'
    OBVIOUS
  <2>2. SentAhead'
    BY <2>1, AnswersGrow, SentAheadStays
  <2>3. ASSUME Orderly'
        PROVE  Steps'
    <3>1. Orderly /\ Steps
      BY <2>1, <2>3, NextGrows, OrderlyBefore
    <3>2. CASE Child
      BY <2>1, <2>3, <3>1, <3>2, ChildKeepsSteps
    <3>3. CASE (\E r \in Request : Ask(r)) \/ Send \/ Drop \/ HangUp \/ RequestExit \/ UNCHANGED vars
      BY <2>1, <3>1, <3>3, ClientKeepsSteps
    <3>4. QED
      BY <2>1, <3>2, <3>3 DEF Next
  <2>4. QED
    BY <2>2, <2>3
<1>3. QED
  BY <1>1, <1>2, TypesInv, PTL DEF Spec

\* These types are those the run checks.
LEMMA TypesTypeOK ==
  ASSUME SessionAssumption, Types
  PROVE  TypeOK
<1>1. Len(reqs) \in Nat /\ MaxReq \in Nat /\ Len(reqs) <= MaxReq
  BY ComingType DEF SessionAssumption, Types, ClientTypes
<1>2. 1 .. Len(reqs) \subseteq 1 .. MaxReq /\ 0 .. Len(reqs) \subseteq 0 .. MaxReq /\ 2 .. Len(reqs) \subseteq 1 .. MaxReq
  BY <1>1, SMT
<1>3. Sent \subseteq Token
  BY <1>2 DEF Sent, Token, PartName
<1>4. out \in Seq(Token) /\ wire \in Seq(Token) /\ buf \in Seq(Token) /\ saved \in Seq(Token)
  BY <1>3, SeqMono DEF Types, ClientTypes, ChildTypes
<1>5. answers \in Seq([req : 0 .. MaxReq, code : Codes, keep : BOOLEAN])
  <2>1. Answer \subseteq [req : 0 .. MaxReq, code : Codes, keep : BOOLEAN]
    BY <1>2 DEF Answer
  <2>2. QED
    BY <2>1, SeqMono DEF Types, ChildTypes
<1>6. QED
  BY <1>2, <1>4, <1>5 DEF TypeOK, Types, ClientTypes, ChildTypes, Pcs, Response

\* Client and server are in step, whatever is sent ahead and however reads cut
\* the messages.
THEOREM InStepCorrect ==
  ASSUME SessionAssumption
  PROVE  Spec => []InStep
<1>1. Types /\ (Orderly => Steps) => InStep
  <2>1. SUFFICES ASSUME Types, Orderly => Steps
                 PROVE  TypeOK /\ (Orderly => InTurn /\ Stored)
    BY DEF InStep
  <2>2. Steps => InTurn /\ Stored
    BY DEF Steps, InPlace, Excused, InTurn, Place, Answering, Stored
  <2>3. QED
    BY <2>1, <2>2, TypesTypeOK
<1>2. QED
  BY <1>1, TypesInv, StepsInv, PTL
-----------------------------------------------------------------------------
(* The calls that read and write *)

Ops == {"read", "write", "writev", "save", "send", "gets", "drain"}
Errno == {"", "ETIMEDOUT", "EAGAIN"}

Call ==
  [op : Ops \cup {"none"}, want : Nat, loop : {"none", "in", "out", "read", "wrote"},
   limit : Nat, got : Seq(Byte), total : Nat, text : Seq(Byte), taken : Seq(Byte),
   given : Seq(Byte), timed : BOOLEAN, cut : BOOLEAN, entry : Errno, ret : Int]

IoTypes ==
  /\ errno \in Errno /\ call \in Call /\ done \in Call
  /\ peer \in [data : Seq(Byte), eof : BOOLEAN, reset : BOOLEAN]

-----------------------------------------------------------------------------
(* The invariant of a call that runs *)

Slow(c) == c.timed \/ c.cut

Into == {"in", "read"}
OutOf == {"out", "wrote"}

Follows(given, taken) == \A i \in 1 .. Len(given) : given[i] = taken[i]

\* Text is what is in the first m bytes without the ends of lines.
Plain(taken, m) == {i \in 1 .. m : taken[i] \notin {CR, LF}}

LineOf(text, taken, m) ==
  /\ Len(text) = Cardinality(Plain(taken, m))
  /\ \A i \in Plain(taken, m) : text[Cardinality(Plain(taken, i))] = taken[i]

\* An inner loop that stopped writing before its limit was slow or cut short.
Shape(c) ==
  /\ c.want > 0 /\ c.limit > 0 /\ Len(c.got) <= c.limit
  /\ c.op \in {"read", "gets", "drain"} => c.loop \in Into
  /\ c.op \in {"write", "writev"} => c.loop \in OutOf
  /\ c.op \in {"send", "save"} => c.loop \in Into \cup OutOf
  /\ c.loop = "wrote" /\ Len(c.got) < c.limit => Slow(c)

Reads(c) == c.op = "read" => c.taken = c.got

\* The bytes before this one are a line without an end, and there is room.
Gets(c) ==
  c.op = "gets" =>
    /\ c.limit = 1 /\ c.total + 2 <= c.want
    /\ Len(c.taken) = c.total + Len(c.got)
    /\ Len(c.got) = 1 => c.taken[c.total + 1] = c.got[1]
    /\ \A i \in 1 .. c.total : c.taken[i] # LF
    /\ LineOf(c.text, c.taken, c.total)

\* A send that reads has given all that it took before; its chunks fit.
Sends(c) ==
  c.op \in {"send", "save"} =>
    /\ c.total + c.limit <= c.want
    /\ c.loop \in Into => /\ Len(c.taken) = c.total + Len(c.got)
                          /\ Len(c.given) = c.total /\ Follows(c.given, c.taken)
    /\ c.loop \in OutOf => Len(c.taken) = c.total + c.limit

Writes(c) == c.op = "write" => c.total = 0 /\ c.limit = c.want /\ Len(c.taken) = c.want

Vectors(c) ==
  c.op = "writev" =>
    /\ c.limit = c.want /\ c.total <= c.want
    /\ \/ Len(c.taken) = c.want /\ c.total = 0
       \/ Len(c.taken) = 2 * c.want /\ c.total > 0

\* What is given are the first bytes of what was taken, unless an earlier part
\* was not given as a whole.
Gives(c) ==
  c.loop \in OutOf =>
    /\ Len(c.given) = c.total + Len(c.got)
    /\ c.total = Len(c.taken) - c.limit => Follows(c.given, c.taken)
    /\ c.total # Len(c.taken) - c.limit => Slow(c)

Running(c) == Shape(c) /\ Reads(c) /\ Gets(c) /\ Sends(c) /\ Writes(c) /\ Vectors(c) /\ Gives(c)

\* SaysWhatItDid of any call that is done.
CountedOf(c) ==
  /\ c.ret > 0 => c.ret = Len(IF c.op \in {"read", "gets"} THEN c.taken ELSE c.given)
  /\ c.op \in {"read", "gets"} /\ c.ret <= 0 => c.taken = <<>>
  /\ c.op \in {"write", "writev", "send", "save"} /\ c.ret <= 0 => c.given = <<>>
  /\ c.op \in {"write", "send", "save"} =>
       /\ Len(c.given) <= Len(c.taken)
       /\ \A i \in 1 .. Len(c.given) : c.given[i] = c.taken[i]
       /\ Len(c.taken) <= c.want
       /\ c.taken # c.given => c.ret < c.want /\ (c.cut \/ c.timed)
  /\ c.op = "writev" /\ c.taken # c.given => c.ret < 2 * c.want /\ (c.cut \/ c.timed)

ZeroOf(c) ==
  c.ret = 0 /\ c.op \notin {"none", "drain", "writev"} => c.timed \/ c.entry = "ETIMEDOUT"

OneLineOf(c) ==
  c.op = "gets" =>
    /\ \A i \in 1 .. Len(c.taken) - 1 : c.taken[i] # LF
    /\ LineOf(c.text, c.taken, Len(c.taken))
    /\ Len(c.taken) < c.want \/ c.ret = -1

TruthOf(c) == CountedOf(c) /\ ZeroOf(c) /\ OneLineOf(c)

\* An errno that says that time ran out is of this call, or was there before.
Blamed == call.op # "none" /\ errno = "ETIMEDOUT" => call.timed \/ call.entry = "ETIMEDOUT"

\* A read of the drain that got nothing found the end.
Drained ==
  call.op = "drain" /\ call.loop = "read" /\ call.got = <<>> /\ ~call.timed /\ ~call.cut =>
    peer.data = <<>> /\ peer.eof

IoInv ==
  /\ IoTypes
  /\ call.op = "none" => call.loop = "none"
  /\ call.op # "none" => Running(call)
  /\ Blamed /\ Drained
  /\ TruthOf(done)

-----------------------------------------------------------------------------
(* Lines *)

\* One byte more is plain or not.
LEMMA PlainGrows ==
  ASSUME NEW taken, NEW m \in Nat
  PROVE  /\ IsFiniteSet(Plain(taken, m)) /\ Cardinality(Plain(taken, m)) \in Nat
         /\ taken[m + 1] \in {CR, LF} =>
              Cardinality(Plain(taken, m + 1)) = Cardinality(Plain(taken, m))
         /\ taken[m + 1] \notin {CR, LF} =>
              Cardinality(Plain(taken, m + 1)) = Cardinality(Plain(taken, m)) + 1
<1> DEFINE P == Plain(taken, m)
           Q == Plain(taken, m + 1)
<1>1. IsFiniteSet(P) /\ Cardinality(P) \in Nat
  <2>1. IsFiniteSet(1 .. m)
    BY FS_Interval
  <2>2. P \subseteq 1 .. m
    BY DEF Plain
  <2>3. IsFiniteSet(P)
    BY <2>1, <2>2, FS_Subset
  <2> QED
    BY <2>3, FS_CardinalityType
<1>2. taken[m + 1] \in {CR, LF} => Q = P
  BY DEF Plain
<1>3. ASSUME taken[m + 1] \notin {CR, LF} PROVE Cardinality(Q) = Cardinality(P) + 1
  <2>1. Q = P \cup {m + 1} /\ m + 1 \notin P
    BY <1>3 DEF Plain
  <2> HIDE DEF P, Q
  <2> QED
    BY <1>1, <2>1, FS_AddElement
<1> QED
  BY <1>1, <1>2, <1>3

\* A plain byte among the first m has a place among the plain ones.
LEMMA PlainPlace ==
  ASSUME NEW taken, NEW m \in Nat, NEW i \in Plain(taken, m)
  PROVE  Cardinality(Plain(taken, i)) \in 1 .. Cardinality(Plain(taken, m))
<1> DEFINE P == Plain(taken, m)
           Q == Plain(taken, i)
<1>1. i \in Nat /\ i <= m /\ i \in Q /\ Q \subseteq P
  BY DEF Plain
<1>2. IsFiniteSet(P) /\ Cardinality(P) \in Nat
  BY PlainGrows
<1>3. IsFiniteSet(Q) /\ Cardinality(Q) \in Nat
  <2> HIDE DEF P
  <2> QED
    BY <1>1, PlainGrows
<1> HIDE DEF P, Q
<1>4. Cardinality(Q) <= Cardinality(P)
  BY <1>1, <1>2, FS_Subset
<1>5. Cardinality(Q) # 0
  BY <1>1, <1>3, FS_EmptySet
<1>6. Cardinality(Q) \in 1 .. Cardinality(P)
  BY <1>2, <1>3, <1>4, <1>5
<1> QED
  BY <1>6 DEF P, Q

\* What is plain does not depend on what comes later.
LEMMA PlainSame ==
  ASSUME NEW s, NEW t, NEW m \in Nat, \A i \in 1 .. m : s[i] = t[i], NEW text
  PROVE  LineOf(text, s, m) => LineOf(text, t, m)
<1>1. \A i \in 0 .. m : Plain(s, i) = Plain(t, i)
  BY DEF Plain
<1>2. Plain(s, m) = Plain(t, m)
  BY <1>1
<1>3. \A i \in Plain(t, m) : i \in 1 .. m /\ Plain(s, i) = Plain(t, i)
  BY <1>1 DEF Plain
<1> QED
  BY <1>2, <1>3 DEF LineOf

\* The line is one byte longer, or its end has come.
LEMMA LineGrows ==
  ASSUME NEW text \in Seq(Byte), NEW taken \in Seq(Byte), NEW m \in Nat, m < Len(taken),
         LineOf(text, taken, m),
         NEW more, more = IF taken[m + 1] \in {CR, LF} THEN text ELSE Append(text, taken[m + 1])
  PROVE  LineOf(more, taken, m + 1)
<1> DEFINE b == taken[m + 1]
           P == Plain(taken, m)
           Q == Plain(taken, m + 1)
<1>1. /\ Cardinality(P) \in Nat
      /\ b \in {CR, LF} => Cardinality(Q) = Cardinality(P)
      /\ b \notin {CR, LF} => Cardinality(Q) = Cardinality(P) + 1
  BY PlainGrows
<1>2. b \in Byte /\ Len(text) = Cardinality(P)
  BY DEF LineOf
<1>3. \A i \in P : text[Cardinality(Plain(taken, i))] = taken[i]
  BY DEF LineOf
<1>4. CASE b \in {CR, LF}
  <2>1. Q = P
    BY <1>4 DEF Plain
  <2>2. more = text
    BY <1>4
  <2> QED
    BY <2>1, <2>2 DEF LineOf
<1>5. CASE b \notin {CR, LF}
  <2>1. more = Append(text, b)
    BY <1>5
  <2>2. Len(more) = Cardinality(Q)
    <3> HIDE DEF b, P, Q
    <3> QED
      BY <1>1, <1>2, <1>5, <2>1
  <2>3. ASSUME NEW i \in Q PROVE more[Cardinality(Plain(taken, i))] = taken[i]
    <3>1. CASE i = m + 1
      <4>1. more[Cardinality(Q)] = b
        <5> HIDE DEF b, P, Q
        <5> QED
          BY <1>1, <1>2, <1>5, <2>1
      <4> QED
        BY <3>1, <4>1
    <3>2. CASE i # m + 1
      <4>1. i \in P
        BY <3>2 DEF Plain
      <4>2. Cardinality(Plain(taken, i)) \in 1 .. Len(text)
        BY <1>2, <4>1, PlainPlace
      <4>3. \A k \in 1 .. Len(text) : more[k] = text[k]
        <5> HIDE DEF b
        <5> QED
          BY <1>2, <2>1
      <4> QED
        BY <1>3, <4>1, <4>2, <4>3
    <3> QED
      BY <3>1, <3>2
  <2> QED
    BY <2>2, <2>3 DEF LineOf
<1> QED
  BY <1>4, <1>5

-----------------------------------------------------------------------------
(* What the steps make of a call *)

\* The history of r goes on from that of c.
Keeps(c, r) ==
  /\ r \in Call /\ r.op = c.op /\ r.want = c.want /\ r.entry = c.entry
  /\ c.timed => r.timed
  /\ c.cut => r.cut

Loops(r, loop, limit, got) == r.loop = loop /\ r.limit = limit /\ r.got = got

Moved(r, total, text, taken, given) ==
  r.total = total /\ r.text = text /\ r.taken = taken /\ r.given = given

\* The types of the fields of a call.
LEMMA CallTypes ==
  ASSUME NEW c \in Call
  PROVE  /\ c.want \in Nat /\ c.limit \in Nat /\ c.total \in Nat /\ c.ret \in Int
         /\ c.got \in Seq(Byte) /\ c.text \in Seq(Byte)
         /\ c.taken \in Seq(Byte) /\ c.given \in Seq(Byte)
         /\ Len(c.got) \in Nat /\ Len(c.taken) \in Nat /\ Len(c.given) \in Nat
BY DEF Call

\* A record update changes what it names.
LEMMA GotMakes ==
  ASSUME NEW c \in Call, NEW got \in Seq(Byte), NEW taken \in Seq(Byte),
         NEW r, r = [c EXCEPT !.got = got, !.taken = taken]
  PROVE  /\ Keeps(c, r) /\ Loops(r, c.loop, c.limit, got)
         /\ Moved(r, c.total, c.text, taken, c.given)
<1>1. r \in Call
  BY ZenonT(30) DEF Call
<1>2. (c.timed => r.timed) /\ (c.cut => r.cut)
  BY SMTT(30) DEF Call
<1>3. /\ r.op = c.op /\ r.want = c.want /\ r.entry = c.entry
      /\ Loops(r, c.loop, c.limit, got) /\ Moved(r, c.total, c.text, taken, c.given)
  BY SMTT(30) DEF Call, Loops, Moved
<1> QED
  BY <1>1, <1>2, <1>3 DEF Keeps

\* The same of the bytes that are given.
LEMMA GaveMakes ==
  ASSUME NEW c \in Call, NEW got \in Seq(Byte), NEW given \in Seq(Byte),
         NEW r, r = [c EXCEPT !.got = got, !.given = given]
  PROVE  /\ Keeps(c, r) /\ Loops(r, c.loop, c.limit, got)
         /\ Moved(r, c.total, c.text, c.taken, given)
<1>1. r \in Call
  BY ZenonT(30) DEF Call
<1>2. (c.timed => r.timed) /\ (c.cut => r.cut)
  BY SMTT(30) DEF Call
<1>3. /\ r.op = c.op /\ r.want = c.want /\ r.entry = c.entry
      /\ Loops(r, c.loop, c.limit, got) /\ Moved(r, c.total, c.text, c.taken, given)
  BY SMTT(30) DEF Call, Loops, Moved
<1> QED
  BY <1>1, <1>2, <1>3 DEF Keeps

\* Another inner loop begins with nothing.
LEMMA LoopMakes ==
  ASSUME NEW c \in Call, NEW loop \in {"in", "out"}, NEW limit \in Nat,
         NEW r, r = Loop(loop, limit, c)
  PROVE  /\ Keeps(c, r) /\ Loops(r, loop, limit, <<>>)
         /\ Moved(r, c.total, c.text, c.taken, c.given)
<1>1. r = [c EXCEPT !.loop = loop, !.limit = limit, !.got = <<>>] /\ <<>> \in Seq(Byte)
  BY DEF Loop
<1>2. loop \in {"none", "in", "out", "read", "wrote"}
  OBVIOUS
<1>3. r \in Call
  BY <1>1, <1>2, ZenonT(30) DEF Call
<1>4. (c.timed => r.timed) /\ (c.cut => r.cut)
  BY <1>1, SMTT(30) DEF Call
<1>5. /\ r.op = c.op /\ r.want = c.want /\ r.entry = c.entry
      /\ Loops(r, loop, limit, <<>>) /\ Moved(r, c.total, c.text, c.taken, c.given)
  BY <1>1, SMTT(30) DEF Call, Loops, Moved
<1> QED
  BY <1>3, <1>4, <1>5 DEF Keeps

\* An inner loop ends.
LEMMA BackMakes ==
  ASSUME NEW c \in Call, NEW to \in {"read", "wrote"},
         NEW r, r = [c EXCEPT !.loop = to]
  PROVE  /\ Keeps(c, r) /\ Loops(r, to, c.limit, c.got)
         /\ Moved(r, c.total, c.text, c.taken, c.given)
<1>1. r \in Call
  BY ZenonT(30) DEF Call
<1>2. (c.timed => r.timed) /\ (c.cut => r.cut)
  BY SMTT(30) DEF Call
<1>3. /\ r.op = c.op /\ r.want = c.want /\ r.entry = c.entry
      /\ Loops(r, to, c.limit, c.got) /\ Moved(r, c.total, c.text, c.taken, c.given)
  BY SMTT(30) DEF Call, Loops, Moved
<1> QED
  BY <1>1, <1>2, <1>3 DEF Keeps

\* The call was cut short.
LEMMA CutMakes ==
  ASSUME NEW c \in Call, NEW r, r = [c EXCEPT !.cut = TRUE]
  PROVE  /\ Keeps(c, r) /\ r.cut /\ Loops(r, c.loop, c.limit, c.got)
         /\ Moved(r, c.total, c.text, c.taken, c.given)
<1>1. r \in Call
  BY ZenonT(30) DEF Call
<1>2. (c.timed => r.timed) /\ (c.cut => r.cut) /\ r.cut
  BY SMTT(30) DEF Call
<1>3. /\ r.op = c.op /\ r.want = c.want /\ r.entry = c.entry
      /\ Loops(r, c.loop, c.limit, c.got) /\ Moved(r, c.total, c.text, c.taken, c.given)
  BY SMTT(30) DEF Call, Loops, Moved
<1> QED
  BY <1>1, <1>2, <1>3 DEF Keeps

\* The call ran out of time.
LEMMA TimedMakes ==
  ASSUME NEW c \in Call, NEW r, r = [c EXCEPT !.timed = TRUE]
  PROVE  /\ Keeps(c, r) /\ r.timed /\ Loops(r, c.loop, c.limit, c.got)
         /\ Moved(r, c.total, c.text, c.taken, c.given)
<1>1. r \in Call
  BY ZenonT(30) DEF Call
<1>2. (c.timed => r.timed) /\ (c.cut => r.cut) /\ r.timed
  BY SMTT(30) DEF Call
<1>3. /\ r.op = c.op /\ r.want = c.want /\ r.entry = c.entry
      /\ Loops(r, c.loop, c.limit, c.got) /\ Moved(r, c.total, c.text, c.taken, c.given)
  BY SMTT(30) DEF Call, Loops, Moved
<1> QED
  BY <1>1, <1>2, <1>3 DEF Keeps

\* More is done.
LEMMA TotalMakes ==
  ASSUME NEW c \in Call, NEW total \in Nat,
         NEW r, r = [c EXCEPT !.total = total]
  PROVE  /\ Keeps(c, r) /\ Loops(r, c.loop, c.limit, c.got)
         /\ Moved(r, total, c.text, c.taken, c.given)
<1>1. r \in Call
  BY ZenonT(30) DEF Call
<1>2. (c.timed => r.timed) /\ (c.cut => r.cut)
  BY SMTT(30) DEF Call
<1>3. /\ r.op = c.op /\ r.want = c.want /\ r.entry = c.entry
      /\ Loops(r, c.loop, c.limit, c.got) /\ Moved(r, total, c.text, c.taken, c.given)
  BY SMTT(30) DEF Call, Loops, Moved
<1> QED
  BY <1>1, <1>2, <1>3 DEF Keeps

\* More is done, and the line is longer.
LEMMA TextMakes ==
  ASSUME NEW c \in Call, NEW total \in Nat, NEW text \in Seq(Byte),
         NEW r, r = [c EXCEPT !.total = total, !.text = text]
  PROVE  /\ Keeps(c, r) /\ Loops(r, c.loop, c.limit, c.got)
         /\ Moved(r, total, text, c.taken, c.given)
<1>1. r \in Call
  BY ZenonT(30) DEF Call
<1>2. (c.timed => r.timed) /\ (c.cut => r.cut)
  BY SMTT(30) DEF Call
<1>3. /\ r.op = c.op /\ r.want = c.want /\ r.entry = c.entry
      /\ Loops(r, c.loop, c.limit, c.got) /\ Moved(r, total, text, c.taken, c.given)
  BY SMTT(30) DEF Call, Loops, Moved
<1> QED
  BY <1>1, <1>2, <1>3 DEF Keeps

\* The second vector is taken.
LEMMA TakenMakes ==
  ASSUME NEW c \in Call, NEW total \in Nat, NEW taken \in Seq(Byte),
         NEW r, r = [c EXCEPT !.total = total, !.taken = taken]
  PROVE  /\ Keeps(c, r) /\ Loops(r, c.loop, c.limit, c.got)
         /\ Moved(r, total, c.text, taken, c.given)
<1>1. r \in Call
  BY ZenonT(30) DEF Call
<1>2. (c.timed => r.timed) /\ (c.cut => r.cut)
  BY SMTT(30) DEF Call
<1>3. /\ r.op = c.op /\ r.want = c.want /\ r.entry = c.entry
      /\ Loops(r, c.loop, c.limit, c.got) /\ Moved(r, total, c.text, taken, c.given)
  BY SMTT(30) DEF Call, Loops, Moved
<1> QED
  BY <1>1, <1>2, <1>3 DEF Keeps

\* The call is over.
LEMMA ReturnMakes ==
  ASSUME NEW c \in Call, NEW n \in Int,
         NEW r, r = [c EXCEPT !.ret = n, !.loop = "none"]
  PROVE  /\ Keeps(c, r) /\ r.ret = n
         /\ Moved(r, c.total, c.text, c.taken, c.given)
<1>1. r \in Call
  BY ZenonT(30) DEF Call
<1>2. (c.timed => r.timed) /\ (c.cut => r.cut)
  BY SMTT(30) DEF Call
<1>3. /\ r.op = c.op /\ r.want = c.want /\ r.entry = c.entry /\ r.ret = n
      /\ Moved(r, c.total, c.text, c.taken, c.given)
  BY SMTT(30) DEF Call, Loops, Moved
<1> QED
  BY <1>1, <1>2, <1>3 DEF Keeps

\* No call runs; nothing can be said wrong of none.
LEMMA IdleIs ==
  /\ Idle \in Call /\ Idle.op = "none" /\ Idle.loop = "none" /\ TruthOf(Idle)
<1>1. <<>> \in Seq(Byte)
  OBVIOUS
<1>2. Idle \in Call /\ Idle.op = "none" /\ Idle.loop = "none" /\ Idle.ret = 0
  BY <1>1 DEF Call, Idle, Errno
<1> QED
  BY <1>2 DEF TruthOf, CountedOf, ZeroOf, OneLineOf

\* The call that begins.
Begun(op, n, e) == [Idle EXCEPT !.op = op, !.want = n, !.entry = e]

\* The record of a call that begins.
LEMMA BeginMakes ==
  ASSUME NEW op \in Ops, NEW n \in Nat, NEW e \in Errno, NEW c, c = Begun(op, n, e)
  PROVE  /\ c \in Call /\ c.op = op /\ c.want = n /\ c.entry = e /\ c.ret = 0
         /\ Loops(c, "none", 0, <<>>) /\ Moved(c, 0, <<>>, <<>>, <<>>)
<1>0. c = [Idle EXCEPT !.op = op, !.want = n, !.entry = e]
  BY DEF Begun
<1>1. op \in Ops \cup {"none"}
  OBVIOUS
<1>2. c \in Call
  BY <1>0, <1>1, IdleIs, ZenonT(30) DEF Call
<1>3. c.op = op /\ c.want = n /\ c.entry = e /\ c.ret = 0
  BY <1>0, SMTT(30) DEF Idle
<1>4. Loops(c, "none", 0, <<>>) /\ Moved(c, 0, <<>>, <<>>, <<>>)
  BY <1>0, SMTT(30) DEF Loops, Moved, Idle
<1> QED
  BY <1>2, <1>3, <1>4

-----------------------------------------------------------------------------
(* The inner loops keep Running *)

\* What Running says of a sequence of bytes.
LEMMA SeqFacts ==
  ASSUME NEW s \in Seq(Byte), NEW b \in Seq(Byte)
  PROVE  /\ s \o b \in Seq(Byte) /\ Len(s \o b) = Len(s) + Len(b)
         /\ \A i \in 1 .. Len(s) : (s \o b)[i] = s[i]
         /\ \A i \in 1 .. Len(b) : (s \o b)[Len(s) + i] = b[i]
OBVIOUS

\* An inner loop that ends; one that wrote too little was slow or cut short.
LEMMA BackIsRunning ==
  ASSUME NEW c \in Call, NEW r, Running(c), c.loop \in {"in", "out"},
         NEW to, to = IF c.loop = "in" THEN "read" ELSE "wrote",
         Keeps(c, r), Loops(r, to, c.limit, c.got),
         Moved(r, c.total, c.text, c.taken, c.given),
         c.loop = "out" /\ Len(c.got) < c.limit => Slow(r)
  PROVE  Running(r)
<1>1. /\ r.op = c.op /\ r.want = c.want /\ r.loop = to /\ r.limit = c.limit /\ r.got = c.got
      /\ r.total = c.total /\ r.text = c.text /\ r.taken = c.taken /\ r.given = c.given
  BY DEF Keeps, Loops, Moved
<1>2. /\ to \in Into <=> c.loop \in Into
      /\ to \in OutOf <=> c.loop \in OutOf
      /\ to = "wrote" => c.loop = "out"
  BY DEF Into, OutOf
<1>3. Slow(c) => Slow(r)
  BY DEF Keeps, Slow
<1>4. Shape(r)
  BY <1>1, <1>2 DEF Running, Shape
<1>5. Reads(r)
  BY <1>1 DEF Running, Reads
<1>6. Gets(r)
  BY <1>1 DEF Running, Gets
<1>7. Sends(r)
  BY <1>1, <1>2 DEF Running, Sends
<1>8. Writes(r) /\ Vectors(r)
  BY <1>1 DEF Running, Writes, Vectors
<1>9. Gives(r)
  BY <1>1, <1>2, <1>3 DEF Running, Gives
<1> QED
  BY <1>4, <1>5, <1>6, <1>7, <1>8, <1>9 DEF Running

\* What is read is taken.
LEMMA ReadIsRunning ==
  ASSUME NEW c \in Call, NEW r, Running(c), c.loop = "in",
         NEW b \in Seq(Byte), Len(b) > 0, Len(b) <= c.limit - Len(c.got),
         NEW got, got = c.got \o b, NEW taken, taken = c.taken \o b,
         Keeps(c, r), Loops(r, c.loop, c.limit, got),
         Moved(r, c.total, c.text, taken, c.given)
  PROVE  Running(r)
<1>1. /\ r.op = c.op /\ r.want = c.want /\ r.loop = "in" /\ r.limit = c.limit /\ r.got = got
      /\ r.total = c.total /\ r.text = c.text /\ r.taken = taken /\ r.given = c.given
  BY DEF Keeps, Loops, Moved
<1>2. /\ c.limit \in Nat /\ c.total \in Nat /\ c.want \in Nat /\ Len(c.got) \in Nat
      /\ Len(c.taken) \in Nat /\ Len(c.given) \in Nat /\ Len(b) \in Nat
  BY CallTypes
<1>3. /\ Len(got) = Len(c.got) + Len(b)
      /\ \A i \in 1 .. Len(b) : got[Len(c.got) + i] = b[i]
  BY CallTypes, SeqFacts
<1>4. /\ Len(taken) = Len(c.taken) + Len(b)
      /\ \A i \in 1 .. Len(c.taken) : taken[i] = c.taken[i]
      /\ \A i \in 1 .. Len(b) : taken[Len(c.taken) + i] = b[i]
  BY CallTypes, SeqFacts
<1>5. Shape(r)
  BY <1>1, <1>2, <1>3 DEF Running, Shape, Into, OutOf
<1>6. Reads(r)
  BY <1>1 DEF Running, Reads
<1>7. Gets(r)
  <2> SUFFICES ASSUME c.op = "gets" PROVE Gets(r)
    BY <1>1 DEF Gets
  <2>1. /\ c.limit = 1 /\ c.total + 2 <= c.want /\ Len(c.taken) = c.total + Len(c.got)
        /\ \A i \in 1 .. c.total : c.taken[i] # LF
        /\ LineOf(c.text, c.taken, c.total)
    BY DEF Running, Gets
  <2>2. Len(b) = 1 /\ Len(c.got) = 0 /\ Len(c.taken) = c.total
    <3>1. Len(b) <= 1 - Len(c.got)
      BY <2>1
    <3>2. \A x, y \in Nat : x > 0 /\ x <= 1 - y => x = 1 /\ y = 0
      BY SMT
    <3>3. Len(b) = 1 /\ Len(c.got) = 0
      BY <1>2, <3>1, <3>2
    <3> QED
      BY <1>2, <2>1, <3>3
  <2>3. Len(taken) = c.total + Len(got)
    BY <1>2, <1>3, <1>4, <2>2
  <2>4. taken[c.total + 1] = b[1] /\ got[1] = b[1]
    BY <1>2, <1>3, <1>4, <2>2
  <2>5. \A i \in 1 .. c.total : c.taken[i] = taken[i]
    BY <1>4, <2>2
  <2>6. LineOf(c.text, taken, c.total)
    BY <1>2, <2>1, <2>5, PlainSame
  <2>7. \A i \in 1 .. c.total : taken[i] # LF
    BY <2>1, <2>5
  <2> QED
    BY <1>1, <2>1, <2>3, <2>4, <2>6, <2>7 DEF Gets
<1>8. Sends(r)
  <2> SUFFICES ASSUME c.op \in {"send", "save"} PROVE Sends(r)
    BY <1>1 DEF Sends
  <2>1. /\ c.total + c.limit <= c.want /\ Len(c.taken) = c.total + Len(c.got)
        /\ Len(c.given) = c.total /\ Follows(c.given, c.taken)
    BY DEF Running, Sends, Into
  <2>2. Follows(c.given, taken)
    BY <1>2, <1>4, <2>1 DEF Follows
  <2>3. Len(taken) = c.total + Len(got)
    BY <1>2, <1>3, <1>4, <2>1
  <2>4. "in" \notin OutOf
    BY DEF OutOf
  <2> QED
    BY <1>1, <2>1, <2>2, <2>3, <2>4 DEF Sends
<1>9. Writes(r) /\ Vectors(r)
  BY <1>1 DEF Running, Shape, Writes, Vectors, OutOf
<1>10. Gives(r)
  BY <1>1 DEF Gives, OutOf
<1> QED
  BY <1>5, <1>6, <1>7, <1>8, <1>9, <1>10 DEF Running

\* What is left to write was taken.
LEMMA LeftWasTaken ==
  ASSUME NEW c \in Call, Running(c), c.loop \in OutOf, c.op # "none"
  PROVE  c.limit <= Len(c.taken) /\ c.op \in {"write", "writev", "send", "save"}
<1>1. c.want \in Nat /\ c.limit \in Nat /\ c.total \in Nat /\ Len(c.taken) \in Nat
  BY CallTypes
<1>2. c.op \in {"none", "write", "writev", "send", "save"}
  BY DEF Running, Shape, Call, Ops, Into, OutOf
<1>3. c.op # "none" => c.limit <= Len(c.taken)
  BY <1>1, <1>2 DEF Running, Writes, Vectors, Sends
<1> QED
  BY <1>2, <1>3


\* What is given are the next bytes of what was taken.
LEMMA GaveIsRunning ==
  ASSUME NEW c \in Call, NEW r, Running(c), c.loop = "out", c.op # "none",
         NEW n \in Nat, n > 0, n <= c.limit - Len(c.got),
         NEW from, from = Len(c.taken) - c.limit + Len(c.got),
         NEW b \in Seq(Byte), Len(b) = n, \A i \in 1 .. n : b[i] = c.taken[from + i],
         NEW got, got = c.got \o b, NEW given, given = c.given \o b,
         Keeps(c, r), Loops(r, c.loop, c.limit, got),
         Moved(r, c.total, c.text, c.taken, given)
  PROVE  Running(r)
<1>1. /\ r.op = c.op /\ r.want = c.want /\ r.loop = "out" /\ r.limit = c.limit /\ r.got = got
      /\ r.total = c.total /\ r.text = c.text /\ r.taken = c.taken /\ r.given = given
  BY DEF Keeps, Loops, Moved
<1>2. /\ c.limit \in Nat /\ c.total \in Nat /\ c.want \in Nat /\ Len(c.got) \in Nat
      /\ Len(c.taken) \in Nat /\ Len(c.given) \in Nat
  BY CallTypes
<1>3. Len(got) = Len(c.got) + n
  BY CallTypes, SeqFacts
<1>4. /\ Len(given) = Len(c.given) + n
      /\ \A i \in 1 .. Len(c.given) : given[i] = c.given[i]
      /\ \A i \in 1 .. n : given[Len(c.given) + i] = b[i]
  BY CallTypes, SeqFacts
<1>5. "out" \in OutOf /\ "out" \notin Into
  BY DEF OutOf, Into
<1>6. c.op \in {"write", "writev", "send", "save"}
  BY <1>5, LeftWasTaken
<1>7. /\ Len(c.given) = c.total + Len(c.got)
      /\ c.total = Len(c.taken) - c.limit => Follows(c.given, c.taken)
      /\ c.total # Len(c.taken) - c.limit => Slow(c)
  BY <1>5 DEF Running, Gives
<1>8. Shape(r)
  <2>1. Len(got) <= c.limit
    BY <1>2, <1>3
  <2> QED
    BY <1>1, <1>5, <2>1 DEF Running, Shape
<1>9. Reads(r) /\ Gets(r)
  BY <1>1, <1>6 DEF Reads, Gets
<1>10. Sends(r)
  BY <1>1, <1>5 DEF Running, Sends
<1>11. Writes(r) /\ Vectors(r)
  BY <1>1 DEF Running, Writes, Vectors
<1>12. Gives(r)
  <2>1. Len(given) = c.total + Len(got)
    BY <1>2, <1>3, <1>4, <1>7
  <2>2. Slow(c) => Slow(r)
    BY DEF Keeps, Slow
  <2>3. ASSUME c.total = Len(c.taken) - c.limit PROVE Follows(given, c.taken)
    <3>1. from = Len(c.given)
      BY <1>2, <1>7, <2>3
    <3>2. SUFFICES ASSUME NEW i \in 1 .. Len(given) PROVE given[i] = c.taken[i]
      BY DEF Follows
    <3>3. CASE i <= Len(c.given)
      <4>1. i \in 1 .. Len(c.given)
        BY <1>2, <3>3
      <4> QED
        BY <1>4, <1>7, <2>3, <4>1 DEF Follows
    <3>4. CASE ~(i <= Len(c.given))
      <4> DEFINE k == i - Len(c.given)
      <4>1. k \in 1 .. n /\ i = Len(c.given) + k
        BY <1>2, <1>4, <3>4
      <4> HIDE DEF k
      <4>2. given[Len(c.given) + k] = b[k] /\ b[k] = c.taken[from + k]
        BY <1>4, <4>1
      <4> QED
        BY <3>1, <4>1, <4>2
    <3> QED
      BY <3>3, <3>4
  <2> QED
    BY <1>1, <1>7, <2>1, <2>2, <2>3 DEF Gives
<1> QED
  BY <1>8, <1>9, <1>10, <1>11, <1>12 DEF Running

-----------------------------------------------------------------------------
(* The inner loops that a call begins *)

\* What is written is bytes of the caller.
Filled(c, n) == [c EXCEPT !.taken = [i \in 1 .. n |-> CR]]

\* The first inner loop of r, with n bytes to do.
Begins(op, n, c, r, limit) ==
  /\ limit > 0 /\ (limit <= n \/ op = "drain")
  /\ op \in {"write", "writev", "read"} => limit = n
  /\ op = "gets" => limit = 1
  /\ op \in {"read", "save", "send", "gets", "drain"} => r = Loop("in", limit, c)
  /\ op \in {"write", "writev"} => r = Loop("out", limit, Filled(c, n))

\* What FirstLoop begins for each call.
LEMMA FirstLoopIs ==
  ASSUME QIoAssumption, NEW op \in Ops, NEW n \in Nat, n > 0, NEW c \in Call,
         NEW r, r = FirstLoop(op, n, c)
  PROVE  \E limit \in Nat : Begins(op, n, c, r, limit)
<1> DEFINE limit == CASE op \in {"send", "save"} -> (IF n <= Chunk THEN n ELSE Chunk)
                      [] op = "gets" -> 1
                      [] op = "drain" -> Chunk
                      [] OTHER -> n
<1>1. Chunk \in Nat /\ Chunk > 0
  BY DEF QIoAssumption
<1>2. limit \in Nat /\ limit > 0 /\ (limit <= n \/ op = "drain")
  BY <1>1 DEF Ops
<1>3. /\ op \in {"write", "writev", "read"} => limit = n
      /\ op = "gets" => limit = 1
  OBVIOUS
<1>4. op \in {"read", "save", "send", "gets", "drain"} => r = Loop("in", limit, c)
  BY DEF FirstLoop
<1>5. op \in {"write", "writev"} => r = Loop("out", limit, Filled(c, n))
  BY DEF FirstLoop, Filled
<1> QED
  BY <1>2, <1>3, <1>4, <1>5 DEF Begins

\* What a call has to be for another inner loop of so many bytes.
MayRead(c, limit) ==
  /\ c.want > 0 /\ limit > 0 /\ c.op \in {"read", "gets", "drain", "send", "save"}
  /\ c.op = "read" => c.taken = <<>>
  /\ c.op = "gets" =>
       /\ limit = 1 /\ c.total + 2 <= c.want /\ Len(c.taken) = c.total
       /\ \A i \in 1 .. c.total : c.taken[i] # LF
       /\ LineOf(c.text, c.taken, c.total)
  /\ c.op \in {"send", "save"} =>
       /\ c.total + limit <= c.want
       /\ Len(c.taken) = c.total /\ Len(c.given) = c.total /\ Follows(c.given, c.taken)

MayWrite(c, limit) ==
  /\ c.want > 0 /\ limit > 0 /\ c.op \in {"write", "writev", "send", "save"}
  /\ c.op = "write" => c.total = 0 /\ limit = c.want /\ Len(c.taken) = c.want
  /\ c.op = "writev" =>
       /\ limit = c.want /\ c.total <= c.want
       /\ \/ Len(c.taken) = c.want /\ c.total = 0
          \/ Len(c.taken) = 2 * c.want /\ c.total > 0
  /\ c.op \in {"send", "save"} => c.total + limit <= c.want /\ Len(c.taken) = c.total + limit
  /\ Len(c.given) = c.total
  /\ c.total = Len(c.taken) - limit => Follows(c.given, c.taken)
  /\ c.total # Len(c.taken) - limit => Slow(c)

\* Running of a call that begins to read.
LEMMA LoopInIsRunning ==
  ASSUME NEW c \in Call, NEW limit \in Nat, MayRead(c, limit), NEW r, r = Loop("in", limit, c)
  PROVE  Keeps(c, r) /\ Running(r) /\ r.loop = "in"
<1>1. /\ Keeps(c, r) /\ Loops(r, "in", limit, <<>>)
      /\ Moved(r, c.total, c.text, c.taken, c.given)
  BY LoopMakes
<1>2. /\ r.op = c.op /\ r.want = c.want /\ r.loop = "in" /\ r.limit = limit /\ r.got = <<>>
      /\ r.total = c.total /\ r.text = c.text /\ r.taken = c.taken /\ r.given = c.given
  BY <1>1 DEF Keeps, Loops, Moved
<1>3. Len(<<>>) = 0 /\ c.total \in Nat /\ c.want \in Nat /\ Len(c.taken) \in Nat
  BY CallTypes
<1>4. Shape(r)
  BY <1>2, <1>3 DEF Shape, MayRead, Into, OutOf
<1>5. Reads(r)
  BY <1>2 DEF Reads, MayRead
<1>6. Gets(r)
  BY <1>2, <1>3 DEF Gets, MayRead
<1>7. Sends(r)
  BY <1>2, <1>3 DEF Sends, MayRead, OutOf
<1>8. Writes(r) /\ Vectors(r)
  BY <1>2 DEF Writes, Vectors, MayRead
<1>9. Gives(r)
  BY <1>2 DEF Gives, OutOf
<1> QED
  BY <1>1, <1>2, <1>4, <1>5, <1>6, <1>7, <1>8, <1>9 DEF Running

\* Running of a call that begins to write.
LEMMA LoopOutIsRunning ==
  ASSUME NEW c \in Call, NEW limit \in Nat, MayWrite(c, limit), NEW r, r = Loop("out", limit, c)
  PROVE  Keeps(c, r) /\ Running(r) /\ r.loop = "out"
<1>1. /\ Keeps(c, r) /\ Loops(r, "out", limit, <<>>)
      /\ Moved(r, c.total, c.text, c.taken, c.given)
  BY LoopMakes
<1>2. /\ r.op = c.op /\ r.want = c.want /\ r.loop = "out" /\ r.limit = limit /\ r.got = <<>>
      /\ r.total = c.total /\ r.text = c.text /\ r.taken = c.taken /\ r.given = c.given
  BY <1>1 DEF Keeps, Loops, Moved
<1>3. /\ Len(<<>>) = 0 /\ c.total \in Nat /\ c.want \in Nat
      /\ Len(c.taken) \in Nat /\ Len(c.given) \in Nat
  BY CallTypes
<1>4. Slow(c) => Slow(r)
  BY <1>1 DEF Keeps, Slow
<1>5. Shape(r)
  BY <1>2, <1>3 DEF Shape, MayWrite, Into, OutOf
<1>6. Reads(r) /\ Gets(r)
  BY <1>2 DEF Reads, Gets, MayWrite
<1>7. Sends(r)
  BY <1>2, <1>3 DEF Sends, MayWrite, Into
<1>8. Writes(r) /\ Vectors(r)
  BY <1>2 DEF Writes, Vectors, MayWrite
<1>9. Gives(r)
  <2>1. /\ Len(c.given) = c.total
        /\ c.total = Len(c.taken) - limit => Follows(c.given, c.taken)
        /\ c.total # Len(c.taken) - limit => Slow(c)
    BY DEF MayWrite
  <2>2. Len(r.given) = r.total + Len(r.got)
    BY <1>2, <1>3, <2>1
  <2>3. r.total = Len(r.taken) - r.limit => Follows(r.given, r.taken)
    BY <1>2, <2>1
  <2>4. r.total # Len(r.taken) - r.limit => Slow(r)
    BY <1>2, <1>4, <2>1
  <2> QED
    BY <2>2, <2>3, <2>4 DEF Gives
<1> QED
  BY <1>1, <1>2, <1>5, <1>6, <1>7, <1>8, <1>9 DEF Running

\* All of it is taken at once.
LEMMA FilledMakes ==
  ASSUME QIoAssumption, NEW c \in Call, NEW n \in Nat, NEW r, r = Filled(c, n)
  PROVE  /\ Keeps(c, r) /\ Loops(r, c.loop, c.limit, c.got)
         /\ Moved(r, c.total, c.text, r.taken, c.given) /\ Len(r.taken) = n
<1> DEFINE s == [i \in 1 .. n |-> CR]
<1>1. s \in Seq(Byte) /\ Len(s) = n
  BY DEF QIoAssumption
<1>2. r = [c EXCEPT !.taken = s]
  BY DEF Filled
<1> HIDE DEF s
<1>3. r \in Call
  BY <1>1, <1>2, ZenonT(30) DEF Call
<1>4. (c.timed => r.timed) /\ (c.cut => r.cut)
  BY <1>2, SMTT(30) DEF Call
<1>5. /\ r.op = c.op /\ r.want = c.want /\ r.entry = c.entry /\ r.taken = s
      /\ Loops(r, c.loop, c.limit, c.got) /\ Moved(r, c.total, c.text, s, c.given)
  BY <1>2, SMTT(30) DEF Call, Loops, Moved
<1> QED
  BY <1>1, <1>3, <1>4, <1>5 DEF Keeps, Moved

\* A call that begins runs; gets with room for nothing does not begin.
LEMMA BeginIsRunning ==
  ASSUME QIoAssumption, NEW op \in Ops, NEW n \in Nat, n > 0, op = "gets" => n > 1,
         NEW e \in Errno, NEW c, c = Begun(op, n, e),
         NEW r, r = FirstLoop(op, n, c)
  PROVE  r \in Call /\ r.op = op /\ r.entry = e /\ Running(r) /\ r.loop \in {"in", "out"}
<1>1. /\ c \in Call /\ c.op = op /\ c.want = n /\ c.entry = e
      /\ Loops(c, "none", 0, <<>>) /\ Moved(c, 0, <<>>, <<>>, <<>>)
  BY BeginMakes
<1>2. c.total = 0 /\ c.text = <<>> /\ c.taken = <<>> /\ c.given = <<>> /\ Len(<<>>) = 0
  BY <1>1 DEF Moved
<1>3. PICK limit \in Nat : Begins(op, n, c, r, limit)
  BY <1>1, FirstLoopIs
<1>4. CASE op \in {"read", "save", "send", "gets", "drain"}
  <2>1. r = Loop("in", limit, c)
    BY <1>3, <1>4 DEF Begins
  <2>2. LineOf(<<>>, <<>>, 0)
    <3>1. Plain(<<>>, 0) = {}
      BY DEF Plain
    <3>2. Cardinality({}) = 0
      BY FS_EmptySet
    <3> QED
      BY <3>1, <3>2 DEF LineOf
  <2>3. Follows(<<>>, <<>>)
    BY DEF Follows
  <2>4. MayRead(c, limit)
    BY <1>1, <1>2, <1>3, <1>4, <2>2, <2>3 DEF MayRead, Begins
  <2>5. Keeps(c, r) /\ Running(r) /\ r.loop = "in"
    BY <1>1, <2>1, <2>4, LoopInIsRunning
  <2> QED
    BY <1>1, <2>5 DEF Keeps
<1>5. CASE op \in {"write", "writev"}
  <2> DEFINE d == Filled(c, n)
  <2>1. r = Loop("out", limit, d) /\ limit = n /\ limit > 0
    BY <1>3, <1>5 DEF Begins
  <2> HIDE DEF d
  <2>2. Keeps(c, d) /\ Moved(d, c.total, c.text, d.taken, c.given) /\ Len(d.taken) = n
    BY <1>1, FilledMakes DEF d
  <2>3. Follows(<<>>, d.taken)
    BY DEF Follows
  <2>4. /\ d \in Call /\ d.op = op /\ d.want = n /\ d.entry = e
        /\ d.total = 0 /\ d.given = <<>>
    BY <1>1, <1>2, <2>2 DEF Keeps, Moved
  <2>5. MayWrite(d, limit)
    BY <1>2, <1>5, <2>1, <2>2, <2>3, <2>4 DEF MayWrite
  <2>6. Keeps(d, r) /\ Running(r) /\ r.loop = "out"
    BY <2>1, <2>4, <2>5, LoopOutIsRunning
  <2> QED
    BY <2>4, <2>6 DEF Keeps
<1> QED
  BY <1>4, <1>5 DEF Ops

-----------------------------------------------------------------------------
(* What is returned *)

\* The call c returns n: r is what is then done.
Returned(c, r, n) ==
  /\ Keeps(c, r) /\ r.ret = n /\ n \in Int
  /\ Moved(r, c.total, c.text, c.taken, c.given)

\* What Result says of m bytes.
Told(c, m, n) ==
  /\ n \in Int
  /\ m > 0 => n = m
  /\ m = 0 => n <= 0 /\ (n = 0 => c.timed \/ c.entry = "ETIMEDOUT")

\* Blamed is what Result needs to tell a timeout from an error.
LEMMA ResultIsTold ==
  ASSUME Blamed, call.op # "none", NEW m \in Nat, NEW n, n = Result(m)
  PROVE  Told(call, m, n)
BY DEF Blamed, Result, Told

\* Return leaves in done what the call was, with what it returns.
LEMMA ReturnIs ==
  ASSUME NEW c \in Call, NEW n \in Int, Return(c, n)
  PROVE  Returned(c, done', n)
<1> DEFINE r == done'
<1>1. r = [c EXCEPT !.ret = n, !.loop = "none"]
  BY DEF Return
<1> HIDE DEF r
<1>2. Returned(c, r, n)
  BY <1>1, ReturnMakes DEF Returned
<1> QED
  BY <1>2 DEF r

\* Bytes that follow those taken, and are as many, are those taken.
LEMMA FollowsAll ==
  ASSUME NEW given \in Seq(Byte), NEW taken \in Seq(Byte), Follows(given, taken),
         Len(given) = Len(taken)
  PROVE  given = taken
BY SeqEqual DEF Follows

\* Only the empty sequence has no bytes.
LEMMA NoBytes ==
  \A s \in Seq(Byte) : (Len(s) = 0 <=> s = <<>>) /\ Len(s) \in Nat
OBVIOUS

\* A read returns how much it took.
LEMMA ReadTellsTruth ==
  ASSUME NEW c \in Call, Running(c), c.op = "read", NEW n, Told(c, Len(c.got), n),
         NEW r, Returned(c, r, n)
  PROVE  TruthOf(r)
<1>1. /\ r.op = "read" /\ r.ret = n /\ r.taken = c.got /\ r.entry = c.entry
      /\ (c.timed => r.timed)
  BY DEF Running, Reads, Returned, Keeps, Moved
<1>2. c.got \in Seq(Byte) /\ Len(c.got) \in Nat /\ (Len(c.got) = 0 => c.got = <<>>)
  BY CallTypes, NoBytes
<1>3. n \in Int
  BY DEF Told
<1>4. CountedOf(r)
  BY <1>1, <1>2, <1>3 DEF CountedOf, Told
<1>5. ZeroOf(r)
  BY <1>1, <1>2, <1>3 DEF ZeroOf, Told
<1>6. OneLineOf(r)
  BY <1>1 DEF OneLineOf
<1> QED
  BY <1>4, <1>5, <1>6 DEF TruthOf

\* Of a write and a send: m bytes were given, and those that were taken and
\* not given are the ones of a loop that was slow or cut short.
Gave(c, m) ==
  /\ Len(c.given) = m /\ m <= Len(c.taken) /\ Len(c.taken) <= c.want /\ c.want > 0
  /\ Follows(c.given, c.taken)
  /\ m < Len(c.taken) => Slow(c)

\* A write and a send return how much they gave.
LEMMA GaveTellsTruth ==
  ASSUME NEW c \in Call, c.op \in {"write", "send", "save"}, NEW m \in Nat, Gave(c, m),
         NEW n, Told(c, m, n), NEW r, Returned(c, r, n)
  PROVE  TruthOf(r)
<1>1. /\ r.op = c.op /\ r.ret = n /\ r.taken = c.taken /\ r.given = c.given /\ r.entry = c.entry
      /\ r.want = c.want /\ (c.timed => r.timed) /\ (c.cut => r.cut)
  BY DEF Returned, Keeps, Moved
<1>2. /\ c.given \in Seq(Byte) /\ c.taken \in Seq(Byte) /\ Len(c.given) \in Nat
      /\ Len(c.taken) \in Nat /\ c.want \in Nat
      /\ (Len(c.given) = 0 => c.given = <<>>)
  BY CallTypes, NoBytes
<1>3. n \in Int /\ (m > 0 => n = m) /\ (m = 0 => n <= 0)
  BY DEF Told
<1>4. CountedOf(r)
  <2>1. r.ret > 0 => r.ret = Len(r.given)
    BY <1>1, <1>3 DEF Gave
  <2>2. r.ret <= 0 => r.given = <<>>
    BY <1>1, <1>2, <1>3 DEF Gave
  <2>3. Len(r.given) <= Len(r.taken) /\ Len(r.taken) <= r.want
    BY <1>1 DEF Gave
  <2>4. \A i \in 1 .. Len(r.given) : r.given[i] = r.taken[i]
    BY <1>1 DEF Gave, Follows
  <2>5. ASSUME r.taken # r.given PROVE r.ret < r.want /\ (r.cut \/ r.timed)
    <3>1. Len(c.given) # Len(c.taken)
      BY <1>1, <1>2, <2>5, FollowsAll DEF Gave
    <3>2. m < Len(c.taken) /\ Slow(c)
      BY <1>2, <3>1 DEF Gave
    <3>3. m < c.want
      BY <1>2, <3>2 DEF Gave
    <3>4. n < c.want
      BY <1>2, <1>3, <3>3 DEF Gave
    <3> QED
      BY <1>1, <3>2, <3>4 DEF Slow
  <2> QED
    BY <1>1, <2>1, <2>2, <2>3, <2>4, <2>5 DEF CountedOf
<1>5. ZeroOf(r)
  BY <1>1, <1>2, <1>3 DEF ZeroOf, Told
<1>6. OneLineOf(r)
  BY <1>1 DEF OneLineOf
<1> QED
  BY <1>4, <1>5, <1>6 DEF TruthOf

\* So does a writev.
LEMMA VectorsTellTruth ==
  ASSUME NEW c \in Call, c.op = "writev", c.want > 0, NEW n \in Nat, Len(c.given) = n,
         c.taken # c.given => n < 2 * c.want /\ Slow(c),
         NEW r, Returned(c, r, n)
  PROVE  TruthOf(r)
<1>1. /\ r.op = "writev" /\ r.ret = n /\ r.taken = c.taken /\ r.given = c.given
      /\ r.want = c.want /\ (c.timed => r.timed) /\ (c.cut => r.cut)
  BY DEF Returned, Keeps, Moved
<1>2. c.given \in Seq(Byte) /\ (Len(c.given) = 0 => c.given = <<>>)
  BY CallTypes, NoBytes
<1>3. CountedOf(r)
  <2>1. r.ret <= 0 => r.given = <<>>
    BY <1>1, <1>2
  <2>2. r.taken # r.given => r.ret < 2 * r.want /\ (r.cut \/ r.timed)
    BY <1>1 DEF Slow
  <2> QED
    BY <1>1, <2>1, <2>2 DEF CountedOf
<1>4. ZeroOf(r) /\ OneLineOf(r)
  BY <1>1 DEF ZeroOf, OneLineOf
<1> QED
  BY <1>3, <1>4 DEF TruthOf

\* A drain returns nothing.
LEMMA DrainTellsTruth ==
  ASSUME NEW c \in Call, c.op = "drain", NEW r, Returned(c, r, 0)
  PROVE  TruthOf(r)
BY DEF Returned, Keeps, TruthOf, CountedOf, ZeroOf, OneLineOf

\* Of a gets: the m bytes that it took are a line so far.
Got(c, m) ==
  /\ Len(c.taken) = m /\ m < c.want
  /\ \A i \in 1 .. m - 1 : c.taken[i] # LF
  /\ LineOf(c.text, c.taken, m)

\* A gets returns how much it took, and its text is a line.
LEMMA LineTellsTruth ==
  ASSUME NEW c \in Call, c.op = "gets", NEW m \in Nat, Got(c, m),
         NEW n, Told(c, m, n), NEW r, Returned(c, r, n)
  PROVE  TruthOf(r)
<1>1. /\ r.op = "gets" /\ r.ret = n /\ r.taken = c.taken /\ r.text = c.text
      /\ r.entry = c.entry /\ r.want = c.want /\ (c.timed => r.timed)
  BY DEF Returned, Keeps, Moved
<1>2. c.taken \in Seq(Byte) /\ (Len(c.taken) = 0 => c.taken = <<>>)
  BY CallTypes, NoBytes
<1>3. n \in Int /\ (m > 0 => n = m) /\ (m = 0 => n <= 0)
  BY DEF Told
<1>4. CountedOf(r)
  <2>1. r.ret > 0 => r.ret = Len(r.taken)
    BY <1>1, <1>3 DEF Got
  <2>2. r.ret <= 0 => r.taken = <<>>
    BY <1>1, <1>2, <1>3 DEF Got
  <2> QED
    BY <1>1, <2>1, <2>2 DEF CountedOf
<1>5. ZeroOf(r)
  BY <1>1, <1>3 DEF ZeroOf, Told
<1>6. OneLineOf(r)
  BY <1>1 DEF OneLineOf, Got
<1> QED
  BY <1>4, <1>5, <1>6 DEF TruthOf

-----------------------------------------------------------------------------
(* The steps *)

Peer == [data : Seq(Byte), eof : BOOLEAN, reset : BOOLEAN]

\* The errno after a step that says of the call what Blamed asks.
BlamesCall == errno' = errno \/ errno' = "" \/ (errno' = "ETIMEDOUT" /\ call'.timed)

\* A call goes on.
LEMMA CallGoesOn ==
  ASSUME IoInv, call.op # "none", Keeps(call, call'), Running(call'), Drained',
         BlamesCall, peer' \in Peer, done' = done
  PROVE  IoInv'
<1>1. IoTypes'
  BY DEF IoInv, IoTypes, Keeps, BlamesCall, Peer, Errno
<1>2. call'.op # "none"
  BY DEF Keeps
<1>3. Blamed'
  BY DEF IoInv, Blamed, BlamesCall, Keeps
<1>4. TruthOf(done')
  BY DEF IoInv
<1> QED
  BY <1>1, <1>2, <1>3, <1>4 DEF IoInv

\* A call returns.
LEMMA CallEnds ==
  ASSUME IoInv, call' = Idle, done' \in Call, TruthOf(done'), UNCHANGED <<errno, peer>>
  PROVE  IoInv'
<1>1. IoTypes'
  BY IdleIs DEF IoInv, IoTypes
<1>2. call'.op = "none" /\ call'.loop = "none"
  BY IdleIs
<1>3. Blamed' /\ Drained'
  BY <1>2 DEF Blamed, Drained
<1> QED
  BY <1>1, <1>2, <1>3 DEF IoInv

\* The same, by Return.
LEMMA ReturnEnds ==
  ASSUME IoInv, NEW c \in Call, NEW n \in Int, Return(c, n), TruthOf(done'),
         Returned(c, done', n)
  PROVE  IoInv'
<1>1. call' = Idle /\ UNCHANGED <<errno, peer>>
  BY DEF Return
<1>2. done' \in Call
  BY DEF Returned, Keeps
<1> QED
  BY <1>1, <1>2, CallEnds

\* The inner loop has ended, and nothing else.
WentBack(r) ==
  /\ Keeps(call, r)
  /\ Loops(r, IF call.loop = "in" THEN "read" ELSE "wrote", call.limit, call.got)
  /\ Moved(r, call.total, call.text, call.taken, call.given)

\* Back and its two failures do that.
LEMMA BackIs ==
  ASSUME call \in Call, NEW r
  PROVE  /\ r = Back => WentBack(r)
         /\ r = [Back EXCEPT !.cut = TRUE] => WentBack(r) /\ r.cut
         /\ r = [Back EXCEPT !.timed = TRUE] => WentBack(r) /\ r.timed
<1> DEFINE to == IF call.loop = "in" THEN "read" ELSE "wrote"
           d == Back
<1>1. d = [call EXCEPT !.loop = to] /\ to \in {"read", "wrote"}
  BY DEF Back
<1> HIDE DEF d, to
<1>2. /\ Keeps(call, d) /\ Loops(d, to, call.limit, call.got)
      /\ Moved(d, call.total, call.text, call.taken, call.given)
  BY <1>1, BackMakes
<1>3. d \in Call
  BY <1>2 DEF Keeps
<1>4. WentBack(d)
  BY <1>2 DEF WentBack, to
<1>5. ASSUME r = [d EXCEPT !.cut = TRUE] PROVE WentBack(r) /\ r.cut
  <2>1. /\ Keeps(d, r) /\ r.cut /\ Loops(r, d.loop, d.limit, d.got)
        /\ Moved(r, d.total, d.text, d.taken, d.given)
    BY <1>3, <1>5, CutMakes
  <2> QED
    BY <1>4, <2>1 DEF WentBack, Keeps, Loops, Moved
<1>6. ASSUME r = [d EXCEPT !.timed = TRUE] PROVE WentBack(r) /\ r.timed
  <2>1. /\ Keeps(d, r) /\ r.timed /\ Loops(r, d.loop, d.limit, d.got)
        /\ Moved(r, d.total, d.text, d.taken, d.given)
    BY <1>3, <1>6, TimedMakes
  <2> QED
    BY <1>4, <2>1 DEF WentBack, Keeps, Loops, Moved
<1> QED
  BY <1>4, <1>5, <1>6 DEF d

\* When an inner loop ends the invariant holds, if a drain without bytes has found the end.
LEMMA LoopEnds ==
  ASSUME IoInv, call.loop \in {"in", "out"}, WentBack(call'), UNCHANGED <<peer, done>>,
         BlamesCall,
         call.loop = "out" /\ Len(call.got) < call.limit => Slow(call'),
         call.loop = "in" /\ call.op = "drain" /\ call.got = <<>> =>
           (peer.data = <<>> /\ peer.eof) \/ Slow(call')
  PROVE  IoInv'
<1> DEFINE to == IF call.loop = "in" THEN "read" ELSE "wrote"
           c == call
           r == call'
<1>1. call \in Call /\ call.op # "none" /\ Running(call) /\ peer \in Peer
  BY DEF IoInv, IoTypes, Peer
<1>2. /\ Keeps(c, r) /\ Loops(r, to, c.limit, c.got)
      /\ Moved(r, c.total, c.text, c.taken, c.given)
  BY DEF WentBack
<1>3. Running(r)
  <2> HIDE DEF r, c, to
  <2>1. to = IF c.loop = "in" THEN "read" ELSE "wrote"
    BY DEF to, c
  <2>2. c.loop = "out" /\ Len(c.got) < c.limit => Slow(r)
    BY DEF c, r
  <2>3. c \in Call /\ Running(c) /\ c.loop \in {"in", "out"}
    BY <1>1 DEF c
  <2> QED
    BY <1>2, <2>1, <2>2, <2>3, BackIsRunning
<1>4. Drained'
  <2>1. r.op = c.op /\ r.loop = to /\ r.got = c.got
    BY <1>2 DEF Keeps, Loops
  <2> QED
    BY <2>1 DEF Drained, Slow
<1> QED
  BY <1>1, <1>2, <1>3, <1>4, CallGoesOn

\* All was read: then it is not nothing.
LEMMA InFullKeeps ==
  ASSUME IoInv, InFull
  PROVE  IoInv'
<1>1. call \in Call /\ call.op # "none" /\ Running(call) /\ call.loop = "in"
  BY DEF IoInv, IoTypes, InFull
<1>2. WentBack(call') /\ BlamesCall /\ UNCHANGED <<peer, done>>
  BY <1>1, BackIs DEF InFull, Goes, BlamesCall
<1>3. call.got # <<>>
  BY <1>1, CallTypes DEF InFull, Left, Running, Shape
<1> QED
  BY <1>1, <1>2, <1>3, LoopEnds

\* The end was found.
LEMMA ReadEndKeeps ==
  ASSUME IoInv, ReadEnd
  PROVE  IoInv'
<1>1. call \in Call /\ call.loop = "in"
  BY DEF IoInv, IoTypes, ReadEnd
<1>2. WentBack(call') /\ BlamesCall /\ UNCHANGED <<peer, done>>
  BY <1>1, BackIs DEF ReadEnd, Goes, BlamesCall
<1>3. call.op = "drain" => peer.data = <<>> /\ peer.eof
  BY DEF ReadEnd
<1> QED
  BY <1>1, <1>2, <1>3, LoopEnds

\* All was written.
LEMMA OutFullKeeps ==
  ASSUME IoInv, OutFull
  PROVE  IoInv'
<1>1. call \in Call /\ call.loop = "out"
  BY DEF IoInv, IoTypes, OutFull
<1>2. WentBack(call') /\ BlamesCall /\ UNCHANGED <<peer, done>>
  BY <1>1, BackIs DEF OutFull, Goes, BlamesCall
<1>3. ~(Len(call.got) < call.limit)
  BY <1>1, CallTypes DEF OutFull, Left
<1> QED
  BY <1>1, <1>2, <1>3, LoopEnds

\* The loop is cut short, or time runs out.
LEMMA CutKeeps ==
  ASSUME IoInv, ReadFails \/ WriteFails \/ Interrupted
  PROVE  IoInv'
<1>1. call \in Call /\ call.loop \in {"in", "out"}
  BY DEF IoInv, IoTypes, ReadFails, WriteFails, Interrupted
<1>2. call' = [Back EXCEPT !.cut = TRUE] /\ errno' = "" /\ UNCHANGED <<peer, done>>
  BY DEF ReadFails, WriteFails, Interrupted, Goes
<1>3. WentBack(call') /\ call'.cut
  BY <1>1, <1>2, BackIs
<1>4. BlamesCall /\ Slow(call')
  BY <1>2, <1>3 DEF BlamesCall, Slow
<1> QED
  BY <1>1, <1>2, <1>3, <1>4, LoopEnds

\* The poll times out.
LEMMA TimesOutKeeps ==
  ASSUME IoInv, TimesOut
  PROVE  IoInv'
<1>1. call \in Call /\ call.loop \in {"in", "out"}
  BY DEF IoInv, IoTypes, TimesOut
<1>2. call' = [Back EXCEPT !.timed = TRUE] /\ errno' = "ETIMEDOUT" /\ UNCHANGED <<peer, done>>
  BY DEF TimesOut, Goes
<1>3. WentBack(call') /\ call'.timed
  BY <1>1, <1>2, BackIs
<1>4. BlamesCall /\ Slow(call')
  BY <1>2, <1>3 DEF BlamesCall, Slow
<1> QED
  BY <1>1, <1>2, <1>3, <1>4, LoopEnds

\* Bytes are read, from the connection or the file.
LEMMA ReadSomeKeeps ==
  ASSUME QIoAssumption, IoInv, ReadSome
  PROVE  IoInv'
<1>1. /\ call \in Call /\ call.op # "none" /\ Running(call) /\ peer \in Peer
      /\ call.loop = "in" /\ Left > 0
  BY DEF IoInv, IoTypes, ReadSome, Peer
<1>2. call.limit \in Nat /\ Len(call.got) \in Nat
  BY <1>1, CallTypes
<1>3. PICK b \in Seq(Byte) :
        /\ Len(b) > 0 /\ Len(b) <= call.limit - Len(call.got)
        /\ call' = [call EXCEPT !.got = @ \o b, !.taken = @ \o b]
        /\ peer' \in Peer
  <2>1. CASE call.op = "send"
    <3>1. PICK n \in 1 .. Left :
            /\ call' = [call EXCEPT !.got = @ \o [i \in 1 .. n |-> LF],
                                    !.taken = @ \o [i \in 1 .. n |-> LF]]
            /\ UNCHANGED peer
      BY <2>1 DEF ReadSome
    <3> DEFINE b == [i \in 1 .. n |-> LF]
    <3>2. n \in Nat /\ n > 0 /\ n <= call.limit - Len(call.got)
      BY <1>2 DEF Left
    <3>3. b \in Seq(Byte) /\ Len(b) = n
      BY <3>2 DEF QIoAssumption
    <3>4. call' = [call EXCEPT !.got = @ \o b, !.taken = @ \o b] /\ peer' \in Peer
      BY <1>1, <3>1
    <3> HIDE DEF b
    <3> QED
      BY <3>2, <3>3, <3>4
  <2>2. CASE call.op # "send"
    <3>1. PICK n \in 1 .. Len(peer.data) :
            /\ n <= Left
            /\ call' = [call EXCEPT !.got = @ \o SubSeq(peer.data, 1, n),
                                    !.taken = @ \o SubSeq(peer.data, 1, n)]
            /\ peer' = [peer EXCEPT !.data = SubSeq(@, n + 1, Len(@))]
      BY <2>2 DEF ReadSome
    <3> DEFINE b == SubSeq(peer.data, 1, n)
               rest == SubSeq(peer.data, n + 1, Len(peer.data))
    <3>2. peer.data \in Seq(Byte) /\ n \in Nat /\ n > 0 /\ n <= Len(peer.data)
      BY <1>1 DEF Peer
    <3>3. b \in Seq(Byte) /\ Len(b) = n
      BY <3>2
    <3>4. rest \in Seq(Byte)
      BY <3>2
    <3>5. n <= call.limit - Len(call.got)
      BY <3>1 DEF Left
    <3>6. call' = [call EXCEPT !.got = @ \o b, !.taken = @ \o b]
      BY <3>1
    <3>7. peer' = [peer EXCEPT !.data = rest]
      BY <3>1
    <3> HIDE DEF b, rest
    <3>8. peer' \in Peer
      BY <1>1, <3>4, <3>7 DEF Peer
    <3> QED
      BY <3>2, <3>3, <3>5, <3>6, <3>8
  <2> QED
    BY <2>1, <2>2
<1> DEFINE c == call
           r == call'
           got == call.got \o b
           taken == call.taken \o b
<1>4. c \in Call /\ Running(c) /\ c.loop = "in" /\ Len(b) <= c.limit - Len(c.got)
  BY <1>1, <1>3
<1>5. r = [c EXCEPT !.got = got, !.taken = taken]
  BY <1>3
<1>6. got = c.got \o b /\ taken = c.taken \o b
  OBVIOUS
<1>7. got \in Seq(Byte) /\ taken \in Seq(Byte)
  BY <1>1, CallTypes
<1>8. call' = r
  OBVIOUS
<1> HIDE DEF c, r, got, taken
<1>9. /\ Keeps(c, r) /\ Loops(r, c.loop, c.limit, got)
      /\ Moved(r, c.total, c.text, taken, c.given)
  BY <1>4, <1>5, <1>7, GotMakes
<1>10. Running(r)
  BY <1>3, <1>4, <1>6, <1>9, ReadIsRunning
<1>11. r.loop = "in"
  BY <1>4, <1>9 DEF Loops
<1>12. Drained'
  BY <1>8, <1>11 DEF Drained
<1>13. errno' = errno /\ done' = done
  BY DEF ReadSome
<1> QED
  BY <1>1, <1>3, <1>9, <1>10, <1>12, <1>13, CallGoesOn DEF BlamesCall, c, r

\* Bytes are written.
LEMMA WriteSomeKeeps ==
  ASSUME IoInv, WriteSome
  PROVE  IoInv'
<1>1. /\ call \in Call /\ call.op # "none" /\ Running(call) /\ peer \in Peer
      /\ call.loop = "out" /\ Left > 0
  BY DEF IoInv, IoTypes, WriteSome, Peer
<1>2. /\ call.limit \in Nat /\ Len(call.got) \in Nat /\ Len(call.taken) \in Nat
      /\ call.taken \in Seq(Byte)
  BY <1>1, CallTypes
<1> DEFINE from == Len(call.taken) - call.limit + Len(call.got)
<1>3. PICK n \in 1 .. Left :
        Goes([call EXCEPT !.got = @ \o SubSeq(call.taken, from + 1, from + n),
                          !.given = @ \o SubSeq(call.taken, from + 1, from + n)])
  BY DEF WriteSome
<1> DEFINE b == SubSeq(call.taken, from + 1, from + n)
<1>4. n \in Nat /\ n > 0 /\ n <= call.limit - Len(call.got)
  BY <1>2 DEF Left
<1>5. call.limit <= Len(call.taken)
  BY <1>1, LeftWasTaken DEF OutOf
<1>6. from \in Nat /\ from + n <= Len(call.taken)
  BY <1>2, <1>4, <1>5
<1> HIDE DEF from
<1>7. b \in Seq(Byte) /\ Len(b) = n /\ \A i \in 1 .. n : b[i] = call.taken[from + i]
  <2> DEFINE s == call.taken
  <2>1. s \in Seq(Byte) /\ from + n <= Len(s)
    BY <1>2, <1>6
  <2> HIDE DEF s
  <2>2. /\ SubSeq(s, from + 1, from + n) \in Seq(Byte)
        /\ Len(SubSeq(s, from + 1, from + n)) = n
        /\ \A i \in 1 .. n : SubSeq(s, from + 1, from + n)[i] = s[from + i]
    BY <1>4, <1>6, <2>1
  <2> QED
    BY <2>2 DEF s
<1> DEFINE c == call
           r == call'
           got == call.got \o b
           given == call.given \o b
<1>8. c \in Call /\ Running(c) /\ c.loop = "out" /\ c.op # "none" /\ n <= c.limit - Len(c.got)
  BY <1>1, <1>4
<1>9. r = [c EXCEPT !.got = got, !.given = given]
  BY <1>3 DEF Goes
<1>10. got = c.got \o b /\ given = c.given \o b
  OBVIOUS
<1>11. from = Len(c.taken) - c.limit + Len(c.got) /\ \A i \in 1 .. n : b[i] = c.taken[from + i]
  BY <1>7 DEF from
<1>12. b \in Seq(Byte) /\ Len(b) = n
  BY <1>7
<1> HIDE DEF b
<1>13. got \in Seq(Byte) /\ given \in Seq(Byte)
  BY <1>1, <1>12, CallTypes
<1>14. call' = r
  OBVIOUS
<1> HIDE DEF c, r, got, given
<1>15. /\ Keeps(c, r) /\ Loops(r, c.loop, c.limit, got)
       /\ Moved(r, c.total, c.text, c.taken, given)
  BY <1>8, <1>9, <1>13, GaveMakes
<1>16. Running(r)
  BY <1>4, <1>8, <1>10, <1>11, <1>12, <1>15, GaveIsRunning
<1>17. r.loop = "out"
  BY <1>8, <1>15 DEF Loops
<1>18. Drained'
  BY <1>14, <1>17 DEF Drained
<1>19. errno' = errno /\ done' = done /\ peer' = peer
  BY <1>3 DEF WriteSome, Goes
<1> QED
  BY <1>1, <1>15, <1>16, <1>18, <1>19, CallGoesOn DEF BlamesCall, c, r

\* What Inner says of the inner loop that ended.
LEMMA InnerIs ==
  ASSUME IoInv, call.op # "none"
  PROVE  /\ call \in Call /\ Running(call) /\ Len(call.got) \in Nat
         /\ Told(call, Len(call.got), Inner) /\ Inner \in Int
         /\ Inner <= 0 <=> Len(call.got) = 0
         /\ Inner = 1 => Len(call.got) = 1
         /\ Len(call.got) = 1 => Inner = 1
<1>1. call \in Call /\ Running(call) /\ Blamed
  BY DEF IoInv, IoTypes
<1>2. Len(call.got) \in Nat
  BY <1>1, CallTypes
<1> DEFINE m == Len(call.got)
           n == Inner
<1>3. n = Result(m) /\ m \in Nat
  BY <1>2 DEF Inner
<1> HIDE DEF m, n
<1>4. Told(call, m, n)
  BY <1>1, <1>3, ResultIsTold
<1>5. /\ n \in Int /\ (n <= 0 <=> m = 0) /\ (n = 1 => m = 1) /\ (m = 1 => n = 1)
  BY <1>3, <1>4 DEF Told
<1> QED
  BY <1>1, <1>3, <1>4, <1>5 DEF m, n

\* A read or a write returns.
LEMMA SimpleReturnsKeeps ==
  ASSUME IoInv, SimpleReturns
  PROVE  IoInv'
<1>1. /\ call.loop \in {"read", "wrote"} /\ call.op \in {"read", "write"} /\ Return(call, Inner)
  BY DEF SimpleReturns
<1>2. /\ call \in Call /\ Running(call) /\ Told(call, Len(call.got), Inner) /\ Inner \in Int
      /\ Len(call.got) \in Nat
  BY <1>1, InnerIs
<1> DEFINE n == Inner
           r == done'
           c == call
<1>3. Returned(c, r, n)
  BY <1>1, <1>2, ReturnIs
<1>4. CASE c.op = "read"
  <2>1. c \in Call /\ Running(c) /\ Told(c, Len(c.got), n)
    BY <1>2
  <2> HIDE DEF n, r, c
  <2>2. TruthOf(r)
    BY <1>3, <1>4, <2>1, ReadTellsTruth
  <2> QED
    BY <1>1, <1>2, <1>3, <2>2, ReturnEnds DEF n, r, c
<1>5. CASE c.op = "write"
  <2>1. /\ c \in Call /\ Told(c, Len(c.got), n) /\ c.op \in {"write", "send", "save"}
        /\ Len(c.got) \in Nat
    BY <1>2, <1>5
  <2>2. Gave(c, Len(c.got))
    <3>1. /\ c.total = 0 /\ c.limit = c.want /\ Len(c.taken) = c.want /\ c.loop = "wrote"
          /\ c.want > 0 /\ Len(c.got) <= c.limit
          /\ Len(c.got) < c.limit => Slow(c)
      BY <1>1, <1>2, <1>5 DEF Running, Writes, Shape, Into, OutOf
    <3>2. /\ Len(c.given) = c.total + Len(c.got)
          /\ c.total = Len(c.taken) - c.limit => Follows(c.given, c.taken)
      BY <1>2, <3>1 DEF Running, Gives, OutOf
    <3>3. c.want \in Nat /\ Len(c.taken) \in Nat /\ Len(c.got) \in Nat
      BY <1>2, CallTypes
    <3> HIDE DEF c
    <3> QED
      BY <3>1, <3>2, <3>3 DEF Gave
  <2> HIDE DEF n, r, c
  <2>3. TruthOf(r)
    BY <1>3, <2>1, <2>2, GaveTellsTruth
  <2> QED
    BY <1>1, <1>2, <1>3, <2>3, ReturnEnds DEF n, r, c
<1> QED
  BY <1>1, <1>4, <1>5

\* A drain goes on or is over.
LEMMA DrainReadsKeeps ==
  ASSUME QIoAssumption, IoInv, DrainReads
  PROVE  IoInv'
<1>1. call.loop = "read" /\ call.op = "drain"
  BY DEF DrainReads
<1>2. call \in Call /\ Running(call) /\ peer \in Peer
  BY <1>1, InnerIs DEF IoInv, IoTypes, Peer
<1>3. CASE Inner <= 0
  <2>1. Return(call, 0)
    BY <1>3 DEF DrainReads
  <2>2. Returned(call, done', 0)
    BY <1>2, <2>1, ReturnIs
  <2>3. TruthOf(done')
    BY <1>1, <1>2, <2>2, DrainTellsTruth
  <2> QED
    BY <1>2, <2>1, <2>2, <2>3, ReturnEnds
<1>4. CASE ~(Inner <= 0)
  <2>1. call' = Loop("in", Chunk, call) /\ UNCHANGED <<errno, peer, done>>
    BY <1>4 DEF DrainReads, Goes
  <2>2. Chunk \in Nat /\ Chunk > 0 /\ call.want > 0
    BY <1>2 DEF QIoAssumption, Running, Shape
  <2>3. MayRead(call, Chunk)
    BY <1>1, <2>2 DEF MayRead
  <2> DEFINE r == call'
  <2>4. r = Loop("in", Chunk, call)
    BY <2>1
  <2> HIDE DEF r
  <2>5. Keeps(call, r) /\ Running(r) /\ r.loop = "in"
    BY <1>2, <2>2, <2>3, <2>4, LoopInIsRunning
  <2>6. Drained' /\ BlamesCall
    BY <2>1, <2>5 DEF Drained, BlamesCall, r
  <2> QED
    BY <1>1, <1>2, <2>1, <2>5, <2>6, CallGoesOn DEF r
<1> QED
  BY <1>3, <1>4

\* What a send that reads has given.
LEMMA SendGave ==
  ASSUME NEW c \in Call, Running(c), c.op \in {"send", "save"}, c.loop \in Into,
         Len(c.got) = 0
  PROVE  Gave(c, c.total)
<1>1. /\ c.total + c.limit <= c.want /\ Len(c.taken) = c.total + Len(c.got)
      /\ Len(c.given) = c.total /\ Follows(c.given, c.taken) /\ c.want > 0 /\ c.limit > 0
  BY DEF Running, Sends, Shape
<1>2. c.total \in Nat /\ c.limit \in Nat /\ c.want \in Nat
  BY CallTypes
<1> QED
  BY <1>1, <1>2 DEF Gave

\* A send begins to write what it read, or read nothing.
LEMMA SendReadsKeeps ==
  ASSUME IoInv, SendReads
  PROVE  IoInv'
<1>1. call.loop = "read" /\ call.op \in {"send", "save"} /\ call.op # "none"
  BY DEF SendReads
<1>2. /\ call \in Call /\ Running(call) /\ peer \in Peer /\ Len(call.got) \in Nat
      /\ (Inner <= 0 <=> Len(call.got) = 0) /\ Blamed
  BY <1>1, InnerIs DEF IoInv, IoTypes, Peer
<1>3. call.total \in Nat /\ call.limit \in Nat
  BY <1>2, CallTypes
<1>4. CASE Inner <= 0
  <2> DEFINE n == Result(call.total)
             r == done'
  <2>1. Return(call, n)
    BY <1>4 DEF SendReads
  <2>2. n = Result(call.total)
    OBVIOUS
  <2> HIDE DEF n
  <2>3. Told(call, call.total, n)
    BY <1>1, <1>2, <1>3, <2>2, ResultIsTold
  <2>4. n \in Int
    BY <2>3 DEF Told
  <2>5. Returned(call, r, n)
    BY <1>2, <2>1, <2>4, ReturnIs
  <2> HIDE DEF r
  <2>6. Gave(call, call.total)
    BY <1>1, <1>2, <1>4, SendGave DEF Into
  <2>7. TruthOf(r)
    BY <1>1, <1>2, <1>3, <2>3, <2>5, <2>6, GaveTellsTruth
  <2> QED
    BY <1>2, <2>1, <2>4, <2>5, <2>7, ReturnEnds DEF r
<1>5. CASE ~(Inner <= 0)
  <2> DEFINE r == call'
             limit == Len(call.got)
  <2>1. r = Loop("out", limit, call) /\ UNCHANGED <<errno, peer, done>>
    BY <1>5 DEF SendReads, Goes
  <2>2. limit \in Nat /\ limit > 0
    BY <1>2, <1>5
  <2>3. MayWrite(call, limit)
    <3>1. /\ call.total + call.limit <= call.want /\ Len(call.taken) = call.total + limit
          /\ Len(call.given) = call.total /\ Follows(call.given, call.taken)
          /\ call.want > 0 /\ limit <= call.limit
      BY <1>1, <1>2 DEF Running, Sends, Shape, Into
    <3>2. call.want \in Nat
      BY <1>2, CallTypes
    <3> HIDE DEF limit
    <3>3. call.total + limit <= call.want /\ call.total = Len(call.taken) - limit
      BY <1>3, <2>2, <3>1, <3>2
    <3> QED
      BY <1>1, <2>2, <3>1, <3>3 DEF MayWrite
  <2> HIDE DEF r, limit
  <2>4. Keeps(call, r) /\ Running(r) /\ r.loop = "out"
    BY <1>2, <2>1, <2>2, <2>3, LoopOutIsRunning
  <2>5. Drained' /\ BlamesCall
    BY <2>1, <2>4 DEF Drained, BlamesCall, r
  <2> QED
    BY <1>1, <1>2, <2>1, <2>4, <2>5, CallGoesOn DEF r
<1> QED
  BY <1>4, <1>5

\* What follows the bytes taken does so when more are taken.
LEMMA FollowsMore ==
  ASSUME NEW given \in Seq(Byte), NEW taken \in Seq(Byte), NEW b \in Seq(Byte),
         Follows(given, taken), Len(given) <= Len(taken),
         NEW more, more = taken \o b
  PROVE  Follows(given, more)
<1>1. \A i \in 1 .. Len(taken) : more[i] = taken[i]
  BY SeqFacts
<1>2. \A i \in 1 .. Len(given) : i \in 1 .. Len(taken)
  OBVIOUS
<1> QED
  BY <1>1, <1>2 DEF Follows

\* What a send has given when it stops writing.
LEMMA SendWrote ==
  ASSUME NEW c \in Call, Running(c), c.op \in {"send", "save"}, c.loop = "wrote"
  PROVE  /\ Len(c.given) = c.total + Len(c.got) /\ Len(c.taken) = c.total + c.limit
         /\ c.total + c.limit <= c.want /\ Len(c.got) <= c.limit /\ c.limit > 0 /\ c.want > 0
         /\ Follows(c.given, c.taken)
         /\ Len(c.got) < c.limit => Slow(c)
<1>1. "wrote" \in OutOf
  BY DEF OutOf
<1>2. c.total \in Nat /\ c.limit \in Nat /\ Len(c.taken) \in Nat
  BY CallTypes
<1>3. c.total + c.limit <= c.want /\ Len(c.taken) = c.total + c.limit
  BY <1>1 DEF Running, Sends
<1>4. /\ Len(c.given) = c.total + Len(c.got)
      /\ c.total = Len(c.taken) - c.limit => Follows(c.given, c.taken)
  BY <1>1 DEF Running, Gives
<1>5. Len(c.got) <= c.limit /\ c.limit > 0 /\ c.want > 0 /\ (Len(c.got) < c.limit => Slow(c))
  BY DEF Running, Shape
<1>6. c.total = Len(c.taken) - c.limit
  BY <1>2, <1>3
<1> QED
  BY <1>3, <1>4, <1>5, <1>6

\* A send wrote a chunk: it is the last, or the next is read.
LEMMA SendWritesKeeps ==
  ASSUME QIoAssumption, IoInv, SendWrites
  PROVE  IoInv'
<1>1. call.loop = "wrote" /\ call.op \in {"send", "save"} /\ call.op # "none"
  BY DEF SendWrites
<1>2. /\ call \in Call /\ Running(call) /\ peer \in Peer /\ Len(call.got) \in Nat
      /\ (Inner <= 0 <=> Len(call.got) = 0) /\ Blamed
  BY <1>1, InnerIs DEF IoInv, IoTypes, Peer
<1>3. call.total \in Nat /\ call.limit \in Nat /\ call.want \in Nat
  BY <1>2, CallTypes
<1>4. /\ Len(call.given) = call.total + Len(call.got) /\ Len(call.taken) = call.total + call.limit
      /\ call.total + call.limit <= call.want /\ Len(call.got) <= call.limit
      /\ call.limit > 0 /\ call.want > 0 /\ Follows(call.given, call.taken)
      /\ Len(call.got) < call.limit => Slow(call)
  BY <1>1, <1>2, SendWrote
<1>5. CASE Inner <= 0
  <2> DEFINE n == Result(call.total)
             r == done'
  <2>1. Return(call, n)
    BY <1>5 DEF SendWrites
  <2>2. n = Result(call.total)
    OBVIOUS
  <2> HIDE DEF n
  <2>3. Told(call, call.total, n)
    BY <1>1, <1>2, <1>3, <2>2, ResultIsTold
  <2>4. n \in Int
    BY <2>3 DEF Told
  <2>5. Returned(call, r, n)
    BY <1>2, <2>1, <2>4, ReturnIs
  <2> HIDE DEF r
  <2>6. Gave(call, call.total)
    <3>1. Len(call.got) = 0
      BY <1>2, <1>5
    <3>2. Len(call.given) = call.total /\ Slow(call)
      BY <1>2, <1>3, <1>4, <3>1
    <3> QED
      BY <1>3, <1>4, <3>2 DEF Gave
  <2>7. TruthOf(r)
    BY <1>1, <1>2, <1>3, <2>3, <2>5, <2>6, GaveTellsTruth
  <2> QED
    BY <1>2, <2>1, <2>4, <2>5, <2>7, ReturnEnds DEF r
<1>6. CASE ~(Inner <= 0)
  <2> DEFINE m == call.total + Len(call.got)
             c == [call EXCEPT !.total = m]
  <2>1. m \in Nat /\ m > 0 /\ Len(call.given) = m
    BY <1>2, <1>3, <1>4, <1>6
  <2>2. c = [call EXCEPT !.total = m]
    OBVIOUS
  <2>3. /\ Left > 0 \/ c.total = c.want => Return(c, c.total)
        /\ ~(Left > 0 \/ c.total = c.want) =>
             Goes(FirstLoop(c.op, c.want - c.total, c)) /\ UNCHANGED errno
    BY <1>6 DEF SendWrites
  <2>4. m <= Len(call.taken) /\ Len(call.taken) <= call.want /\ (m < Len(call.taken) => Slow(call))
    BY <1>2, <1>3, <1>4
  <2>5. ~(Left > 0) => m = Len(call.taken)
    BY <1>2, <1>3, <1>4 DEF Left
  <2> HIDE DEF m, c
  <2>6. Keeps(call, c) /\ Moved(c, m, call.text, call.taken, call.given)
    BY <1>2, <2>1, <2>2, TotalMakes
  <2>7. /\ c \in Call /\ c.op = call.op /\ c.want = call.want /\ c.total = m
        /\ c.taken = call.taken /\ c.given = call.given /\ (Slow(call) => Slow(c))
    BY <2>6 DEF Keeps, Moved, Slow
  <2>8. CASE Left > 0 \/ c.total = c.want
    <3> DEFINE r == done'
    <3>1. Return(c, m)
      BY <2>3, <2>7, <2>8
    <3>2. m \in Int
      BY <2>1
    <3>3. Returned(c, r, m)
      BY <2>7, <3>1, <3>2, ReturnIs
    <3>4. Told(c, m, m)
      BY <2>1 DEF Told
    <3>5. Gave(c, m)
      BY <1>4, <2>1, <2>4, <2>7 DEF Gave
    <3>6. TruthOf(r)
      <4> HIDE DEF r
      <4> QED
        BY <1>1, <2>1, <2>7, <3>3, <3>4, <3>5, GaveTellsTruth
    <3> QED
      BY <2>7, <3>1, <3>2, <3>3, <3>6, ReturnEnds
  <2>9. CASE ~(Left > 0 \/ c.total = c.want)
    <3> DEFINE r == call'
               n == c.want - c.total
               op == c.op
    <3>1. r = FirstLoop(op, n, c) /\ UNCHANGED <<errno, peer, done>>
      BY <2>3, <2>9 DEF Goes
    <3>2. op \in Ops /\ op \in {"send", "save"}
      BY <1>1, <2>7 DEF Ops
    <3>3. n \in Nat /\ n > 0
      BY <1>3, <2>1, <2>4, <2>7, <2>9
    <3>4. c.total + n = c.want
      BY <1>3, <2>1, <2>7
    <3>5. call' = r /\ op = c.op
      OBVIOUS
    <3> HIDE DEF r, n, op
    <3>6. PICK limit \in Nat : Begins(op, n, c, r, limit)
      BY <2>7, <3>1, <3>2, <3>3, FirstLoopIs
    <3>7. r = Loop("in", limit, c) /\ limit > 0 /\ limit <= n
      BY <3>2, <3>6 DEF Begins
    <3>8. c.total + limit <= c.want
      BY <2>1, <2>7, <3>3, <3>4, <3>7
    <3>9. MayRead(c, limit)
      BY <1>4, <2>1, <2>5, <2>7, <2>9, <3>2, <3>5, <3>7, <3>8 DEF MayRead
    <3>10. Keeps(c, r) /\ Running(r) /\ r.loop = "in"
      BY <2>7, <3>7, <3>9, LoopInIsRunning
    <3>11. Keeps(call, r)
      BY <2>6, <3>10 DEF Keeps
    <3>12. Drained' /\ BlamesCall
      BY <3>1, <3>5, <3>10 DEF Drained, BlamesCall
    <3> QED
      BY <1>1, <1>2, <3>1, <3>5, <3>10, <3>11, <3>12, CallGoesOn
  <2> QED
    BY <2>8, <2>9
<1> QED
  BY <1>5, <1>6

\* A vector was written: the second follows, or that was all.
LEMMA WritevWritesKeeps ==
  ASSUME QIoAssumption, IoInv, WritevWrites
  PROVE  IoInv'
<1>1. call.loop = "wrote" /\ call.op = "writev" /\ call.op # "none"
  BY DEF WritevWrites
<1>2. /\ call \in Call /\ Running(call) /\ peer \in Peer /\ Len(call.got) \in Nat
      /\ (Inner <= 0 <=> Len(call.got) = 0)
  BY <1>1, InnerIs DEF IoInv, IoTypes, Peer
<1>3. /\ call.total \in Nat /\ call.limit \in Nat /\ call.want \in Nat
      /\ Len(call.taken) \in Nat /\ Len(call.given) \in Nat
      /\ call.taken \in Seq(Byte) /\ call.given \in Seq(Byte)
  BY <1>2, CallTypes
<1>4. /\ call.limit = call.want /\ call.want > 0 /\ call.total <= call.want
      /\ \/ Len(call.taken) = call.want /\ call.total = 0
         \/ Len(call.taken) = 2 * call.want /\ call.total > 0
      /\ Len(call.got) <= call.limit
      /\ Len(call.got) < call.limit => Slow(call)
  BY <1>1, <1>2 DEF Running, Vectors, Shape
<1>5. /\ Len(call.given) = call.total + Len(call.got)
      /\ call.total = Len(call.taken) - call.limit => Follows(call.given, call.taken)
      /\ call.total # Len(call.taken) - call.limit => Slow(call)
  BY <1>1, <1>2 DEF Running, Gives, OutOf
<1> DEFINE n == call.total + Len(call.got)
           r == done'
<1>6. n \in Nat
  BY <1>2, <1>3
\* Whatever is given, less than all of it is given slowly.
<1>7. call.taken # call.given => n < 2 * call.want /\ Slow(call)
  <2> SUFFICES ASSUME call.taken # call.given PROVE n < 2 * call.want /\ Slow(call)
    OBVIOUS
  <2>1. CASE Len(call.got) < call.limit
    BY <1>2, <1>3, <1>4, <2>1
  <2>2. CASE ~(Len(call.got) < call.limit)
    <3>1. Len(call.got) = call.want
      BY <1>2, <1>3, <1>4, <2>2
    <3>2. CASE call.total = Len(call.taken) - call.limit
      <4>1. Len(call.given) = Len(call.taken)
        BY <1>3, <1>4, <1>5, <3>1, <3>2
      <4>2. call.given = call.taken
        BY <1>3, <1>5, <3>2, <4>1, FollowsAll
      <4> QED
        BY <4>2
    <3>3. CASE call.total # Len(call.taken) - call.limit
      <4>1. call.total < call.want
        BY <1>3, <1>4, <3>3
      <4> QED
        BY <1>3, <1>5, <3>1, <3>3, <4>1
    <3> QED
      BY <3>2, <3>3
  <2> QED
    BY <2>1, <2>2
\* Of both ways to return it is what was given that is returned.
<1>8. ASSUME Return(call, n) PROVE IoInv'
  <2>1. Len(call.given) = n
    BY <1>5
  <2> HIDE DEF n
  <2>2. Returned(call, r, n)
    BY <1>2, <1>6, <1>8, ReturnIs
  <2>3. TruthOf(r)
    <3> HIDE DEF r
    <3> QED
      BY <1>1, <1>2, <1>4, <1>6, <1>7, <2>1, <2>2, VectorsTellTruth
  <2> QED
    BY <1>2, <1>6, <1>8, <2>2, <2>3, ReturnEnds
<1>9. CASE Inner <= 0
  <2>1. n = call.total
    BY <1>2, <1>3, <1>9
  <2>2. Return(call, call.total)
    BY <1>9 DEF WritevWrites
  <2> QED
    BY <1>8, <2>1, <2>2
<1>10. CASE ~(Inner <= 0) /\ Len(call.taken) > call.want
  BY <1>8, <1>10 DEF WritevWrites
<1>11. CASE ~(Inner <= 0) /\ ~(Len(call.taken) > call.want)
  <2> DEFINE m == Len(call.got)
             b == [i \in 1 .. call.want |-> LF]
             taken == call.taken \o b
             d == [call EXCEPT !.total = m, !.taken = taken]
             q == call'
  <2>1. q = Loop("out", call.want, d) /\ UNCHANGED <<errno, peer, done>>
    BY <1>11 DEF WritevWrites, Goes
  <2>2. b \in Seq(Byte) /\ Len(b) = call.want
    BY <1>3 DEF QIoAssumption
  <2>3. d = [call EXCEPT !.total = m, !.taken = taken] /\ taken = call.taken \o b /\ call' = q
    OBVIOUS
  <2>4. m \in Nat /\ m > 0 /\ m <= call.want
    BY <1>2, <1>4, <1>11
  <2>5. Len(call.taken) = call.want /\ call.total = 0
    BY <1>3, <1>4, <1>11
  <2>6. Len(call.given) = m /\ Follows(call.given, call.taken)
    BY <1>2, <1>3, <1>4, <1>5, <2>5
  <2>7. m < call.want => Slow(call)
    BY <1>4
  <2> HIDE DEF m, b, taken, d, q
  <2>8. taken \in Seq(Byte) /\ Len(taken) = 2 * call.want
    <3>1. taken \in Seq(Byte) /\ Len(taken) = Len(call.taken) + Len(b)
      BY <1>3, <2>2, <2>3, SeqFacts
    <3> QED
      BY <1>3, <2>2, <2>5, <3>1
  <2>9. Follows(call.given, taken)
    BY <1>3, <2>2, <2>3, <2>4, <2>5, <2>6, FollowsMore
  <2>10. Keeps(call, d) /\ Moved(d, m, call.text, taken, call.given)
    BY <1>2, <2>3, <2>4, <2>8, TakenMakes
  <2>11. /\ d \in Call /\ d.op = call.op /\ d.want = call.want /\ d.total = m
         /\ d.taken = taken /\ d.given = call.given /\ (Slow(call) => Slow(d))
    BY <2>10 DEF Keeps, Moved, Slow
  <2>12. MayWrite(d, call.want)
    <3>1. Len(d.given) = d.total
      BY <2>6, <2>11
    <3>2. d.total # Len(d.taken) - call.want => Slow(d)
      BY <1>3, <2>4, <2>7, <2>8, <2>11
    <3>3. d.op = "writev" /\ d.want > 0 /\ call.want = d.want /\ d.total <= d.want
          /\ Len(d.taken) = 2 * d.want /\ d.total > 0
      BY <1>1, <1>4, <2>4, <2>8, <2>11
    <3> QED
      BY <2>9, <2>11, <3>1, <3>2, <3>3 DEF MayWrite
  <2>13. Keeps(d, q) /\ Running(q) /\ q.loop = "out"
    BY <1>3, <2>1, <2>11, <2>12, LoopOutIsRunning
  <2>14. Keeps(call, q)
    BY <2>10, <2>13 DEF Keeps
  <2>15. Drained' /\ BlamesCall
    BY <2>1, <2>3, <2>13 DEF Drained, BlamesCall
  <2> QED
    BY <1>1, <1>2, <2>1, <2>3, <2>13, <2>14, <2>15, CallGoesOn
<1> QED
  BY <1>9, <1>10, <1>11

\* A byte of a line was read.
LEMMA GetsByteKeeps ==
  ASSUME IoInv, GetsByte
  PROVE  IoInv'
<1>1. call.loop = "read" /\ call.op = "gets" /\ call.op # "none"
  BY DEF GetsByte
<1>2. /\ call \in Call /\ Running(call) /\ peer \in Peer /\ Len(call.got) \in Nat
      /\ (Inner = 1 => Len(call.got) = 1) /\ (Len(call.got) = 1 => Inner = 1) /\ Blamed
  BY <1>1, InnerIs DEF IoInv, IoTypes, Peer
<1>3. /\ call.total \in Nat /\ call.want \in Nat /\ call.text \in Seq(Byte)
      /\ call.taken \in Seq(Byte) /\ Len(call.taken) \in Nat
  BY <1>2, CallTypes
<1>4. /\ call.limit = 1 /\ call.total + 2 <= call.want /\ Len(call.got) <= 1
      /\ Len(call.taken) = call.total + Len(call.got)
      /\ Len(call.got) = 1 => call.taken[call.total + 1] = call.got[1]
      /\ \A i \in 1 .. call.total : call.taken[i] # LF
      /\ LineOf(call.text, call.taken, call.total)
  BY <1>1, <1>2 DEF Running, Gets, Shape
<1>5. CASE Inner # 1
  <2> DEFINE n == Result(call.total)
             r == done'
  <2>1. Return(call, n)
    BY <1>5 DEF GetsByte
  <2>2. n = Result(call.total)
    OBVIOUS
  <2> HIDE DEF n
  <2>3. Told(call, call.total, n)
    BY <1>1, <1>2, <1>3, <2>2, ResultIsTold
  <2>4. n \in Int
    BY <2>3 DEF Told
  <2>5. Returned(call, r, n)
    BY <1>2, <2>1, <2>4, ReturnIs
  <2> HIDE DEF r
  <2>6. Got(call, call.total)
    <3>1. Len(call.got) = 0
      <4>1. Len(call.got) \in Nat /\ Len(call.got) <= 1 /\ Len(call.got) # 1
        BY <1>2, <1>4, <1>5
      <4>2. \A k \in Nat : k <= 1 /\ k # 1 => k = 0
        BY SMT
      <4> QED
        BY <4>1, <4>2
    <3>2. Len(call.taken) = call.total /\ call.total < call.want
      BY <1>3, <1>4, <3>1
    <3>3. \A i \in 1 .. call.total - 1 : call.taken[i] # LF
      BY <1>3, <1>4
    <3> QED
      BY <1>4, <3>2, <3>3 DEF Got
  <2>7. TruthOf(r)
    BY <1>1, <1>2, <1>3, <2>3, <2>5, <2>6, LineTellsTruth
  <2> QED
    BY <1>2, <2>1, <2>4, <2>5, <2>7, ReturnEnds DEF r
<1>6. CASE Inner = 1
  <2> DEFINE b == call.got[1]
             m == call.total + 1
             text == IF b \in {CR, LF} THEN call.text ELSE Append(call.text, b)
             c == [call EXCEPT !.total = m, !.text = text]
  <2>1. /\ b = LF \/ c.total = c.want - 1 => Return(c, c.total)
        /\ ~(b = LF \/ c.total = c.want - 1) => Goes(Loop("in", 1, c)) /\ UNCHANGED errno
    BY <1>6 DEF GetsByte
  <2>2. Len(call.taken) = m /\ b = call.taken[m] /\ b \in Byte /\ call.total < Len(call.taken)
    BY <1>2, <1>3, <1>4, <1>6
  <2>3. m \in Nat /\ m > 0 /\ m < call.want
    BY <1>3, <1>4
  <2>4. text \in Seq(Byte)
    BY <1>3, <2>2
  <2>5. text = IF call.taken[call.total + 1] \in {CR, LF} THEN call.text
               ELSE Append(call.text, call.taken[call.total + 1])
    BY <2>2
  <2>6. c = [call EXCEPT !.total = m, !.text = text]
    OBVIOUS
  <2> HIDE DEF text, c, b
  <2>7. LineOf(text, call.taken, m)
    <3> DEFINE t == call.taken
               k == call.total
    <3>1. t \in Seq(Byte) /\ k \in Nat /\ k < Len(t) /\ LineOf(call.text, t, k)
          /\ text = IF t[k + 1] \in {CR, LF} THEN call.text ELSE Append(call.text, t[k + 1])
      BY <1>3, <1>4, <2>2, <2>5
    <3> HIDE DEF t, k
    <3>2. LineOf(text, t, k + 1)
      BY <1>3, <3>1, LineGrows
    <3> QED
      BY <3>2 DEF t, k
  <2>8. \A i \in 1 .. m - 1 : call.taken[i] # LF
    BY <1>3, <1>4
  <2>9. ASSUME b # LF PROVE \A i \in 1 .. m : call.taken[i] # LF
    <3>1. \A i \in 1 .. m : i \in 1 .. m - 1 \/ i = m
      BY <2>3
    <3> HIDE DEF m
    <3> QED
      BY <2>2, <2>8, <2>9, <3>1
  <2>10. m # call.want - 1 => m + 2 <= call.want
    BY <1>3, <2>3
  <2> HIDE DEF m
  <2>11. Keeps(call, c) /\ Moved(c, m, text, call.taken, call.given)
    BY <1>2, <2>3, <2>4, <2>6, TextMakes
  <2>12. /\ c \in Call /\ c.op = call.op /\ c.want = call.want /\ c.total = m
         /\ c.taken = call.taken /\ c.text = text
    BY <2>11 DEF Keeps, Moved
  <2>13. CASE b = LF \/ c.total = c.want - 1
    <3> DEFINE r == done'
    <3>1. Return(c, m)
      BY <2>1, <2>12, <2>13
    <3>2. m \in Int
      BY <2>3
    <3>3. Returned(c, r, m)
      BY <2>12, <3>1, <3>2, ReturnIs
    <3>4. Told(c, m, m)
      BY <2>3 DEF Told
    <3>5. Got(c, m)
      BY <2>2, <2>3, <2>7, <2>8, <2>12 DEF Got
    <3>6. TruthOf(r)
      <4> HIDE DEF r
      <4> QED
        BY <1>1, <2>3, <2>12, <3>3, <3>4, <3>5, LineTellsTruth
    <3> QED
      BY <2>12, <3>1, <3>2, <3>3, <3>6, ReturnEnds
  <2>14. CASE ~(b = LF \/ c.total = c.want - 1)
    <3> DEFINE r == call'
    <3>1. r = Loop("in", 1, c) /\ UNCHANGED <<errno, peer, done>>
      BY <2>1, <2>14 DEF Goes
    <3>2. call' = r
      OBVIOUS
    <3> HIDE DEF r
    <3>3. MayRead(c, 1)
      <4>1. c.total + 2 <= c.want /\ Len(c.taken) = c.total /\ c.want > 0
        BY <1>3, <2>2, <2>3, <2>10, <2>12, <2>14
      <4>2. \A i \in 1 .. c.total : c.taken[i] # LF
        BY <2>9, <2>12, <2>14
      <4> QED
        BY <1>1, <2>7, <2>12, <4>1, <4>2 DEF MayRead
    <3>4. Keeps(c, r) /\ Running(r) /\ r.loop = "in"
      BY <2>12, <3>1, <3>3, LoopInIsRunning
    <3>5. Keeps(call, r)
      BY <2>11, <3>4 DEF Keeps
    <3>6. Drained' /\ BlamesCall
      BY <3>1, <3>2, <3>4 DEF Drained, BlamesCall
    <3> QED
      BY <1>1, <1>2, <3>1, <3>2, <3>4, <3>5, <3>6, CallGoesOn
  <2> QED
    BY <2>13, <2>14
<1> QED
  BY <1>5, <1>6

\* A call begins.
LEMMA StartKeeps ==
  ASSUME QIoAssumption, IoInv, Start
  PROVE  IoInv'
<1>1. PICK op \in Ops, n \in Want :
        IF op = "gets" /\ n <= 1
        THEN done' = [Begun(op, n, errno) EXCEPT !.ret = -1] /\ UNCHANGED <<errno, peer, call>>
        ELSE /\ call' = FirstLoop(op, n, Begun(op, n, errno)) /\ done' = Idle
             /\ UNCHANGED <<errno, peer>>
  BY DEF Start, Begun, Ops
<1>2. n \in Nat /\ n > 0 /\ errno \in Errno /\ call.op = "none" /\ op # "none"
  BY DEF QIoAssumption, IoInv, IoTypes, Start, Ops
<1> DEFINE c == Begun(op, n, errno)
           r == call'
           d == done'
<1>3. c = Begun(op, n, errno)
  OBVIOUS
<1>4. CASE op = "gets" /\ n <= 1
  <2>1. d = [c EXCEPT !.ret = -1] /\ UNCHANGED <<errno, peer, call>>
    BY <1>1, <1>4
  <2>2. done' = d
    OBVIOUS
  <2> HIDE DEF c, d
  <2>3. /\ c \in Call /\ c.op = op /\ c.want = n /\ Moved(c, 0, <<>>, <<>>, <<>>)
    BY <1>2, <1>3, BeginMakes
  <2>4. d \in Call
    <3>1. -1 \in Int
      OBVIOUS
    <3> QED
      BY <2>1, <2>3, <3>1, ZenonT(30) DEF Call
  <2>5. d.op = "gets" /\ d.ret = -1 /\ d.taken = <<>> /\ d.text = <<>>
    BY <1>4, <2>1, <2>3, SMTT(30) DEF Call, Moved
  <2>6. TruthOf(d)
    <3>1. CountedOf(d) /\ ZeroOf(d)
      BY <2>5 DEF CountedOf, ZeroOf
    <3>2. LineOf(<<>>, <<>>, Len(<<>>))
      <4>1. Plain(<<>>, Len(<<>>)) = {}
        BY DEF Plain
      <4>2. Cardinality({}) = 0
        BY FS_EmptySet
      <4> QED
        BY <4>1, <4>2 DEF LineOf
    <3>3. OneLineOf(d)
      BY <2>5, <3>2 DEF OneLineOf
    <3> QED
      BY <3>1, <3>3 DEF TruthOf
  <2>7. IoTypes'
    BY <2>1, <2>2, <2>4 DEF IoInv, IoTypes
  <2>8. Blamed' /\ Drained'
    BY <1>2, <2>1 DEF Blamed, Drained
  <2> QED
    BY <1>2, <2>1, <2>2, <2>6, <2>7, <2>8 DEF IoInv
<1>5. CASE ~(op = "gets" /\ n <= 1)
  <2>1. r = FirstLoop(op, n, c) /\ done' = Idle /\ UNCHANGED <<errno, peer>>
    BY <1>1, <1>5
  <2>2. call' = r
    OBVIOUS
  <2> HIDE DEF c, r
  <2>3. r \in Call /\ r.op = op /\ r.entry = errno /\ Running(r) /\ r.loop \in {"in", "out"}
    BY <1>2, <1>3, <1>5, <2>1, BeginIsRunning
  <2>4. IoTypes'
    BY <2>1, <2>2, <2>3, IdleIs DEF IoInv, IoTypes
  <2>5. Blamed' /\ Drained'
    BY <2>1, <2>2, <2>3 DEF Blamed, Drained
  <2>6. TruthOf(done')
    BY <2>1, IdleIs
  <2> QED
    BY <1>2, <2>2, <2>3, <2>4, <2>5, <2>6 DEF IoInv
<1> QED
  BY <1>4, <1>5

\* The peer sends, closes or resets the connection: none of it after it closed.
LEMMA PeerKeeps ==
  ASSUME IoInv, PeerSends \/ PeerCloses \/ PeerResets
  PROVE  IoInv'
<1>1. UNCHANGED <<errno, call, done>>
  BY DEF PeerSends, PeerCloses, PeerResets
<1>2. peer' \in Peer
  <2>1. peer \in Peer
    BY DEF IoInv, IoTypes, Peer
  <2>2. CASE PeerSends
    <3>1. PICK b \in Byte : peer' = [peer EXCEPT !.data = Append(@, b)]
      BY <2>2 DEF PeerSends
    <3>2. Append(peer.data, b) \in Seq(Byte)
      BY <2>1 DEF Peer
    <3> QED
      BY <2>1, <3>1, <3>2 DEF Peer
  <2>3. CASE PeerCloses
    BY <2>1, <2>3 DEF PeerCloses, Peer
  <2>4. CASE PeerResets
    <3>1. <<>> \in Seq(Byte) /\ TRUE \in BOOLEAN
      OBVIOUS
    <3>2. peer' = [peer EXCEPT !.reset = TRUE, !.data = <<>>]
      BY <2>4 DEF PeerResets
    <3> QED
      BY <2>1, <3>1, <3>2, ZenonT(30) DEF Peer
  <2> QED
    BY <2>2, <2>3, <2>4
<1>3. peer.data = <<>> /\ peer.eof => peer'.data = <<>> /\ peer'.eof
  BY DEF PeerSends, PeerCloses, PeerResets, IoInv, IoTypes
<1>4. IoTypes'
  BY <1>1, <1>2 DEF IoInv, IoTypes, Peer
<1>5. Blamed' /\ Drained'
  BY <1>1, <1>3 DEF IoInv, Blamed, Drained
<1> QED
  BY <1>1, <1>4, <1>5 DEF IoInv

\* No connection comes: only errno changes.
LEMMA WaitsKeeps ==
  ASSUME IoInv, WaitsForConnection
  PROVE  IoInv'
<1>1. UNCHANGED <<peer, call, done>> /\ errno' \in Errno /\ call.op = "none"
  BY DEF WaitsForConnection, Errno
<1>2. IoTypes'
  BY <1>1 DEF IoInv, IoTypes
<1>3. Blamed' /\ Drained'
  BY <1>1 DEF Blamed, Drained
<1> QED
  BY <1>1, <1>2, <1>3 DEF IoInv

\* The invariant holds at first.
LEMMA InitHolds ==
  ASSUME IoInit
  PROVE  IoInv
<1>1. IoTypes
  <2>1. <<>> \in Seq(Byte)
    OBVIOUS
  <2>2. peer \in Peer
    BY <2>1 DEF IoInit, Peer
  <2>3. errno \in Errno /\ call \in Call /\ done \in Call
    BY IdleIs DEF IoInit, Errno
  <2> QED
    BY <2>2, <2>3 DEF IoTypes, Peer
<1>2. Blamed /\ Drained
  BY IdleIs DEF IoInit, Blamed, Drained
<1> QED
  BY <1>1, <1>2, IdleIs DEF IoInit, IoInv

\* Every step keeps the invariant.
LEMMA StepKeeps ==
  ASSUME QIoAssumption, IoInv, [IoNext]_ioVars
  PROVE  IoInv'
<1>1. CASE WaitsForConnection
  BY <1>1, WaitsKeeps
<1>2. CASE PeerSends \/ PeerCloses \/ PeerResets
  BY <1>2, PeerKeeps
<1>3. CASE Start
  BY <1>3, StartKeeps
<1>4. CASE InFull \/ ReadEnd \/ OutFull
  BY <1>4, InFullKeeps, ReadEndKeeps, OutFullKeeps
<1>5. CASE ReadFails \/ WriteFails \/ Interrupted \/ TimesOut
  BY <1>5, CutKeeps, TimesOutKeeps
<1>6. CASE ReadSome
  BY <1>6, ReadSomeKeeps
<1>7. CASE WriteSome
  BY <1>7, WriteSomeKeeps
<1>8. CASE SimpleReturns \/ DrainReads
  BY <1>8, SimpleReturnsKeeps, DrainReadsKeeps
<1>9. CASE SendReads \/ SendWrites
  BY <1>9, SendReadsKeeps, SendWritesKeeps
<1>10. CASE WritevWrites
  BY <1>10, WritevWritesKeeps
<1>11. CASE GetsByte
  BY <1>11, GetsByteKeeps
<1>12. CASE UNCHANGED ioVars
  BY <1>12 DEF IoInv, IoTypes, Blamed, Drained, ioVars
<1> QED
  BY <1>1, <1>2, <1>3, <1>4, <1>5, <1>6, <1>7, <1>8, <1>9, <1>10, <1>11, <1>12
  DEF IoNext, Runs

\* What TruthOf says of the last call is what SaysWhatItDid says.
LEMMA TruthIsSaid ==
  ASSUME TruthOf(done)
  PROVE  SaysWhatItDid
<1>1. Counted
  BY DEF TruthOf, CountedOf, Counted
<1>2. ZeroIsTimeout
  BY DEF TruthOf, ZeroOf, ZeroIsTimeout
<1>3. OneLine
  BY DEF TruthOf, OneLineOf, OneLine, LineOf, Plain
<1> QED
  BY <1>1, <1>2, <1>3 DEF SaysWhatItDid

\* Only a drain that got nothing ends.
LEMMA DrainEnds ==
  ASSUME IoInv, [IoNext]_ioVars
  PROVE  DrainsAllStep
<1> SUFFICES ASSUME call.op = "drain", call'.op = "none", ~call.timed, ~call.cut
             PROVE  peer.data = <<>> /\ peer.eof
  BY DEF DrainsAllStep
<1>1. call \in Call /\ call.op # "none" /\ call' # call
  BY DEF IoInv, IoTypes
<1>2. DrainReads
  <2>1. ~WaitsForConnection /\ ~Start /\ ~UNCHANGED ioVars
    BY <1>1 DEF WaitsForConnection, Start, ioVars
  <2>2. ~PeerSends /\ ~PeerCloses /\ ~PeerResets
    BY <1>1 DEF PeerSends, PeerCloses, PeerResets
  <2>3. ~InFull /\ ~ReadEnd /\ ~OutFull /\ ~ReadFails /\ ~WriteFails /\ ~Interrupted /\ ~TimesOut
    <3>1. WentBack(call') => call'.op = "drain"
      BY DEF WentBack, Keeps
    <3>2. call' # Back /\ call' # [Back EXCEPT !.cut = TRUE] /\ call' # [Back EXCEPT !.timed = TRUE]
      BY <1>1, <3>1, BackIs
    <3> QED
      BY <3>2 DEF InFull, ReadEnd, OutFull, ReadFails, WriteFails, Interrupted, TimesOut, Goes
  <2>4. ~ReadSome
    BY <1>1 DEF ReadSome, Call
  <2>5. ~WriteSome
    BY <1>1 DEF WriteSome, Goes, Call
  <2>6. ~SimpleReturns /\ ~SendReads /\ ~SendWrites /\ ~WritevWrites /\ ~GetsByte
    BY DEF SimpleReturns, SendReads, SendWrites, WritevWrites, GetsByte
  <2> QED
    BY <2>1, <2>2, <2>3, <2>4, <2>5, <2>6 DEF IoNext, Runs
<1>3. call.loop = "read"
  BY <1>2 DEF DrainReads
<1>4. Inner <= 0
  <2> SUFFICES ASSUME ~(Inner <= 0) PROVE FALSE
    OBVIOUS
  <2> DEFINE r == call'
  <2>1. r = Loop("in", Chunk, call)
    BY <1>2 DEF DrainReads, Goes
  <2> HIDE DEF r
  <2>2. r = [call EXCEPT !.loop = "in", !.limit = Chunk, !.got = <<>>]
    BY <2>1 DEF Loop
  <2>3. r.op = call.op
    BY <1>1, <2>2 DEF Call
  <2> QED
    BY <2>3 DEF r
<1>5. call.got = <<>>
  BY <1>1, <1>4, InnerIs, CallTypes, NoBytes
<1> QED
  BY <1>3, <1>5 DEF IoInv, Drained

-----------------------------------------------------------------------------
(* The theorems *)

\* A read, a write, a send and a line return what they did, for any bytes, any
\* sizes and any peer (QIo!SaysWhatItDid).
THEOREM SaysCorrect ==
  ASSUME QIoAssumption
  PROVE  IoSpec => []SaysWhatItDid
<1>1. IoInit => IoInv
  BY InitHolds
<1>2. IoInv /\ [IoNext]_ioVars => IoInv'
  BY StepKeeps
<1>3. IoInv => SaysWhatItDid
  BY TruthIsSaid DEF IoInv
<1> QED
  BY <1>1, <1>2, <1>3, PTL DEF IoSpec

\* Nothing of the peer is unread when its connection is closed, unless it was
\* slow or reset it, or a signal came (QIo!DrainsAllStep).
THEOREM DrainsAllCorrect ==
  ASSUME QIoAssumption
  PROVE  IoSpec => [][DrainsAllStep]_ioVars
<1>1. IoInit => IoInv
  BY InitHolds
<1>2. IoInv /\ [IoNext]_ioVars => IoInv'
  BY StepKeeps
<1>3. IoInv /\ [IoNext]_ioVars => DrainsAllStep
  BY DrainEnds
<1> QED
  BY <1>1, <1>2, <1>3, PTL DEF IoSpec
=============================================================================
