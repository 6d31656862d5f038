-------------------------- MODULE HttpClientProofs --------------------------
EXTENDS HttpClient, SequenceTheorems, FiniteSetTheorems, WellFoundedInduction, TLAPS

(***************************************************************************)
(* What qhttpclient.c promises its caller, proved for any sizes of         *)
(* contents, any piece that is read at once and any number of calls:       *)
(*                                                                         *)
(*   Safe      - the types, and where the call, what goes up, the server   *)
(*               and what comes down are with respect to each other:       *)
(*               inductive on its own. It gives AnswerIsOwn.               *)
(*   WholeInv  - how much of the answer has been read, and that what has   *)
(*               been kept of it is the beginning of its contents:         *)
(*               inductive together with Safe. It gives ResultTrue.        *)
(*                                                                         *)
(* All of it is said of a connection that is not stale, that is, on which  *)
(* no earlier call has left an answer due.                                 *)
(***************************************************************************)

-----------------------------------------------------------------------------
(* The types *)

Kind == {"head", "get", "put", "cmd", "status", "data", "length", "chunked", "close",
         "end", "size", "crlf", "garbage", "nothing"}
Token == [k : Kind, of : Nat, n : Int]
Op == {"head", "get", "put", "cmd"}
\* The server has been told to send for a request that it has.
ServerRecord == {s \in [op : Op \cup {"none"}, req : Nat, len : Int, told : BOOLEAN] : s.told => s.op # "none"}
ConnRecord == [open : BOOLEAN, closed : BOOLEAN, connclose : BOOLEAN, stale : BOOLEAN,
               confused : BOOLEAN, up : Seq(Token), down : Seq(Token), srv : ServerRecord]
Code == {0, 100, 200, 201, 404}
Pc == {"idle", "wait", "status", "fields", "read", "recv", "size", "chunk", "tail", "send"}
CallRecord == [op : Op \cup {"none"}, req : Nat, len : Nat, pc : Pc, first : BOOLEAN,
               code : Code, of : Nat, clength : Int, left : Int, saved : Seq(Token),
               cut : BOOLEAN, late : BOOLEAN, ok : BOOLEAN]
LogRecord == [answer : [op : {"none", "length", "chunks", "close"}, req : Nat, len : Nat, told : BOOLEAN],
              stored : BOOLEAN]

\* The status lines that can come.
IsStatus(t) == t.k = "status"
Codes(s) == \A i \in 1 .. Len(s) : IsStatus(s[i]) => s[i].n \in Code \ {0}

\* Requests and contents go up, and nothing else.
Ups(s) == \A i \in 1 .. Len(s) : s[i].k \in Op \cup {"data"}

\* The types; what is read in a loop belongs to a GET, and a length is read
\* only when it is not 0.
ClientTypeOK ==
  /\ opt \in [keepalive : BOOLEAN, timeout : BOOLEAN]
  /\ conn \in ConnRecord
  /\ call \in CallRecord /\ (call.pc # "idle" => call.op \in Op) /\ (call.pc = "read" => call.clength > 0)
  /\ call.pc \in {"recv", "size", "chunk", "tail"} => call.op = "get"
  /\ done \in CallRecord
  /\ log \in LogRecord
  /\ Codes(conn.down) /\ Ups(conn.up)

NoStatus(s) == \A i \in 1 .. Len(s) : ~IsStatus(s[i])
AllData(s) == \A i \in 1 .. Len(s) : s[i].k = "data"

\* The server has nothing more to do, and has no more to say.
Quiet(cn) ==
  /\ cn.srv.op = "none"
  /\ cn.closed \/ cn.up = <<>>
  /\ NoStatus(cn.down)

\* The status line that was read is that of the answer.
Final(c) == c.code \notin {0, 100} /\ (~c.cut \/ c.code # 404)

\* What is left to be sent when the server has been told to send.
ToSend(c) == IF c.op # "put" THEN 0 ELSE IF c.first THEN c.len ELSE IF c.pc = "send" THEN c.left ELSE 0

\* The request is on its way.
Asked(c, cn) ==
  /\ cn.srv.op = "none" /\ cn.up # <<>>
  /\ c.pc \in {"wait", "status"} /\ c.code = 0 /\ c.first = (c.op = "put")
  /\ NoStatus(cn.down)
  /\ cn.up[1] = Request(c.op, c.req, c.len)
  /\ \A i \in 2 .. Len(cn.up) : cn.up[i].k = "data"
  /\ Len(cn.up) = 1 + (IF c.op = "cmd" THEN c.len ELSE 0)

\* The server has a PUT for which it has not asked.
Waiting(c, cn) ==
  /\ cn.srv.op = "put" /\ ~cn.srv.told /\ cn.up = <<>>
  /\ cn.srv.len = c.len
  /\ c.pc \in {"wait", "status"} /\ c.code = 0 /\ c.first
  /\ NoStatus(cn.down)

\* The server takes what belongs to the request.
Taking(c, cn) ==
  /\ cn.srv.op # "none" /\ cn.srv.told
  /\ AllData(cn.up)
  /\ cn.srv.len = Len(cn.up) + ToSend(c)
  /\ ~Final(c)
  /\ \A i \in 1 .. Len(cn.down) : IsStatus(cn.down[i]) => cn.down[i].n = 100

\* The server has answered.
Answered(c, cn) ==
  /\ cn.srv.op = "none" /\ cn.up = <<>>
  /\ c.pc # "send"
  /\ c.op = "put" /\ c.first /\ c.len > 0
       => c.code # 100 /\ \A i \in 1 .. Len(cn.down) : IsStatus(cn.down[i]) => cn.down[i].n # 100

Phase(c, cn) == Asked(c, cn) \/ Waiting(c, cn) \/ Taking(c, cn) \/ Answered(c, cn)

\* Where the call is agrees with what it has read.
Place(c) ==
  /\ c.op \in Op /\ c.req > 0 /\ c.pc # "idle"
  /\ c.op \in {"head", "get"} => c.len = 0
  /\ c.first => c.op = "put"
  /\ c.pc = "wait" => c.first /\ c.code = 0
  /\ c.pc = "send" => c.op = "put" /\ ~c.first /\ c.code = 100 /\ c.left > 0
  /\ c.pc = "status" => c.code = IF c.op = "put" /\ ~c.first THEN 100 ELSE 0
  /\ c.pc = "fields" => c.code # 0 /\ (c.code = 100 => c.first)
  /\ c.pc \in {"read", "recv", "size", "chunk", "tail"} => c.code \notin {0, 100}
  /\ c.of # 0 => c.of = c.req

\* What comes down is the answer to the call.
Coming(c, cn) ==
  /\ cn.srv.op # "none" => ~cn.closed /\ cn.srv.req = c.req /\ cn.srv.op = c.op
  /\ \A i \in 1 .. Len(cn.down) : IsStatus(cn.down[i]) =>
       /\ cn.down[i].of = c.req
       /\ cn.down[i].n = 100 => c.op = "put" /\ c.first /\ c.code = 0
       /\ cn.down[i].n # 100 => cn.srv.op = "none" /\ (cn.closed \/ cn.up = <<>>)
  /\ \A i, j \in 1 .. Len(cn.down) : IsStatus(cn.down[i]) /\ IsStatus(cn.down[j]) /\ i < j
       => cn.down[i].n = 100 /\ cn.down[j].n # 100
  /\ Final(c) => Quiet(cn)

\* A 201 says that the contents were stored.
Stored(c, cn, lg) ==
  c.code = 201 \/ (\E i \in 1 .. Len(cn.down) : IsStatus(cn.down[i]) /\ cn.down[i].n = 201)
    => lg.stored /\ lg.answer.req = c.req

\* A call that is being made over a connection that is not stale.
Running(c, cn, lg) ==
  /\ Place(c) /\ Coming(c, cn) /\ Stored(c, cn, lg)
  /\ ~cn.closed => Phase(c, cn)

\* The call that returned last: its answer is its own, and a PUT that says it
\* was stored was.
Ended(d, cn, lg) ==
  /\ d.of # 0 /\ ~d.late => d.of = d.req
  /\ d.ok /\ d.op = "put" /\ ~d.late => d.code = 201 /\ lg.stored /\ lg.answer.req = d.req /\ Quiet(cn)

\* Client and server agree where they are, unless the connection is stale:
\* that is what the next call relies on when it reuses it.
IInv ==
  /\ conn.confused => conn.stale
  /\ IF call.pc = "idle" THEN (~conn.stale => Quiet(conn)) /\ Ended(done, conn, log)
     ELSE /\ done = NoCall /\ call.late = conn.stale
          /\ ~conn.stale => Running(call, conn, log)

-----------------------------------------------------------------------------
(* Sequences of tokens *)

\* What is left of a sequence when m elements are taken from its front.
LEMMA SuffixSeq ==
  ASSUME NEW S, NEW s \in Seq(S), NEW m \in 0 .. Len(s)
  PROVE  /\ SubSeq(s, m + 1, Len(s)) \in Seq(S)
         /\ Len(SubSeq(s, m + 1, Len(s))) = Len(s) - m
         /\ \A i \in 1 .. Len(s) - m : SubSeq(s, m + 1, Len(s))[i] = s[m + i]
<1>1. \A i \in m + 1 .. Len(s) : s[i] \in S
  BY ElementOfSeq
<1>2. /\ SubSeq(s, m + 1, Len(s)) \in Seq(S)
      /\ Len(SubSeq(s, m + 1, Len(s))) = IF m + 1 <= Len(s) THEN Len(s) - (m + 1) + 1 ELSE 0
      /\ \A i \in 1 .. Len(s) - (m + 1) + 1 : SubSeq(s, m + 1, Len(s))[i] = s[(m + 1) + i - 1]
  BY <1>1, SubSeqProperties
<1>3. QED
  BY <1>2

\* The first m elements of a sequence.
LEMMA PrefixSeq ==
  ASSUME NEW S, NEW s \in Seq(S), NEW m \in 0 .. Len(s)
  PROVE  /\ SubSeq(s, 1, m) \in Seq(S)
         /\ Len(SubSeq(s, 1, m)) = m
         /\ \A i \in 1 .. m : SubSeq(s, 1, m)[i] = s[i]
<1>1. \A i \in 1 .. m : s[i] \in S
  BY ElementOfSeq
<1>2. /\ SubSeq(s, 1, m) \in Seq(S)
      /\ Len(SubSeq(s, 1, m)) = IF 1 <= m THEN m - 1 + 1 ELSE 0
      /\ \A i \in 1 .. m - 1 + 1 : SubSeq(s, 1, m)[i] = s[1 + i - 1]
  BY <1>1, SubSeqProperties
<1>3. QED
  BY <1>2

\* Contents are n units of data.
LEMMA UnitsSeq ==
  ASSUME NEW r \in Nat, NEW from \in Int, NEW n \in Nat
  PROVE  /\ Units(r, from, n) \in Seq(Token)
         /\ Len(Units(r, from, n)) = n
         /\ \A i \in 1 .. n : Units(r, from, n)[i] = Unit(r, from + i)
         /\ AllData(Units(r, from, n))
<1>1. \A i \in 1 .. n : Unit(r, from + i) \in Token
  BY DEF Unit, Token, Kind
<1>2. Units(r, from, n) \in Seq(Token)
  BY <1>1 DEF Units
<1>3. Len(Units(r, from, n)) = n /\ \A i \in 1 .. n : Units(r, from, n)[i] = Unit(r, from + i)
  BY DEF Units
<1>4. QED
  BY <1>2, <1>3 DEF AllData, Unit

\* A nonempty set of natural numbers has a least element.
LEMMA LeastElement ==
  ASSUME NEW S \in SUBSET Nat, S # {}
  PROVE  \E m \in S : \A n \in S : m <= n
<1> DEFINE T == {0 .. m : m \in S}
           LessThan == StrictSubsetOrdering(Nat)
<1>1. T \subseteq FiniteSubsetsOf(Nat)
  <2>1. SUFFICES ASSUME NEW m \in S PROVE 0 .. m \in FiniteSubsetsOf(Nat)
    OBVIOUS
  <2>2. IsFiniteSet(0 .. m)
    BY FS_Interval
  <2>3. 0 .. m \subseteq Nat
    OBVIOUS
  <2> QED
    BY <2>2, <2>3, Zenon DEF FiniteSubsetsOf
<1>2. IsWellFoundedOn(LessThan, FiniteSubsetsOf(Nat))
  BY FS_StrictSubsetOrderingWellFounded, Zenon
<1>3. T # {}
  OBVIOUS
<1>4. PICK t \in T : \A u \in T : <<u, t>> \notin LessThan
  BY <1>1, <1>2, <1>3, WFMin, Zenon
<1>5. PICK m \in S : t = 0 .. m
  OBVIOUS
<1>6. ASSUME NEW n \in S, n < m PROVE FALSE
  <2>1. 0 .. n \in T
    OBVIOUS
  <2>2. 0 .. n \subseteq 0 .. m
    BY <1>6
  <2>3. m \in 0 .. m /\ m \notin 0 .. n
    BY <1>6
  <2>4. 0 .. n \in SUBSET Nat /\ 0 .. m \in SUBSET Nat
    OBVIOUS
  <2>5. <<0 .. n, 0 .. m>> \in LessThan
    BY <2>2, <2>3, <2>4 DEF StrictSubsetOrdering
  <2> QED
    BY <2>1, <2>5, <1>4, <1>5
<1> QED
  BY <1>6

\* The first line is one of what has come, if there is one.
LEMMA FirstLine ==
  ASSUME NEW d \in Seq(Token)
  PROVE  /\ SelectInSeq(d, IsLine) \in 0 .. Len(d)
         /\ SelectInSeq(d, IsLine) # 0 => IsLine(d[SelectInSeq(d, IsLine)])
         /\ Len(d) > 0 /\ IsLine(d[1]) => SelectInSeq(d, IsLine) = 1
<1> DEFINE I == {i \in 1 .. Len(d) : IsLine(d[i])}
<1>1. CASE I = {}
  BY <1>1 DEF SelectInSeq
<1>2. CASE I # {}
  <2>1. \E x \in I : \A y \in I : x <= y
    BY <1>2, LeastElement, I \in SUBSET Nat
  <2>3. Min(I) \in I /\ \A y \in I : Min(I) =< y
    BY <2>1 DEF Min
  <2>4. SelectInSeq(d, IsLine) = Min(I)
    BY <1>2 DEF SelectInSeq
  <2>5. QED
    BY <2>3, <2>4
<1>3. QED
  BY <1>1, <1>2

\* The header of an answer is its status, how long the contents are, that the
\* connection will be closed, and the end.
HeaderLen(framing, close) == 2 + (IF framing = "close" THEN 0 ELSE 1) + (IF close THEN 1 ELSE 0)

IsAnswer(a, r, code, framing, n, close) ==
  /\ a \in Seq(Token)
  /\ Len(a) = HeaderLen(framing, close)
  /\ a[1] = Status(r, code)
  /\ framing = "length" => a[2] = [Line("length") EXCEPT !.n = n]
  /\ framing = "chunks" => a[2] = Line("chunked")
  /\ close => a[Len(a) - 1] = Line("close")
  /\ a[Len(a)] = Line("end")
  /\ \A i \in 2 .. Len(a) : ~IsStatus(a[i]) /\ IsLine(a[i])

\* A header of an answer has one status line, its first, and an end, its last.
LEMMA AnswerSeq ==
  ASSUME NEW r \in Nat, NEW code \in Code \ {0}, NEW framing \in {"length", "chunks", "close"},
         NEW n \in Nat, NEW close \in BOOLEAN
  PROVE  IsAnswer(Answer(r, code, framing, n, close), r, code, framing, n, close)
<1> DEFINE f == CASE framing = "length" -> <<[Line("length") EXCEPT !.n = n]>>
                  [] framing = "chunks" -> <<Line("chunked")>>
                  [] framing = "close" -> <<>>
           c == IF close THEN <<Line("close")>> ELSE <<>>
<1>1. /\ Status(r, code) \in Token /\ [Line("length") EXCEPT !.n = n] \in Token
      /\ Line("chunked") \in Token /\ Line("close") \in Token /\ Line("end") \in Token
  BY DEF Status, Line, Token, Kind, Code
<1>2. f \in Seq(Token) /\ Len(f) = (IF framing = "close" THEN 0 ELSE 1)
  BY <1>1
<1>3. c \in Seq(Token) /\ Len(c) = (IF close THEN 1 ELSE 0)
  BY <1>1
<1>4. /\ framing = "length" => f[1] = [Line("length") EXCEPT !.n = n]
      /\ framing = "chunks" => f[1] = Line("chunked")
      /\ close => c[1] = Line("close")
  OBVIOUS
<1>5. Answer(r, code, framing, n, close) = ((<<Status(r, code)>> \o f) \o c) \o <<Line("end")>>
  BY DEF Answer
<1>6. /\ ~IsStatus([Line("length") EXCEPT !.n = n]) /\ ~IsStatus(Line("chunked"))
      /\ ~IsStatus(Line("close")) /\ ~IsStatus(Line("end"))
      /\ IsLine([Line("length") EXCEPT !.n = n]) /\ IsLine(Line("chunked"))
      /\ IsLine(Line("close")) /\ IsLine(Line("end"))
  BY DEF IsStatus, IsLine, Line
<1>7. \A i \in 1 .. Len(f) : ~IsStatus(f[i]) /\ IsLine(f[i])
  BY <1>2, <1>4, <1>6
<1>8. \A i \in 1 .. Len(c) : ~IsStatus(c[i]) /\ IsLine(c[i])
  BY <1>3, <1>4, <1>6
<1> HIDE DEF f, c
<1> DEFINE s == <<Status(r, code)>>  e == <<Line("end")>>
<1>9. s \in Seq(Token) /\ Len(s) = 1 /\ s[1] = Status(r, code)
  BY <1>1
<1>10. e \in Seq(Token) /\ Len(e) = 1 /\ e[1] = Line("end")
  BY <1>1
<1> HIDE DEF s, e
<1>11. /\ s \o f \in Seq(Token) /\ Len(s \o f) = Len(s) + Len(f)
       /\ \A i \in 1 .. Len(s) + Len(f) : (s \o f)[i] = IF i <= Len(s) THEN s[i] ELSE f[i - Len(s)]
  BY <1>2, <1>9, ConcatProperties
<1> DEFINE sf == s \o f
<1> HIDE DEF sf
<1>12. /\ sf \o c \in Seq(Token) /\ Len(sf \o c) = Len(sf) + Len(c)
       /\ \A i \in 1 .. Len(sf) + Len(c) : (sf \o c)[i] = IF i <= Len(sf) THEN sf[i] ELSE c[i - Len(sf)]
  BY <1>3, <1>11, ConcatProperties DEF sf
<1> DEFINE sfc == sf \o c
<1> HIDE DEF sfc
<1>13. /\ sfc \o e \in Seq(Token) /\ Len(sfc \o e) = Len(sfc) + Len(e)
       /\ \A i \in 1 .. Len(sfc) + Len(e) : (sfc \o e)[i] = IF i <= Len(sfc) THEN sfc[i] ELSE e[i - Len(sfc)]
  BY <1>10, <1>12, ConcatProperties DEF sfc
<1>14. Answer(r, code, framing, n, close) = sfc \o e
  BY <1>5 DEF s, e, sf, sfc, f, c
<1> DEFINE a == sfc \o e
<1> HIDE DEF a
<1>15. /\ a \in Seq(Token)
       /\ Len(a) = 2 + Len(f) + Len(c)
       /\ a[1] = Status(r, code)
       /\ a[Len(a)] = Line("end")
  BY <1>2, <1>3, <1>9, <1>10, <1>11, <1>12, <1>13 DEF a, sf, sfc
<1>16. \A i \in 1 .. Len(f) : a[i + 1] = f[i]
  BY <1>2, <1>3, <1>9, <1>10, <1>11, <1>12, <1>13 DEF a, sf, sfc
<1>17. \A i \in 1 .. Len(c) : a[i + 1 + Len(f)] = c[i]
  BY <1>2, <1>3, <1>9, <1>10, <1>11, <1>12, <1>13 DEF a, sf, sfc
<1>18. ASSUME NEW i \in 2 .. Len(a) PROVE ~IsStatus(a[i]) /\ IsLine(a[i])
  <2>1. CASE i <= 1 + Len(f)
    <3>1. i - 1 \in 1 .. Len(f) /\ a[(i - 1) + 1] = f[i - 1]
      BY <2>1, <1>16, <1>2
    <3>2. QED
      BY <3>1, <1>7
  <2>2. CASE i > 1 + Len(f) /\ i < Len(a)
    <3>1. i - 1 - Len(f) \in 1 .. Len(c) /\ a[(i - 1 - Len(f)) + 1 + Len(f)] = c[i - 1 - Len(f)]
      BY <2>2, <1>15, <1>17, <1>2, <1>3
    <3>2. QED
      BY <3>1, <1>8, <1>2, (i - 1 - Len(f)) + 1 + Len(f) = i
  <2>3. CASE i = Len(a)
    BY <2>3, <1>15, <1>6
  <2>4. QED
    BY <2>1, <2>2, <2>3, <1>2, <1>15
<1>19. /\ framing = "length" => a[2] = [Line("length") EXCEPT !.n = n]
       /\ framing = "chunks" => a[2] = Line("chunked")
  BY <1>2, <1>4, <1>16
<1>20. close => a[Len(a) - 1] = Line("close")
  BY <1>2, <1>3, <1>4, <1>15, <1>17
<1>21. QED
  BY <1>2, <1>3, <1>14, <1>15, <1>18, <1>19, <1>20 DEF HeaderLen, IsAnswer, a

BodyLen(framing, n) == IF framing = "chunks" THEN 3 * n + 2 ELSE n

IsBody(b, r, framing, n) ==
  /\ b \in Seq(Token)
  /\ Len(b) = BodyLen(framing, n)
  /\ NoStatus(b)
  /\ framing # "chunks" => b = Units(r, 0, n)
  /\ framing = "chunks" => /\ \A i \in 1 .. 3 * n : b[i] = ChunkPart(r, i)
                           /\ b[3 * n + 1] = Line("size") /\ b[3 * n + 2] = Line("crlf")

\* The contents of an answer hold no line of a header.
LEMMA BodySeq ==
  ASSUME NEW r \in Nat, NEW framing \in {"length", "chunks", "close"}, NEW n \in Nat
  PROVE  IsBody(Body(r, framing, n), r, framing, n)
<1>1. CASE framing # "chunks"
  <2>1. Body(r, framing, n) = Units(r, 0, n)
    BY <1>1 DEF Body
  <2> DEFINE u == Units(r, 0, n)
  <2>2. u \in Seq(Token) /\ Len(u) = n /\ AllData(u)
    BY UnitsSeq, 0 \in Int
  <2> HIDE DEF u
  <2>3. NoStatus(u)
    BY <2>2 DEF NoStatus, AllData, IsStatus
  <2>4. QED
    BY <1>1, <2>1, <2>2, <2>3 DEF BodyLen, IsBody, u
<1>2. CASE framing = "chunks"
  <2> DEFINE p == [i \in 1 .. 3 * n |-> ChunkPart(r, i)]
             e == <<Line("size"), Line("crlf")>>
  <2>1. ASSUME NEW i \in 1 .. 3 * n PROVE ChunkPart(r, i) \in Token /\ ~IsStatus(ChunkPart(r, i))
    <3>1. i % 3 \in {0, 1, 2}
      OBVIOUS
    <3>2. Line("crlf") \in Token /\ [Line("size") EXCEPT !.n = 1] \in Token /\ Unit(r, (i + 1) \div 3) \in Token
      BY DEF Line, Unit, Token, Kind
    <3>3. ~IsStatus(Line("crlf")) /\ ~IsStatus([Line("size") EXCEPT !.n = 1]) /\ ~IsStatus(Unit(r, (i + 1) \div 3))
      BY DEF Line, Unit, IsStatus
    <3>4. QED
      BY <3>1, <3>2, <3>3 DEF ChunkPart
  <2>2. p \in Seq(Token) /\ Len(p) = 3 * n /\ \A i \in 1 .. 3 * n : p[i] = ChunkPart(r, i)
    BY <2>1
  <2>3. e \in Seq(Token) /\ Len(e) = 2 /\ e[1] = Line("size") /\ e[2] = Line("crlf")
    BY DEF Line, Token, Kind
  <2>4. Body(r, framing, n) = p \o e
    BY <1>2 DEF Body
  <2>5. ~IsStatus(e[1]) /\ ~IsStatus(e[2])
    BY <2>3 DEF Line, IsStatus
  <2>6. \A i \in 1 .. Len(p) : ~IsStatus(p[i])
    BY <2>1, <2>2
  <2> HIDE DEF p, e
  <2>7. /\ p \o e \in Seq(Token) /\ Len(p \o e) = Len(p) + Len(e)
        /\ \A i \in 1 .. Len(p) + Len(e) : (p \o e)[i] = IF i <= Len(p) THEN p[i] ELSE e[i - Len(p)]
    BY <2>2, <2>3, ConcatProperties
  <2>8. ASSUME NEW i \in 1 .. Len(p \o e) PROVE ~IsStatus((p \o e)[i])
    <3>1. CASE i <= Len(p)
      BY <3>1, <2>2, <2>3, <2>6, <2>7
    <3>2. CASE i = Len(p) + 1
      BY <3>2, <2>2, <2>3, <2>5, <2>7
    <3>3. CASE i = Len(p) + 2
      BY <3>3, <2>2, <2>3, <2>5, <2>7
    <3>4. QED
      BY <3>1, <3>2, <3>3, <2>2, <2>3, <2>7
  <2>9. NoStatus(p \o e)
    BY <2>8 DEF NoStatus
  <2>10. \A i \in 1 .. 3 * n : (p \o e)[i] = ChunkPart(r, i)
    BY <2>2, <2>3, <2>7
  <2>11. (p \o e)[3 * n + 1] = Line("size") /\ (p \o e)[3 * n + 2] = Line("crlf")
    BY <2>2, <2>3, <2>7
  <2>12. Len(p \o e) = 3 * n + 2
    BY <2>2, <2>3, <2>7
  <2>13. QED
    BY <1>2, <2>4, <2>7, <2>9, <2>10, <2>11, <2>12 DEF BodyLen, IsBody
<1>3. QED
  BY <1>1, <1>2

\* The status lines of s are some of those of d, in the same order; After: but
\* the first of d is not one of them.
Less(s, d) ==
  \E m \in Nat : \A i \in 1 .. Len(s) : IsStatus(s[i]) => i + m \in 1 .. Len(d) /\ s[i] = d[i + m]

After(s, d) ==
  \E m \in Nat : \A i \in 1 .. Len(s) : IsStatus(s[i]) => i + m \in 2 .. Len(d) /\ s[i] = d[i + m]

\* Taking from the front leaves less, and what was behind.
LEMMA SuffixLess ==
  ASSUME NEW d \in Seq(Token), NEW m \in 0 .. Len(d)
  PROVE  /\ SubSeq(d, m + 1, Len(d)) \in Seq(Token)
         /\ Less(SubSeq(d, m + 1, Len(d)), d)
         /\ m > 0 => After(SubSeq(d, m + 1, Len(d)), d)
<1> DEFINE s == SubSeq(d, m + 1, Len(d))
<1>1. s \in Seq(Token) /\ Len(s) = Len(d) - m /\ \A i \in 1 .. Len(d) - m : s[i] = d[m + i]
  BY SuffixSeq
<1> HIDE DEF s
<1>2. \A i \in 1 .. Len(s) : i + m \in 1 .. Len(d) /\ s[i] = d[i + m] /\ (m > 0 => i + m \in 2 .. Len(d))
  BY <1>1
<1>3. m \in Nat
  OBVIOUS
<1>4. Less(s, d)
  BY <1>2, <1>3 DEF Less
<1>5. m > 0 => After(s, d)
  BY <1>2, <1>3 DEF After
<1>6. QED
  BY <1>1, <1>4, <1>5 DEF s

\* Nothing has been taken.
LEMMA LessSelf ==
  ASSUME NEW d \in Seq(Token)
  PROVE  Less(d, d)
<1>1. \A i \in 1 .. Len(d) : i + 0 \in 1 .. Len(d) /\ d[i] = d[i + 0]
  OBVIOUS
<1>2. QED
  BY <1>1, 0 \in Nat DEF Less

GetsGood(g, d) ==
  /\ g.line \in Token /\ g.down \in Seq(Token) /\ g.cut \in BOOLEAN
  /\ Less(g.down, d)
  /\ IsStatus(g.line) =>
       /\ Len(d) > 0 /\ IsStatus(d[1])
       /\ g.line.of = d[1].of
       /\ After(g.down, d)
       /\ IF g.cut THEN g.line.n = 404 ELSE g.line = d[1]
  /\ ~g.cut => /\ Len(d) > 0
               /\ IsLine(d[1]) => g.line = d[1] /\ g.down = SubSeq(d, 2, Len(d))

\* What gets reads, and what it leaves.
LEMMA GetsGives ==
  ASSUME conn.down \in Seq(Token), NEW g \in Gets
  PROVE  GetsGood(g, conn.down)
<1> DEFINE d == conn.down
           j == SelectInSeq(d, IsLine)
           data == IF j = 0 THEN Len(d) ELSE j - 1
<1>1. /\ j \in 0 .. Len(d)
      /\ j # 0 => IsLine(d[j])
      /\ Len(d) > 0 /\ IsLine(d[1]) => j = 1
  BY FirstLine
<1>2. \/ j # 0 /\ g = [line |-> IF j = 1 THEN d[1] ELSE Garbage, down |-> SubSeq(d, j + 1, Len(d)), cut |-> FALSE]
      \/ g = [line |-> Nothing, down |-> d, cut |-> TRUE]
      \/ \E m \in 1 .. data : g = [line |-> Garbage, down |-> SubSeq(d, m + 1, Len(d)), cut |-> TRUE]
      \/ j = 1 /\ \E p \in Parts(d[1]) : g = [line |-> p, down |-> <<Rest(d[1])>> \o Tail(d), cut |-> TRUE]
  BY DEF Gets
<1> HIDE DEF j
<1>3. Garbage \in Token /\ Nothing \in Token /\ ~IsStatus(Garbage) /\ ~IsStatus(Nothing)
  BY DEF Garbage, Nothing, Line, Token, Kind, IsStatus
<1>4. d \in Seq(Token)
  OBVIOUS
<1> HIDE DEF d
<1>5. CASE j # 0 /\ g = [line |-> IF j = 1 THEN d[1] ELSE Garbage, down |-> SubSeq(d, j + 1, Len(d)), cut |-> FALSE]
  <2>1. g.down = SubSeq(d, j + 1, Len(d)) /\ g.cut = FALSE /\ g.line = IF j = 1 THEN d[1] ELSE Garbage
    BY <1>5
  <2>2. d[1] \in Token /\ Len(d) > 0
    BY <1>1, <1>4, <1>5, ElementOfSeq
  <2>3. g.down \in Seq(Token) /\ Less(g.down, d) /\ After(g.down, d)
    BY <1>1, <1>4, <1>5, <2>1, SuffixLess
  <2>4. IsStatus(g.line) => IsStatus(d[1]) /\ g.line = d[1]
    BY <1>3, <2>1
  <2>5. IsLine(d[1]) => g.line = d[1] /\ g.down = SubSeq(d, 2, Len(d))
    BY <1>1, <2>1, <2>2
  <2>6. g.line \in Token
    BY <1>3, <2>1, <2>2
  <2>7. QED
    BY <2>1, <2>2, <2>3, <2>4, <2>5, <2>6 DEF GetsGood, d
<1>6. CASE g = [line |-> Nothing, down |-> d, cut |-> TRUE]
  <2>1. g.down = d /\ g.cut = TRUE /\ g.line = Nothing
    BY <1>6
  <2>2. QED
    BY <1>3, <1>4, <2>1, LessSelf DEF GetsGood, d
<1>7. ASSUME NEW m \in 1 .. data, g = [line |-> Garbage, down |-> SubSeq(d, m + 1, Len(d)), cut |-> TRUE]
      PROVE  GetsGood(g, conn.down)
  <2>1. g.down = SubSeq(d, m + 1, Len(d)) /\ g.cut = TRUE /\ g.line = Garbage
    BY <1>7
  <2>2. m \in 0 .. Len(d)
    BY <1>1, <1>4
  <2>3. g.down \in Seq(Token) /\ Less(g.down, d)
    BY <1>4, <2>1, <2>2, SuffixLess
  <2>4. QED
    BY <1>3, <2>1, <2>3 DEF GetsGood, d
<1>8. ASSUME j = 1, NEW p \in Parts(d[1]), g = [line |-> p, down |-> <<Rest(d[1])>> \o Tail(d), cut |-> TRUE]
      PROVE  GetsGood(g, conn.down)
  <2>1. g.down = <<Rest(d[1])>> \o Tail(d) /\ g.cut = TRUE /\ g.line = p
    BY <1>8
  <2>2. d # <<>> /\ Len(d) > 0 /\ d[1] \in Token
    BY <1>1, <1>4, <1>8, ElementOfSeq
  <2>3. Rest(d[1]) \in Token /\ ~IsStatus(Rest(d[1]))
    BY <1>3, <2>2 DEF Rest, IsStatus
  <2>4. /\ p \in Token
        /\ IsStatus(p) => IsStatus(d[1]) /\ p.of = d[1].of /\ p.n = 404
    <3> DEFINE t == d[1]
    <3>1. t \in Token
      BY <2>2
    <3>2. p \in Parts(t)
      BY <1>8
    <3> HIDE DEF t
    <3> SUFFICES p \in Token /\ (IsStatus(p) => IsStatus(t) /\ p.of = t.of /\ p.n = 404)
      BY DEF t
    <3>3. CASE t.k \in {"length", "size"}
      <4>1. PICK m \in 0 .. t.n : p = [t EXCEPT !.n = m]
        BY <3>2, <3>3 DEF Parts
      <4>2. m \in Int
        BY <3>1 DEF Token
      <4>3. QED
        BY <3>1, <3>3, <4>1, <4>2 DEF Token, IsStatus
    <3>4. CASE t.k = "status"
      <4>1. p = Garbage \/ p = [t EXCEPT !.n = 404]
        BY <3>2, <3>4 DEF Parts
      <4>2. QED
        BY <1>3, <3>1, <3>4, <4>1 DEF Token, IsStatus
    <3>5. CASE t.k \in {"end", "crlf"}
      BY <3>1, <3>2, <3>5 DEF Parts, IsStatus
    <3>6. CASE t.k \notin {"length", "size", "status", "end", "crlf"}
      <4>1. p = Garbage
        BY <3>2, <3>6 DEF Parts
      <4>2. QED
        BY <4>1, <1>3
    <3>7. QED
      BY <3>3, <3>4, <3>5, <3>6
  <2>5. Tail(d) \in Seq(Token) /\ Len(Tail(d)) = Len(d) - 1 /\ \A i \in 1 .. Len(Tail(d)) : Tail(d)[i] = d[i + 1]
    BY <1>4, <2>2, HeadTailProperties
  <2> DEFINE one == <<Rest(d[1])>>  t == Tail(d)
  <2>6. one \in Seq(Token) /\ Len(one) = 1 /\ one[1] = Rest(d[1])
    BY <2>3
  <2> HIDE DEF one, t
  <2>7. /\ one \o t \in Seq(Token) /\ Len(one \o t) = Len(one) + Len(t)
        /\ \A i \in 1 .. Len(one) + Len(t) : (one \o t)[i] = IF i <= Len(one) THEN one[i] ELSE t[i - Len(one)]
    <3>1. one \in Seq(Token) /\ t \in Seq(Token)
      BY <2>5, <2>6 DEF t
    <3>2. QED
      BY <3>1, ConcatProperties
  <2>8. g.down = one \o t
    BY <2>1 DEF one, t
  <2>9. ASSUME NEW i \in 1 .. Len(g.down), IsStatus(g.down[i])
        PROVE  i + 0 \in 2 .. Len(d) /\ g.down[i] = d[i + 0]
    <3>1. i # 1
      BY <2>3, <2>6, <2>7, <2>8, <2>9
    <3>2. g.down[i] = t[i - 1] /\ i - 1 \in 1 .. Len(t)
      BY <2>5, <2>6, <2>7, <2>8, <3>1 DEF t
    <3>3. t[i - 1] = d[(i - 1) + 1] /\ Len(t) = Len(d) - 1
      BY <2>5, <3>2 DEF t
    <3>4. QED
      BY <3>1, <3>2, <3>3, <1>4
  <2>10. After(g.down, d) /\ Less(g.down, d)
    BY <2>9, 0 \in Nat DEF After, Less
  <2>11. QED
    BY <2>1, <2>2, <2>4, <2>7, <2>8, <2>10 DEF GetsGood, d
<1>9. QED
  BY <1>2, <1>5, <1>6, <1>7, <1>8 DEF d

-----------------------------------------------------------------------------
(* How a call goes on and ends *)

\* What is proved first.
Safe == ClientTypeOK /\ IInv

\* What a call and the connection are while the call goes on.
GoesOn(c, cn) ==
  /\ c \in CallRecord /\ c.pc # "idle" /\ c.op \in Op /\ c.late = conn.stale
  /\ c.pc = "read" => c.clength > 0
  /\ c.pc \in {"recv", "size", "chunk", "tail"} => c.op = "get"
  /\ cn \in ConnRecord /\ Codes(cn.down) /\ Ups(cn.up)
  /\ cn.stale = conn.stale /\ cn.confused = conn.confused
  /\ ~cn.stale => Running(c, cn, log)

\* No call, no connection and an idle server are in order.
LEMMA EmptyRecords ==
  /\ NoCall \in CallRecord /\ NoCall.of = 0 /\ NoCall.ok = FALSE /\ NoCall.pc = "idle"
  /\ NoConn \in ConnRecord /\ Codes(NoConn.down) /\ Ups(NoConn.up) /\ NoConn.stale = FALSE /\ NoConn.confused = FALSE
  /\ Quiet(NoConn)
  /\ NoConn.up = <<>> /\ NoConn.down = <<>> /\ NoConn.srv = Idle /\ NoConn.closed = FALSE
  /\ Idle \in ServerRecord /\ Idle.op = "none"
<1>1. <<>> \in Seq(Token) /\ Len(<<>>) = 0
  OBVIOUS
<1>2. Idle \in ServerRecord /\ Idle.op = "none"
  BY DEF Idle, ServerRecord, Op
<1>3. NoCall \in CallRecord /\ NoCall.of = 0 /\ NoCall.ok = FALSE /\ NoCall.pc = "idle"
  BY <1>1 DEF NoCall, CallRecord, Pc, Code
<1>4. /\ NoConn \in ConnRecord /\ NoConn.stale = FALSE /\ NoConn.confused = FALSE
      /\ NoConn.up = <<>> /\ NoConn.down = <<>> /\ NoConn.srv = Idle /\ NoConn.closed = FALSE
  BY <1>1, <1>2 DEF NoConn, ConnRecord
<1>5. Codes(NoConn.down) /\ Ups(NoConn.up) /\ Quiet(NoConn)
  BY <1>1, <1>2, <1>4 DEF Codes, Ups, Quiet, NoStatus
<1>6. QED
  BY <1>2, <1>3, <1>4, <1>5

\* A call that goes on over a connection in order leaves all in order.
LEMMA GoesKeeps ==
  ASSUME Safe, call.pc # "idle", NEW c, NEW cn, GoesOn(c, cn), Goes(c, cn), UNCHANGED <<opt, log>>
  PROVE  Safe'
<1>1. call' = c /\ conn' = cn /\ done' = NoCall /\ opt' = opt /\ log' = log
  BY DEF Goes
<1>2. ClientTypeOK'
  BY <1>1, EmptyRecords DEF Safe, ClientTypeOK, GoesOn
<1>3. IInv'
  BY <1>1 DEF Safe, IInv, GoesOn
<1>4. QED
  BY <1>2, <1>3 DEF Safe

\* The call that returned.
LEMMA Returned ==
  ASSUME NEW c \in CallRecord, NEW ok \in BOOLEAN, NEW cn, Return(c, ok, cn)
  PROVE  /\ call' \in CallRecord /\ call'.pc = "idle"
         /\ done' \in CallRecord
         /\ done'.of = c.of /\ done'.req = c.req /\ done'.op = c.op /\ done'.late = c.late
         /\ done'.code = c.code /\ done'.ok = ok /\ done'.saved = c.saved /\ done'.cut = c.cut
         /\ conn' = cn
<1>1. call' \in CallRecord /\ call'.pc = "idle"
  BY EmptyRecords DEF Return, CallRecord, NoCall, Pc
<1> DEFINE d == [c EXCEPT !.ok = ok, !.pc = "idle"]
<1>2. d \in CallRecord
  BY DEF CallRecord, Pc
<1>3. /\ d.of = c.of /\ d.req = c.req /\ d.op = c.op /\ d.late = c.late
      /\ d.code = c.code /\ d.ok = ok /\ d.saved = c.saved /\ d.cut = c.cut
  BY DEF CallRecord
<1>4. done' = d /\ conn' = cn
  BY DEF Return
<1> HIDE DEF d
<1>5. QED
  BY <1>1, <1>2, <1>3, <1>4

\* A call that does not have the answer, or not all of it.
LEMMA DropKeeps ==
  ASSUME Safe, NEW c \in CallRecord, NEW ok \in BOOLEAN, UNCHANGED <<opt, log>>,
         ~c.late /\ c.of # 0 => c.of = c.req,
         ~c.late /\ ok /\ c.op = "put" => c.code = 201 /\ log.stored /\ log.answer.req = c.req,
         Drop(c, ok)
  PROVE  Safe'
<1>1. /\ call' \in CallRecord /\ call'.pc = "idle"
      /\ done' \in CallRecord
      /\ done'.of = c.of /\ done'.req = c.req /\ done'.op = c.op /\ done'.late = c.late
      /\ done'.code = c.code /\ done'.ok = ok
      /\ conn' = NoConn /\ opt' = opt /\ log' = log
  BY Returned DEF Drop
<1>2. ClientTypeOK'
  BY <1>1, EmptyRecords DEF Safe, ClientTypeOK
<1>3. IInv'
  BY <1>1, EmptyRecords DEF IInv, Ended
<1>4. QED
  BY <1>2, <1>3 DEF Safe

\* A call whose answer has been read, or of which the connection will be stale.
Left(c, ok, cn) ==
  /\ c \in CallRecord /\ c.op \in Op /\ c.late = conn.stale /\ ok \in BOOLEAN
  /\ cn \in ConnRecord /\ Codes(cn.down) /\ Ups(cn.up)
  /\ cn.stale = conn.stale /\ cn.confused = conn.confused
  /\ ~cn.stale =>
       /\ Coming(c, cn) /\ Stored(c, cn, log)
       /\ c.of # 0 => c.of = c.req
       /\ c.code # 100 /\ (c.code = 0 => Owes(c))
       /\ ok /\ c.op = "put" => c.code = 201

\* A call that returns, closing the connection when it was asked to, leaves
\* all in order.
LEMMA LeaveKeeps ==
  ASSUME Safe, NEW c, NEW ok, NEW cn, Left(c, ok, cn), Leave(c, ok, cn), UNCHANGED <<opt, log>>
  PROVE  Safe'
<1> DEFINE kept == [cn EXCEPT !.stale = @ \/ Owes(c)]
<1>1. Return(c, ok, NoConn) \/ Return(c, ok, kept)
  BY DEF Leave
<1>2. kept.stale = (cn.stale \/ Owes(c)) /\ Owes(c) \in BOOLEAN
  BY DEF Left, ConnRecord, Owes
<1>3. /\ kept \in ConnRecord
      /\ kept.confused = cn.confused /\ kept.srv = cn.srv /\ kept.up = cn.up /\ kept.down = cn.down
      /\ kept.closed = cn.closed
  BY <1>2 DEF Left, ConnRecord
<1> HIDE DEF kept
<1>4. CASE Return(c, ok, NoConn)
  <2>1. Drop(c, ok)
    BY <1>4 DEF Drop
  <2>2. ~c.late /\ ok /\ c.op = "put" => c.code = 201 /\ log.stored /\ log.answer.req = c.req
    BY DEF Left, Stored
  <2>3. QED
    BY <2>1, <2>2, DropKeeps DEF Left
<1>5. CASE Return(c, ok, kept)
  <2>1. /\ call' \in CallRecord /\ call'.pc = "idle"
        /\ done' \in CallRecord
        /\ done'.of = c.of /\ done'.req = c.req /\ done'.op = c.op /\ done'.late = c.late
        /\ done'.code = c.code /\ done'.ok = ok
        /\ conn' = kept /\ opt' = opt /\ log' = log
    BY <1>5, Returned DEF Left
  <2>2. ClientTypeOK'
    BY <1>3, <2>1 DEF Safe, ClientTypeOK, Left
  <2>3. Quiet(cn) => Quiet(kept)
    BY <1>3 DEF Quiet
  <2>4. ~cn.stale /\ Final(c) => Quiet(kept)
    BY <2>3 DEF Left, Coming
  <2>5. ~kept.stale => Quiet(kept)
    <3>1. ~Owes(c) => ~c.cut
      BY DEF Owes
    <3>2. ~cn.stale /\ ~Owes(c) => c.code \notin {0, 100}
      BY DEF Left
    <3>3. QED
      BY <1>2, <2>4, <3>1, <3>2 DEF Final
  <2>6. kept.confused => kept.stale
    BY <1>2, <1>3 DEF Left, Safe, IInv
  <2>7. Ended(done', kept, log')
    <3>1. ~c.late /\ c.of # 0 => c.of = c.req
      BY DEF Left
    <3>2. ~c.late /\ ok /\ c.op = "put" => c.code = 201 /\ log.stored /\ log.answer.req = c.req /\ Quiet(kept)
      BY <2>4 DEF Left, Stored, Final
    <3>3. QED
      BY <2>1, <3>1, <3>2 DEF Ended
  <2>8. IInv'
    BY <2>1, <2>5, <2>6, <2>7 DEF IInv
  <2>9. QED
    BY <2>2, <2>8 DEF Safe
<1>6. QED
  BY <1>1, <1>4, <1>5

-----------------------------------------------------------------------------
(* The client reads *)

\* The fields of a call that tell which request it is and which status it has.
Same(c, b) ==
  /\ c.op = b.op /\ c.req = b.req /\ c.len = b.len /\ c.first = b.first
  /\ c.code = b.code /\ c.of = b.of
  /\ b.cut => c.cut

\* Some of what came down has been read.
Shorter(cn, dn) == cn.srv = dn.srv /\ cn.up = dn.up /\ cn.closed = dn.closed /\ Less(cn.down, dn.down)

\* What holds of the status lines of d holds of those of what is left of it.
LEMMA LessFacts ==
  ASSUME NEW s, NEW d, Less(s, d)
  PROVE  /\ NoStatus(d) => NoStatus(s)
         /\ Codes(d) => Codes(s)
         /\ (\A i \in 1 .. Len(d) : IsStatus(d[i]) => d[i].n = 100)
              => (\A i \in 1 .. Len(s) : IsStatus(s[i]) => s[i].n = 100)
         /\ (\A i \in 1 .. Len(d) : IsStatus(d[i]) => d[i].n # 100)
              => (\A i \in 1 .. Len(s) : IsStatus(s[i]) => s[i].n # 100)
<1>1. PICK m \in Nat : \A i \in 1 .. Len(s) : IsStatus(s[i]) => i + m \in 1 .. Len(d) /\ s[i] = d[i + m]
  BY DEF Less
<1>2. QED
  BY <1>1 DEF NoStatus, Codes

\* Reading a part of what comes changes nothing about the rest.
LEMMA ComingReads ==
  ASSUME NEW c, NEW cn, NEW b, NEW dn, Coming(b, dn), Same(c, b), Shorter(cn, dn)
  PROVE  Coming(c, cn)
<1> DEFINE s == cn.down  d == dn.down
<1>1. PICK m \in Nat : \A i \in 1 .. Len(s) : IsStatus(s[i]) => i + m \in 1 .. Len(d) /\ s[i] = d[i + m]
  BY DEF Less, Shorter
<1>2. cn.srv.op # "none" => ~cn.closed /\ cn.srv.req = c.req /\ cn.srv.op = c.op
  BY DEF Coming, Same, Shorter
<1>3. ASSUME NEW i \in 1 .. Len(s), IsStatus(s[i])
      PROVE  /\ s[i].of = c.req
             /\ s[i].n = 100 => c.op = "put" /\ c.first /\ c.code = 0
             /\ s[i].n # 100 => cn.srv.op = "none" /\ (cn.closed \/ cn.up = <<>>)
  <2>1. i + m \in 1 .. Len(d) /\ s[i] = d[i + m]
    BY <1>1, <1>3
  <2> HIDE DEF s, d
  <2>2. QED
    BY <1>3, <2>1 DEF Coming, Same, Shorter, d
<1>4. ASSUME NEW i \in 1 .. Len(s), NEW j \in 1 .. Len(s), IsStatus(s[i]), IsStatus(s[j]), i < j
      PROVE  s[i].n = 100 /\ s[j].n # 100
  <2>1. /\ i + m \in 1 .. Len(d) /\ s[i] = d[i + m]
        /\ j + m \in 1 .. Len(d) /\ s[j] = d[j + m]
    BY <1>1, <1>4
  <2>2. i + m < j + m
    BY <1>4
  <2> HIDE DEF s, d
  <2>3. QED
    BY <1>4, <2>1, <2>2 DEF Coming, d
<1>5. Final(c) => Quiet(cn)
  <2>1. Final(c) => Final(b)
    BY DEF Same, Final
  <2>2. Quiet(dn) => Quiet(cn)
    BY LessFacts DEF Quiet, Shorter
  <2>3. QED
    BY <2>1, <2>2 DEF Coming
<1> HIDE DEF s, d
<1>6. QED
  BY <1>2, <1>3, <1>4, <1>5 DEF Coming, s

\* Nor about a 201 among it.
LEMMA StoredReads ==
  ASSUME NEW c, NEW cn, NEW b, NEW dn, Stored(b, dn, log), Same(c, b), Less(cn.down, dn.down)
  PROVE  Stored(c, cn, log)
<1> DEFINE s == cn.down  d == dn.down
<1>1. PICK m \in Nat : \A i \in 1 .. Len(s) : IsStatus(s[i]) => i + m \in 1 .. Len(d) /\ s[i] = d[i + m]
  BY DEF Less
<1> HIDE DEF s, d
<1>2. (\E i \in 1 .. Len(s) : IsStatus(s[i]) /\ s[i].n = 201) => \E i \in 1 .. Len(d) : IsStatus(d[i]) /\ d[i].n = 201
  BY <1>1
<1>3. QED
  BY <1>2 DEF Stored, Same, s, d

\* After the status, what the client reads does not change where the server is.
LEMMA PhaseReads ==
  ASSUME NEW c, NEW cn, NEW b, NEW dn, Phase(b, dn), Same(c, b), Shorter(cn, dn),
         b.code # 0, b.pc # "send", c.pc # "send"
  PROVE  Phase(c, cn)
<1>1. CASE Taking(b, dn)
  <2>1. ToSend(c) = ToSend(b)
    BY DEF ToSend, Same
  <2>2. Final(c) => Final(b)
    BY DEF Final, Same
  <2>3. Taking(c, cn)
    BY <1>1, <2>1, <2>2, LessFacts DEF Taking, Shorter
  <2>4. QED
    BY <2>3 DEF Phase
<1>2. CASE Answered(b, dn)
  <2>1. Answered(c, cn)
    BY <1>2, LessFacts DEF Answered, Shorter, Same
  <2>2. QED
    BY <2>1 DEF Phase
<1>3. QED
  BY <1>1, <1>2 DEF Phase, Asked, Waiting

\* The states in which the status has been read.
Reading == {"fields", "read", "recv", "size", "chunk", "tail"}

\* Reading on within one answer keeps the call where it has to be.
LEMMA RunningReads ==
  ASSUME NEW c, NEW cn, NEW b, NEW dn, Running(b, dn, log), Same(c, b), Shorter(cn, dn),
         b.pc \in Reading, c.pc \in Reading, c.pc # "fields" => c.code # 100, c.pc = "fields" => b.pc = "fields"
  PROVE  Running(c, cn, log)
<1>1. b.code # 0
  BY DEF Running, Place, Reading
<1>2. Place(c)
  BY DEF Running, Place, Same, Reading
<1>3. Phase(b, dn) => Phase(c, cn)
  BY <1>1, PhaseReads DEF Reading
<1>4. QED
  BY <1>2, <1>3, ComingReads, StoredReads DEF Running, Shorter

\* What the call and the connection are after a step that reads.
Reads(c, cn) ==
  /\ c \in CallRecord /\ Same(c, call) /\ c.late = call.late
  /\ cn \in ConnRecord /\ Shorter(cn, conn)
  /\ cn.stale = conn.stale /\ cn.confused = conn.confused

\* What is known of the call that is being made.
LEMMA CallRuns ==
  ASSUME Safe, call.pc # "idle"
  PROVE  /\ call \in CallRecord /\ conn \in ConnRecord /\ Codes(conn.down) /\ Ups(conn.up) /\ call.op \in Op
         /\ call.late = conn.stale
         /\ ~conn.stale => Running(call, conn, log)
  BY DEF Safe, ClientTypeOK, IInv

\* What is known when the call has read on.
LEMMA ReadsRuns ==
  ASSUME Safe, call.pc \in Reading, NEW c, NEW cn, Reads(c, cn)
  PROVE  /\ c \in CallRecord /\ c.op \in Op /\ c.late = conn.stale
         /\ cn \in ConnRecord /\ Codes(cn.down) /\ Ups(cn.up)
         /\ cn.stale = conn.stale /\ cn.confused = conn.confused
         /\ ~cn.stale => /\ Coming(c, cn) /\ Stored(c, cn, log) /\ (c.of # 0 => c.of = c.req)
                         /\ c.code # 0
                         /\ c.pc # "send" /\ Phase(call, conn) => Phase(c, cn)
<1>1. call.pc # "idle" /\ call.pc # "send"
  BY DEF Reading
<1>2. Codes(cn.down) /\ Ups(cn.up)
  BY <1>1, CallRuns, LessFacts DEF Reads, Shorter
<1>3. ASSUME ~cn.stale
      PROVE  /\ Coming(c, cn) /\ Stored(c, cn, log) /\ (c.of # 0 => c.of = c.req)
             /\ c.code # 0
             /\ c.pc # "send" /\ Phase(call, conn) => Phase(c, cn)
  <2>1. Running(call, conn, log)
    BY <1>1, <1>3, CallRuns DEF Reads
  <2>2. Coming(c, cn) /\ Stored(c, cn, log)
    BY <2>1, ComingReads, StoredReads DEF Reads, Running, Shorter
  <2>3. (c.of # 0 => c.of = c.req) /\ c.code # 0
    BY <2>1 DEF Running, Place, Reads, Same, Reading
  <2>4. c.pc # "send" /\ Phase(call, conn) => Phase(c, cn)
    BY <1>1, <2>3, PhaseReads DEF Reads, Same
  <2>5. QED
    BY <2>2, <2>3, <2>4
<1>4. QED
  BY <1>1, <1>2, <1>3, CallRuns DEF Reads, Same

\* Reading on, and going on.
LEMMA ReadsGoesOn ==
  ASSUME Safe, call.pc \in Reading, NEW c, NEW cn, Reads(c, cn), c.pc \in Reading,
         c.pc = "fields" => call.pc = "fields",
         c.pc # "fields" => c.code # 100 \/ c.late,
         c.pc = "read" => c.clength > 0,
         c.pc \in {"recv", "size", "chunk", "tail"} => c.op = "get",
         Goes(c, cn), UNCHANGED <<opt, log>>
  PROVE  Safe'
<1>1. call.pc # "idle" /\ c.pc # "idle"
  BY DEF Reading
<1>2. ~cn.stale => Running(c, cn, log)
  BY <1>1, CallRuns, RunningReads DEF Reads
<1>3. GoesOn(c, cn)
  BY <1>1, <1>2, ReadsRuns DEF GoesOn
<1>4. QED
  BY <1>1, <1>3, GoesKeeps

\* Reading on, and returning with the connection kept.
LEMMA ReadsLeaves ==
  ASSUME Safe, call.pc \in Reading, NEW c, NEW cn, Reads(c, cn),
         c.code # 100 \/ c.late, NEW ok \in BOOLEAN, ok /\ c.op = "put" => c.code = 201,
         Leave(c, ok, cn), UNCHANGED <<opt, log>>
  PROVE  Safe'
<1>1. Left(c, ok, cn)
  BY ReadsRuns DEF Left
<1>2. QED
  BY <1>1, LeaveKeeps

\* Reading on, and returning with the connection closed.
LEMMA ReadsDrops ==
  ASSUME Safe, call.pc \in Reading, NEW c, NEW cn, Reads(c, cn),
         NEW ok \in BOOLEAN, ok /\ c.op = "put" => c.code = 201,
         Drop(c, ok), UNCHANGED <<opt, log>>
  PROVE  Safe'
<1>1. ~c.late => Stored(c, cn, log) /\ (c.of # 0 => c.of = c.req)
  BY ReadsRuns
<1>2. c \in CallRecord
  BY ReadsRuns
<1>3. QED
  BY <1>1, <1>2, DropKeeps DEF Stored

\* The call after a step that goes on with what has been read.
Moved(c, p, l) == [c EXCEPT !.pc = p, !.left = l]
Took(c, s, l) == [c EXCEPT !.saved = s, !.left = l]

\* A call that moves to p.
LEMMA MovesTo ==
  ASSUME NEW c \in CallRecord, NEW p, p \in Pc, NEW l, l \in Int,
         NEW b, b = Moved(c, p, l)
  PROVE  /\ b \in CallRecord /\ Same(b, c) /\ b.late = c.late /\ b.op = c.op /\ b.code = c.code
         /\ b.pc = p /\ b.left = l /\ b.saved = c.saved /\ b.clength = c.clength /\ b.cut = c.cut
<1>1. b \in CallRecord
  BY DEF CallRecord, Moved
<1>2. /\ b.late = c.late /\ b.pc = p /\ b.left = l /\ b.saved = c.saved /\ b.clength = c.clength
      /\ b.cut = c.cut /\ b.op = c.op /\ b.code = c.code
  BY DEF CallRecord, Moved
<1>3. Same(b, c)
  BY DEF CallRecord, Moved, Same
<1>4. QED
  BY <1>1, <1>2, <1>3

\* A call that keeps s.
LEMMA TakesTo ==
  ASSUME NEW c \in CallRecord, NEW s, s \in Seq(Token), NEW l, l \in Int,
         NEW b, b = Took(c, s, l)
  PROVE  /\ b \in CallRecord /\ Same(b, c) /\ b.late = c.late /\ b.op = c.op /\ b.code = c.code
         /\ b.pc = c.pc /\ b.left = l /\ b.saved = s /\ b.clength = c.clength /\ b.cut = c.cut
<1>1. b \in CallRecord
  BY DEF CallRecord, Took
<1>2. /\ b.late = c.late /\ b.pc = c.pc /\ b.left = l /\ b.saved = s /\ b.clength = c.clength
      /\ b.cut = c.cut /\ b.op = c.op /\ b.code = c.code
  BY DEF CallRecord, Took
<1>3. Same(b, c)
  BY DEF CallRecord, Took, Same
<1>4. QED
  BY <1>1, <1>2, <1>3

\* Of the codes only 201 is success for a PUT.
LEMMA GoodFacts ==
  ASSUME NEW c \in CallRecord, c.op \in Op
  PROVE  Good(c) \in BOOLEAN /\ (Good(c) /\ c.op = "put" => c.code = 201)
  BY DEF Good, Op, CallRecord

\* A line has been read.
LEMMA GetsReads ==
  ASSUME Safe, call.pc # "idle", NEW g, GetsGood(g, conn.down)
  PROVE  /\ Got(g) \in CallRecord /\ Same(Got(g), call) /\ Got(g).late = call.late
         /\ Got(g).pc = call.pc /\ Got(g).left = call.left /\ Got(g).saved = call.saved
         /\ Got(g).clength = call.clength
         /\ Got(g).cut = (call.cut \/ g.cut)
         /\ Kept(g) \in ConnRecord /\ Shorter(Kept(g), conn)
         /\ Kept(g).down = g.down
         /\ Kept(g).stale = conn.stale /\ Kept(g).confused = conn.confused
<1>1. call \in CallRecord /\ conn \in ConnRecord
  BY CallRuns
<1>2. g.cut \in BOOLEAN /\ g.down \in Seq(Token) /\ Less(g.down, conn.down)
  BY DEF GetsGood
<1>3. Got(g) \in CallRecord
  BY <1>1, <1>2 DEF Got, CallRecord
<1>4. /\ Same(Got(g), call) /\ Got(g).late = call.late
      /\ Got(g).pc = call.pc /\ Got(g).left = call.left /\ Got(g).saved = call.saved
      /\ Got(g).clength = call.clength
      /\ Got(g).cut = (call.cut \/ g.cut)
  BY <1>1, <1>2 DEF Got, CallRecord, Same
<1>5. Kept(g) \in ConnRecord
  BY <1>1, <1>2 DEF Kept, ConnRecord
<1>6. /\ Kept(g).down = g.down /\ Kept(g).srv = conn.srv /\ Kept(g).up = conn.up
      /\ Kept(g).closed = conn.closed
      /\ Kept(g).stale = conn.stale /\ Kept(g).confused = conn.confused
  BY <1>1 DEF Kept, ConnRecord
<1>7. QED
  BY <1>2, <1>3, <1>4, <1>5, <1>6 DEF Shorter

\* The server wants the contents: the client has read its 100, and so the
\* server has been told to take them.
LEMMA ContinueSafe ==
  ASSUME Safe, call.pc = "fields", NEW c, NEW cn, Reads(c, cn), c.pc = "fields",
         c.op = "put", c.first, c.code = 100, Continue(c, cn), UNCHANGED <<opt, log>>
  PROVE  Safe'
<1> DEFINE b == [c EXCEPT !.pc = IF c.len > 0 THEN "send" ELSE "status", !.left = c.len, !.first = FALSE]
<1>1. Goes(b, cn) \/ Drop(c, FALSE)
  BY DEF Continue
<1>2. CASE Drop(c, FALSE)
  BY <1>2, ReadsDrops DEF Reading
<1>3. CASE Goes(b, cn)
  <2>1. c \in CallRecord
    BY DEF Reads
  <2>2. b \in CallRecord
    <3> DEFINE p == IF c.len > 0 THEN "send" ELSE "status"
    <3>1. p \in Pc /\ c.len \in Int
      BY <2>1 DEF CallRecord, Pc
    <3>2. b = [c EXCEPT !.pc = p, !.left = c.len, !.first = FALSE]
      OBVIOUS
    <3> HIDE DEF p, b
    <3>3. QED
      BY <2>1, <3>1, <3>2 DEF CallRecord
  <2>3. /\ b.pc = IF c.len > 0 THEN "send" ELSE "status"
        /\ b.left = c.len /\ b.first = FALSE /\ b.op = "put" /\ b.req = c.req /\ b.len = c.len
        /\ b.code = 100 /\ b.of = c.of /\ b.cut = c.cut /\ b.late = c.late
    BY <2>1 DEF CallRecord
  <2> HIDE DEF b
  <2>4. ASSUME ~cn.stale PROVE Running(b, cn, log)
    <3>1. /\ Coming(c, cn) /\ Stored(c, cn, log) /\ (c.of # 0 => c.of = c.req)
          /\ Phase(call, conn) => Phase(c, cn)
      BY <2>4, ReadsRuns DEF Reading
    <3>2. Running(call, conn, log)
      BY <2>4, CallRuns DEF Reads
    <3>3. Place(b)
      BY <2>1, <2>3, <3>1, <3>2 DEF Running, Place, Reads, Same, CallRecord, Op
    <3>4. \A i \in 1 .. Len(cn.down) : IsStatus(cn.down[i]) => cn.down[i].n # 100
      BY <3>1 DEF Coming
    <3>5. Coming(b, cn)
      <4>1. ~Final(b)
        BY <2>3 DEF Final
      <4>2. QED
        BY <2>3, <3>1, <3>4, <4>1 DEF Coming
    <3>6. Stored(b, cn, log)
      BY <2>3, <3>1 DEF Stored
    <3>7. ASSUME ~cn.closed PROVE Phase(b, cn)
      <4>1. Phase(c, cn)
        BY <3>1, <3>2, <3>7 DEF Running, Reads, Shorter
      <4>2. CASE Taking(c, cn)
        <5>1. ToSend(b) = ToSend(c)
          BY <2>1, <2>3 DEF ToSend, CallRecord
        <5>2. ~Final(b)
          BY <2>3 DEF Final
        <5>3. Taking(b, cn)
          BY <4>2, <5>1, <5>2 DEF Taking
        <5>4. QED
          BY <5>3 DEF Phase
      <4>3. CASE Answered(c, cn)
        <5>1. ~(c.len > 0)
          BY <4>3 DEF Answered
        <5>2. Answered(b, cn)
          BY <2>3, <4>3, <5>1 DEF Answered
        <5>3. QED
          BY <5>2 DEF Phase
      <4>4. QED
        BY <4>1, <4>2, <4>3 DEF Phase, Asked, Waiting
    <3>8. QED
      BY <3>3, <3>5, <3>6, <3>7 DEF Running
  <2>5. GoesOn(b, cn)
    BY <2>2, <2>3, <2>4, ReadsRuns DEF GoesOn, Reading, Op
  <2>6. call.pc # "idle"
    OBVIOUS
  <2>7. QED
    BY <1>3, <2>5, <2>6, GoesKeeps
<1>4. QED
  BY <1>1, <1>2, <1>3

\* The header has ended: what follows is read, or the call returns.
LEMMA RespondedSafe ==
  ASSUME Safe, call.pc = "fields", NEW c, NEW cn, Reads(c, cn), c.pc = "fields",
         Responded(c, cn), UNCHANGED <<opt, log>>
  PROVE  Safe'
<1> USE DEF Reading
<1>1. c \in CallRecord /\ c.op \in Op
  BY ReadsRuns
<1>2. CASE c.op = "put" /\ c.first /\ c.code = 100
  BY <1>2, ContinueSafe DEF Responded
<1>3. CASE c.op = "put" /\ ~c.first /\ c.code = 0
  <2>1. Drop(c, FALSE)
    BY <1>3 DEF Responded
  <2>2. QED
    BY <2>1, ReadsDrops
<1>4. CASE c.op = "get" /\ c.code = 200
  <2> DEFINE b == [c EXCEPT !.pc = IF c.clength > 0 THEN "recv" ELSE "size", !.left = c.clength]
  <2>1. \/ Drop(c, FALSE)
        \/ Leave(c, TRUE, cn)
        \/ Goes(b, cn)
    BY <1>4 DEF Responded, Retrieve
  <2>2. CASE Drop(c, FALSE)
    BY <2>2, ReadsDrops
  <2>3. CASE Leave(c, TRUE, cn)
    <3>1. Left(c, TRUE, cn)
      BY <1>4, ReadsRuns DEF Left
    <3>2. QED
      BY <2>3, <3>1, LeaveKeeps
  <2>4. CASE Goes(b, cn)
    <3>1. b \in CallRecord /\ Same(b, c) /\ b.late = c.late /\ b.pc \in {"recv", "size"} /\ b.code = c.code /\ b.op = c.op
      BY <1>1 DEF CallRecord, Pc, Same
    <3> HIDE DEF b
    <3>2. Reads(b, cn)
      BY <3>1 DEF Reads, Same
    <3>3. QED
      BY <1>4, <2>4, <3>1, <3>2, ReadsGoesOn
  <2>5. QED
    BY <2>1, <2>2, <2>3, <2>4
<1>5. CASE ~(c.op = "put" /\ c.first /\ c.code = 100) /\ ~(c.op = "put" /\ ~c.first /\ c.code = 0)
           /\ ~(c.op = "get" /\ c.code = 200)
  <2> DEFINE b == [c EXCEPT !.pc = "read"]
  <2>1. (c.clength > 0 /\ Goes(b, cn)) \/ Leave(c, Good(c), cn)
    BY <1>5 DEF Responded, Discard
  <2>2. c.code # 100 \/ c.late
    <3>1. SUFFICES ASSUME ~c.late PROVE c.code # 100
      OBVIOUS
    <3>2. Running(call, conn, log)
      BY <3>1, CallRuns DEF Reads
    <3>3. QED
      BY <1>5, <3>2 DEF Running, Place, Reads, Same
  <2>3. CASE c.clength > 0 /\ Goes(b, cn)
    <3>1. /\ b \in CallRecord /\ Same(b, c) /\ b.late = c.late /\ b.pc = "read" /\ b.code = c.code
          /\ b.clength = c.clength
      BY <1>1 DEF CallRecord, Pc, Same
    <3> HIDE DEF b
    <3>2. Reads(b, cn)
      BY <3>1 DEF Reads, Same
    <3>3. QED
      BY <2>2, <2>3, <3>1, <3>2, ReadsGoesOn
  <2>4. CASE Leave(c, Good(c), cn)
    BY <1>1, <2>2, <2>4, GoodFacts, ReadsLeaves
  <2>5. QED
    BY <2>1, <2>3, <2>4
<1>6. QED
  BY <1>2, <1>3, <1>4, <1>5

\* A field of the header is read.
LEMMA ReadFieldSafe ==
  ASSUME Safe, ReadField
  PROVE  Safe'
<1>1. call.pc = "fields" /\ UNCHANGED <<opt, log>>
  BY DEF ReadField
<1>2. PICK g \in Gets :
        \/ Responded(Got(g), Kept(g))
        \/ Goes(Got(g), [Kept(g) EXCEPT !.connclose = TRUE])
        \/ Goes([Got(g) EXCEPT !.clength = IF @ = 0 THEN g.line.n ELSE @], Kept(g))
        \/ Goes([Got(g) EXCEPT !.clength = IF @ = 0 THEN -1 ELSE @], Kept(g))
        \/ Goes(Got(g), Kept(g))
  BY DEF ReadField
<1> DEFINE c == Got(g)  cn == Kept(g)
<1>3. GetsGood(g, conn.down)
  BY CallRuns, GetsGives DEF Safe, ClientTypeOK, ConnRecord
<1>4. /\ c \in CallRecord /\ Same(c, call) /\ c.late = call.late /\ c.pc = "fields"
      /\ cn \in ConnRecord /\ Shorter(cn, conn)
      /\ cn.stale = conn.stale /\ cn.confused = conn.confused
  BY <1>1, <1>3, GetsReads
<1>5. g.line.n \in Int
  BY <1>3 DEF GetsGood, Token
<1> HIDE DEF c, cn
<1>6. Reads(c, cn)
  BY <1>4 DEF Reads
<1>7. CASE Responded(c, cn)
  BY <1>1, <1>4, <1>6, <1>7, RespondedSafe
<1>8. ASSUME NEW b, Goes(b, cn), b \in CallRecord, Same(b, c), b.late = c.late, b.pc = "fields" PROVE Safe'
  <2>1. Reads(b, cn)
    BY <1>6, <1>8 DEF Reads, Same
  <2>2. QED
    BY <1>1, <1>8, <2>1, ReadsGoesOn DEF Reading
<1>9. CASE Goes(c, [cn EXCEPT !.connclose = TRUE])
  <2> DEFINE dn == [cn EXCEPT !.connclose = TRUE]
  <2>1. dn \in ConnRecord
    BY <1>4 DEF ConnRecord
  <2>2. /\ dn.srv = cn.srv /\ dn.up = cn.up /\ dn.closed = cn.closed /\ dn.down = cn.down
        /\ dn.stale = cn.stale /\ dn.confused = cn.confused
    BY <1>4 DEF ConnRecord
  <2> HIDE DEF dn
  <2>3. Reads(c, dn)
    BY <1>6, <2>1, <2>2 DEF Reads, Shorter
  <2>4. Goes(c, dn)
    BY <1>9 DEF dn
  <2>5. QED
    BY <1>1, <1>4, <2>3, <2>4, ReadsGoesOn DEF Reading
<1>10. ASSUME NEW l \in Int, Goes([c EXCEPT !.clength = IF @ = 0 THEN l ELSE @], cn) PROVE Safe'
  <2> DEFINE b == [c EXCEPT !.clength = IF @ = 0 THEN l ELSE @]
  <2>1. b \in CallRecord /\ Same(b, c) /\ b.late = c.late /\ b.pc = "fields"
    BY <1>4 DEF CallRecord, Same
  <2>2. Goes(b, cn)
    BY <1>10
  <2> HIDE DEF b
  <2>3. QED
    BY <1>8, <2>1, <2>2
<1>11. CASE Goes(c, cn)
  BY <1>4, <1>8, <1>11 DEF Same
<1>12. -1 \in Int
  OBVIOUS
<1>13. QED
  BY <1>2, <1>5, <1>7, <1>9, <1>10, <1>11, <1>12 DEF c, cn

\* The call stops waiting for a 100 and goes on.
LEMMA WaitsForContinueSafe ==
  ASSUME Safe, WaitsForContinue
  PROVE  Safe'
<1>1. call.pc = "wait" /\ UNCHANGED <<opt, log>>
  BY DEF WaitsForContinue
<1> DEFINE b == [call EXCEPT !.pc = "status"]
<1>2. Goes(b, conn) \/ Drop(call, FALSE)
  BY DEF WaitsForContinue
<1>3. /\ call \in CallRecord /\ conn \in ConnRecord /\ Codes(conn.down) /\ Ups(conn.up) /\ call.op \in Op
      /\ call.late = conn.stale
      /\ ~conn.stale => Running(call, conn, log)
  BY <1>1, CallRuns
<1>4. CASE Goes(b, conn)
  <2>1. b \in CallRecord /\ Same(b, call) /\ b.late = call.late /\ b.pc = "status" /\ b.cut = call.cut
    BY <1>3 DEF CallRecord, Pc, Same
  <2> HIDE DEF b
  <2>2. ASSUME ~conn.stale PROVE Running(b, conn, log)
    <3>1. Place(b)
      BY <1>1, <1>3, <2>1, <2>2 DEF Running, Place, Same
    <3>2. Shorter(conn, conn)
      BY <1>3, LessSelf DEF Shorter, ConnRecord
    <3>3. Coming(b, conn) /\ Stored(b, conn, log)
      BY <1>3, <2>1, <2>2, <3>2, ComingReads, StoredReads DEF Running, Shorter
    <3>4. Phase(call, conn) => Phase(b, conn)
      <4>1. Asked(call, conn) => Asked(b, conn)
        BY <1>1, <2>1 DEF Asked, Same
      <4>2. Waiting(call, conn) => Waiting(b, conn)
        BY <1>1, <2>1 DEF Waiting, Same
      <4>3. Taking(call, conn) => Taking(b, conn)
        BY <1>1, <2>1 DEF Taking, Same, ToSend, Final
      <4>4. Answered(call, conn) => Answered(b, conn)
        BY <1>1, <2>1 DEF Answered, Same
      <4>5. QED
        BY <4>1, <4>2, <4>3, <4>4 DEF Phase
    <3>5. QED
      BY <1>3, <2>2, <3>1, <3>3, <3>4 DEF Running
  <2>3. GoesOn(b, conn)
    BY <1>3, <2>1, <2>2 DEF GoesOn, Same
  <2>4. QED
    BY <1>1, <1>4, <2>3, GoesKeeps
<1>5. CASE Drop(call, FALSE)
  BY <1>1, <1>3, <1>5, DropKeeps DEF Running, Place
<1>6. QED
  BY <1>2, <1>4, <1>5

\* The status line that is read is that of this call, and there is no other
\* unless it was a 100.
LEMMA StatusRuns ==
  ASSUME NEW g, GetsGood(g, conn.down), IsStatus(g.line), conn.down \in Seq(Token), Codes(conn.down),
         call.pc = "status", Running(call, conn, log),
         NEW c, c.op = call.op, c.req = call.req, c.len = call.len, c.first = call.first,
         c.pc = "fields", c.code = g.line.n, c.of = g.line.of, g.cut => c.cut,
         NEW cn, Shorter(cn, conn), cn.down = g.down
  PROVE  Running(c, cn, log)
<1> DEFINE d == conn.down  s == cn.down
<1>1. /\ Len(d) > 0 /\ IsStatus(d[1]) /\ g.line.of = d[1].of
      /\ g.cut => g.line.n = 404
      /\ ~g.cut => g.line = d[1]
      /\ After(s, d) /\ Len(d) \in Nat /\ s \in Seq(Token)
  BY DEF GetsGood
<1>2. PICK m \in Nat : \A i \in 1 .. Len(s) : IsStatus(s[i]) => i + m \in 2 .. Len(d) /\ s[i] = d[i + m]
  BY <1>1 DEF After
<1>3. 1 \in 1 .. Len(d)
  BY <1>1
<1>4. /\ d[1].of = call.req
      /\ d[1].n = 100 => call.op = "put" /\ call.first /\ call.code = 0
      /\ d[1].n # 100 => conn.srv.op = "none" /\ (conn.closed \/ conn.up = <<>>)
      /\ d[1].n \in Code \ {0}
  BY <1>1, <1>3 DEF Running, Coming, Codes
<1>5. ASSUME NEW i \in 1 .. Len(s), IsStatus(s[i])
      PROVE  d[1].n = 100 /\ s[i].n # 100 /\ s[i].of = call.req /\ conn.srv.op = "none" /\ (conn.closed \/ conn.up = <<>>)
  <2>1. i + m \in 2 .. Len(d) /\ s[i] = d[i + m]
    BY <1>2, <1>5
  <2>2. i + m \in 1 .. Len(d) /\ 1 < i + m
    BY <2>1, <1>1
  <2> HIDE DEF s
  <2>3. d[1].n = 100 /\ d[i + m].n # 100
    BY <1>1, <1>3, <1>5, <2>1, <2>2 DEF Running, Coming
  <2>4. QED
    BY <1>5, <2>1, <2>2, <2>3 DEF Running, Coming
<1>6. c.code \in {404, d[1].n} /\ c.code \in Code \ {0} /\ (c.code # 404 => ~g.cut /\ c.code = d[1].n)
  BY <1>1, <1>4 DEF Code
<1>7. Place(c)
  BY <1>1, <1>4, <1>6 DEF Running, Place
<1>8. cn.srv = conn.srv /\ cn.up = conn.up /\ cn.closed = conn.closed
  BY DEF Shorter
<1>9. Final(c) => Quiet(cn)
  <2>1. SUFFICES ASSUME Final(c) PROVE Quiet(cn)
    OBVIOUS
  <2>2. ~g.cut /\ d[1].n # 100
    <3>1. c.code \notin {0, 100} /\ (~c.cut \/ c.code # 404)
      BY <2>1 DEF Final
    <3>2. ~g.cut
      BY <3>1, <1>1
    <3>3. QED
      BY <3>1, <3>2, <1>1
  <2>3. NoStatus(s)
    BY <1>5, <2>2 DEF NoStatus
  <2>4. QED
    BY <1>4, <1>8, <2>2, <2>3 DEF Quiet
<1>10. Coming(c, cn)
  <2>1. cn.srv.op # "none" => ~cn.closed /\ cn.srv.req = c.req /\ cn.srv.op = c.op
    BY <1>8 DEF Running, Coming
  <2>2. \A i \in 1 .. Len(s) : IsStatus(s[i]) =>
          s[i].of = c.req /\ s[i].n # 100 /\ cn.srv.op = "none" /\ (cn.closed \/ cn.up = <<>>)
    BY <1>5, <1>8
  <2>3. \A i, j \in 1 .. Len(s) : IsStatus(s[i]) /\ IsStatus(s[j]) => ~(i < j)
    <3>1. SUFFICES ASSUME NEW i \in 1 .. Len(s), NEW j \in 1 .. Len(s), IsStatus(s[i]), IsStatus(s[j]), i < j
                   PROVE  FALSE
      OBVIOUS
    <3>2. /\ i + m \in 1 .. Len(d) /\ s[i] = d[i + m]
          /\ j + m \in 1 .. Len(d) /\ s[j] = d[j + m] /\ i + m < j + m
      BY <1>1, <1>2, <3>1
    <3> HIDE DEF s
    <3>3. d[i + m].n = 100
      BY <3>1, <3>2 DEF Running, Coming
    <3>4. QED
      BY <1>5, <3>1, <3>2, <3>3
  <2> HIDE DEF s
  <2>4. QED
    BY <2>1, <2>2, <2>3, <1>9 DEF Coming, s
<1>11. Stored(c, cn, log)
  <2>1. Less(s, d)
    BY DEF GetsGood
  <2>2. c.code = 201 => \E i \in 1 .. Len(d) : IsStatus(d[i]) /\ d[i].n = 201
    BY <1>1, <1>3, <1>6
  <2>3. (\E i \in 1 .. Len(s) : IsStatus(s[i]) /\ s[i].n = 201) => \E i \in 1 .. Len(d) : IsStatus(d[i]) /\ d[i].n = 201
    <3>1. PICK k \in Nat : \A i \in 1 .. Len(s) : IsStatus(s[i]) => i + k \in 1 .. Len(d) /\ s[i] = d[i + k]
      BY <2>1 DEF Less
    <3>2. QED
      BY <3>1
  <2>4. QED
    BY <2>2, <2>3 DEF Running, Stored
<1>12. ASSUME ~cn.closed PROVE Phase(c, cn)
  <2>1. Phase(call, conn)
    BY <1>8, <1>12 DEF Running
  <2>2. ~Asked(call, conn) /\ ~Waiting(call, conn)
    BY <1>1, <1>3 DEF Asked, Waiting, NoStatus
  <2>3. CASE Taking(call, conn)
    <3>1. d[1].n = 100
      BY <1>1, <1>3, <2>3 DEF Taking
    <3>2. ~Final(c)
      <4>1. CASE g.cut
        BY <4>1, <1>1 DEF Final
      <4>2. CASE ~g.cut
        BY <4>2, <1>1, <3>1 DEF Final
      <4>3. QED
        BY <4>1, <4>2
    <3>3. ToSend(c) = ToSend(call)
      BY DEF ToSend
    <3>4. \A i \in 1 .. Len(s) : IsStatus(s[i]) => s[i].n = 100
      BY <1>5, <2>3 DEF Taking
    <3>5. Taking(c, cn)
      BY <1>8, <2>3, <3>2, <3>3, <3>4 DEF Taking
    <3>6. QED
      BY <3>5 DEF Phase
  <2>4. CASE Answered(call, conn)
    <3>1. c.op = "put" /\ c.first /\ c.len > 0 => d[1].n # 100
      BY <1>1, <1>3, <2>4 DEF Answered
    <3>2. Answered(c, cn)
      BY <1>5, <1>6, <1>8, <2>4, <3>1 DEF Answered
    <3>3. QED
      BY <3>2 DEF Phase
  <2>5. QED
    BY <2>1, <2>2, <2>3, <2>4 DEF Phase
<1>13. QED
  BY <1>7, <1>10, <1>11, <1>12 DEF Running

\* A status line is read.
LEMMA ReadStatusSafe ==
  ASSUME Safe, ReadStatus
  PROVE  Safe'
<1>1. call.pc = "status" /\ UNCHANGED <<opt, log>>
  BY DEF ReadStatus
<1>2. PICK g \in Gets :
        IF g.line.k # "status" THEN Responded([call EXCEPT !.code = 0, !.clength = 0], Kept(g))
        ELSE Goes([Got(g) EXCEPT !.pc = "fields", !.code = g.line.n, !.of = g.line.of, !.clength = 0], Kept(g))
  BY DEF ReadStatus
<1>3. /\ call \in CallRecord /\ conn \in ConnRecord /\ Codes(conn.down) /\ Ups(conn.up) /\ call.op \in Op
      /\ call.late = conn.stale
      /\ ~conn.stale => Running(call, conn, log)
  BY <1>1, CallRuns
<1>4. conn.down \in Seq(Token)
  BY <1>3 DEF ConnRecord
<1>5. GetsGood(g, conn.down)
  BY <1>4, GetsGives
<1> DEFINE cn == Kept(g)  w == Got(g)
<1>6. /\ cn \in ConnRecord /\ Shorter(cn, conn) /\ cn.down = g.down
      /\ cn.stale = conn.stale /\ cn.confused = conn.confused
      /\ w \in CallRecord /\ Same(w, call) /\ w.late = call.late /\ w.cut = (call.cut \/ g.cut)
  BY <1>1, <1>5, GetsReads
<1> HIDE DEF cn, w
<1>7. Codes(cn.down) /\ Ups(cn.up)
  BY <1>3, <1>6, LessFacts DEF Shorter
<1>8. CASE ~IsStatus(g.line)
  <2> DEFINE c == [call EXCEPT !.code = 0, !.clength = 0]
  <2>1. Responded(c, cn)
    BY <1>2, <1>8 DEF IsStatus, cn
  <2>2. c \in CallRecord
    <3>1. 0 \in Code /\ 0 \in Int
      BY DEF Code
    <3> DEFINE z == 0
    <3>2. c = [call EXCEPT !.code = z, !.clength = z] /\ z \in Code /\ z \in Int
      BY <3>1
    <3>3. call \in CallRecord
      BY <1>3
    <3> HIDE DEF z, c
    <3>4. QED
      BY <3>2, <3>3 DEF CallRecord
  <2>3. /\ c.op = call.op /\ c.req = call.req /\ c.len = call.len /\ c.first = call.first
        /\ c.code = 0 /\ c.clength = 0 /\ c.of = call.of /\ c.late = call.late /\ c.cut = call.cut
    BY <1>3 DEF CallRecord
  <2> HIDE DEF c
  <2>4. Drop(c, FALSE) \/ (~(c.op = "put" /\ ~c.first) /\ Leave(c, Good(c), cn))
    <3>1. CASE c.op = "put" /\ ~c.first
      BY <2>1, <2>3, <3>1 DEF Responded
    <3>2. CASE ~(c.op = "put" /\ ~c.first)
      <4>1. ~(c.op = "put" /\ c.first /\ c.code = 100) /\ ~(c.op = "get" /\ c.code = 200)
        BY <2>3
      <4>2. Discard(c, cn)
        BY <2>1, <3>2, <4>1 DEF Responded
      <4>3. ~(c.clength > 0)
        BY <2>3
      <4>4. QED
        BY <3>2, <4>2, <4>3 DEF Discard
    <3>3. QED
      BY <3>1, <3>2
  <2>5. CASE Drop(c, FALSE)
    BY <1>1, <1>3, <2>2, <2>3, <2>5, DropKeeps DEF Running, Place
  <2>6. CASE ~(c.op = "put" /\ ~c.first) /\ Leave(c, Good(c), cn)
    <3>1. ASSUME ~cn.stale
          PROVE  Coming(c, cn) /\ Stored(c, cn, log) /\ (c.of # 0 => c.of = c.req)
      <4>1. Running(call, conn, log)
        BY <1>3, <1>6, <3>1
      <4>2. Same(c, call)
        BY <1>1, <2>3, <2>6, <4>1 DEF Running, Place, Same
      <4>3. QED
        BY <1>6, <2>3, <4>1, <4>2, ComingReads, StoredReads DEF Running, Place, Shorter
    <3>2. Owes(c)
      BY <2>3, <2>6 DEF Owes
    <3>3. Good(c) \in BOOLEAN /\ (Good(c) /\ c.op = "put" => c.code = 201)
      BY <1>3, <2>2, <2>3, GoodFacts
    <3>4. Left(c, Good(c), cn)
      BY <1>3, <1>6, <1>7, <2>2, <2>3, <3>1, <3>2, <3>3 DEF Left
    <3>5. QED
      BY <1>1, <2>6, <3>4, LeaveKeeps
  <2>7. QED
    BY <2>4, <2>5, <2>6
<1>9. CASE IsStatus(g.line)
  <2> DEFINE c == [w EXCEPT !.pc = "fields", !.code = g.line.n, !.of = g.line.of, !.clength = 0]
  <2>1. Goes(c, cn)
    BY <1>2, <1>9 DEF IsStatus, cn, w
  <2>2. g.line.n \in Code /\ g.line.of \in Nat
    <3>1. g.line \in Token /\ Len(conn.down) > 0 /\ IsStatus(conn.down[1]) /\ (IF g.cut THEN g.line.n = 404 ELSE g.line = conn.down[1])
      BY <1>5, <1>9 DEF GetsGood
    <3>2. conn.down[1].n \in Code
      BY <1>3, <1>4, <3>1 DEF Codes
    <3>3. QED
      BY <3>1, <3>2 DEF Code, Token
  <2>3. c \in CallRecord
    <3> DEFINE p == "fields"  n == g.line.n  r == g.line.of  z == 0
    <3>1. p \in Pc /\ z \in Int
      BY DEF Pc
    <3>2. c = [w EXCEPT !.pc = p, !.code = n, !.of = r, !.clength = z] /\ n \in Code /\ r \in Nat
      BY <2>2
    <3>3. w \in CallRecord
      BY <1>6
    <3> HIDE DEF p, n, r, z, c
    <3>4. QED
      BY <3>1, <3>2, <3>3 DEF CallRecord
  <2>4. /\ c.op = w.op /\ c.req = w.req /\ c.len = w.len /\ c.first = w.first /\ c.late = w.late
        /\ c.pc = "fields" /\ c.code = g.line.n /\ c.of = g.line.of /\ c.cut = w.cut
    BY <1>6 DEF CallRecord
  <2> HIDE DEF c
  <2>5. /\ c.op = call.op /\ c.req = call.req /\ c.len = call.len /\ c.first = call.first
        /\ c.late = call.late /\ c.cut = (call.cut \/ g.cut)
    BY <1>6, <2>4 DEF Same
  <2>6. ~cn.stale => Running(c, cn, log)
    BY <1>1, <1>3, <1>4, <1>5, <1>6, <1>9, <2>4, <2>5, StatusRuns
  <2>7. GoesOn(c, cn)
    BY <1>3, <1>6, <1>7, <2>3, <2>4, <2>5, <2>6 DEF GoesOn
  <2>8. QED
    BY <1>1, <2>1, <2>7, GoesKeeps
<1>10. QED
  BY <1>8, <1>9

\* Some of the contents are taken from what has come.
LEMMA TakesContents ==
  ASSUME Safe, call.pc \in Reading, NEW n \in Nat, n <= Len(conn.down)
  PROVE  LET cn == [conn EXCEPT !.down = SubSeq(@, n + 1, Len(@))] IN
         /\ cn \in ConnRecord /\ Shorter(cn, conn)
         /\ cn.stale = conn.stale /\ cn.confused = conn.confused
         /\ cn.down = SubSeq(conn.down, n + 1, Len(conn.down)) /\ cn.closed = conn.closed
         /\ SubSeq(conn.down, 1, n) \in Seq(Token)
<1> DEFINE d == conn.down  s == SubSeq(d, n + 1, Len(d))
<1>1. conn \in ConnRecord /\ d \in Seq(Token)
  BY CallRuns DEF Reading, ConnRecord
<1>2. n \in 0 .. Len(d)
  BY <1>1
<1>3. s \in Seq(Token) /\ Less(s, d)
  BY <1>1, <1>2, SuffixLess
<1>4. SubSeq(d, 1, n) \in Seq(Token)
  BY <1>1, <1>2, PrefixSeq
<1> HIDE DEF s
<1> DEFINE cn == [conn EXCEPT !.down = s]
<1>5. /\ cn \in ConnRecord /\ cn.down = s /\ cn.srv = conn.srv /\ cn.up = conn.up /\ cn.closed = conn.closed
      /\ cn.stale = conn.stale /\ cn.confused = conn.confused
  BY <1>1, <1>3 DEF ConnRecord
<1> HIDE DEF cn
<1>6. [conn EXCEPT !.down = SubSeq(@, n + 1, Len(@))] = cn
  BY DEF cn, s
<1>7. Shorter(cn, conn)
  BY <1>3, <1>5 DEF Shorter
<1>8. QED
  BY <1>4, <1>5, <1>6, <1>7 DEF s

\* Nothing has been read.
LEMMA ReadsNothing ==
  ASSUME Safe, call.pc \in Reading
  PROVE  Reads(call, conn)
<1>1. call \in CallRecord /\ conn \in ConnRecord
  BY CallRuns DEF Reading
<1>2. QED
  BY <1>1, LessSelf DEF Reads, Same, Shorter, ConnRecord

\* The contents are begun.
LEMMA ReadContentsSafe ==
  ASSUME Safe, ReadContents
  PROVE  Safe'
<1>1. call.pc = "read" /\ call.pc \in Reading /\ UNCHANGED <<opt, log>>
  BY DEF ReadContents, Reading
<1> DEFINE n == call.clength
           cn == [conn EXCEPT !.down = SubSeq(@, n + 1, Len(@))]
           c == [call EXCEPT !.saved = SubSeq(conn.down, 1, n)]
<1>2. /\ call \in CallRecord /\ conn \in ConnRecord /\ call.op \in Op
      /\ ~conn.stale => Running(call, conn, log)
      /\ call.late = conn.stale
  BY <1>1, CallRuns
<1>3. n \in Nat
  BY <1>1, <1>2 DEF Safe, ClientTypeOK, CallRecord
<1>4. Good(call) \in BOOLEAN /\ (Good(call) /\ call.op = "put" => call.code = 201)
  BY <1>2, GoodFacts
<1>5. call.code # 100 \/ call.late
  BY <1>1, <1>2 DEF Running, Place
<1>6. \/ Len(conn.down) >= n /\ Leave(c, Good(call), cn)
      \/ Drop(call, FALSE)
  BY DEF ReadContents
<1>7. CASE Len(conn.down) >= n /\ Leave(c, Good(call), cn)
  <2>1. n <= Len(conn.down)
    BY <1>2, <1>3, <1>7 DEF ConnRecord
  <2>2. /\ cn \in ConnRecord /\ Shorter(cn, conn)
        /\ cn.stale = conn.stale /\ cn.confused = conn.confused
        /\ SubSeq(conn.down, 1, n) \in Seq(Token)
    BY <1>1, <1>3, <2>1, TakesContents
  <2>3. /\ c \in CallRecord /\ Same(c, call) /\ c.late = call.late
        /\ c.op = call.op /\ c.code = call.code
    BY <1>2, <2>2 DEF CallRecord, Same
  <2> HIDE DEF c, cn, n
  <2>4. Reads(c, cn)
    BY <2>2, <2>3 DEF Reads
  <2>5. QED
    BY <1>1, <1>4, <1>5, <1>7, <2>3, <2>4, ReadsLeaves
<1>8. CASE Drop(call, FALSE)
  BY <1>1, <1>8, ReadsNothing, ReadsDrops
<1>9. QED
  BY <1>6, <1>7, <1>8

\* The contents are not wanted.
LEMMA ThrowOutSafe ==
  ASSUME Safe, ThrowOut
  PROVE  Safe'
<1>1. /\ call.pc = "read" /\ call.pc \in Reading /\ UNCHANGED <<opt, log>>
      /\ Drop(call, Good(call))
  BY DEF ThrowOut, Reading
<1>2. Good(call) \in BOOLEAN /\ (Good(call) /\ call.op = "put" => call.code = 201)
  BY <1>1, CallRuns, GoodFacts
<1>3. QED
  BY <1>1, <1>2, ReadsNothing, ReadsDrops

\* A piece of the contents is read.
LEMMA ReceiveSafe ==
  ASSUME Safe, Receive
  PROVE  Safe'
<1>1. call.pc \in {"recv", "chunk"} /\ call.pc \in Reading /\ UNCHANGED <<opt, log>>
  BY DEF Receive, Reading
<1>2. /\ call \in CallRecord /\ conn \in ConnRecord /\ call.op \in Op
      /\ ~conn.stale => Running(call, conn, log)
      /\ call.late = conn.stale
  BY <1>1, CallRuns DEF Reading
<1>3. call.code # 100 \/ call.late
  BY <1>1, <1>2 DEF Running, Place
<1>4. CASE Drop(call, FALSE)
  BY <1>1, <1>4, ReadsNothing, ReadsDrops
<1>5. ASSUME NEW n \in 1 .. Piece,
             LET d == conn.down
                 c == [call EXCEPT !.saved = @ \o SubSeq(d, 1, n), !.left = @ - n]
                 cn == [conn EXCEPT !.down = SubSeq(d, n + 1, Len(d))]
             IN /\ n <= Len(d) /\ n <= call.left
                /\ IF c.left > 0 THEN Goes(c, cn)
                   ELSE IF c.pc = "recv" THEN Leave(c, TRUE, cn)
                   ELSE Goes([c EXCEPT !.pc = "tail", !.left = 1], cn)
      PROVE  Safe'
  <2> DEFINE c == [call EXCEPT !.saved = @ \o SubSeq(conn.down, 1, n), !.left = @ - n]
             cn == [conn EXCEPT !.down = SubSeq(@, n + 1, Len(@))]
             t == [c EXCEPT !.pc = "tail", !.left = 1]
  <2>1. n \in Nat /\ n <= Len(conn.down)
    BY <1>5, HttpClientAssumption
  <2>2. /\ cn \in ConnRecord /\ Shorter(cn, conn)
        /\ cn.stale = conn.stale /\ cn.confused = conn.confused
        /\ SubSeq(conn.down, 1, n) \in Seq(Token)
    BY <1>1, <2>1, TakesContents
  <2>3. call.saved \o SubSeq(conn.down, 1, n) \in Seq(Token)
    BY <1>2, <2>2, ConcatProperties DEF CallRecord
  <2>4. /\ c \in CallRecord /\ Same(c, call) /\ c.late = call.late /\ c.pc = call.pc /\ c.code = call.code
        /\ c.op = "get"
    <3> DEFINE s == call.saved \o SubSeq(conn.down, 1, n)  l == call.left - n
    <3>1. s \in Seq(Token) /\ l \in Int /\ call.op = "get"
      BY <1>1, <1>2, <2>1, <2>3 DEF CallRecord, Safe, ClientTypeOK
    <3>2. c = Took(call, s, l)
      BY DEF Took
    <3> HIDE DEF s, l, c
    <3>3. QED
      BY <1>2, <3>1, <3>2, TakesTo
  <2>5. Goes(c, cn) \/ (c.pc = "recv" /\ Leave(c, TRUE, cn)) \/ (c.pc = "chunk" /\ Goes(t, cn))
    BY <1>1, <1>5, <2>4
  <2> HIDE DEF c, cn
  <2>6. Reads(c, cn)
    BY <2>2, <2>4 DEF Reads
  <2>7. /\ t \in CallRecord /\ Same(t, c) /\ t.late = c.late /\ t.pc = "tail" /\ t.code = c.code
        /\ t.op = c.op
    <3> DEFINE p == "tail"  l == 1
    <3>1. p \in Pc /\ l \in Int /\ t = Moved(c, p, l)
      BY DEF Pc, Moved
    <3>2. p = "tail"
      OBVIOUS
    <3> HIDE DEF p, l, t
    <3>3. QED
      BY <2>4, <3>1, <3>2, MovesTo
  <2> HIDE DEF t
  <2>8. CASE Goes(c, cn)
    BY <1>1, <1>3, <2>4, <2>6, <2>8, ReadsGoesOn
  <2>9. CASE c.pc = "recv" /\ Leave(c, TRUE, cn)
    <3>1. TRUE \in BOOLEAN /\ (TRUE /\ c.op = "put" => c.code = 201)
      BY <2>4
    <3>2. QED
      BY <1>1, <1>3, <2>4, <2>6, <2>9, <3>1, ReadsLeaves
  <2>10. CASE Goes(t, cn)
    <3>1. Reads(t, cn)
      BY <2>6, <2>7 DEF Reads, Same
    <3>2. QED
      BY <1>1, <1>3, <2>4, <2>7, <2>10, <3>1, ReadsGoesOn DEF Reading
  <2>11. QED
    BY <2>5, <2>8, <2>9, <2>10
<1>6. QED
  BY <1>4, <1>5 DEF Receive

\* Reading the contents fails: the connection is closed.
LEMMA ReceiveFailsSafe ==
  ASSUME Safe, ReceiveFails
  PROVE  Safe'
<1>1. call.pc \in Reading /\ UNCHANGED <<opt, log>> /\ Drop(call, FALSE)
  BY DEF ReceiveFails, Reading
<1>2. QED
  BY <1>1, ReadsNothing, ReadsDrops

\* The size of a chunk is read.
LEMMA ReadSizeSafe ==
  ASSUME Safe, ReadSize
  PROVE  Safe'
<1>1. call.pc = "size" /\ call.pc \in Reading /\ call.pc # "idle" /\ UNCHANGED <<opt, log>>
  BY DEF ReadSize, Reading
<1>2. PICK g \in Gets :
        \/ Drop(Got(g), FALSE)
        \/ \E n \in IF g.line.k = "size" THEN {g.line.n} ELSE Size :
             Goes([Got(g) EXCEPT !.pc = IF n = 0 THEN "tail" ELSE "chunk", !.left = n], Kept(g))
  BY DEF ReadSize
<1> DEFINE c == Got(g)  cn == Kept(g)
<1>3. /\ call \in CallRecord /\ conn.down \in Seq(Token)
      /\ ~conn.stale => Running(call, conn, log)
      /\ call.late = conn.stale
  BY <1>1, CallRuns DEF ConnRecord
<1>4. GetsGood(g, conn.down)
  BY <1>3, GetsGives
<1>5. /\ c \in CallRecord /\ Same(c, call) /\ c.late = call.late
      /\ cn \in ConnRecord /\ Shorter(cn, conn)
      /\ cn.stale = conn.stale /\ cn.confused = conn.confused
  BY <1>1, <1>4, GetsReads
<1>6. call.op = "get"
  BY <1>1 DEF Safe, ClientTypeOK
<1> HIDE DEF c, cn
<1>7. Reads(c, cn)
  BY <1>5 DEF Reads
<1>8. c.op = "get" /\ (c.code # 100 \/ c.late)
  BY <1>1, <1>3, <1>5, <1>6 DEF Running, Place, Same
<1>9. CASE Drop(c, FALSE)
  BY <1>1, <1>7, <1>8, <1>9, ReadsDrops
<1>10. ASSUME NEW n \in Int,
              Goes([c EXCEPT !.pc = IF n = 0 THEN "tail" ELSE "chunk", !.left = n], cn)
       PROVE  Safe'
  <2> DEFINE p == IF n = 0 THEN "tail" ELSE "chunk"
             b == [c EXCEPT !.pc = IF n = 0 THEN "tail" ELSE "chunk", !.left = n]
  <2>1. n \in Int
    OBVIOUS
  <2>2. p \in Pc /\ p \in {"tail", "chunk"}
    BY DEF Pc
  <2>3. b = Moved(c, p, n) /\ Goes(b, cn)
    BY <1>10 DEF Moved
  <2> HIDE DEF p, b
  <2>4. b \in CallRecord /\ Same(b, c) /\ b.late = c.late /\ b.op = c.op /\ b.code = c.code /\ b.pc = p
    BY <1>5, <2>1, <2>2, <2>3, MovesTo
  <2>5. Reads(b, cn)
    BY <1>7, <2>4 DEF Reads, Same
  <2>6. b.pc \in Reading /\ b.pc # "fields" /\ b.pc # "read"
    BY <2>2, <2>4 DEF Reading
  <2>7. QED
    BY <1>1, <1>8, <2>3, <2>4, <2>5, <2>6, ReadsGoesOn
<1>11. (IF g.line.k = "size" THEN {g.line.n} ELSE Size) \subseteq Int
  <2>1. g.line.n \in Int
    BY <1>4 DEF GetsGood, Token
  <2>2. Size \subseteq Int
    BY HttpClientAssumption
  <2>3. QED
    BY <2>1, <2>2
<1>12. QED
  BY <1>2, <1>9, <1>10, <1>11 DEF c, cn

\* What follows a chunk is read.
LEMMA ReadTailSafe ==
  ASSUME Safe, ReadTail
  PROVE  Safe'
<1>1. call.pc = "tail" /\ call.pc \in Reading /\ call.pc # "idle" /\ UNCHANGED <<opt, log>>
  BY DEF ReadTail, Reading
<1>2. PICK g \in Gets :
        \/ Drop(Got(g), FALSE)
        \/ Leave(Got(g), TRUE, Kept(g))
        \/ Goes([Got(g) EXCEPT !.pc = "size"], Kept(g))
  BY DEF ReadTail
<1> DEFINE c == Got(g)  cn == Kept(g)
<1>3. /\ call \in CallRecord /\ conn.down \in Seq(Token)
      /\ ~conn.stale => Running(call, conn, log)
      /\ call.late = conn.stale
  BY <1>1, CallRuns DEF ConnRecord
<1>4. GetsGood(g, conn.down)
  BY <1>3, GetsGives
<1>5. /\ c \in CallRecord /\ Same(c, call) /\ c.late = call.late
      /\ cn \in ConnRecord /\ Shorter(cn, conn)
      /\ cn.stale = conn.stale /\ cn.confused = conn.confused
  BY <1>1, <1>4, GetsReads
<1>6. call.op = "get"
  BY <1>1 DEF Safe, ClientTypeOK
<1> HIDE DEF c, cn
<1>7. Reads(c, cn)
  BY <1>5 DEF Reads
<1>8. c.op = "get" /\ (c.code # 100 \/ c.late)
  BY <1>1, <1>3, <1>5, <1>6 DEF Running, Place, Same
<1>9. CASE Drop(c, FALSE)
  BY <1>1, <1>7, <1>8, <1>9, ReadsDrops
<1>10. CASE Leave(c, TRUE, cn)
  <2>1. TRUE \in BOOLEAN /\ (TRUE /\ c.op = "put" => c.code = 201)
    BY <1>8
  <2>2. QED
    BY <1>1, <1>7, <1>8, <1>10, <2>1, ReadsLeaves
<1>11. CASE Goes([c EXCEPT !.pc = "size"], cn)
  <2> DEFINE b == [c EXCEPT !.pc = "size"]
  <2>1. /\ b \in CallRecord /\ Same(b, c) /\ b.late = c.late /\ b.op = c.op /\ b.code = c.code
        /\ b.pc = "size"
    BY <1>5 DEF CallRecord, Same, Pc
  <2>2. Goes(b, cn)
    BY <1>11
  <2> HIDE DEF b
  <2>3. Reads(b, cn)
    BY <1>7, <2>1 DEF Reads, Same
  <2>4. QED
    BY <1>1, <1>8, <2>1, <2>2, <2>3, ReadsGoesOn DEF Reading
<1>12. QED
  BY <1>2, <1>9, <1>10, <1>11 DEF c, cn

\* Contents can go up.
LEMMA AllUps ==
  ASSUME NEW s, AllData(s)
  PROVE  Ups(s)
  BY DEF AllData, Ups

\* What goes up may be followed by more that does.
LEMMA ConcatUps ==
  ASSUME NEW s, s \in Seq(Token), NEW t, t \in Seq(Token), Ups(s), Ups(t)
  PROVE  Ups(s \o t)
<1>1. /\ Len(s \o t) = Len(s) + Len(t)
      /\ \A i \in 1 .. Len(s) + Len(t) : (s \o t)[i] = IF i <= Len(s) THEN s[i] ELSE t[i - Len(s)]
      /\ Len(s) \in Nat /\ Len(t) \in Nat
  BY ConcatProperties
<1>2. SUFFICES ASSUME NEW i \in 1 .. Len(s) + Len(t) PROVE (s \o t)[i].k \in Op \cup {"data"}
  BY <1>1 DEF Ups
<1>3. CASE i <= Len(s)
  BY <1>1, <1>3 DEF Ups
<1>4. CASE i > Len(s)
  <2>1. i - Len(s) \in 1 .. Len(t) /\ (s \o t)[i] = t[i - Len(s)]
    BY <1>1, <1>4
  <2>2. QED
    BY <2>1 DEF Ups
<1>5. QED
  BY <1>1, <1>3, <1>4

\* What the client sends is added to what goes up.
Sends(cn, s) == [cn EXCEPT !.up = @ \o s]

\* A connection on which s is sent.
LEMMA SendsUp ==
  ASSUME NEW cn \in ConnRecord, NEW s, s \in Seq(Token), NEW dn, dn = Sends(cn, s)
  PROVE  /\ dn \in ConnRecord
         /\ dn.up = cn.up \o s /\ dn.down = cn.down /\ dn.srv = cn.srv /\ dn.closed = cn.closed
         /\ dn.stale = cn.stale /\ dn.confused = cn.confused /\ dn.open = cn.open
<1>1. cn.up \o s \in Seq(Token)
  BY ConcatProperties DEF ConnRecord
<1>2. QED
  BY <1>1 DEF Sends, ConnRecord

\* A piece of the contents of a PUT is sent.
LEMMA SendContentsSafe ==
  ASSUME Safe, SendContents
  PROVE  Safe'
<1>1. call.pc = "send" /\ UNCHANGED <<opt, log>>
  BY DEF SendContents
<1>2. /\ call \in CallRecord /\ conn \in ConnRecord /\ Codes(conn.down) /\ Ups(conn.up) /\ call.op \in Op
      /\ call.late = conn.stale
      /\ ~conn.stale => Running(call, conn, log)
  BY <1>1, CallRuns
<1>3. CASE Drop(call, FALSE)
  BY <1>1, <1>2, <1>3, DropKeeps DEF Running, Place
<1>4. ASSUME NEW n \in 1 .. Piece, n <= call.left,
             Goes([call EXCEPT !.left = @ - n, !.pc = IF call.left = n THEN "status" ELSE @],
                  [conn EXCEPT !.up = @ \o Units(call.req, call.len - call.left, n)])
      PROVE  Safe'
  <2> DEFINE u == Units(call.req, call.len - call.left, n)
             cn == [conn EXCEPT !.up = @ \o Units(call.req, call.len - call.left, n)]
             p == IF call.left = n THEN "status" ELSE call.pc
             l == call.left - n
             c == [call EXCEPT !.left = @ - n, !.pc = IF call.left = n THEN "status" ELSE @]
  <2>1. n \in Nat \ {0} /\ call.left \in Int /\ call.len \in Nat /\ call.req \in Nat
    BY <1>2, HttpClientAssumption DEF CallRecord
  <2>2. u \in Seq(Token) /\ Len(u) = n /\ AllData(u)
    BY <2>1, call.len - call.left \in Int, UnitsSeq
  <2>3. cn = Sends(conn, u) /\ c = Moved(call, p, l) /\ Goes(c, cn)
    BY <1>4 DEF Sends, Moved
  <2>4. p \in Pc /\ l \in Int /\ p \in {"status", "send"} /\ p # "idle" /\ (p = "send" <=> l # 0) /\ l >= 0
    BY <1>1, <1>4, <2>1 DEF Pc
  <2>5. l + n = call.left
    BY <2>1
  <2> HIDE DEF u, cn, p, l, c
  <2>6. /\ cn \in ConnRecord
        /\ cn.up = conn.up \o u /\ cn.down = conn.down /\ cn.srv = conn.srv /\ cn.closed = conn.closed
        /\ cn.stale = conn.stale /\ cn.confused = conn.confused
    BY <1>2, <2>2, <2>3, SendsUp
  <2>7. /\ c \in CallRecord /\ Same(c, call) /\ c.late = call.late /\ c.op = call.op /\ c.code = call.code
        /\ c.pc = p /\ c.left = l /\ c.cut = call.cut
    BY <1>2, <2>3, <2>4, MovesTo
  <2>8. ASSUME ~conn.stale PROVE Running(c, cn, log)
    <3>1. Running(call, conn, log)
      BY <1>2, <2>8
    <3>2. call.op = "put" /\ ~call.first /\ call.code = 100
      BY <1>1, <3>1 DEF Running, Place
    <3>3. Place(c)
      BY <2>4, <2>7, <3>1, <3>2 DEF Running, Place, Same
    <3>4. ~conn.closed => Taking(call, conn)
      BY <1>1, <3>1, <3>2 DEF Running, Phase, Asked, Waiting, Answered
    <3>5. ~Final(c) /\ ~Final(call)
      BY <2>7, <3>2 DEF Final
    <3>6. \A i \in 1 .. Len(conn.down) : IsStatus(conn.down[i]) => conn.down[i].n # 100 /\ conn.closed
      <4>1. \A i \in 1 .. Len(conn.down) : IsStatus(conn.down[i]) => conn.down[i].n # 100
        BY <3>1, <3>2 DEF Running, Coming
      <4>2. QED
        BY <4>1, <3>4 DEF Taking
    <3>7. Coming(c, cn) /\ Stored(c, cn, log)
      <4>1. Stored(c, cn, log)
        BY <2>6, <2>7, <3>1 DEF Running, Stored, Same
      <4>2. cn.srv.op # "none" => ~cn.closed /\ cn.srv.req = c.req /\ cn.srv.op = c.op
        BY <2>6, <2>7, <3>1 DEF Running, Coming, Same
      <4>3. ASSUME NEW i \in 1 .. Len(conn.down), IsStatus(conn.down[i])
            PROVE  conn.down[i].of = c.req /\ cn.srv.op = "none" /\ cn.closed
        BY <2>6, <2>7, <3>1, <3>6, <4>3 DEF Running, Coming, Same
      <4>4. QED
        BY <2>6, <3>1, <3>5, <3>6, <4>1, <4>2, <4>3 DEF Running, Coming
    <3>8. ASSUME ~cn.closed PROVE Phase(c, cn)
      <4>1. Taking(call, conn)
        BY <2>6, <3>4, <3>8
      <4>2. /\ Len(cn.up) = Len(conn.up) + Len(u)
            /\ \A i \in 1 .. Len(conn.up) + Len(u) :
                 cn.up[i] = IF i <= Len(conn.up) THEN conn.up[i] ELSE u[i - Len(conn.up)]
            /\ Len(conn.up) \in Nat
        <5>1. conn.up \in Seq(Token)
          BY <1>2 DEF ConnRecord
        <5>2. /\ Len(conn.up \o u) = Len(conn.up) + Len(u)
              /\ \A i \in 1 .. Len(conn.up) + Len(u) :
                   (conn.up \o u)[i] = IF i <= Len(conn.up) THEN conn.up[i] ELSE u[i - Len(conn.up)]
          BY <2>2, <5>1, ConcatProperties
        <5>3. QED
          BY <2>6, <5>1, <5>2
      <4>3. AllData(cn.up)
        <5>1. SUFFICES ASSUME NEW i \in 1 .. Len(cn.up) PROVE cn.up[i].k = "data"
          BY DEF AllData
        <5>2. CASE i <= Len(conn.up)
          BY <2>1, <2>2, <4>1, <4>2, <5>2 DEF AllData, Taking
        <5>3. CASE i > Len(conn.up)
          <6>1. i - Len(conn.up) \in 1 .. Len(u) /\ cn.up[i] = u[i - Len(conn.up)]
            BY <2>1, <2>2, <4>2, <5>3
          <6>2. QED
            BY <2>2, <6>1 DEF AllData
        <5>4. QED
          BY <4>2, <5>2, <5>3
      <4>4. ToSend(call) = call.left
        BY <1>1, <3>2 DEF ToSend
      <4>5. ToSend(c) = l
        BY <2>4, <2>7, <3>2 DEF ToSend, Same
      <4>6. cn.srv.len = Len(cn.up) + ToSend(c)
        BY <2>1, <2>2, <2>4, <2>5, <2>6, <4>1, <4>2, <4>4, <4>5 DEF Taking
      <4>7. Taking(c, cn)
        BY <2>6, <3>5, <4>1, <4>3, <4>6 DEF Taking
      <4>8. QED
        BY <4>7 DEF Phase
    <3>9. QED
      BY <3>3, <3>7, <3>8 DEF Running
  <2>9. GoesOn(c, cn)
    <3>1. Ups(cn.up)
      BY <1>2, <2>2, <2>6, AllUps, ConcatUps DEF ConnRecord
    <3>2. QED
      BY <1>2, <2>4, <2>6, <2>7, <2>8, <3>1 DEF GoesOn
  <2>10. QED
    BY <1>1, <2>3, <2>9, GoesKeeps
<1>5. QED
  BY <1>3, <1>4 DEF SendContents

\* A request is one token.
LEMMA RequestToken ==
  ASSUME NEW op \in Op, NEW r \in Nat, NEW n \in Nat
  PROVE  /\ Request(op, r, n) \in Token /\ Request(op, r, n).k = op
         /\ <<Request(op, r, n)>> \in Seq(Token) /\ Len(<<Request(op, r, n)>>) = 1
         /\ <<Request(op, r, n)>>[1] = Request(op, r, n)
<1>1. Request(op, r, n) \in Token /\ Request(op, r, n).k = op
  BY DEF Request, Token, Op, Kind
<1>2. QED
  BY <1>1

\* What a call sends: its request, and what belongs to it.
Sent(op, r, n) == <<Request(op, r, n)>> \o (IF op = "cmd" THEN Units(r, 0, n) ELSE <<>>)

\* What a call sends at once: its request, and the contents of a command.
LEMMA SentSeq ==
  ASSUME NEW op \in Op, NEW r \in Nat, NEW n \in Nat
  PROVE  LET s == Sent(op, r, n) IN
         /\ s \in Seq(Token) /\ Ups(s) /\ Len(s) = 1 + (IF op = "cmd" THEN n ELSE 0)
         /\ s[1] = Request(op, r, n)
         /\ \A i \in 2 .. Len(s) : s[i].k = "data"
<1> DEFINE q == <<Request(op, r, n)>>
           u == IF op = "cmd" THEN Units(r, 0, n) ELSE <<>>
<1>1. q \in Seq(Token) /\ Len(q) = 1 /\ q[1] = Request(op, r, n) /\ q[1].k \in Op
  BY RequestToken
<1>2. u \in Seq(Token) /\ Len(u) = (IF op = "cmd" THEN n ELSE 0) /\ AllData(u)
  <2>1. CASE op = "cmd"
    BY <2>1, UnitsSeq, 0 \in Int
  <2>2. CASE op # "cmd"
    BY <2>2 DEF AllData
  <2>3. QED
    BY <2>1, <2>2
<1>3. Sent(op, r, n) = q \o u
  BY DEF Sent
<1> HIDE DEF q, u
<1>4. /\ q \o u \in Seq(Token) /\ Len(q \o u) = Len(q) + Len(u)
      /\ \A i \in 1 .. Len(q) + Len(u) : (q \o u)[i] = IF i <= Len(q) THEN q[i] ELSE u[i - Len(q)]
  BY <1>1, <1>2, ConcatProperties
<1>5. (q \o u)[1] = Request(op, r, n)
  BY <1>1, <1>2, <1>4
<1>6. ASSUME NEW i \in 2 .. Len(q \o u) PROVE (q \o u)[i].k = "data"
  <2>1. i - 1 \in 1 .. Len(u) /\ (q \o u)[i] = u[i - 1]
    BY <1>1, <1>2, <1>4
  <2>2. QED
    BY <1>2, <2>1 DEF AllData
<1>7. Ups(q \o u)
  <2>1. SUFFICES ASSUME NEW i \in 1 .. Len(q \o u) PROVE (q \o u)[i].k \in Op \cup {"data"}
    BY DEF Ups
  <2>2. CASE i = 1
    BY <1>1, <1>5, <2>2
  <2>3. CASE i # 1
    <3>1. i \in 2 .. Len(q \o u)
      BY <2>3, <1>1, <1>2, <1>4
    <3>2. QED
      BY <1>6, <3>1
  <2>4. QED
    BY <2>2, <2>3
<1>8. QED
  BY <1>1, <1>2, <1>3, <1>4, <1>5, <1>6, <1>7

\* The call as it starts.
Started(op, r, n, late) ==
  [NoCall EXCEPT !.op = op, !.req = r, !.len = n, !.late = late, !.first = op = "put"]

\* A call at its beginning.
LEMMA StartedFacts ==
  ASSUME NEW op \in Op, NEW r \in Nat, NEW n \in Nat, NEW late, late \in BOOLEAN,
         NEW c, c = Started(op, r, n, late)
  PROVE  /\ c \in CallRecord /\ c.op = op /\ c.req = r /\ c.len = n
         /\ (c.late => late) /\ (late => c.late)
         /\ (c.first => op = "put") /\ (op = "put" => c.first)
         /\ c.pc = "idle" /\ c.code = 0 /\ c.of = 0 /\ c.clength = 0 /\ c.left = 0 /\ c.saved = <<>>
         /\ ~c.cut /\ ~c.ok
<1> DEFINE f == op = "put"  z == NoCall  i == "idle"  o == 0  e == <<>>
<1>1. f \in BOOLEAN
  OBVIOUS
<1>2. c = [z EXCEPT !.op = op, !.req = r, !.len = n, !.late = late, !.first = f]
  BY DEF Started
<1>3. /\ z \in CallRecord /\ z.pc = i /\ z.code = o /\ z.of = o /\ z.clength = o /\ z.left = o
      /\ z.saved = e /\ ~z.cut /\ ~z.ok
  BY EmptyRecords DEF NoCall
<1> HIDE DEF f, z, i, o, e
<1>4. c \in CallRecord
  BY <1>1, <1>2, <1>3 DEF CallRecord
<1>5. c.op = op /\ c.req = r /\ c.len = n /\ c.late = late /\ c.first = f
  BY <1>1, <1>2, <1>3 DEF CallRecord
<1>6. /\ c.pc = i /\ c.code = o /\ c.of = o /\ c.clength = o /\ c.left = o /\ c.saved = e
  BY <1>1, <1>2, <1>3 DEF CallRecord
<1>7. c.cut = z.cut /\ c.ok = z.ok
  BY <1>1, <1>2, <1>3 DEF CallRecord
<1>8. ~c.cut /\ ~c.ok
  BY <1>3, <1>4, <1>7 DEF CallRecord
<1>9. QED
  BY <1>4, <1>5, <1>6, <1>8 DEF f, i, o, e

\* A call begins: over a connection that is not stale nothing is due.
LEMMA CallSafe ==
  ASSUME Safe, NEW op \in Op, NEW n \in Size, Call(op, n)
  PROVE  Safe'
<1> DEFINE r == call.req + 1
           cn == IF conn.open THEN conn ELSE NewConn
           p == IF op = "put" THEN "wait" ELSE "status"
           s == Sent(op, r, n)
           dn == Sends(cn, s)
           c0 == Started(op, r, n, cn.stale)
           c == [c0 EXCEPT !.pc = p]
<1>1. n \in Nat /\ r \in Nat /\ r > 0 /\ call.pc = "idle"
  BY HttpClientAssumption DEF Safe, ClientTypeOK, CallRecord, Call
<1>2. /\ cn \in ConnRecord /\ Codes(cn.down) /\ Ups(cn.up)
      /\ cn.confused => cn.stale
      /\ ~cn.stale => Quiet(cn)
      /\ n \in Nat /\ r \in Nat /\ r > 0
  <2>1. /\ NewConn \in ConnRecord /\ NewConn.up = <<>> /\ NewConn.down = <<>> /\ NewConn.srv = NoConn.srv
        /\ NewConn.confused = FALSE
    BY EmptyRecords DEF NewConn, ConnRecord
  <2>2. /\ conn \in ConnRecord /\ Codes(conn.down) /\ Ups(conn.up) /\ (conn.confused => conn.stale)
        /\ ~conn.stale => Quiet(conn)
    BY <1>1 DEF Safe, ClientTypeOK, IInv
  <2>3. Codes(NewConn.down) /\ Ups(NewConn.up) /\ Quiet(NewConn)
    BY <2>1, EmptyRecords DEF Codes, Ups, Quiet
  <2>4. QED
    BY <1>1, <2>1, <2>2, <2>3
<1> HIDE DEF r, cn, p, s, dn, c, c0
<1>3. cn.stale \in BOOLEAN
  BY <1>2 DEF ConnRecord
<1>4. /\ c0 \in CallRecord /\ c0.op = op /\ c0.req = r /\ c0.len = n /\ c0.late = cn.stale
      /\ (c0.first => op = "put") /\ (op = "put" => c0.first)
      /\ c0.code = 0 /\ c0.of = 0 /\ ~c0.cut
  <2> DEFINE x == cn.stale
  <2>1. c0 = Started(op, r, n, x)
    BY DEF c0
  <2>2. n \in Nat /\ r \in Nat
    BY <1>2
  <2>3. x \in BOOLEAN
    BY <1>3
  <2> HIDE DEF x
  <2>4. /\ c0 \in CallRecord /\ c0.op = op /\ c0.req = r /\ c0.len = n
        /\ (c0.late => x) /\ (x => c0.late)
        /\ (c0.first => op = "put") /\ (op = "put" => c0.first)
        /\ c0.code = 0 /\ c0.of = 0 /\ ~c0.cut
    BY <2>1, <2>2, <2>3, StartedFacts
  <2>5. c0.late = x
    BY <2>3, <2>4 DEF CallRecord
  <2>6. QED
    BY <2>4, <2>5 DEF x
<1>5. [cn EXCEPT !.up = @ \o <<Request(op, r, n)>> \o (IF op = "cmd" THEN Units(r, 0, n) ELSE <<>>)] = dn
  <2> DEFINE q == <<Request(op, r, n)>>
             u == IF op = "cmd" THEN Units(r, 0, n) ELSE <<>>
  <2>1. q \in Seq(Token)
    BY <1>2, RequestToken
  <2>2. u \in Seq(Token)
    <3>1. Units(r, 0, n) \in Seq(Token)
      BY <1>2, UnitsSeq, 0 \in Int
    <3>2. <<>> \in Seq(Token)
      OBVIOUS
    <3>3. QED
      BY <3>1, <3>2
  <2>3. cn.up \in Seq(Token)
    BY <1>2 DEF ConnRecord
  <2>4. s = q \o u
    BY DEF Sent, s
  <2> DEFINE y == cn.up
  <2> HIDE DEF q, u, y
  <2>5. y \in Seq(Token)
    BY <2>3 DEF y
  <2>6. (y \o q) \o u = y \o (q \o u)
    BY <2>1, <2>2, <2>5, ConcatAssociative
  <2>7. QED
    BY <2>4, <2>6 DEF Sends, q, u, y, dn
<1>6. /\ UNCHANGED <<opt, log>>
      /\ op \in {"head", "get"} => n = 0
      /\ Goes(c, dn) \/ Drop(c0, FALSE)
  BY <1>5 DEF Call, Started, r, cn, p, c, c0
<1>7. CASE Drop(c0, FALSE)
  BY <1>4, <1>6, <1>7, DropKeeps
<1>8. CASE Goes(c, dn)
  <2>1. p \in Pc /\ p # "idle" /\ p \in {"wait", "status"} /\ (p = "wait" => op = "put")
    BY DEF Pc, p
  <2>3. /\ s \in Seq(Token) /\ Ups(s) /\ Len(s) = 1 + (IF op = "cmd" THEN n ELSE 0)
        /\ s[1] = Request(op, r, n)
        /\ \A i \in 2 .. Len(s) : s[i].k = "data"
    BY <1>2, SentSeq DEF s
  <2>4. /\ c \in CallRecord /\ c.op = op /\ c.req = r /\ c.len = n /\ c.late = cn.stale
        /\ (c.first => op = "put") /\ (op = "put" => c.first)
        /\ c.pc = p /\ c.code = 0 /\ c.of = 0 /\ ~c.cut
    <3>1. c0.left \in Int
      BY <1>4 DEF CallRecord
    <3>2. c = Moved(c0, p, c0.left)
      BY <1>4 DEF Moved, CallRecord, c
    <3>3. QED
      BY <1>4, <2>1, <3>1, <3>2, MovesTo DEF Same
  <2>5. /\ dn \in ConnRecord
        /\ dn.up = cn.up \o s /\ dn.down = cn.down /\ dn.srv = cn.srv /\ dn.closed = cn.closed
        /\ dn.stale = cn.stale /\ dn.confused = cn.confused
    BY <1>2, <2>3, SendsUp DEF dn
  <2>6. Ups(dn.up)
    BY <1>2, <2>3, <2>5, ConcatUps DEF ConnRecord
  <2>7. ASSUME ~dn.stale PROVE Running(c, dn, log)
    <3>1. Quiet(cn)
      BY <1>2, <2>5, <2>7
    <3>2. Place(c)
      BY <1>2, <1>6, <2>1, <2>4 DEF Place, Op
    <3>3. ~Final(c)
      BY <2>4 DEF Final
    <3>4. Coming(c, dn) /\ Stored(c, dn, log)
      BY <2>4, <2>5, <3>1, <3>3 DEF Coming, Stored, Quiet, NoStatus
    <3>5. ASSUME ~dn.closed PROVE Phase(c, dn)
      <4>1. cn.up = <<>> /\ cn.srv.op = "none" /\ NoStatus(cn.down)
        BY <2>5, <3>1, <3>5 DEF Quiet
      <4>2. dn.up = s
        BY <2>3, <2>5, <4>1, ConcatEmptySeq
      <4>3. dn.up # <<>>
        BY <1>2, <2>3, <4>2
      <4>4. c.first = (c.op = "put")
        BY <2>4 DEF CallRecord
      <4>5. Asked(c, dn)
        BY <2>1, <2>3, <2>4, <2>5, <4>1, <4>2, <4>3, <4>4 DEF Asked
      <4>6. QED
        BY <4>5 DEF Phase
    <3>6. QED
      BY <3>2, <3>4, <3>5 DEF Running
  <2>8. call' = c /\ conn' = dn /\ done' = NoCall /\ opt' = opt /\ log' = log
    BY <1>6, <1>8 DEF Goes
  <2>9. ClientTypeOK'
    BY <1>2, <2>1, <2>4, <2>5, <2>6, <2>8, EmptyRecords DEF Safe, ClientTypeOK
  <2>10. IInv'
    BY <1>2, <2>1, <2>4, <2>5, <2>7, <2>8 DEF IInv
  <2>11. QED
    BY <2>9, <2>10 DEF Safe
<1>9. QED
  BY <1>6, <1>7, <1>8

-----------------------------------------------------------------------------
(* The server *)

\* What a step of the server must leave.
LEMMA ServerKeeps ==
  ASSUME Safe, UNCHANGED <<opt, call, done>>, NEW cn, conn' = cn,
         cn \in ConnRecord, Codes(cn.down), Ups(cn.up), cn.stale = conn.stale,
         cn.confused => conn.confused \/ cn.stale,
         NEW lg, log' = lg, lg \in LogRecord,
         Quiet(conn) => Quiet(cn) /\ lg = log,
         ~conn.stale /\ call.pc # "idle" => Running(call, cn, lg)
  PROVE  Safe'
<1>1. ClientTypeOK'
  BY DEF Safe, ClientTypeOK
<1>2. cn.confused => cn.stale
  BY DEF Safe, IInv
<1>3. CASE call.pc = "idle"
  <2>1. (~conn.stale => Quiet(conn)) /\ Ended(done, conn, log)
    BY <1>3 DEF Safe, IInv
  <2>2. (~cn.stale => Quiet(cn)) /\ Ended(done, cn, lg)
    BY <2>1 DEF Ended
  <2>3. IInv'
    BY <1>2, <1>3, <2>2 DEF IInv
  <2>4. QED
    BY <1>1, <2>3 DEF Safe
<1>4. CASE call.pc # "idle"
  <2>1. done = NoCall /\ call.late = conn.stale
    BY <1>4 DEF Safe, IInv
  <2>2. IInv'
    BY <1>2, <1>4, <2>1 DEF IInv
  <2>3. QED
    BY <1>1, <2>2 DEF Safe
<1>5. QED
  BY <1>3, <1>4

\* The types of a connection.
LEMMA ConnTyped ==
  ASSUME Safe
  PROVE  /\ conn \in ConnRecord /\ Codes(conn.down) /\ Ups(conn.up)
         /\ conn.up \in Seq(Token) /\ conn.down \in Seq(Token)
         /\ conn.srv \in [op : Op \cup {"none"}, req : Nat, len : Int, told : BOOLEAN]
         /\ conn.srv.told => conn.srv.op # "none"
         /\ conn.open \in BOOLEAN /\ conn.closed \in BOOLEAN /\ conn.confused \in BOOLEAN
         /\ log \in LogRecord /\ call \in CallRecord
<1>1. conn \in ConnRecord /\ Codes(conn.down) /\ Ups(conn.up) /\ log \in LogRecord /\ call \in CallRecord
  BY DEF Safe, ClientTypeOK
<1>2. /\ conn.up \in Seq(Token) /\ conn.down \in Seq(Token) /\ conn.srv \in ServerRecord
      /\ conn.open \in BOOLEAN /\ conn.closed \in BOOLEAN /\ conn.confused \in BOOLEAN
  BY <1>1 DEF ConnRecord
<1>3. QED
  BY <1>1, <1>2 DEF ServerRecord

\* The server takes the first of what comes up.
Fed(cn, u, f, s) == [cn EXCEPT !.up = u, !.confused = f, !.srv = s]

\* A connection whose server has taken something.
LEMMA FedFacts ==
  ASSUME NEW cn \in ConnRecord, NEW u, u \in Seq(Token), NEW f, f \in BOOLEAN, NEW s, s \in ServerRecord,
         NEW dn, dn = Fed(cn, u, f, s)
  PROVE  /\ dn \in ConnRecord /\ dn.up = u /\ dn.srv = s /\ dn.down = cn.down
         /\ dn.closed = cn.closed /\ dn.stale = cn.stale
         /\ dn.confused => f
<1>1. dn \in ConnRecord
  BY DEF Fed, ConnRecord
<1>2. dn.up = u /\ dn.srv = s /\ dn.down = cn.down /\ dn.closed = cn.closed /\ dn.stale = cn.stale
  BY DEF Fed, ConnRecord
<1>3. dn.confused => f
  BY DEF Fed, ConnRecord
<1>4. QED
  BY <1>1, <1>2, <1>3

\* What is left when the server has taken one token.
LEMMA TailUp ==
  ASSUME NEW s, s \in Seq(Token), s # <<>>
  PROVE  /\ Len(s) > 0 /\ Len(s) \in Nat /\ Head(s) = s[1] /\ Head(s) \in Token
         /\ Tail(s) \in Seq(Token) /\ Len(Tail(s)) = Len(s) - 1
         /\ \A i \in 1 .. Len(Tail(s)) : Tail(s)[i] = s[i + 1] /\ i + 1 \in 2 .. Len(s)
         /\ Ups(s) => Ups(Tail(s)) /\ Head(s).k \in Op \cup {"data"}
         /\ AllData(s) => AllData(Tail(s)) /\ Head(s).k = "data"
<1>1. /\ Len(s) \in Nat \ {0} /\ Head(s) = s[1] /\ Head(s) \in Token
      /\ Tail(s) \in Seq(Token) /\ Len(Tail(s)) = Len(s) - 1
      /\ \A i \in 1 .. Len(Tail(s)) : Tail(s)[i] = s[i + 1]
  BY EmptySeq, HeadTailProperties, ElementOfSeq
<1>2. \A i \in 1 .. Len(Tail(s)) : Tail(s)[i] = s[i + 1] /\ i + 1 \in 2 .. Len(s) /\ i + 1 \in 1 .. Len(s)
  BY <1>1
<1>3. 1 \in 1 .. Len(s)
  BY <1>1
<1>4. Ups(s) => Ups(Tail(s)) /\ Head(s).k \in Op \cup {"data"}
  BY <1>1, <1>2, <1>3 DEF Ups
<1>5. AllData(s) => AllData(Tail(s)) /\ Head(s).k = "data"
  BY <1>1, <1>2, <1>3 DEF AllData
<1>6. QED
  BY <1>1, <1>2, <1>4, <1>5

\* The server takes a unit of contents.
LEMMA ServerTakesSafe ==
  ASSUME Safe, ServerTakes
  PROVE  Safe'
<1> DEFINE t == Head(conn.up)
           u == Tail(conn.up)
           f == conn.confused \/ t.k = "data"
           s == IF t.k = "data" THEN conn.srv ELSE [op |-> t.k, req |-> t.of, len |-> t.n, told |-> t.k # "put"]
           cn == Fed(conn, u, f, s)
<1>1. /\ ~conn.closed /\ conn.srv.op = "none" /\ conn.up # <<>>
      /\ conn' = cn /\ UNCHANGED <<opt, call, done, log>>
  BY DEF ServerTakes, Serves, Fed
<1>2. /\ Len(conn.up) > 0 /\ Len(conn.up) \in Nat /\ t = conn.up[1] /\ t \in Token
      /\ u \in Seq(Token) /\ Len(u) = Len(conn.up) - 1 /\ Ups(u)
      /\ \A i \in 1 .. Len(u) : u[i] = conn.up[i + 1] /\ i + 1 \in 2 .. Len(conn.up)
      /\ t.k \in Op \cup {"data"}
  BY <1>1, ConnTyped, TailUp
<1>3. s \in ServerRecord /\ f \in BOOLEAN
  <2>1. conn.srv \in ServerRecord
    BY ConnTyped DEF ConnRecord
  <2>2. t.of \in Nat /\ t.n \in Int
    BY <1>2 DEF Token
  <2>3. QED
    BY <1>2, <2>1, <2>2 DEF ServerRecord, Op
<1> HIDE DEF t, u, f, s, cn
<1>4. /\ cn \in ConnRecord /\ cn.up = u /\ cn.srv = s /\ cn.down = conn.down
      /\ cn.closed = conn.closed /\ cn.stale = conn.stale
      /\ cn.confused => f
  BY <1>2, <1>3, ConnTyped, FedFacts DEF cn
<1>5. ~Quiet(conn)
  BY <1>1 DEF Quiet
<1>6. ~conn.stale => call.pc # "idle"
  BY <1>5 DEF Safe, IInv
<1>7. ASSUME ~conn.stale PROVE Running(call, cn, log) /\ t.k # "data"
  <2>1. Running(call, conn, log)
    BY <1>6, <1>7, CallRuns
  <2>2. Asked(call, conn)
    <3>1. ~Taking(call, conn) /\ ~Waiting(call, conn) /\ ~Answered(call, conn)
      BY <1>1 DEF Taking, Waiting, Answered
    <3>2. QED
      BY <1>1, <2>1, <3>1 DEF Running, Phase
  <2>3. t = Request(call.op, call.req, call.len) /\ call.op \in Op
    BY <1>2, <2>1, <2>2 DEF Asked, Running, Place
  <2>4. t.k = call.op /\ t.of = call.req /\ t.n = call.len /\ t.k # "data"
    BY <2>3 DEF Request, Op
  <2>5. s.op = call.op /\ s.req = call.req /\ s.len = call.len /\ s.told = (call.op # "put") /\ s.op # "none"
    BY <2>3, <2>4 DEF s, Op
  <2>6. NoStatus(conn.down) /\ call.code = 0
    BY <2>2 DEF Asked
  <2>7. Coming(call, cn) /\ Stored(call, cn, log)
    BY <1>1, <1>4, <2>1, <2>5, <2>6 DEF Coming, Stored, Running, NoStatus, Final
  <2>8. AllData(u)
    BY <1>2, <2>2 DEF AllData, Asked
  <2>9. Len(u) = IF call.op = "cmd" THEN call.len ELSE 0
    BY <1>2, <2>2, ConnTyped DEF Asked, CallRecord
  <2>10. Phase(call, cn)
    <3>1. CASE call.op = "put"
      <4>1. cn.up = <<>>
        BY <1>2, <1>4, <2>9, <3>1, EmptySeq
      <4>2. Waiting(call, cn)
        BY <1>4, <2>2, <2>5, <2>6, <3>1, <4>1 DEF Waiting, Asked
      <4>3. QED
        BY <4>2 DEF Phase
    <3>2. CASE call.op # "put"
      <4>1. ToSend(call) = 0 /\ ~Final(call)
        BY <2>6, <3>2 DEF ToSend, Final
      <4>2. call.len = Len(u)
        BY <2>1, <2>3, <2>9, <3>2 DEF Running, Place, Op
      <4>3. call.len = Len(u) + 0
        BY <4>2, ConnTyped DEF CallRecord
      <4>4. Taking(call, cn)
        BY <1>4, <2>5, <2>6, <2>8, <3>2, <4>1, <4>3 DEF Taking, NoStatus
      <4>5. QED
        BY <4>4 DEF Phase
    <3>3. QED
      BY <3>1, <3>2
  <2>11. QED
    BY <2>1, <2>4, <2>7, <2>10 DEF Running
<1>8. Codes(cn.down) /\ Ups(cn.up)
  BY <1>2, <1>4, ConnTyped
<1>9. cn.confused => conn.confused \/ cn.stale
  BY <1>4, <1>7 DEF f
<1>10. log \in LogRecord
  BY ConnTyped
<1>11. QED
  BY <1>1, <1>4, <1>5, <1>7, <1>8, <1>9, <1>10, ServerKeeps

\* The server takes a request, or takes contents for one.
LEMMA ServerReadsSafe ==
  ASSUME Safe, ServerReads
  PROVE  Safe'
<1> DEFINE t == Head(conn.up)
           u == Tail(conn.up)
           f == conn.confused \/ t.k # "data"
           s == [conn.srv EXCEPT !.len = @ - 1]
           cn == Fed(conn, u, f, s)
<1>1. /\ ~conn.closed /\ conn.srv.told /\ conn.up # <<>>
      /\ conn' = cn /\ UNCHANGED <<opt, call, done, log>>
  <2>1. conn.srv \in [op : Op \cup {"none"}, req : Nat, len : Int, told : BOOLEAN] /\ conn \in ConnRecord
    BY ConnTyped
  <2>2. [conn EXCEPT !.up = Tail(@), !.srv.len = @ - 1, !.confused = @ \/ Head(conn.up).k # "data"] = cn
    BY <2>1 DEF Fed, ConnRecord
  <2>3. QED
    BY <2>2 DEF ServerReads, Serves
<1>2. /\ Len(conn.up) > 0 /\ Len(conn.up) \in Nat
      /\ u \in Seq(Token) /\ Len(u) = Len(conn.up) - 1 /\ Ups(u)
      /\ AllData(conn.up) => AllData(u) /\ t.k = "data"
  BY <1>1, ConnTyped, TailUp
<1>3. /\ s \in ServerRecord /\ f \in BOOLEAN
      /\ s.op = conn.srv.op /\ s.req = conn.srv.req /\ s.len = conn.srv.len - 1 /\ s.told
  BY <1>1, ConnTyped DEF ServerRecord
<1> HIDE DEF t, u, f, s, cn
<1>4. /\ cn \in ConnRecord /\ cn.up = u /\ cn.srv = s /\ cn.down = conn.down
      /\ cn.closed = conn.closed /\ cn.stale = conn.stale
      /\ cn.confused => f
  BY <1>2, <1>3, ConnTyped, FedFacts DEF cn
<1>5. conn.srv.op # "none" /\ ~Quiet(conn)
  BY <1>1, ConnTyped DEF Quiet
<1>6. ~conn.stale => call.pc # "idle"
  BY <1>5 DEF Safe, IInv
<1>7. ASSUME ~conn.stale PROVE Running(call, cn, log) /\ t.k = "data"
  <2>1. Running(call, conn, log)
    BY <1>6, <1>7, CallRuns
  <2>2. Taking(call, conn)
    <3>1. ~Asked(call, conn) /\ ~Waiting(call, conn) /\ ~Answered(call, conn)
      BY <1>1, <1>5 DEF Asked, Waiting, Answered
    <3>2. QED
      BY <1>1, <2>1, <3>1 DEF Running, Phase
  <2>3. AllData(u) /\ t.k = "data" /\ ~Final(call)
    BY <1>2, <2>2 DEF Taking
  <2>4. \A i \in 1 .. Len(conn.down) : IsStatus(conn.down[i]) => conn.down[i].n = 100
    BY <2>2 DEF Taking
  <2>5. Coming(call, cn) /\ Stored(call, cn, log)
    BY <1>1, <1>3, <1>4, <2>1, <2>3, <2>4 DEF Coming, Stored, Running
  <2>6. ToSend(call) \in Int
    BY ConnTyped DEF ToSend, CallRecord
  <2>7. conn.srv.len - 1 = Len(u) + ToSend(call)
    BY <1>2, <2>2, <2>6 DEF Taking
  <2>8. Taking(call, cn)
    BY <1>3, <1>4, <1>5, <2>3, <2>4, <2>7 DEF Taking
  <2>9. QED
    BY <2>1, <2>3, <2>5, <2>8 DEF Running, Phase
<1>8. Codes(cn.down) /\ Ups(cn.up)
  BY <1>2, <1>4, ConnTyped
<1>9. cn.confused => conn.confused \/ cn.stale
  BY <1>4, <1>7 DEF f
<1>10. log \in LogRecord
  BY ConnTyped
<1>11. QED
  BY <1>1, <1>4, <1>5, <1>7, <1>8, <1>9, <1>10, ServerKeeps

\* The server says something, or dies.
Said(cn, s, cl, d) == [cn EXCEPT !.srv = s, !.closed = cl, !.down = d]

\* A connection whose server has said something.
LEMMA SaidFacts ==
  ASSUME NEW cn \in ConnRecord, NEW s, s \in ServerRecord, NEW cl, cl \in BOOLEAN, NEW d, d \in Seq(Token),
         NEW dn, dn = Said(cn, s, cl, d)
  PROVE  /\ dn \in ConnRecord /\ dn.up = cn.up /\ dn.srv = s /\ dn.down = d
         /\ (dn.closed => cl) /\ (cl => dn.closed)
         /\ dn.stale = cn.stale /\ (dn.confused => cn.confused)
<1>1. dn \in ConnRecord
  BY DEF Said, ConnRecord
<1>2. dn.up = cn.up /\ dn.srv = s /\ dn.down = d /\ dn.stale = cn.stale
  BY DEF Said, ConnRecord
<1>3. (dn.closed => cl) /\ (cl => dn.closed) /\ (dn.confused => cn.confused)
  BY DEF Said, ConnRecord
<1>4. QED
  BY <1>1, <1>2, <1>3

\* What is said comes after what has not been read yet, and has one status.
OneStatus(x) ==
  x \in Seq(Token) /\ Len(x) > 0 /\ IsStatus(x[1]) /\ \A i \in 2 .. Len(x) : ~IsStatus(x[i])

Follows(e, d, x) ==
  /\ e \in Seq(Token)
  /\ \A i \in 1 .. Len(e) : IsStatus(e[i]) =>
       \/ i \in 1 .. Len(d) /\ IsStatus(d[i]) /\ e[i] = d[i]
       \/ i = Len(d) + 1 /\ e[i] = x[1]

\* What comes down when x has been said after d.
LEMMA DownFacts ==
  ASSUME NEW d, d \in Seq(Token), NEW x, OneStatus(x)
  PROVE  Follows(d \o x, d, x)
<1> DEFINE e == d \o x
<1> USE DEF OneStatus
<1>1. /\ d \o x \in Seq(Token) /\ Len(d \o x) = Len(d) + Len(x)
      /\ \A i \in 1 .. Len(d) + Len(x) : (d \o x)[i] = IF i <= Len(d) THEN d[i] ELSE x[i - Len(d)]
      /\ Len(d) \in Nat /\ Len(x) \in Nat
  BY ConcatProperties
<1>2. ASSUME NEW i \in 1 .. Len(e), IsStatus(e[i])
      PROVE  \/ i \in 1 .. Len(d) /\ IsStatus(d[i]) /\ e[i] = d[i]
             \/ i = Len(d) + 1 /\ e[i] = x[1]
  <2>1. CASE i <= Len(d)
    BY <1>1, <1>2, <2>1
  <2>2. CASE i > Len(d)
    <3>1. i - Len(d) \in 1 .. Len(x) /\ e[i] = x[i - Len(d)]
      BY <1>1, <2>2
    <3>2. i - Len(d) = 1
      BY <1>1, <1>2, <3>1
    <3>3. QED
      BY <1>1, <3>1, <3>2
  <2>3. QED
    BY <1>1, <2>1, <2>2
<1>3. QED
  BY <1>1, <1>2 DEF Follows

\* The server says 100.
LEMMA ServerContinuesSafe ==
  ASSUME Safe, ServerContinues
  PROVE  Safe'
<1> DEFINE x == <<Status(conn.srv.req, 100), Line("end")>>
           d == conn.down \o x
           s == [conn.srv EXCEPT !.told = TRUE]
           cn == Said(conn, s, conn.closed, d)
<1>1. /\ ~conn.closed /\ conn.srv.op = "put" /\ ~conn.srv.told
      /\ conn' = cn /\ UNCHANGED <<opt, call, done, log>>
  <2>1. conn.srv \in [op : Op \cup {"none"}, req : Nat, len : Int, told : BOOLEAN] /\ conn \in ConnRecord
    BY ConnTyped
  <2>2. [conn EXCEPT !.srv.told = TRUE, !.down = @ \o <<Status(conn.srv.req, 100), Line("end")>>] = cn
    BY <2>1 DEF Said, ConnRecord
  <2>3. QED
    BY <2>2 DEF ServerContinues, Serves
<1>2. /\ s \in ServerRecord /\ s.op = "put" /\ s.req = conn.srv.req /\ s.len = conn.srv.len /\ s.told
  BY <1>1, ConnTyped DEF ServerRecord
<1>3. /\ x \in Seq(Token) /\ Len(x) = 2 /\ x[1] = Status(conn.srv.req, 100)
      /\ IsStatus(x[1]) /\ x[1].of = conn.srv.req /\ x[1].n = 100 /\ ~IsStatus(x[2])
  <2>1. conn.srv.req \in Nat
    BY ConnTyped
  <2>2. Status(conn.srv.req, 100) \in Token /\ Line("end") \in Token
    BY <2>1 DEF Status, Line, Token, Kind
  <2>3. QED
    BY <2>2 DEF Status, Line, IsStatus
<1> HIDE DEF x, s, cn
<1>4. /\ d \in Seq(Token)
      /\ \A i \in 1 .. Len(d) : IsStatus(d[i]) =>
           \/ i \in 1 .. Len(conn.down) /\ IsStatus(conn.down[i]) /\ d[i] = conn.down[i]
           \/ i = Len(conn.down) + 1 /\ d[i] = x[1]
  <2>1. \A i \in 2 .. Len(x) : ~IsStatus(x[i])
    BY <1>3
  <2>2. conn.down \in Seq(Token) /\ Len(x) > 0
    BY <1>3, ConnTyped
  <2>3. OneStatus(x)
    BY <1>3, <2>1 DEF OneStatus
  <2>4. Follows(d, conn.down, x)
    BY <2>2, <2>3, DownFacts
  <2>5. QED
    BY <2>4 DEF Follows
<1> HIDE DEF d
<1>5. /\ cn \in ConnRecord /\ cn.up = conn.up /\ cn.srv = s /\ cn.down = d
      /\ ~cn.closed /\ cn.stale = conn.stale /\ (cn.confused => conn.confused)
  <2> DEFINE cl == conn.closed
  <2>1. cl \in BOOLEAN /\ ~cl
    BY <1>1, ConnTyped
  <2>2. cn = Said(conn, s, cl, d)
    BY DEF cn
  <2>3. conn \in ConnRecord
    BY ConnTyped
  <2> HIDE DEF cl
  <2>4. QED
    BY <1>2, <1>4, <2>1, <2>2, <2>3, SaidFacts
<1>6. ~Quiet(conn)
  BY <1>1 DEF Quiet
<1>7. ~conn.stale => call.pc # "idle"
  BY <1>6 DEF Safe, IInv
<1>8. ASSUME ~conn.stale PROVE Running(call, cn, log)
  <2>1. Running(call, conn, log)
    BY <1>7, <1>8, CallRuns
  <2>2. Waiting(call, conn)
    <3>1. ~Asked(call, conn) /\ ~Taking(call, conn) /\ ~Answered(call, conn)
      BY <1>1 DEF Asked, Taking, Answered
    <3>2. QED
      BY <1>1, <2>1, <3>1 DEF Running, Phase
  <2>3. \A i \in 1 .. Len(d) : IsStatus(d[i]) => i = Len(conn.down) + 1 /\ d[i].n = 100 /\ d[i].of = conn.srv.req
    BY <1>3, <1>4, <2>2 DEF Waiting, NoStatus
  <2>4. call.op = "put" /\ call.first /\ call.code = 0 /\ conn.srv.req = call.req
    BY <1>1, <2>1, <2>2 DEF Waiting, Running, Coming
  <2>5. Coming(call, cn)
    <3>1. ~Final(call)
      BY <2>4 DEF Final
    <3>2. \A i, j \in 1 .. Len(d) : IsStatus(d[i]) /\ IsStatus(d[j]) => ~(i < j)
      <4>1. SUFFICES ASSUME NEW i \in 1 .. Len(d), NEW j \in 1 .. Len(d), IsStatus(d[i]), IsStatus(d[j])
                     PROVE  ~(i < j)
        OBVIOUS
      <4>2. i = j
        BY <2>3, <4>1
      <4>3. QED
        BY <4>2
    <3>3. QED
      BY <1>2, <1>5, <2>3, <2>4, <3>1, <3>2 DEF Coming
  <2>6. Stored(call, cn, log)
    BY <1>5, <2>3, <2>4 DEF Stored
  <2>7. Taking(call, cn)
    <3>1. ToSend(call) = call.len /\ ~Final(call)
      BY <2>4 DEF ToSend, Final
    <3>2. AllData(conn.up) /\ Len(conn.up) = 0 /\ conn.srv.len = call.len
      BY <2>2 DEF Waiting, AllData
    <3>3. s.len = Len(conn.up) + ToSend(call)
      BY <1>2, <3>1, <3>2, ConnTyped DEF CallRecord
    <3>4. QED
      BY <1>2, <1>5, <2>3, <3>1, <3>2, <3>3 DEF Taking
  <2>8. QED
    BY <2>1, <2>5, <2>6, <2>7 DEF Running, Phase
<1>9. Codes(cn.down) /\ Ups(cn.up)
  <2>1. 100 \in Code \ {0}
    BY DEF Code
  <2>2. ASSUME NEW i \in 1 .. Len(d), IsStatus(d[i]) PROVE d[i].n \in Code \ {0}
    <3>1. CASE i \in 1 .. Len(conn.down) /\ IsStatus(conn.down[i]) /\ d[i] = conn.down[i]
      BY <3>1, ConnTyped DEF Codes
    <3>2. CASE d[i] = x[1]
      BY <1>3, <2>1, <3>2
    <3>3. QED
      BY <1>4, <2>2, <3>1, <3>2
  <2>3. QED
    BY <1>5, <2>2, ConnTyped DEF Codes
<1>10. log \in LogRecord
  BY ConnTyped
<1>11. QED
  BY <1>1, <1>5, <1>6, <1>8, <1>9, <1>10, ServerKeeps

\* The server goes away.
LEMMA ServerDiesSafe ==
  ASSUME Safe, ServerDies
  PROVE  Safe'
<1>1. PICK m \in 0 .. Len(conn.down) :
        conn' = [conn EXCEPT !.closed = TRUE, !.srv = Idle, !.down = SubSeq(@, 1, m)]
  BY DEF ServerDies
<1>2. UNCHANGED <<opt, call, done, log>>
  BY DEF ServerDies
<1> DEFINE d == SubSeq(conn.down, 1, m)
           cl == TRUE
           cn == Said(conn, Idle, cl, d)
<1>3. conn' = cn
  <2>1. [conn EXCEPT !.closed = TRUE, !.srv = Idle, !.down = SubSeq(@, 1, m)] = cn
    BY ConnTyped DEF Said, ConnRecord
  <2>2. QED
    BY <1>1, <2>1
<1>4. d \in Seq(Token) /\ Len(d) = m /\ \A i \in 1 .. m : d[i] = conn.down[i]
  BY ConnTyped, PrefixSeq
<1>5. Less(d, conn.down)
  <2>1. \A i \in 1 .. Len(d) : i + 0 \in 1 .. Len(conn.down) /\ d[i] = conn.down[i + 0]
    BY <1>4, ConnTyped
  <2> HIDE DEF d
  <2>2. QED
    BY <2>1, 0 \in Nat DEF Less
<1>6. cl \in BOOLEAN /\ cl
  OBVIOUS
<1> HIDE DEF d, cl, cn
<1>7. /\ cn \in ConnRecord /\ cn.up = conn.up /\ cn.srv = Idle /\ cn.down = d
      /\ cn.closed /\ cn.stale = conn.stale /\ (cn.confused => conn.confused)
  <2> DEFINE z == Idle
  <2>1. cn = Said(conn, z, cl, d)
    BY DEF cn
  <2>2. z \in ServerRecord /\ conn \in ConnRecord
    BY EmptyRecords, ConnTyped
  <2>3. cl \in BOOLEAN /\ d \in Seq(Token)
    BY <1>4, <1>6
  <2> HIDE DEF z
  <2>4. /\ cn \in ConnRecord /\ cn.up = conn.up /\ cn.srv = z /\ cn.down = d
        /\ (cl => cn.closed) /\ cn.stale = conn.stale /\ (cn.confused => conn.confused)
    BY <2>1, <2>2, <2>3, SaidFacts
  <2>5. QED
    BY <1>6, <2>4 DEF z
<1>8. cn.srv.op = "none"
  BY <1>7, EmptyRecords
<1>9. Quiet(conn) => Quiet(cn)
  BY <1>5, <1>7, <1>8, LessFacts DEF Quiet
<1>10. ASSUME ~conn.stale, call.pc # "idle" PROVE Running(call, cn, log)
  <2>1. Running(call, conn, log)
    BY <1>10, CallRuns
  <2>2. PICK k \in Nat : \A i \in 1 .. Len(d) : IsStatus(d[i]) => i + k \in 1 .. Len(conn.down) /\ d[i] = conn.down[i + k]
    BY <1>5 DEF Less
  <2>3. ASSUME NEW i \in 1 .. Len(d), IsStatus(d[i])
        PROVE  d[i].of = call.req /\ (d[i].n = 100 => call.op = "put" /\ call.first /\ call.code = 0)
    BY <2>1, <2>2, <2>3 DEF Running, Coming
  <2>4. ASSUME NEW i \in 1 .. Len(d), NEW j \in 1 .. Len(d), IsStatus(d[i]), IsStatus(d[j]), i < j
        PROVE  d[i].n = 100 /\ d[j].n # 100
    <3>1. i + k < j + k
      BY <2>4
    <3>2. QED
      BY <2>1, <2>2, <2>4, <3>1 DEF Running, Coming
  <2>5. Final(call) => Quiet(cn)
    BY <1>9, <2>1 DEF Running, Coming
  <2>6. Coming(call, cn)
    BY <1>7, <1>8, <2>3, <2>4, <2>5 DEF Coming
  <2>7. (\E i \in 1 .. Len(d) : IsStatus(d[i]) /\ d[i].n = 201)
          => \E i \in 1 .. Len(conn.down) : IsStatus(conn.down[i]) /\ conn.down[i].n = 201
    BY <2>2
  <2>8. Stored(call, cn, log)
    BY <1>7, <2>1, <2>7 DEF Running, Stored
  <2>9. QED
    BY <1>7, <2>1, <2>6, <2>8 DEF Running
<1>11. Codes(cn.down) /\ Ups(cn.up)
  BY <1>5, <1>7, ConnTyped, LessFacts
<1>12. log \in LogRecord
  BY ConnTyped
<1>13. QED
  BY <1>2, <1>3, <1>7, <1>9, <1>10, <1>11, <1>12, ServerKeeps

\* All that the server says for a request.
Reply(op, r, code, framing, n, close) ==
  Answer(r, code, framing, n, close) \o (IF op = "head" THEN <<>> ELSE Body(r, framing, n))

\* What the server may answer.
Args(r, code, framing, n, close) ==
  /\ r \in Nat /\ code \in Code \ {0} /\ framing \in {"length", "chunks", "close"}
  /\ n \in Nat /\ close \in BOOLEAN

IsReply(y, op, r, code, framing, n, close) ==
  /\ OneStatus(y) /\ y[1] = Status(r, code)
  /\ Len(y) = HeaderLen(framing, close) + (IF op = "head" THEN 0 ELSE BodyLen(framing, n))
  /\ \A i \in 1 .. HeaderLen(framing, close) : y[i] = Answer(r, code, framing, n, close)[i]
  /\ op # "head" => \A i \in 1 .. BodyLen(framing, n) : y[HeaderLen(framing, close) + i] = Body(r, framing, n)[i]

ReplyBody(op, r, framing, n) == IF op = "head" THEN <<>> ELSE Body(r, framing, n)

IsParts(a, b, y, op, framing, n) ==
  /\ a \in Seq(Token) /\ b \in Seq(Token)
  /\ Len(b) = IF op = "head" THEN 0 ELSE BodyLen(framing, n)
  /\ NoStatus(b)
  /\ y = a \o b

\* A reply is a header, and contents unless it answers a HEAD.
LEMMA ReplyParts ==
  ASSUME NEW op, NEW r, NEW code, NEW framing, NEW n, NEW close, Args(r, code, framing, n, close)
  PROVE  IsParts(Answer(r, code, framing, n, close), ReplyBody(op, r, framing, n),
                 Reply(op, r, code, framing, n, close), op, framing, n)
<1>1. Answer(r, code, framing, n, close) \in Seq(Token)
  BY AnswerSeq DEF IsAnswer, Args
<1>2. CASE op = "head"
  BY <1>1, <1>2 DEF Reply, ReplyBody, NoStatus, IsParts
<1>3. CASE op # "head"
  <2>1. IsBody(Body(r, framing, n), r, framing, n)
    BY BodySeq DEF Args
  <2>2. QED
    BY <1>1, <1>3, <2>1 DEF Reply, ReplyBody, IsBody, IsParts
<1>4. QED
  BY <1>2, <1>3

\* A reply has one status line, its first.
LEMMA ReplySeq ==
  ASSUME NEW op, NEW r, NEW code, NEW framing, NEW n, NEW close, Args(r, code, framing, n, close)
  PROVE  IsReply(Reply(op, r, code, framing, n, close), op, r, code, framing, n, close)
<1> DEFINE a == Answer(r, code, framing, n, close)
           b == ReplyBody(op, r, framing, n)
           y == Reply(op, r, code, framing, n, close)
           h == HeaderLen(framing, close)
           l == IF op = "head" THEN 0 ELSE BodyLen(framing, n)
<1>1. /\ a \in Seq(Token) /\ Len(a) = h /\ a[1] = Status(r, code)
      /\ \A i \in 2 .. Len(a) : ~IsStatus(a[i])
  <2>1. IsAnswer(a, r, code, framing, n, close)
    BY AnswerSeq DEF Args
  <2> HIDE DEF a
  <2>2. QED
    BY <2>1 DEF IsAnswer
<1>2. h \in Nat /\ h > 0
  BY DEF HeaderLen
<1>3. b \in Seq(Token) /\ Len(b) = l /\ NoStatus(b) /\ y = a \o b
  <2>1. IsParts(a, b, y, op, framing, n)
    BY ReplyParts, Zenon
  <2> HIDE DEF a, b, y
  <2>2. QED
    BY <2>1 DEF IsParts
<1>6. op # "head" => l = BodyLen(framing, n) /\ b = Body(r, framing, n)
  BY DEF ReplyBody
<1>4. IsStatus(Status(r, code))
  BY DEF Status, IsStatus
<1> HIDE DEF a, b, y, h, l
<1>5. y = a \o b
  BY <1>3
<1>17. a \in Seq(Token) /\ b \in Seq(Token)
  BY <1>1, <1>3
<1>7. /\ a \o b \in Seq(Token) /\ Len(a \o b) = Len(a) + Len(b)
      /\ \A i \in 1 .. Len(a) + Len(b) : (a \o b)[i] = IF i <= Len(a) THEN a[i] ELSE b[i - Len(a)]
      /\ Len(b) \in Nat
  BY <1>17, ConcatProperties
<1>8. y[1] = Status(r, code) /\ Len(y) = h + l /\ l \in Nat
  BY <1>1, <1>2, <1>3, <1>5, <1>7
<1>9. \A i \in 1 .. h : y[i] = a[i]
  BY <1>1, <1>2, <1>3, <1>5, <1>7
<1>10. \A i \in 1 .. l : y[h + i] = b[i]
  BY <1>1, <1>2, <1>3, <1>5, <1>7
<1>11. ASSUME NEW i \in 2 .. Len(y) PROVE ~IsStatus(y[i])
  <2>1. CASE i <= h
    <3>1. i \in 2 .. Len(a) /\ y[i] = a[i]
      BY <1>1, <1>2, <1>9, <2>1
    <3>2. QED
      BY <1>1, <3>1
  <2>2. CASE i > h
    <3>1. i - h \in 1 .. l /\ h + (i - h) = i
      BY <1>2, <1>8, <2>2
    <3>2. y[i] = b[i - h] /\ i - h \in 1 .. Len(b)
      BY <1>3, <1>10, <3>1
    <3>3. QED
      BY <1>3, <3>2 DEF NoStatus
  <2>3. QED
    BY <1>2, <2>1, <2>2
<1>12. OneStatus(y)
  BY <1>2, <1>4, <1>5, <1>7, <1>8, <1>11 DEF OneStatus
<1>13. Len(y) = h + l /\ (\A i \in 1 .. h : y[i] = a[i]) /\ (\A i \in 1 .. l : y[h + i] = b[i])
  BY <1>8, <1>9, <1>10
<1>14. op # "head" => \A i \in 1 .. BodyLen(framing, n) : y[h + i] = Body(r, framing, n)[i]
  BY <1>6, <1>13
<1>15. IsReply(y, op, r, code, framing, n, close)
  BY <1>8, <1>12, <1>13, <1>14 DEF IsReply, a, h, l
<1>16. QED
  BY <1>15 DEF y

\* What the server says when it answers.
Answers(framing, n, close, code) ==
  LET s == conn.srv  taken == s.told /\ s.len = 0 IN
  /\ framing \in {"length", "chunks", "close"} /\ n \in Size /\ close \in BOOLEAN
  /\ taken \/ (s.op = "put" /\ ~s.told)
  /\ code \in {404} \cup (IF ~taken THEN {} ELSE IF s.op = "put" THEN {201} ELSE {200})
  /\ framing = "close" => close
  /\ conn' = Said(conn, Idle, close, conn.down \o Reply(s.op, s.req, code, framing, n, close))
  /\ log' = [log EXCEPT !.answer = [s EXCEPT !.op = framing, !.len = n], !.stored = code = 201]

\* What the server does when it answers.
LEMMA AnswersFacts ==
  ASSUME Safe, ServerAnswers
  PROVE  /\ ~conn.closed /\ conn.srv.op # "none" /\ UNCHANGED <<opt, call, done>>
         /\ \E framing, n, close, code : Answers(framing, n, close, code)
<1>1. ~conn.closed /\ conn.srv.op # "none" /\ UNCHANGED <<opt, call, done>>
  BY DEF ServerAnswers, Serves
<1> DEFINE s == conn.srv
           taken == s.told /\ s.len = 0
<1> DEFINE Out(framing, n, close, code) ==
             /\ framing = "close" => close
             /\ conn' = [conn EXCEPT !.srv = Idle, !.closed = close,
                           !.down = @ \o Answer(s.req, code, framing, n, close)
                                      \o (IF s.op = "head" THEN <<>> ELSE Body(s.req, framing, n))]
             /\ log' = [log EXCEPT !.answer = [s EXCEPT !.op = framing, !.len = n], !.stored = code = 201]
           Allowed == {404} \cup (IF ~taken THEN {} ELSE IF s.op = "put" THEN {201} ELSE {200})
<1>2. PICK framing, n, close, code :
        /\ framing \in {"length", "chunks", "close"} /\ n \in Size /\ close \in BOOLEAN
        /\ code \in Allowed /\ Out(framing, n, close, code)
  <2>1. \E framing \in {"length", "chunks", "close"}, n \in Size, close \in BOOLEAN, code \in Allowed :
          Out(framing, n, close, code)
    BY DEF ServerAnswers
  <2> HIDE DEF Out, Allowed
  <2>2. QED
    BY <2>1, Zenon
<1>3. taken \/ (s.op = "put" /\ ~s.told)
  BY DEF ServerAnswers
<1> HIDE DEF taken
<1>4. s.req \in Nat /\ n \in Nat /\ conn.down \in Seq(Token) /\ code \in Code \ {0}
  <2>1. code \in {200, 201, 404}
    BY <1>2
  <2>2. QED
    BY <1>2, <2>1, ConnTyped, HttpClientAssumption DEF Code
<1> DEFINE x == Answer(s.req, code, framing, n, close)
           b == IF s.op = "head" THEN <<>> ELSE Body(s.req, framing, n)
           y == Reply(s.op, s.req, code, framing, n, close)
           d == conn.down
<1>5. x \in Seq(Token) /\ b \in Seq(Token) /\ y = x \o b
  <2> DEFINE r == s.req  o == s.op
  <2>1. r \in Nat /\ n \in Nat /\ code \in Code \ {0}
    BY <1>4
  <2>2. b = ReplyBody(o, r, framing, n)
    BY DEF ReplyBody
  <2> HIDE DEF r, o
  <2>3. x = Answer(r, code, framing, n, close) /\ y = Reply(o, r, code, framing, n, close)
    BY DEF r, o
  <2> HIDE DEF x, y, b
  <2>4. Args(r, code, framing, n, close)
    BY <1>2, <2>1 DEF Args
  <2>5. IsParts(x, b, y, o, framing, n)
    <3>1. IsParts(Answer(r, code, framing, n, close), ReplyBody(o, r, framing, n),
                  Reply(o, r, code, framing, n, close), o, framing, n)
      BY <2>4, ReplyParts, Zenon
    <3>2. QED
      BY <2>2, <2>3, <3>1, Zenon
  <2>6. QED
    BY <2>5 DEF IsParts
<1>6. conn' = [conn EXCEPT !.srv = Idle, !.closed = close, !.down = (d \o x) \o b]
  BY <1>2
<1>7. d \in Seq(Token)
  BY <1>4
<1> HIDE DEF x, b, y, d
<1>8. (d \o x) \o b = d \o y
  BY <1>5, <1>7, ConcatAssociative
<1>9. conn' = Said(conn, Idle, close, d \o y)
  BY <1>6, <1>8 DEF Said
<1>10. Answers(framing, n, close, code)
  BY <1>2, <1>3, <1>9 DEF Answers, y, d, taken
<1>11. QED
  BY <1>1, <1>10

\* The server answers.
LEMMA ServerAnswersSafe ==
  ASSUME Safe, ServerAnswers
  PROVE  Safe'
<1>1. ~conn.closed /\ conn.srv.op # "none" /\ UNCHANGED <<opt, call, done>>
  BY AnswersFacts
<1>2. PICK framing, n, close, code : Answers(framing, n, close, code)
  BY AnswersFacts
<1> DEFINE r == conn.srv.req
           y == Reply(conn.srv.op, r, code, framing, n, close)
           d == conn.down \o y
           cn == Said(conn, Idle, close, d)
           a == [conn.srv EXCEPT !.op = framing, !.len = n]
           lg == [log EXCEPT !.answer = a, !.stored = code = 201]
<1>3. /\ conn' = cn /\ log' = lg
      /\ framing \in {"length", "chunks", "close"} /\ n \in Nat /\ close \in BOOLEAN
      /\ code \in {200, 201, 404}
      /\ (conn.srv.told /\ conn.srv.len = 0) \/ (conn.srv.op = "put" /\ ~conn.srv.told /\ code = 404)
  BY <1>2, HttpClientAssumption DEF Answers
<1>4. OneStatus(y) /\ y[1] = Status(r, code)
  <2> DEFINE o == conn.srv.op
  <2>1. r \in Nat /\ code \in Code \ {0}
    BY <1>3, ConnTyped DEF Code
  <2>2. y = Reply(o, r, code, framing, n, close)
    OBVIOUS
  <2> HIDE DEF r, o, y
  <2>3. IsReply(y, o, r, code, framing, n, close)
    <3>1. Args(r, code, framing, n, close)
      BY <1>3, <2>1 DEF Args
    <3>2. QED
      BY <2>2, <3>1, ReplySeq, Zenon
  <2>4. QED
    BY <2>3 DEF IsReply
<1>5. a.req = r /\ a \in [op : {"none", "length", "chunks", "close"}, req : Nat, len : Nat, told : BOOLEAN]
  BY <1>3, ConnTyped
<1>6. r \in Nat
  BY ConnTyped
<1> HIDE DEF y, cn, a, lg
<1>7. Follows(d, conn.down, y)
  BY <1>4, ConnTyped, DownFacts
<1> HIDE DEF d
<1>8. lg \in LogRecord /\ lg.answer = a /\ (code = 201 => lg.stored)
  <2> DEFINE z == code = 201
  <2>1. z \in BOOLEAN /\ log \in LogRecord /\ lg = [log EXCEPT !.answer = a, !.stored = z]
    BY ConnTyped DEF lg
  <2> HIDE DEF z
  <2>2. lg \in LogRecord /\ lg.answer = a /\ (z => lg.stored)
    BY <1>5, <2>1 DEF LogRecord
  <2>3. QED
    BY <2>2 DEF z
<1>9. /\ cn \in ConnRecord /\ cn.up = conn.up /\ cn.srv.op = "none" /\ cn.down = d
      /\ (cn.closed => close) /\ cn.stale = conn.stale /\ (cn.confused => conn.confused)
  <2> DEFINE z == Idle
  <2>1. cn = Said(conn, z, close, d)
    BY DEF cn
  <2>2. z \in ServerRecord /\ z.op = "none" /\ conn \in ConnRecord
    BY EmptyRecords, ConnTyped
  <2>3. d \in Seq(Token)
    BY <1>7 DEF Follows
  <2> HIDE DEF z
  <2>4. QED
    BY <1>3, <2>1, <2>2, <2>3, SaidFacts
<1>10. ~Quiet(conn)
  BY <1>1 DEF Quiet
<1>11. ~conn.stale => call.pc # "idle"
  BY <1>10 DEF Safe, IInv
<1>12. y[1].of = r /\ y[1].n = code
  BY <1>4 DEF Status
<1>13. ASSUME ~conn.stale PROVE Running(call, cn, lg)
  <2>1. Running(call, conn, log) /\ call \in CallRecord
    BY <1>11, <1>13, CallRuns
  <2>2. Taking(call, conn) \/ Waiting(call, conn)
    BY <1>1, <2>1 DEF Running, Phase, Asked, Answered
  <2>3. \A i \in 1 .. Len(conn.down) : IsStatus(conn.down[i]) => conn.down[i].n = 100
    BY <2>2 DEF Taking, Waiting, NoStatus
  <2>4. ~Final(call)
    BY <2>2 DEF Taking, Waiting, Final
  <2>5. r = call.req
    BY <1>1, <2>1 DEF Running, Coming
  <2>6. /\ conn.up = <<>>
        /\ call.pc # "send"
        /\ call.op = "put" /\ call.first /\ call.len > 0
             => call.code # 100 /\ \A i \in 1 .. Len(conn.down) : ~IsStatus(conn.down[i])
    <3>1. CASE Waiting(call, conn)
      BY <3>1 DEF Waiting, NoStatus
    <3>2. CASE Taking(call, conn)
      <4>1. conn.srv.len = 0
        BY <1>3, <3>2 DEF Taking
      <4>2. Len(conn.up) \in Nat /\ ToSend(call) \in Int
        BY <2>1, ConnTyped DEF ToSend, CallRecord
      <4>3. ToSend(call) >= 0 /\ (call.pc = "send" => ToSend(call) > 0)
            /\ (call.op = "put" /\ call.first => ToSend(call) = call.len)
        BY <2>1 DEF Running, Place, ToSend, CallRecord
      <4>4. Len(conn.up) = 0 /\ ToSend(call) = 0
        BY <3>2, <4>1, <4>2, <4>3 DEF Taking
      <4>5. conn.up = <<>>
        BY <4>4, ConnTyped, EmptySeq
      <4>6. QED
        BY <4>3, <4>4, <4>5, <2>1 DEF CallRecord
    <3>3. QED
      BY <2>2, <3>1, <3>2
  <2>7. ASSUME NEW i \in 1 .. Len(d), IsStatus(d[i])
        PROVE  /\ d[i].of = call.req
               /\ d[i].n = 100 => /\ call.op = "put" /\ call.first /\ call.code = 0
                                  /\ i \in 1 .. Len(conn.down) /\ IsStatus(conn.down[i])
               /\ d[i].n # 100 => i = Len(conn.down) + 1
               /\ d[i].n = 201 => code = 201
    <3>1. CASE i \in 1 .. Len(conn.down) /\ IsStatus(conn.down[i]) /\ d[i] = conn.down[i]
      BY <2>1, <2>3, <3>1 DEF Running, Coming
    <3>2. CASE i = Len(conn.down) + 1 /\ d[i] = y[1]
      BY <1>3, <1>12, <2>5, <3>2
    <3>3. QED
      BY <1>7, <2>7, <3>1, <3>2 DEF Follows
  <2>8. ASSUME NEW i \in 1 .. Len(d), NEW j \in 1 .. Len(d), IsStatus(d[i]), IsStatus(d[j]), i < j
        PROVE  d[i].n = 100 /\ d[j].n # 100
    <3>1. Len(conn.down) \in Nat
      BY ConnTyped
    <3>2. (i \in 1 .. Len(conn.down) /\ IsStatus(conn.down[i]) /\ d[i] = conn.down[i]) \/ (i = Len(conn.down) + 1 /\ d[i] = y[1])
      BY <1>7, <2>8 DEF Follows
    <3>3. (j \in 1 .. Len(conn.down) /\ IsStatus(conn.down[j]) /\ d[j] = conn.down[j]) \/ (j = Len(conn.down) + 1 /\ d[j] = y[1])
      BY <1>7, <2>8 DEF Follows
    <3>4. i \in 1 .. Len(conn.down) /\ IsStatus(conn.down[i]) /\ d[i] = conn.down[i]
      BY <2>8, <3>1, <3>2, <3>3
    <3>5. d[i].n = 100
      BY <2>3, <3>4
    <3>6. ASSUME j \in 1 .. Len(conn.down), IsStatus(conn.down[j]) PROVE FALSE
      <4>1. conn.down[j].n # 100
        BY <2>1, <2>8, <3>4, <3>6 DEF Running, Coming
      <4>2. QED
        BY <2>3, <3>6, <4>1
    <3>7. d[j] = y[1]
      BY <3>3, <3>6
    <3>8. QED
      BY <1>3, <1>12, <3>5, <3>7
  <2>9. Coming(call, cn)
    BY <1>9, <2>4, <2>6, <2>7, <2>8 DEF Coming
  <2>10. Stored(call, cn, lg)
    <3>1. call.code # 201
      <4>1. CASE Taking(call, conn)
        BY <4>1 DEF Taking, Final
      <4>2. CASE Waiting(call, conn)
        BY <4>2 DEF Waiting
      <4>3. QED
        BY <2>2, <4>1, <4>2
    <3>2. (\E i \in 1 .. Len(d) : IsStatus(d[i]) /\ d[i].n = 201) => code = 201
      BY <2>7
    <3>3. QED
      BY <1>5, <1>8, <1>9, <2>5, <3>1, <3>2 DEF Stored
  <2>11. Answered(call, cn)
    <3>1. ASSUME call.op = "put", call.first, call.len > 0
          PROVE  call.code # 100 /\ \A i \in 1 .. Len(d) : IsStatus(d[i]) => d[i].n # 100
      BY <2>6, <2>7, <3>1
    <3>2. QED
      BY <1>9, <2>6, <3>1 DEF Answered
  <2>12. QED
    BY <2>1, <2>9, <2>10, <2>11 DEF Running, Phase
<1>14. Codes(cn.down) /\ Ups(cn.up)
  <2>1. ASSUME NEW i \in 1 .. Len(d), IsStatus(d[i]) PROVE d[i].n \in Code \ {0}
    <3>1. CASE i \in 1 .. Len(conn.down) /\ IsStatus(conn.down[i]) /\ d[i] = conn.down[i]
      BY <3>1, ConnTyped DEF Codes
    <3>2. CASE d[i] = y[1]
      BY <1>3, <1>12, <3>2 DEF Code
    <3>3. QED
      BY <1>7, <2>1, <3>1, <3>2 DEF Follows
  <2>2. QED
    BY <1>9, <2>1, ConnTyped DEF Codes
<1>15. QED
  BY <1>1, <1>3, <1>8, <1>9, <1>10, <1>13, <1>14, ServerKeeps

-----------------------------------------------------------------------------
(* Every step *)

\* There is no call and no connection yet.
LEMMA InitSafe ==
  ASSUME ClientInit
  PROVE  Safe
<1>1. opt \in [keepalive : BOOLEAN, timeout : BOOLEAN] /\ conn = NoConn /\ call = NoCall /\ done = NoCall
  BY DEF ClientInit
<1>2. log \in LogRecord
  <2>1. log = [answer |-> Idle, stored |-> FALSE]
    BY DEF ClientInit
  <2>2. Idle \in [op : {"none", "length", "chunks", "close"}, req : Nat, len : Nat, told : BOOLEAN]
    BY DEF Idle
  <2>3. FALSE \in BOOLEAN
    OBVIOUS
  <2>4. QED
    BY <2>1, <2>2, <2>3 DEF LogRecord
<1>3. ClientTypeOK
  BY <1>1, <1>2, EmptyRecords DEF ClientTypeOK
<1>4. IInv
  BY <1>1, EmptyRecords DEF IInv, Ended
<1>5. QED
  BY <1>3, <1>4 DEF Safe

\* Every step of the client and of the server keeps Safe.
LEMMA NextSafe ==
  ASSUME Safe, ClientNext
  PROVE  Safe'
<1>1. ASSUME NEW op \in {"head", "get", "put", "cmd"}, NEW n \in Size, Call(op, n) PROVE Safe'
  BY <1>1, CallSafe DEF Op
<1>2. CASE Runs
  BY <1>2, WaitsForContinueSafe, ReadStatusSafe, ReadFieldSafe, ReadContentsSafe, ThrowOutSafe, ReceiveSafe,
     ReceiveFailsSafe, ReadSizeSafe, ReadTailSafe, SendContentsSafe DEF Runs
<1>3. CASE ServerTakes \/ ServerContinues \/ ServerReads \/ ServerAnswers \/ ServerDies
  BY <1>3, ServerTakesSafe, ServerContinuesSafe, ServerReadsSafe, ServerAnswersSafe, ServerDiesSafe
<1>4. QED
  BY <1>1, <1>2, <1>3 DEF ClientNext

\* So does a step that changes nothing.
LEMMA StutterSafe ==
  ASSUME Safe, UNCHANGED clientVars
  PROVE  Safe'
<1>1. opt' = opt /\ conn' = conn /\ call' = call /\ done' = done /\ log' = log
  BY DEF clientVars
<1>2. ClientTypeOK'
  BY <1>1 DEF Safe, ClientTypeOK
<1>3. IInv'
  BY <1>1 DEF Safe, IInv
<1>4. QED
  BY <1>2, <1>3 DEF Safe

\* Safe is an invariant of the specification.
LEMMA SafeCorrect == ClientSpec => []Safe
<1>1. ClientInit => Safe
  BY InitSafe
<1>2. Safe /\ [ClientNext]_clientVars => Safe'
  BY NextSafe, StutterSafe
<1>3. QED
  BY <1>1, <1>2, PTL DEF ClientSpec

\* Every reachable state of the client, its connection and the server is of
\* its type: a response code is one that was sent, and the loops that read
\* contents know how much there is (qhttpclient.c, _read_response and
\* httpclient_get).
THEOREM TypeCorrect == ClientSpec => []ClientTypeOK
<1>1. Safe => ClientTypeOK
  BY DEF Safe
<1>2. QED
  BY <1>1, SafeCorrect, PTL

\* Over a kept connection every answer is the answer to the request of the call
\* that reads it, and the server never takes contents for a request, whatever
\* was read, refused or cut off before, as long as no earlier call has returned
\* with its answer still due (qhttpclient.c keeps the socket between calls and
\* reads the first status line that comes).
THEOREM AnswerIsOwnCorrect == ClientSpec => []AnswerIsOwn
<1>1. Safe => AnswerIsOwn
  <2>1. SUFFICES ASSUME Safe PROVE AnswerIsOwn
    OBVIOUS
  <2>2. done.of # 0 => done.of = done.req \/ done.late
    BY <2>1, EmptyRecords DEF Safe, IInv, Ended
  <2>3. conn.confused => conn.stale
    BY <2>1 DEF Safe, IInv
  <2>4. QED
    BY <2>2, <2>3 DEF AnswerIsOwn
<1>2. QED
  BY <1>1, SafeCorrect, PTL

-----------------------------------------------------------------------------
(* What has been read of an answer *)

\* How long an answer says it is.
Length(f, n) == IF f = "length" THEN n ELSE IF f = "chunks" THEN -1 ELSE 0

\* The line after the first k of a header of h.
HeaderLine(t, k, f, n, h) ==
  /\ k + 1 = h => t.k = "end"
  /\ k + 1 < h => \/ k = 1 /\ f = "length" /\ t.k = "length" /\ t.n = n
                  \/ k = 1 /\ f = "chunks" /\ t.k = "chunked"
                  \/ (k > 1 \/ f = "close") /\ t.k = "close"

\* y is an answer to r, with a header of h lines and with contents.
IsWhole(y, r, f, n, h) ==
  /\ f \in {"length", "chunks", "close"} /\ h >= 2 /\ (h = 2 => f = "close")
  /\ \A k \in 1 .. h - 1 : HeaderLine(y[k + 1], k, f, n, h)
  /\ f = "length" => \A i \in 1 .. n : y[h + i] = Unit(r, i)
  /\ f = "chunks" =>
       /\ \A j \in Nat : j < n => /\ y[h + 3 * j + 1].k = "size" /\ y[h + 3 * j + 1].n = 1
                                  /\ y[h + 3 * j + 2] = Unit(r, j + 1)
                                  /\ y[h + 3 * j + 3].k = "crlf"
       /\ y[h + 3 * n + 1].k = "size" /\ y[h + 3 * n + 1].n = 0
       /\ y[h + 3 * n + 2].k = "crlf"

\* What has come from p on is what comes in y from k on.
Stream(d, p, y, k) == \A i \in 1 .. Len(d) - p : d[p + i] = y[k + i]

\* What is kept of an answer of which the first k tokens have been read.
Position(c, f, n, h, k) ==
  \/ c.pc = "fields" /\ c.saved = <<>> /\ 1 <= k /\ k < h /\ c.clength = (IF k = 1 THEN 0 ELSE Length(f, n))
  \/ c.pc = "read" /\ c.saved = <<>> /\ k = h /\ f = "length" /\ c.clength = n
  \/ c.pc = "recv" /\ f = "length" /\ \E j \in Nat : c.left > 0 /\ j + c.left = n /\ k = h + j /\ c.saved = Units(c.req, 0, j)
  \/ f = "chunks" /\ \E j \in Nat :
       /\ j <= n /\ c.saved = Units(c.req, 0, j)
       /\ \/ c.pc = "size" /\ k = h + 3 * j
          \/ c.pc = "chunk" /\ c.left = 1 /\ j < n /\ k = h + 3 * j + 1
          \/ c.pc = "tail" /\ c.left = 1 /\ j > 0 /\ k = h + 3 * j - 1
          \/ c.pc = "tail" /\ c.left = 0 /\ j = n /\ k = h + 3 * j + 1

Begun(c, cn, lg) ==
  /\ lg.answer.req = c.req
  /\ \E y \in Seq(Token), h, k \in Nat :
       /\ IsWhole(y, c.req, lg.answer.op, lg.answer.len, h)
       /\ Stream(cn.down, 0, y, k)
       /\ Position(c, lg.answer.op, lg.answer.len, h, k)

\* The answer has not been read yet; it may not have come.
NotBegun(c, cn, lg) ==
  /\ c.saved = <<>>
  /\ \A p \in 1 .. Len(cn.down) : IsStatus(cn.down[p]) =>
       /\ lg.answer.req = c.req
       /\ \E y \in Seq(Token), h \in Nat :
            /\ IsWhole(y, c.req, lg.answer.op, lg.answer.len, h)
            /\ Stream(cn.down, p - 1, y, 0)

\* The calls that bring something.
Brings(c) == c.op \in {"get", "cmd"} /\ ~c.cut

\* Of a call that brings something: what has been read of its answer.
Data(c, cn, lg) == Brings(c) => IF c.code = 0 THEN NotBegun(c, cn, lg) ELSE Begun(c, cn, lg)

\* What a call brought is what was answered.
Whole(d, lg) ==
  \/ lg.answer.req = d.req /\ d.saved = Units(d.req, 0, lg.answer.len)
  \/ lg.answer.op = "close"
  \/ d.op = "cmd" /\ lg.answer.op = "chunks"

\* A call that returned success brought all of its answer, and nothing is due.
Brought(d, cn, lg) == d.ok /\ Brings(d) /\ d.code # 0 /\ ~d.late => Whole(d, lg) /\ Quiet(cn)

\* What is kept of an answer is the beginning of its contents, while the call
\* reads, and all of them when it has returned success.
WholeInv == IF call.pc = "idle" THEN Brought(done, conn, log) ELSE ~conn.stale => Data(call, conn, log)

\* The units of r from a on.
AreUnits(s, r, a, n) == s \in Seq(Token) /\ Len(s) = n /\ \A i \in 1 .. n : s[i] = Unit(r, a + i)

\* The first a units, and then s, are the first a + n.
Continues(s, r, a, n) == Units(r, 0, a) \o s = Units(r, 0, a + n)

\* What is taken continues what was taken before.
LEMMA UnitsMore ==
  ASSUME NEW r \in Nat, NEW a \in Nat, NEW n \in Nat, NEW s, AreUnits(s, r, a, n)
  PROVE  Continues(s, r, a, n)
<1> USE DEF AreUnits
<1> DEFINE u == Units(r, 0, a)  w == Units(r, 0, a + n)
<1>1. u \in Seq(Token) /\ Len(u) = a /\ \A i \in 1 .. a : u[i] = Unit(r, 0 + i)
  BY UnitsSeq, 0 \in Int
<1>2. w \in Seq(Token) /\ Len(w) = a + n /\ \A i \in 1 .. a + n : w[i] = Unit(r, 0 + i)
  <2>1. a + n \in Nat
    OBVIOUS
  <2>2. QED
    BY <2>1, UnitsSeq, 0 \in Int
<1> HIDE DEF u, w
<1>3. u \in Seq(Token) /\ s \in Seq(Token)
  BY <1>1
<1>4. /\ u \o s \in Seq(Token) /\ Len(u \o s) = Len(u) + Len(s)
      /\ \A i \in 1 .. Len(u) + Len(s) : (u \o s)[i] = IF i <= Len(u) THEN u[i] ELSE s[i - Len(u)]
  BY <1>3, ConcatProperties
<1>5. ASSUME NEW i \in 1 .. a + n PROVE (u \o s)[i] = w[i]
  <2>1. CASE i <= a
    BY <1>1, <1>2, <1>4, <2>1
  <2>2. CASE i > a
    <3>1. i - a \in 1 .. n /\ (u \o s)[i] = s[i - a] /\ a + (i - a) = i
      BY <1>1, <1>4, <2>2
    <3>2. QED
      BY <1>2, <3>1
  <2>3. i <= a \/ i > a
    OBVIOUS
  <2>4. QED
    BY <2>1, <2>2, <2>3
<1>6. u \o s = w
  BY <1>1, <1>2, <1>4, <1>5, SeqEqual
<1>7. QED
  BY <1>6 DEF u, w, Continues

\* Units that begin at the first are the first units.
LEMMA UnitsFirst ==
  ASSUME NEW r \in Nat, NEW s, s \in Seq(Token), NEW n \in Nat, Len(s) = n,
         \A i \in 1 .. n : s[i] = Unit(r, i)
  PROVE  s = Units(r, 0, n)
<1> DEFINE w == Units(r, 0, n)
<1>1. w \in Seq(Token) /\ Len(w) = n /\ \A i \in 1 .. n : w[i] = Unit(r, 0 + i)
  BY UnitsSeq, 0 \in Int
<1> HIDE DEF w
<1>2. \A i \in 1 .. n : s[i] = w[i]
  BY <1>1
<1>3. s = w
  BY <1>1, <1>2, SeqEqual
<1>4. QED
  BY <1>3 DEF w

\* None of the units.
LEMMA NoUnits == \A r : Units(r, 0, 0) = <<>>
  BY DEF Units

\* A line of the answer has been read.
LEMMA StreamGets ==
  ASSUME NEW d \in Seq(Token), NEW g, GetsGood(g, d), ~g.cut, NEW y, NEW k \in Nat, Stream(d, 0, y, k),
         IsLine(y[k + 1])
  PROVE  g.line = y[k + 1] /\ Stream(g.down, 0, y, k + 1)
<1>1. Len(d) > 0
  BY DEF GetsGood
<1>2. d[1] = y[k + 1]
  <2>1. 1 \in 1 .. Len(d) - 0
    BY <1>1
  <2>2. d[0 + 1] = y[k + 1]
    BY <2>1 DEF Stream
  <2>3. QED
    BY <2>2
<1>3. g.line = d[1] /\ g.down = SubSeq(d, 2, Len(d))
  BY <1>2 DEF GetsGood
<1> DEFINE s == SubSeq(d, 1 + 1, Len(d))
<1>4. Len(s) = Len(d) - 1 /\ \A i \in 1 .. Len(d) - 1 : s[i] = d[1 + i]
  <2>1. 1 \in 0 .. Len(d)
    BY <1>1
  <2>2. QED
    BY <2>1, SuffixSeq
<1>5. g.down = s
  BY <1>3
<1> HIDE DEF s
<1>6. ASSUME NEW i \in 1 .. Len(s) - 0 PROVE s[0 + i] = y[(k + 1) + i]
  <2>1. 1 + i \in 1 .. Len(d) - 0 /\ s[0 + i] = d[1 + i]
    BY <1>4
  <2>2. d[0 + (1 + i)] = y[k + (1 + i)]
    BY <2>1 DEF Stream
  <2>3. QED
    BY <2>1, <2>2
<1>7. QED
  BY <1>2, <1>3, <1>5, <1>6 DEF Stream

\* Contents have been read.
LEMMA StreamTakes ==
  ASSUME NEW d \in Seq(Token), NEW n \in Nat, n <= Len(d), NEW y, NEW k \in Nat, Stream(d, 0, y, k)
  PROVE  /\ Stream(SubSeq(d, n + 1, Len(d)), 0, y, k + n)
         /\ SubSeq(d, 1, n) \in Seq(Token) /\ Len(SubSeq(d, 1, n)) = n
         /\ \A i \in 1 .. n : SubSeq(d, 1, n)[i] = y[k + i]
<1> DEFINE s == SubSeq(d, n + 1, Len(d))  t == SubSeq(d, 1, n)
<1>1. n \in 0 .. Len(d)
  OBVIOUS
<1>2. Len(s) = Len(d) - n /\ \A i \in 1 .. Len(d) - n : s[i] = d[n + i]
  BY <1>1, SuffixSeq
<1>3. t \in Seq(Token) /\ Len(t) = n /\ \A i \in 1 .. n : t[i] = d[i]
  BY <1>1, PrefixSeq
<1> HIDE DEF s, t
<1>4. \A i \in 1 .. Len(d) - 0 : d[0 + i] = y[k + i]
  BY DEF Stream
<1>5. ASSUME NEW i \in 1 .. Len(s) - 0 PROVE s[0 + i] = y[(k + n) + i]
  <2>1. n + i \in 1 .. Len(d) - 0 /\ s[0 + i] = d[n + i]
    BY <1>2
  <2>2. d[0 + (n + i)] = y[k + (n + i)]
    BY <1>4, <2>1
  <2>3. QED
    BY <2>1, <2>2
<1>6. \A i \in 1 .. n : t[i] = y[k + i]
  BY <1>3, <1>4
<1>7. QED
  BY <1>3, <1>5, <1>6 DEF Stream, s, t

\* How a call goes on, or ends.
LEMMA GoesWhole ==
  ASSUME NEW c, NEW cn, Goes(c, cn), log' = log, c.pc # "idle", ~cn.stale => Data(c, cn, log)
  PROVE  WholeInv'
<1>1. call' = c /\ conn' = cn
  BY DEF Goes
<1>2. QED
  BY <1>1 DEF WholeInv

\* A call that returns success has all of its answer.
LEMMA ReturnWhole ==
  ASSUME NEW c \in CallRecord, NEW ok \in BOOLEAN, NEW cn, Return(c, ok, cn), log' = log,
         ok /\ Brings(c) /\ c.code # 0 /\ ~c.late => Whole(c, log) /\ Quiet(cn)
  PROVE  WholeInv'
<1>1. /\ call'.pc = "idle"
      /\ done'.req = c.req /\ done'.op = c.op /\ done'.late = c.late
      /\ done'.code = c.code /\ done'.ok = ok /\ done'.saved = c.saved /\ done'.cut = c.cut
      /\ conn' = cn
  BY Returned
<1>2. Brings(done') => Brings(c)
  BY <1>1 DEF Brings
<1>3. Whole(c, log) => Whole(done', log)
  BY <1>1 DEF Whole
<1>4. Brought(done', cn, log)
  BY <1>1, <1>2, <1>3 DEF Brought
<1>5. QED
  BY <1>1, <1>4 DEF WholeInv

\* A call that fails, or brings nothing, says nothing of contents.
LEMMA DropWhole ==
  ASSUME NEW c \in CallRecord, NEW ok \in BOOLEAN, Drop(c, ok), log' = log, ~(ok /\ Brings(c))
  PROVE  WholeInv'
  BY ReturnWhole DEF Drop

\* Closing the connection when it was asked for does not change that.
LEMMA LeaveWhole ==
  ASSUME NEW c \in CallRecord, NEW ok \in BOOLEAN, NEW cn, cn \in ConnRecord, Leave(c, ok, cn), log' = log,
         ok /\ Brings(c) /\ c.code # 0 /\ ~c.late => Whole(c, log) /\ Quiet(cn)
  PROVE  WholeInv'
<1> DEFINE kept == [cn EXCEPT !.stale = @ \/ Owes(c)]
<1>1. Return(c, ok, NoConn) \/ Return(c, ok, kept)
  BY DEF Leave
<1>2. kept.srv = cn.srv /\ kept.up = cn.up /\ kept.down = cn.down /\ kept.closed = cn.closed
  BY DEF ConnRecord
<1> HIDE DEF kept
<1>3. Quiet(cn) => Quiet(kept)
  BY <1>2 DEF Quiet
<1>4. QED
  BY <1>1, <1>3, EmptyRecords, ReturnWhole

-----------------------------------------------------------------------------
(* Steps that read *)

\* When the status of an answer has been read nothing more comes.
LEMMA BringsQuiet ==
  ASSUME Safe, call.pc \in Reading, NEW c, NEW cn, Reads(c, cn), Brings(c), ~conn.stale
  PROVE  Quiet(cn)
<1>1. ~cn.stale /\ Coming(c, cn) /\ c.code # 0
  BY ReadsRuns DEF Reads
<1>2. Place(call)
  BY CallRuns DEF Running, Reading
<1>3. c.code # 100
  BY <1>2 DEF Place, Reading, Reads, Same, Brings
<1>4. QED
  BY <1>1, <1>3 DEF Coming, Final, Brings

\* A call that brings something has done so all the time.
LEMMA ReadsBegun ==
  ASSUME Safe, WholeInv, call.pc \in Reading, NEW c, Same(c, call), Brings(c), ~conn.stale
  PROVE  Begun(call, conn, log) /\ call.code # 0 /\ c.code # 0 /\ c.req = call.req /\ c.op = call.op
<1>1. call.pc # "idle"
  BY DEF Reading
<1>2. Place(call)
  BY <1>1, CallRuns DEF Running
<1>3. Brings(call) /\ call.code # 0 /\ c.code # 0
  BY <1>2 DEF Brings, Same, Place, Reading
<1>4. QED
  BY <1>1, <1>3 DEF WholeInv, Data, Same

\* Reading on, and going on.
LEMMA ReadsGoesWhole ==
  ASSUME Safe, call.pc \in Reading, NEW c, NEW cn, Reads(c, cn), Goes(c, cn), log' = log, c.pc # "idle",
         Brings(c) /\ ~conn.stale => Begun(c, cn, log)
  PROVE  WholeInv'
<1>1. cn.stale = conn.stale /\ (~conn.stale => c.code # 0)
  BY ReadsRuns DEF Reads
<1>2. ~cn.stale => Data(c, cn, log)
  BY <1>1 DEF Data
<1>3. QED
  BY <1>2, GoesWhole

\* Reading on, and returning.
LEMMA ReadsLeaveWhole ==
  ASSUME Safe, call.pc \in Reading, NEW c, NEW cn, Reads(c, cn), NEW ok \in BOOLEAN, Leave(c, ok, cn), log' = log,
         ok /\ Brings(c) /\ ~conn.stale => Whole(c, log)
  PROVE  WholeInv'
<1>1. c \in CallRecord /\ cn \in ConnRecord /\ c.late = conn.stale
  BY ReadsRuns
<1>2. ok /\ Brings(c) /\ ~c.late => Whole(c, log) /\ Quiet(cn)
  BY <1>1, BringsQuiet
<1>3. QED
  BY <1>1, <1>2, LeaveWhole

\* The header has been read, and the contents come.
Headed(c, cn, lg) ==
  /\ lg.answer.req = c.req /\ c.saved = <<>> /\ c.clength = Length(lg.answer.op, lg.answer.len)
  /\ \E y \in Seq(Token), h \in Nat :
       IsWhole(y, c.req, lg.answer.op, lg.answer.len, h) /\ Stream(cn.down, 0, y, h)

\* The answer that was given last has a framing and a length.
LEMMA LogTyped ==
  ASSUME Safe
  PROVE  log.answer.op \in {"none", "length", "chunks", "close"} /\ log.answer.len \in Nat
  BY DEF Safe, ClientTypeOK, LogRecord

\* The header has ended: nothing has been kept of the contents, and how they
\* are to be read is how they come.
LEMMA RespondedWhole ==
  ASSUME Safe, call.pc = "fields", NEW c, NEW cn, Reads(c, cn), c.pc = "fields",
         Responded(c, cn), log' = log,
         Brings(c) /\ ~conn.stale => Headed(c, cn, log)
  PROVE  WholeInv'
<1> DEFINE f == log.answer.op  n == log.answer.len
<1>1. c \in CallRecord /\ c.op \in Op /\ call.pc \in Reading /\ c.req \in Nat
  <2>1. call.pc \in Reading
    BY DEF Reading
  <2>2. c \in CallRecord /\ c.op \in Op
    BY <2>1, ReadsRuns
  <2>3. QED
    BY <2>1, <2>2 DEF CallRecord
<1>2. n \in Nat /\ f \in {"none", "length", "chunks", "close"}
  BY LogTyped
<1>3. CASE c.op = "put"
  <2>1. ~Brings(c)
    BY <1>3 DEF Brings
  <2>2. PICK b, ok, dn :
          /\ b \in CallRecord /\ b.op = c.op /\ b.pc # "idle" /\ ok \in BOOLEAN /\ dn \in ConnRecord
          /\ Goes(b, dn) \/ Drop(b, ok) \/ Leave(b, ok, dn)
    <3>1. cn \in ConnRecord
      BY ReadsRuns, <1>1
    <3>2. CASE c.first /\ c.code = 100
      <4> DEFINE b == [c EXCEPT !.pc = IF c.len > 0 THEN "send" ELSE "status", !.left = c.len, !.first = FALSE]
      <4>1. Goes(b, cn) \/ Drop(c, FALSE)
        BY <1>3, <3>2 DEF Responded, Continue
      <4>2. b \in CallRecord /\ b.op = c.op /\ b.pc # "idle"
        <5> DEFINE p == IF c.len > 0 THEN "send" ELSE "status"  l == c.len  z == FALSE
        <5>1. p \in Pc /\ p # "idle" /\ l \in Int /\ z \in BOOLEAN
          BY <1>1 DEF CallRecord, Pc
        <5>2. b = [c EXCEPT !.pc = p, !.left = l, !.first = z]
          OBVIOUS
        <5> HIDE DEF p, l, z, b
        <5>3. QED
          BY <1>1, <5>1, <5>2 DEF CallRecord
      <4> HIDE DEF b
      <4>3. QED
        BY <1>1, <3>1, <4>1, <4>2
    <3>3. CASE ~c.first /\ c.code = 0
      BY <1>1, <1>3, <3>1, <3>3 DEF Responded
    <3>4. CASE ~(c.first /\ c.code = 100) /\ ~(~c.first /\ c.code = 0)
      <4> DEFINE b == [c EXCEPT !.pc = "read"]
      <4>1. Goes(b, cn) \/ Leave(c, Good(c), cn)
        BY <1>3, <3>4 DEF Responded, Discard
      <4>2. b \in CallRecord /\ b.op = c.op /\ b.pc # "idle"
        BY <1>1 DEF CallRecord, Pc
      <4> HIDE DEF b
      <4>3. Good(c) \in BOOLEAN
        BY <1>1, GoodFacts
      <4>4. QED
        BY <1>1, <3>1, <4>1, <4>2, <4>3
    <3>5. QED
      BY <3>2, <3>3, <3>4
  <2>3. ~Brings(b)
    BY <1>3, <2>2 DEF Brings
  <2>4. ~dn.stale => Data(b, dn, log)
    BY <2>3 DEF Data
  <2>5. QED
    BY <2>2, <2>3, <2>4, GoesWhole, DropWhole, LeaveWhole
<1>4. CASE c.op = "get" /\ c.code = 200
  <2> DEFINE p == IF c.clength > 0 THEN "recv" ELSE "size"
             l == c.clength
             b == Moved(c, p, l)
  <2>1. \/ Drop(c, FALSE)
        \/ c.clength = 0 /\ Leave(c, TRUE, cn)
        \/ c.clength # 0 /\ Goes(b, cn)
    BY <1>4 DEF Responded, Retrieve, Moved
  <2>2. CASE Drop(c, FALSE)
    BY <1>1, <2>2, DropWhole
  <2>3. CASE c.clength = 0 /\ Leave(c, TRUE, cn)
    <3>1. ASSUME Brings(c), ~conn.stale PROVE Whole(c, log)
      <4>1. Length(f, n) = 0 /\ c.saved = <<>> /\ log.answer.req = c.req /\ f # "none"
 
        BY <2>3, <3>1 DEF Headed, IsWhole
      <4>2. f = "close" \/ n = 0
        BY <1>2, <4>1 DEF Length
      <4>3. QED
        BY <4>1, <4>2, NoUnits DEF Whole
    <3>2. QED
      BY <1>1, <2>3, <3>1, ReadsLeaveWhole
  <2>4. CASE c.clength # 0 /\ Goes(b, cn)
    <3>1. p \in Pc /\ l \in Int /\ p # "idle"
      BY <1>1 DEF Pc, CallRecord
    <3>2. b = Moved(c, p, l)
      OBVIOUS
    <3> HIDE DEF b
    <3>3. /\ b \in CallRecord /\ Same(b, c) /\ b.late = c.late
          /\ b.pc = p /\ b.left = l /\ b.saved = c.saved /\ b.cut = c.cut
      BY <1>1, <3>1, <3>2, MovesTo
    <3>4. Reads(b, cn) /\ b.req = c.req
      BY <3>3 DEF Reads, Same
    <3>5. ASSUME Brings(b), ~conn.stale PROVE Begun(b, cn, log)
      <4>1. Brings(c)
        BY <3>3, <3>5 DEF Brings, Same
      <4>2. Headed(c, cn, log) /\ f # "none"
        BY <3>5, <4>1 DEF Headed, IsWhole
      <4>3. PICK y \in Seq(Token), h \in Nat : IsWhole(y, c.req, f, n, h) /\ Stream(cn.down, 0, y, h)
        BY <4>2 DEF Headed
      <4>4. c.saved = Units(c.req, 0, 0) /\ l = Length(f, n) /\ l # 0 /\ log.answer.req = c.req
        BY <2>4, <4>2, NoUnits DEF Headed
      <4>5. Position(b, f, n, h, h)
        <5>1. CASE f = "length"
          <6>1. l = n /\ l > 0 /\ p = "recv"
            BY <1>2, <4>4, <5>1 DEF Length
          <6>2. 0 \in Nat /\ 0 + l = n /\ h = h + 0
            BY <1>2, <6>1
          <6>3. QED
            BY <3>3, <3>4, <4>4, <5>1, <6>1, <6>2 DEF Position
        <5>2. CASE f = "chunks"
          <6>1. p = "size"
            BY <4>4, <5>2 DEF Length
          <6>2. 0 \in Nat /\ 0 <= n /\ h = h + 3 * 0
            BY <1>2
          <6>3. QED
            BY <3>3, <3>4, <4>4, <5>2, <6>1, <6>2 DEF Position
        <5>3. QED
          BY <1>2, <4>2, <4>4, <5>1, <5>2 DEF Length
      <4>6. QED
        BY <3>4, <4>3, <4>4, <4>5 DEF Begun
    <3>6. QED
      BY <1>1, <2>4, <3>1, <3>3, <3>4, <3>5, ReadsGoesWhole
  <2>5. QED
    BY <2>1, <2>2, <2>3, <2>4
<1>5. CASE c.op # "put" /\ ~(c.op = "get" /\ c.code = 200)
  <2> DEFINE b == [c EXCEPT !.pc = "read"]
  <2>1. (c.clength > 0 /\ Goes(b, cn)) \/ (~(c.clength > 0) /\ Leave(c, Good(c), cn))
    BY <1>5 DEF Responded, Discard
  <2>2. CASE c.clength > 0 /\ Goes(b, cn)
    <3>1. /\ b \in CallRecord /\ Same(b, c) /\ b.late = c.late /\ b.pc = "read"
          /\ b.saved = c.saved /\ b.clength = c.clength /\ b.req = c.req /\ b.op = c.op /\ b.cut = c.cut
      BY <1>1 DEF CallRecord, Pc, Same
    <3> HIDE DEF b
    <3>2. Reads(b, cn)
      BY <3>1 DEF Reads, Same
    <3>3. ASSUME Brings(b), ~conn.stale PROVE Begun(b, cn, log)
      <4>1. Headed(c, cn, log)
        BY <3>1, <3>3 DEF Brings
      <4>2. PICK y \in Seq(Token), h \in Nat : IsWhole(y, c.req, f, n, h) /\ Stream(cn.down, 0, y, h)
        BY <4>1 DEF Headed
      <4>3. f = "length" /\ c.clength = n /\ c.saved = <<>> /\ log.answer.req = c.req
        BY <1>2, <2>2, <4>1 DEF Headed, Length
      <4>4. Position(b, f, n, h, h)
        BY <3>1, <4>3 DEF Position
      <4>5. QED
        BY <3>1, <4>2, <4>3, <4>4 DEF Begun
    <3>4. QED
      BY <1>1, <2>2, <3>1, <3>2, <3>3, ReadsGoesWhole
  <2>3. CASE ~(c.clength > 0) /\ Leave(c, Good(c), cn)
    <3>1. Good(c) \in BOOLEAN
      BY <1>1, GoodFacts
    <3>2. ASSUME Good(c), Brings(c), ~conn.stale PROVE Whole(c, log)
      <4>1. c.op = "cmd"
        BY <3>2 DEF Good, Brings
      <4>2. ~(Length(f, n) > 0) /\ c.saved = <<>> /\ log.answer.req = c.req /\ f # "none"
        BY <2>3, <3>2 DEF Headed, IsWhole
      <4>3. f \in {"chunks", "close"} \/ n = 0
        BY <1>2, <4>2 DEF Length
      <4>4. QED
        BY <4>1, <4>2, <4>3, NoUnits DEF Whole
    <3>3. QED
      BY <1>1, <2>3, <3>1, <3>2, ReadsLeaveWhole
  <2>4. QED
    BY <2>1, <2>2, <2>3
<1>6. QED
  BY <1>3, <1>4, <1>5

\* A field of the header is read.
LEMMA ReadFieldWhole ==
  ASSUME Safe, WholeInv, ReadField
  PROVE  WholeInv'
<1> DEFINE f == log.answer.op  n == log.answer.len
<1>1. call.pc = "fields" /\ call.pc \in Reading /\ log' = log
  BY DEF ReadField, Reading
<1>2. PICK g \in Gets :
        \/ g.line.k \in {"end", "crlf", "nothing"} /\ Responded(Got(g), Kept(g))
        \/ g.line.k = "close" /\ Goes(Got(g), [Kept(g) EXCEPT !.connclose = TRUE])
        \/ g.line.k = "length" /\ Goes([Got(g) EXCEPT !.clength = IF @ = 0 THEN g.line.n ELSE @], Kept(g))
        \/ g.line.k = "chunked" /\ Goes([Got(g) EXCEPT !.clength = IF @ = 0 THEN -1 ELSE @], Kept(g))
        \/ g.line.k \notin {"end", "crlf", "nothing", "close", "length", "chunked"} /\ Goes(Got(g), Kept(g))
  BY DEF ReadField
<1> DEFINE c == Got(g)  cn == Kept(g)
<1>3. GetsGood(g, conn.down) /\ conn.down \in Seq(Token)
  BY ConnTyped, GetsGives
<1>4. /\ c \in CallRecord /\ Same(c, call) /\ c.late = call.late /\ c.pc = "fields" /\ c.saved = call.saved
      /\ c.clength = call.clength
      /\ cn \in ConnRecord /\ Shorter(cn, conn) /\ cn.down = g.down
      /\ cn.stale = conn.stale /\ cn.confused = conn.confused
  BY <1>1, <1>3, GetsReads
<1>5. g.line.n \in Int
  BY <1>3 DEF GetsGood, Token
<1>6. ~c.cut => ~g.cut
  <2>1. c.cut = (call.cut \/ g.cut)
    BY <1>1, <1>3, GetsReads
  <2>2. QED
    BY <2>1
<1>7. n \in Nat
  BY LogTyped
<1> HIDE DEF c, cn
<1>8. Reads(c, cn)
  BY <1>4 DEF Reads
<1>9. ASSUME Brings(c), ~conn.stale
      PROVE  /\ log.answer.req = c.req /\ c.saved = <<>>
             /\ \E y \in Seq(Token), h, k \in Nat :
                  /\ IsWhole(y, c.req, f, n, h) /\ Stream(cn.down, 0, y, k + 1)
                  /\ 1 <= k /\ k < h /\ c.clength = (IF k = 1 THEN 0 ELSE Length(f, n))
                  /\ HeaderLine(g.line, k, f, n, h)
  <2>1. Begun(call, conn, log) /\ c.req = call.req
    BY <1>1, <1>4, <1>9, ReadsBegun
  <2>2. PICK y \in Seq(Token), h \in Nat, k \in Nat :
          IsWhole(y, call.req, f, n, h) /\ Stream(conn.down, 0, y, k) /\ Position(call, f, n, h, k)
    BY <2>1 DEF Begun
  <2>3. call.saved = <<>> /\ 1 <= k /\ k < h /\ call.clength = (IF k = 1 THEN 0 ELSE Length(f, n))
    BY <1>1, <2>2 DEF Position
  <2>4. HeaderLine(y[k + 1], k, f, n, h)
    <3>1. k \in 1 .. h - 1
      BY <2>3
    <3>2. QED
      BY <2>2, <3>1 DEF IsWhole
  <2>5. IsLine(y[k + 1])
    <3>1. k + 1 = h \/ k + 1 < h
      BY <2>3
    <3>2. QED
      BY <2>4, <3>1 DEF HeaderLine, IsLine
  <2>6. ~g.cut
    BY <1>6, <1>9 DEF Brings
  <2>7. g.line = y[k + 1] /\ Stream(g.down, 0, y, k + 1)
    BY <1>3, <2>2, <2>5, <2>6, StreamGets
  <2>8. log.answer.req = c.req
    BY <2>1 DEF Begun
  <2>9. /\ IsWhole(y, c.req, f, n, h) /\ Stream(cn.down, 0, y, k + 1)
        /\ 1 <= k /\ k < h /\ c.clength = (IF k = 1 THEN 0 ELSE Length(f, n))
        /\ HeaderLine(g.line, k, f, n, h)
    BY <1>4, <2>1, <2>2, <2>3, <2>4, <2>7
  <2>10. QED
    BY <1>4, <2>3, <2>8, <2>9
\* A line that is not the last.
<1>10. ASSUME NEW b, NEW dn, Goes(b, dn), b \in CallRecord, Same(b, c), b.late = c.late, b.pc = "fields",
              b.saved = c.saved, b.cut => c.cut, dn \in ConnRecord, Shorter(dn, cn), dn.down = cn.down,
              dn.stale = cn.stale, dn.confused = cn.confused, Reads(b, dn),
              g.line.k \notin {"end"},
              \/ b.clength = c.clength /\ g.line.k \notin {"length", "chunked"}
              \/ g.line.k = "length" /\ (c.clength = 0 => b.clength = g.line.n) /\ (c.clength # 0 => b.clength = c.clength)
              \/ g.line.k = "chunked" /\ (c.clength = 0 => b.clength = -1) /\ (c.clength # 0 => b.clength = c.clength)
       PROVE  WholeInv'
  <2>1. ASSUME Brings(b), ~conn.stale PROVE Begun(b, dn, log)
    <3>1. Brings(c) /\ b.req = c.req
      BY <1>10, <2>1 DEF Brings, Same
    <3>2. PICK y \in Seq(Token), h \in Nat, k \in Nat :
            /\ IsWhole(y, c.req, f, n, h) /\ Stream(cn.down, 0, y, k + 1)
            /\ 1 <= k /\ k < h /\ c.clength = (IF k = 1 THEN 0 ELSE Length(f, n))
            /\ HeaderLine(g.line, k, f, n, h)
      BY <1>9, <2>1, <3>1
    <3>3. k + 1 < h
      <4>1. k + 1 # h
        BY <1>10, <3>2 DEF HeaderLine
      <4>2. QED
        BY <3>2, <4>1
    <3>4. b.clength = Length(f, n)
      <4>1. CASE k = 1 /\ f = "length" /\ g.line.k = "length" /\ g.line.n = n
        BY <1>10, <3>2, <4>1 DEF Length
      <4>2. CASE k = 1 /\ f = "chunks" /\ g.line.k = "chunked"
        BY <1>10, <3>2, <4>2 DEF Length
      <4>3. CASE (k > 1 \/ f = "close") /\ g.line.k = "close"
        BY <1>10, <3>2, <4>3 DEF Length
      <4>4. QED
        BY <3>2, <3>3, <4>1, <4>2, <4>3 DEF HeaderLine
    <3>5. k + 1 \in Nat /\ 1 <= k + 1 /\ k + 1 # 1
      BY <3>2
    <3>6. Position(b, f, n, h, k + 1)
      BY <1>9, <1>10, <2>1, <3>1, <3>3, <3>4, <3>5 DEF Position
    <3>7. QED
      BY <1>9, <1>10, <2>1, <3>1, <3>2, <3>5, <3>6 DEF Begun
  <2>2. b.pc # "idle"
    BY <1>10
  <2>3. QED
    BY <1>1, <1>10, <2>1, <2>2, ReadsGoesWhole
<1>11. CASE g.line.k \in {"end", "crlf", "nothing"} /\ Responded(c, cn)
  <2>1. ASSUME Brings(c), ~conn.stale PROVE Headed(c, cn, log)
    <3>1. PICK y \in Seq(Token), h \in Nat, k \in Nat :
            /\ IsWhole(y, c.req, f, n, h) /\ Stream(cn.down, 0, y, k + 1)
            /\ 1 <= k /\ k < h /\ c.clength = (IF k = 1 THEN 0 ELSE Length(f, n))
            /\ HeaderLine(g.line, k, f, n, h)
      BY <1>9, <2>1
    <3>2. k + 1 = h
      BY <1>11, <3>1 DEF HeaderLine
    <3>3. c.clength = Length(f, n)
      BY <3>1, <3>2 DEF IsWhole, Length
    <3>4. QED
      BY <1>9, <2>1, <3>1, <3>2, <3>3 DEF Headed
  <2>2. QED
    BY <1>1, <1>4, <1>8, <1>11, <2>1, RespondedWhole
<1>12. Same(c, c) /\ Less(cn.down, cn.down)
  BY <1>4, LessSelf DEF Same, ConnRecord
<1>13. Shorter(cn, cn)
  BY <1>12 DEF Shorter
<1>14. CASE g.line.k = "close" /\ Goes(c, [cn EXCEPT !.connclose = TRUE])
  <2> DEFINE dn == [cn EXCEPT !.connclose = TRUE]
  <2>1. dn \in ConnRecord
    BY <1>4 DEF ConnRecord
  <2>2. /\ dn.srv = cn.srv /\ dn.up = cn.up /\ dn.closed = cn.closed /\ dn.down = cn.down
        /\ dn.stale = cn.stale /\ dn.confused = cn.confused
    BY <1>4 DEF ConnRecord
  <2>3. Goes(c, dn)
    BY <1>14
  <2> HIDE DEF dn
  <2>4. Reads(c, dn) /\ Shorter(dn, cn)
    BY <1>8, <1>12, <2>1, <2>2 DEF Reads, Shorter
  <2>5. QED
    BY <1>4, <1>10, <1>12, <1>14, <2>1, <2>2, <2>3, <2>4
<1>15. ASSUME NEW l \in Int, Goes([c EXCEPT !.clength = IF @ = 0 THEN l ELSE @], cn),
              (g.line.k = "length" /\ l = g.line.n) \/ (g.line.k = "chunked" /\ l = -1)
       PROVE WholeInv'
  <2> DEFINE b == [c EXCEPT !.clength = IF @ = 0 THEN l ELSE @]
  <2>1. /\ b \in CallRecord /\ Same(b, c) /\ b.late = c.late /\ b.pc = "fields" /\ b.saved = c.saved
        /\ (b.cut => c.cut)
        /\ (c.clength = 0 => b.clength = l) /\ (c.clength # 0 => b.clength = c.clength)
    BY <1>4 DEF CallRecord, Same
  <2>2. Goes(b, cn)
    BY <1>15
  <2> HIDE DEF b
  <2>3. Reads(b, cn)
    BY <1>8, <2>1 DEF Reads, Same
  <2>4. \/ g.line.k = "length" /\ (c.clength = 0 => b.clength = g.line.n)
        \/ g.line.k = "chunked" /\ (c.clength = 0 => b.clength = -1)
    BY <1>15, <2>1
  <2>5. g.line.k \notin {"end"}
    BY <1>15
  <2>6. QED
    BY <1>4, <1>10, <1>13, <2>1, <2>2, <2>3, <2>4, <2>5
<1>16. CASE g.line.k \notin {"end", "crlf", "nothing", "close", "length", "chunked"} /\ Goes(c, cn)
  BY <1>4, <1>8, <1>10, <1>12, <1>13, <1>16
<1>17. -1 \in Int
  OBVIOUS
<1>18. QED
  BY <1>2, <1>5, <1>11, <1>14, <1>15, <1>16, <1>17 DEF c, cn

\* The contents are begun.
LEMMA ReadContentsWhole ==
  ASSUME Safe, WholeInv, ReadContents
  PROVE  WholeInv'
<1> DEFINE f == log.answer.op  m == log.answer.len
<1>1. call.pc = "read" /\ call.pc \in Reading /\ log' = log
  BY DEF ReadContents, Reading
<1> DEFINE n == call.clength
           cn == [conn EXCEPT !.down = SubSeq(@, n + 1, Len(@))]
           s == SubSeq(conn.down, 1, n)
           c == [call EXCEPT !.saved = s]
<1>2. call \in CallRecord /\ conn \in ConnRecord /\ call.op \in Op
  BY <1>1, CallRuns
<1>3. n \in Nat /\ call.req \in Nat
  BY <1>1, <1>2 DEF Safe, ClientTypeOK, CallRecord
<1>4. Good(call) \in BOOLEAN
  BY <1>2, GoodFacts
<1>5. \/ Len(conn.down) >= n /\ Leave(c, Good(call), cn)
      \/ Drop(call, FALSE)
  BY DEF ReadContents
<1>6. CASE Len(conn.down) >= n /\ Leave(c, Good(call), cn)
  <2>1. n <= Len(conn.down) /\ conn.down \in Seq(Token)
    BY <1>2, <1>3, <1>6 DEF ConnRecord
  <2>2. /\ cn \in ConnRecord /\ Shorter(cn, conn)
        /\ cn.stale = conn.stale /\ cn.confused = conn.confused
        /\ s \in Seq(Token)
    BY <1>1, <1>3, <2>1, TakesContents
  <2> HIDE DEF s
  <2>3. /\ c \in CallRecord /\ Same(c, call) /\ c.late = call.late
        /\ c.op = call.op /\ c.req = call.req /\ c.saved = s
    BY <1>2, <2>2 DEF CallRecord, Same
  <2> HIDE DEF c, cn
  <2>4. Reads(c, cn)
    BY <2>2, <2>3 DEF Reads
  <2>5. ASSUME Brings(c), ~conn.stale PROVE Whole(c, log)
    <3>1. Begun(call, conn, log)
      BY <1>1, <2>3, <2>5, ReadsBegun
    <3>2. PICK y \in Seq(Token), h \in Nat, k \in Nat :
            IsWhole(y, call.req, f, m, h) /\ Stream(conn.down, 0, y, k) /\ Position(call, f, m, h, k)
      BY <3>1 DEF Begun
    <3>3. k = h /\ f = "length" /\ n = m
      BY <1>1, <3>2 DEF Position
    <3>4. Len(s) = n /\ \A i \in 1 .. n : s[i] = y[k + i]
      BY <1>3, <2>1, <3>2, StreamTakes DEF s
    <3>5. \A i \in 1 .. n : s[i] = Unit(call.req, i)
      BY <3>2, <3>3, <3>4 DEF IsWhole
    <3>6. s = Units(call.req, 0, n)
      BY <1>3, <2>2, <3>4, <3>5, UnitsFirst
    <3>7. log.answer.req = call.req
      BY <3>1 DEF Begun
    <3>8. QED
      BY <2>3, <3>3, <3>6, <3>7 DEF Whole
  <2>6. QED
    BY <1>1, <1>4, <1>6, <2>4, <2>5, ReadsLeaveWhole
<1>7. CASE Drop(call, FALSE)
  BY <1>1, <1>2, <1>7, DropWhole
<1>8. QED
  BY <1>5, <1>6, <1>7

\* Contents that are not wanted are not returned.
LEMMA ThrowOutWhole ==
  ASSUME Safe, WholeInv, ThrowOut
  PROVE  WholeInv'
<1>1. /\ call.pc = "read" /\ call.pc \in Reading /\ log' = log
      /\ call.op # "cmd" /\ Drop(call, Good(call))
  BY DEF ThrowOut, Reading
<1>2. call \in CallRecord /\ conn \in ConnRecord /\ call.op \in Op
  BY <1>1, CallRuns
<1>3. Good(call) \in BOOLEAN /\ ~(Good(call) /\ Brings(call))
  BY <1>1, <1>2, GoodFacts DEF Good, Brings
<1>4. QED
  BY <1>1, <1>2, <1>3, DropWhole

\* A piece is kept: it continues what was kept.
LEMMA ReceiveWhole ==
  ASSUME Safe, WholeInv, Receive
  PROVE  WholeInv'
<1> DEFINE f == log.answer.op  m == log.answer.len
<1>1. call.pc \in {"recv", "chunk"} /\ call.pc \in Reading /\ call.pc # "idle" /\ log' = log
  BY DEF Receive, Reading
<1>2. call \in CallRecord /\ conn \in ConnRecord /\ call.op \in Op /\ call.op = "get" /\ conn.down \in Seq(Token)
  <2>1. call.op = "get"
    BY <1>1 DEF Safe, ClientTypeOK
  <2>2. QED
    BY <1>1, <2>1, CallRuns, ConnTyped
<1>3. m \in Nat /\ call.req \in Nat /\ call.left \in Int
  BY <1>2, LogTyped DEF CallRecord
<1>4. CASE Drop(call, FALSE)
  BY <1>1, <1>2, <1>4, DropWhole
<1>5. ASSUME NEW n \in 1 .. Piece,
             LET d == conn.down
                 c == [call EXCEPT !.saved = @ \o SubSeq(d, 1, n), !.left = @ - n]
                 cn == [conn EXCEPT !.down = SubSeq(d, n + 1, Len(d))]
             IN /\ n <= Len(d) /\ n <= call.left
                /\ IF c.left > 0 THEN Goes(c, cn)
                   ELSE IF c.pc = "recv" THEN Leave(c, TRUE, cn)
                   ELSE Goes([c EXCEPT !.pc = "tail", !.left = 1], cn)
      PROVE  WholeInv'
  <2> DEFINE e == SubSeq(conn.down, 1, n)
             s == call.saved \o e
             l == call.left - n
             c == Took(call, s, l)
             cn == [conn EXCEPT !.down = SubSeq(@, n + 1, Len(@))]
             p == "tail"
             o == 1
             t == Moved(c, p, o)
  <2>1. n \in Nat /\ n > 0 /\ n <= Len(conn.down) /\ n <= call.left
    BY <1>5, HttpClientAssumption
  <2>2. /\ cn \in ConnRecord /\ Shorter(cn, conn)
        /\ cn.stale = conn.stale /\ cn.confused = conn.confused
        /\ cn.down = SubSeq(conn.down, n + 1, Len(conn.down))
        /\ e \in Seq(Token)
    BY <1>1, <2>1, TakesContents
  <2>3. s \in Seq(Token) /\ l \in Int
    BY <1>2, <1>3, <2>1, <2>2, ConcatProperties DEF CallRecord
  <2>4. IF c.left > 0 THEN Goes(c, cn) ELSE IF c.pc = "recv" THEN Leave(c, TRUE, cn) ELSE Goes(t, cn)
    BY <1>5 DEF Took, Moved
  <2>5. c = Took(call, s, l)
    OBVIOUS
  <2> HIDE DEF c, cn, e
  <2>6. /\ c \in CallRecord /\ Same(c, call) /\ c.late = call.late /\ c.op = "get"
        /\ c.pc = call.pc /\ c.left = l /\ c.saved = s /\ c.cut = call.cut
    <3>1. s \in Seq(Token) /\ l \in Int /\ c = Took(call, s, l)
      BY <2>3, <2>5
    <3> HIDE DEF s, l
    <3>2. QED
      BY <1>2, <3>1, TakesTo
  <2>7. p \in Pc /\ o \in Int /\ p = "tail" /\ o = 1 /\ t = Moved(c, p, o)
    BY DEF Pc
  <2> HIDE DEF p, o, t
  <2>8. /\ t \in CallRecord /\ Same(t, c) /\ t.late = c.late
        /\ t.pc = p /\ t.left = o /\ t.saved = c.saved /\ t.cut = c.cut
    BY <2>6, <2>7, MovesTo
  <2>9. Reads(c, cn) /\ Reads(t, cn) /\ c.req = call.req /\ t.req = call.req
    BY <2>2, <2>6, <2>8 DEF Reads, Same
  <2>10. Brings(t) => Brings(c)
    BY <2>8 DEF Brings, Same
  <2>11. ASSUME Brings(c), ~conn.stale
         PROVE  /\ log.answer.req = call.req
                /\ \E y \in Seq(Token), h, k, j \in Nat :
                     /\ IsWhole(y, call.req, f, m, h)
                     /\ Stream(cn.down, 0, y, k) /\ s = Units(call.req, 0, j)
                     /\ \/ call.pc = "recv" /\ f = "length" /\ j + l = m /\ k = h + j
                        \/ call.pc = "chunk" /\ f = "chunks" /\ l = 0 /\ j > 0 /\ j <= m /\ k = h + 3 * j - 1
    <3>1. Begun(call, conn, log)
      BY <1>1, <2>6, <2>11, ReadsBegun
    <3>2. PICK y \in Seq(Token), h \in Nat, k \in Nat :
            IsWhole(y, call.req, f, m, h) /\ Stream(conn.down, 0, y, k) /\ Position(call, f, m, h, k)
      BY <3>1 DEF Begun
    <3>3. PICK j \in Nat : /\ call.saved = Units(call.req, 0, j)
                           /\ \/ call.pc = "recv" /\ f = "length" /\ j + call.left = m /\ k = h + j
                              \/ call.pc = "chunk" /\ f = "chunks" /\ call.left = 1 /\ j < m /\ k = h + 3 * j + 1
      BY <1>1, <3>2 DEF Position
    <3>4. Len(e) = n /\ Stream(cn.down, 0, y, k + n) /\ \A i \in 1 .. n : e[i] = y[k + i]
      BY <1>2, <2>1, <2>2, <3>2, StreamTakes DEF e
    <3>5. CASE call.pc = "recv" /\ f = "length" /\ j + call.left = m /\ k = h + j
      <4>1. \A i \in 1 .. n : e[i] = Unit(call.req, j + i)
        <5>1. ASSUME NEW i \in 1 .. n PROVE e[i] = Unit(call.req, j + i)
          <6>1. j + i \in 1 .. m /\ h + (j + i) = k + i
            BY <1>3, <2>1, <3>5
          <6>2. y[h + (j + i)] = Unit(call.req, j + i)
            BY <3>2, <3>5, <6>1 DEF IsWhole
          <6>3. e[i] = y[k + i]
            BY <3>4
          <6>4. QED
            BY <6>1, <6>2, <6>3
        <5>2. QED
          BY <5>1
      <4>2. Units(call.req, 0, j) \o e = Units(call.req, 0, j + n)
        <5> DEFINE r == call.req
        <5>1. r \in Nat /\ n \in Nat /\ j \in Nat
          BY <1>3, <2>1, <3>3
        <5>2. AreUnits(e, r, j, n)
          BY <2>2, <3>4, <4>1 DEF AreUnits
        <5> HIDE DEF r
        <5>3. Continues(e, r, j, n)
          BY <5>1, <5>2, UnitsMore
        <5>4. QED
          BY <5>3 DEF r, Continues
      <4>3. s = Units(call.req, 0, j + n)
        BY <3>3, <4>2
      <4>4. j + n \in Nat /\ k + n \in Nat /\ (j + n) + l = m /\ k + n = h + (j + n)
        BY <1>3, <2>1, <3>5
      <4> HIDE DEF s, l
      <4>5. log.answer.req = call.req
        BY <3>1 DEF Begun
      <4>6. QED
        BY <3>2, <3>4, <3>5, <4>3, <4>4, <4>5
    <3>6. CASE call.pc = "chunk" /\ f = "chunks" /\ call.left = 1 /\ j < m /\ k = h + 3 * j + 1
      <4>1. n = 1 /\ l = 0
        BY <2>1, <3>6
      <4>2. \A i \in 1 .. n : e[i] = Unit(call.req, j + i)
        <5>1. y[h + 3 * j + 2] = Unit(call.req, j + 1)
          BY <3>2, <3>6 DEF IsWhole
        <5>2. e[1] = y[k + 1] /\ k + 1 = h + 3 * j + 2
          BY <3>4, <3>6, <4>1
        <5>3. e[1] = Unit(call.req, j + 1)
          BY <5>1, <5>2
        <5>4. \A i \in 1 .. n : i = 1
          BY <4>1
        <5>5. QED
          BY <5>3, <5>4
      <4>3. Units(call.req, 0, j) \o e = Units(call.req, 0, j + n)
        <5> DEFINE r == call.req
        <5>1. r \in Nat /\ n \in Nat /\ j \in Nat
          BY <1>3, <2>1, <3>3
        <5>2. AreUnits(e, r, j, n)
          BY <2>2, <3>4, <4>2 DEF AreUnits
        <5> HIDE DEF r
        <5>3. Continues(e, r, j, n)
          BY <5>1, <5>2, UnitsMore
        <5>4. QED
          BY <5>3 DEF r, Continues
      <4>4. s = Units(call.req, 0, j + n)
        BY <3>3, <4>3
      <4>5. j + n \in Nat /\ k + n \in Nat /\ j + n > 0 /\ j + n <= m /\ k + n = h + 3 * (j + n) - 1
        BY <1>3, <3>6, <4>1
      <4> HIDE DEF s, l
      <4>6. log.answer.req = call.req
        BY <3>1 DEF Begun
      <4>7. QED
        BY <3>2, <3>4, <3>6, <4>1, <4>4, <4>5, <4>6
    <3>7. QED
      BY <3>3, <3>5, <3>6
  <2> HIDE DEF s
  <2>12. CASE c.left > 0 /\ Goes(c, cn)
    <3>1. ASSUME Brings(c), ~conn.stale PROVE Begun(c, cn, log)
      <4>1. PICK y \in Seq(Token), h \in Nat, k \in Nat, j \in Nat :
                     /\ IsWhole(y, call.req, f, m, h)
                     /\ Stream(cn.down, 0, y, k) /\ s = Units(call.req, 0, j)
                     /\ \/ call.pc = "recv" /\ f = "length" /\ j + l = m /\ k = h + j
                        \/ call.pc = "chunk" /\ f = "chunks" /\ l = 0 /\ j > 0 /\ j <= m /\ k = h + 3 * j - 1
        BY <2>11, <3>1
      <4>2. call.pc = "recv" /\ f = "length" /\ j + l = m /\ k = h + j /\ l > 0
        BY <2>6, <2>12, <4>1
      <4>3. Position(c, f, m, h, k)
        BY <2>6, <2>9, <4>1, <4>2 DEF Position
      <4>4. log.answer.req = c.req
        BY <2>9, <2>11, <3>1
      <4>5. QED
        BY <2>9, <4>1, <4>3, <4>4 DEF Begun
    <3>2. QED
      BY <1>1, <2>6, <2>9, <2>12, <3>1, ReadsGoesWhole
  <2>13. CASE ~(c.left > 0) /\ c.pc = "recv" /\ Leave(c, TRUE, cn)
    <3>1. ASSUME Brings(c), ~conn.stale PROVE Whole(c, log)
      <4>1. PICK y \in Seq(Token), h \in Nat, k \in Nat, j \in Nat :
                     /\ IsWhole(y, call.req, f, m, h)
                     /\ Stream(cn.down, 0, y, k) /\ s = Units(call.req, 0, j)
                     /\ \/ call.pc = "recv" /\ f = "length" /\ j + l = m /\ k = h + j
                        \/ call.pc = "chunk" /\ f = "chunks" /\ l = 0 /\ j > 0 /\ j <= m /\ k = h + 3 * j - 1
        BY <2>11, <3>1
      <4>2. l = 0
        BY <1>3, <2>1, <2>6, <2>13
      <4>3. j = m
        BY <1>3, <2>6, <2>13, <4>1, <4>2
      <4>4. log.answer.req = c.req
        BY <2>9, <2>11, <3>1
      <4>5. QED
        BY <2>6, <2>9, <4>1, <4>3, <4>4 DEF Whole
    <3>2. TRUE \in BOOLEAN
      OBVIOUS
    <3>3. QED
      BY <1>1, <2>9, <2>13, <3>1, <3>2, ReadsLeaveWhole
  <2>14. CASE c.pc # "recv" /\ Goes(t, cn)
    <3>1. ASSUME Brings(t), ~conn.stale PROVE Begun(t, cn, log)
      <4>1. PICK y \in Seq(Token), h \in Nat, k \in Nat, j \in Nat :
                     /\ IsWhole(y, call.req, f, m, h)
                     /\ Stream(cn.down, 0, y, k) /\ s = Units(call.req, 0, j)
                     /\ \/ call.pc = "recv" /\ f = "length" /\ j + l = m /\ k = h + j
                        \/ call.pc = "chunk" /\ f = "chunks" /\ l = 0 /\ j > 0 /\ j <= m /\ k = h + 3 * j - 1
        BY <2>10, <2>11, <3>1
      <4>2. f = "chunks" /\ j > 0 /\ j <= m /\ k = h + 3 * j - 1
        BY <2>6, <2>14, <4>1
      <4>3. Position(t, f, m, h, k)
        BY <2>6, <2>7, <2>8, <2>9, <4>1, <4>2 DEF Position
      <4>4. log.answer.req = t.req
        BY <2>9, <2>10, <2>11, <3>1
      <4>5. QED
        BY <2>9, <4>1, <4>3, <4>4 DEF Begun
    <3>2. QED
      BY <1>1, <2>7, <2>8, <2>9, <2>14, <3>1, ReadsGoesWhole
  <2>15. QED
    BY <2>4, <2>12, <2>13, <2>14
<1>6. QED
  BY <1>4, <1>5 DEF Receive

\* A call whose contents could not be read returns failure.
LEMMA ReceiveFailsWhole ==
  ASSUME Safe, ReceiveFails
  PROVE  WholeInv'
<1>1. Drop(call, FALSE) /\ log' = log
  BY DEF ReceiveFails
<1>2. QED
  BY <1>1, ConnTyped, DropWhole

\* A line of the contents has been read.
LEMMA GetsWhole ==
  ASSUME Safe, call.pc \in Reading, NEW g, g \in Gets
  PROVE  /\ GetsGood(g, conn.down) /\ conn.down \in Seq(Token)
         /\ Got(g) \in CallRecord /\ Kept(g) \in ConnRecord /\ Reads(Got(g), Kept(g))
         /\ Got(g).saved = call.saved /\ Got(g).left = call.left
         /\ Kept(g).down = g.down
         /\ Brings(Got(g)) => ~g.cut
<1>1. GetsGood(g, conn.down) /\ conn.down \in Seq(Token)
  BY ConnTyped, GetsGives
<1>2. call.pc # "idle"
  BY DEF Reading
<1> DEFINE c == Got(g)  cn == Kept(g)
<1>3. /\ c \in CallRecord /\ Same(c, call) /\ c.late = call.late /\ c.left = call.left /\ c.saved = call.saved
      /\ cn \in ConnRecord /\ Shorter(cn, conn) /\ cn.down = g.down
      /\ cn.stale = conn.stale /\ cn.confused = conn.confused
  BY <1>1, <1>2, GetsReads
<1>4. c.cut = (call.cut \/ g.cut)
  BY <1>1, <1>2, GetsReads
<1> HIDE DEF c, cn
<1>5. Reads(c, cn)
  BY <1>3 DEF Reads
<1>6. Brings(c) => ~g.cut
  BY <1>4 DEF Brings
<1>7. QED
  BY <1>1, <1>3, <1>5, <1>6 DEF c, cn

\* The size of a chunk is read.
LEMMA ReadSizeWhole ==
  ASSUME Safe, WholeInv, ReadSize
  PROVE  WholeInv'
<1> DEFINE f == log.answer.op  m == log.answer.len
<1>1. call.pc = "size" /\ call.pc \in Reading /\ log' = log
  BY DEF ReadSize, Reading
<1>2. PICK g \in Gets :
        \/ Drop(Got(g), FALSE)
        \/ \E n \in IF g.line.k = "size" THEN {g.line.n} ELSE Size :
             Goes([Got(g) EXCEPT !.pc = IF n = 0 THEN "tail" ELSE "chunk", !.left = n], Kept(g))
  BY DEF ReadSize
<1> DEFINE c == Got(g)  cn == Kept(g)
<1>3. /\ GetsGood(g, conn.down) /\ conn.down \in Seq(Token)
      /\ c \in CallRecord /\ cn \in ConnRecord /\ Reads(c, cn)
      /\ c.saved = call.saved /\ cn.down = g.down
      /\ Brings(c) => ~g.cut
  BY <1>1, GetsWhole
<1> HIDE DEF c, cn
<1>4. CASE Drop(c, FALSE)
  BY <1>1, <1>3, <1>4, DropWhole
<1>5. m \in Nat
  BY LogTyped
<1>6. ASSUME NEW n \in Int, g.line.k = "size" => n = g.line.n,
             Goes([c EXCEPT !.pc = IF n = 0 THEN "tail" ELSE "chunk", !.left = n], cn)
      PROVE  WholeInv'
  <2> DEFINE p == IF n = 0 THEN "tail" ELSE "chunk"
             b == Moved(c, p, n)
  <2>1. Goes(b, cn) /\ b = Moved(c, p, n) /\ p \in Pc /\ p # "idle" /\ n \in Int
    BY <1>6 DEF Moved, Pc
  <2> HIDE DEF p, b
  <2>2. /\ b \in CallRecord /\ Same(b, c) /\ b.late = c.late
        /\ b.pc = p /\ b.left = n /\ b.saved = c.saved /\ b.cut = c.cut
    BY <1>3, <2>1, MovesTo
  <2>3. Reads(b, cn)
    BY <1>3, <2>2 DEF Reads, Same
  <2>4. ASSUME Brings(b), ~conn.stale PROVE Begun(b, cn, log)
    <3>1. Brings(c) /\ Same(b, call)
      BY <2>2, <2>3, <2>4 DEF Brings, Same, Reads
    <3>2. Begun(call, conn, log) /\ b.req = call.req
      BY <1>1, <2>4, <3>1, ReadsBegun
    <3>3. PICK y \in Seq(Token), h \in Nat, k \in Nat :
            IsWhole(y, call.req, f, m, h) /\ Stream(conn.down, 0, y, k) /\ Position(call, f, m, h, k)
      BY <3>2 DEF Begun
    <3>4. PICK j \in Nat : f = "chunks" /\ j <= m /\ call.saved = Units(call.req, 0, j) /\ k = h + 3 * j
      BY <1>1, <3>3 DEF Position
    <3>5. y[k + 1].k = "size" /\ y[k + 1].n = IF j < m THEN 1 ELSE 0
      <4>1. CASE j < m
        BY <3>3, <3>4, <4>1 DEF IsWhole
      <4>2. CASE j = m
        BY <3>3, <3>4, <4>2 DEF IsWhole
      <4>3. QED
        BY <1>5, <3>4, <4>1, <4>2
    <3>6. g.line = y[k + 1] /\ Stream(g.down, 0, y, k + 1)
      BY <1>3, <3>1, <3>3, <3>5, StreamGets DEF IsLine
    <3>7. n = IF j < m THEN 1 ELSE 0
      BY <1>6, <3>5, <3>6
    <3>8. k + 1 \in Nat /\ k + 1 = h + 3 * j + 1
      BY <3>3, <3>4
    <3>9. b.saved = Units(b.req, 0, j)
      BY <1>3, <2>2, <3>2, <3>4
    <3>10. Position(b, f, m, h, k + 1)
      <4>1. CASE j < m
        <5>1. b.pc = "chunk" /\ b.left = 1
          BY <2>2, <3>7, <4>1 DEF p
        <5>2. QED
          BY <3>4, <3>8, <3>9, <4>1, <5>1 DEF Position
      <4>2. CASE j = m
        <5>1. b.pc = "tail" /\ b.left = 0
          BY <1>5, <2>2, <3>7, <4>2 DEF p
        <5>2. QED
          BY <3>4, <3>8, <3>9, <4>2, <5>1 DEF Position
      <4>3. QED
        BY <1>5, <3>4, <4>1, <4>2
    <3>11. QED
      BY <1>3, <3>2, <3>3, <3>6, <3>8, <3>10 DEF Begun
  <2>5. QED
    BY <1>1, <2>1, <2>2, <2>3, <2>4, ReadsGoesWhole
<1>7. ASSUME NEW n \in IF g.line.k = "size" THEN {g.line.n} ELSE Size
      PROVE  n \in Int /\ (g.line.k = "size" => n = g.line.n)
  <2>1. g.line.n \in Int
    BY <1>3 DEF GetsGood, Token
  <2>2. Size \subseteq Int
    BY HttpClientAssumption
  <2>3. QED
    BY <2>1, <2>2
<1>8. QED
  BY <1>2, <1>4, <1>6, <1>7 DEF c, cn

\* What follows a chunk is read: after the last one all has been kept.
LEMMA ReadTailWhole ==
  ASSUME Safe, WholeInv, ReadTail
  PROVE  WholeInv'
<1> DEFINE f == log.answer.op  m == log.answer.len
<1>1. call.pc = "tail" /\ call.pc \in Reading /\ log' = log
  BY DEF ReadTail, Reading
<1>2. PICK g \in Gets :
        \/ Drop(Got(g), FALSE)
        \/ call.left = 0 /\ Leave(Got(g), TRUE, Kept(g))
        \/ call.left # 0 /\ Goes([Got(g) EXCEPT !.pc = "size"], Kept(g))
  BY DEF ReadTail
<1> DEFINE c == Got(g)  cn == Kept(g)
<1>3. /\ GetsGood(g, conn.down) /\ conn.down \in Seq(Token)
      /\ c \in CallRecord /\ cn \in ConnRecord /\ Reads(c, cn)
      /\ c.saved = call.saved /\ cn.down = g.down
      /\ Brings(c) => ~g.cut
  BY <1>1, GetsWhole
<1> HIDE DEF c, cn
<1>4. CASE Drop(c, FALSE)
  BY <1>1, <1>3, <1>4, DropWhole
<1>5. m \in Nat
  BY LogTyped
<1>6. ASSUME NEW b, Same(b, call), Brings(b), ~conn.stale
      PROVE  /\ b.req = call.req /\ log.answer.req = call.req
             /\ \E y \in Seq(Token), h, k, j \in Nat :
                  /\ IsWhole(y, call.req, f, m, h) /\ Stream(conn.down, 0, y, k)
                  /\ f = "chunks" /\ j <= m /\ call.saved = Units(call.req, 0, j)
                  /\ \/ call.left = 1 /\ j > 0 /\ k = h + 3 * j - 1
                     \/ call.left = 0 /\ j = m /\ k = h + 3 * j + 1
  <2>1. Begun(call, conn, log) /\ b.req = call.req
    BY <1>1, <1>6, ReadsBegun
  <2>2. PICK y \in Seq(Token), h \in Nat, k \in Nat :
          IsWhole(y, call.req, f, m, h) /\ Stream(conn.down, 0, y, k) /\ Position(call, f, m, h, k)
    BY <2>1 DEF Begun
  <2>3. PICK j \in Nat :
          /\ f = "chunks" /\ j <= m /\ call.saved = Units(call.req, 0, j)
          /\ \/ call.left = 1 /\ j > 0 /\ k = h + 3 * j - 1
             \/ call.left = 0 /\ j = m /\ k = h + 3 * j + 1
    BY <1>1, <2>2 DEF Position
  <2>4. log.answer.req = call.req
    BY <2>1 DEF Begun
  <2>5. QED
    BY <2>1, <2>2, <2>3, <2>4
<1>7. CASE call.left = 0 /\ Leave(c, TRUE, cn)
  <2>1. ASSUME Brings(c), ~conn.stale PROVE Whole(c, log)
    <3>1. Same(c, call)
      BY <1>3 DEF Reads
    <3>2. c.req = call.req /\ log.answer.req = call.req /\ call.saved = Units(call.req, 0, m)
      BY <1>6, <1>7, <2>1, <3>1
    <3>3. QED
      BY <1>3, <3>2 DEF Whole
  <2>2. TRUE \in BOOLEAN
    OBVIOUS
  <2>3. QED
    BY <1>1, <1>3, <1>7, <2>1, <2>2, ReadsLeaveWhole
<1>8. CASE call.left # 0 /\ Goes([c EXCEPT !.pc = "size"], cn)
  <2> DEFINE b == [c EXCEPT !.pc = "size"]
  <2>1. /\ b \in CallRecord /\ Same(b, c) /\ b.late = c.late /\ b.saved = c.saved /\ b.pc = "size" /\ b.cut = c.cut
    BY <1>3 DEF CallRecord, Same, Pc
  <2>2. Goes(b, cn)
    BY <1>8
  <2> HIDE DEF b
  <2>3. Reads(b, cn)
    BY <1>3, <2>1 DEF Reads, Same
  <2>4. ASSUME Brings(b), ~conn.stale PROVE Begun(b, cn, log)
    <3>1. Brings(c) /\ Same(b, call)
      BY <2>1, <2>3, <2>4 DEF Brings, Same, Reads
    <3>2. b.req = call.req /\ log.answer.req = call.req
      BY <1>6, <2>4, <3>1
    <3>3. PICK y \in Seq(Token), h \in Nat, k \in Nat, j \in Nat :
            /\ IsWhole(y, call.req, f, m, h) /\ Stream(conn.down, 0, y, k)
            /\ f = "chunks" /\ j <= m /\ call.saved = Units(call.req, 0, j)
            /\ j > 0 /\ k = h + 3 * j - 1
      BY <1>6, <1>8, <2>4, <3>1
    <3>4. y[k + 1].k = "crlf"
      <4>1. j - 1 \in Nat /\ j - 1 < m /\ h + 3 * (j - 1) + 3 = k + 1
        BY <1>5, <3>3
      <4>2. y[h + 3 * (j - 1) + 3].k = "crlf"
        BY <3>3, <4>1 DEF IsWhole
      <4>3. QED
        BY <4>1, <4>2
    <3>5. Stream(g.down, 0, y, k + 1)
      BY <1>3, <3>1, <3>3, <3>4, StreamGets DEF IsLine
    <3>6. k + 1 \in Nat /\ k + 1 = h + 3 * j
      BY <3>3
    <3>7. b.saved = Units(b.req, 0, j)
      BY <1>3, <2>1, <3>2, <3>3
    <3>8. Position(b, f, m, h, k + 1)
      BY <2>1, <3>3, <3>6, <3>7 DEF Position
    <3>9. QED
      BY <1>3, <3>2, <3>3, <3>5, <3>6, <3>8 DEF Begun
  <2>5. b.pc # "idle"
    BY <2>1
  <2>6. QED
    BY <1>1, <2>2, <2>3, <2>4, <2>5, ReadsGoesWhole
<1>9. QED
  BY <1>2, <1>4, <1>7, <1>8 DEF c, cn

\* A status line is read.
LEMMA ReadStatusWhole ==
  ASSUME Safe, WholeInv, ReadStatus
  PROVE  WholeInv'
<1> DEFINE f == log.answer.op  m == log.answer.len
<1>1. call.pc = "status" /\ call.pc # "idle" /\ log' = log
  BY DEF ReadStatus
<1>2. PICK g \in Gets :
        IF g.line.k # "status" THEN Responded([call EXCEPT !.code = 0, !.clength = 0], Kept(g))
        ELSE Goes([Got(g) EXCEPT !.pc = "fields", !.code = g.line.n, !.of = g.line.of, !.clength = 0], Kept(g))
  BY DEF ReadStatus
<1>3. /\ call \in CallRecord /\ call.op \in Op /\ Codes(conn.down)
      /\ ~conn.stale => Running(call, conn, log)
  BY <1>1, CallRuns
<1>4. GetsGood(g, conn.down) /\ conn.down \in Seq(Token)
  BY ConnTyped, GetsGives
<1> DEFINE cn == Kept(g)  w == Got(g)
<1>5. /\ cn \in ConnRecord /\ cn.down = g.down /\ cn.stale = conn.stale
      /\ w \in CallRecord /\ Same(w, call) /\ w.saved = call.saved /\ w.cut = (call.cut \/ g.cut)
  BY <1>1, <1>4, GetsReads
<1> HIDE DEF cn, w
<1>6. CASE ~IsStatus(g.line)
  <2> DEFINE z == 0
             c == [call EXCEPT !.code = z, !.clength = z]
  <2>1. Responded(c, cn)
    BY <1>2, <1>6 DEF IsStatus, cn
  <2>2. z \in Code /\ z \in Int
    BY DEF Code
  <2>3. c = [call EXCEPT !.code = z, !.clength = z]
    OBVIOUS
  <2>4. z = 0
    OBVIOUS
  <2> HIDE DEF z, c
  <2>5. c \in CallRecord /\ c.op = call.op /\ c.code = z /\ c.clength = z /\ c.first = call.first
    BY <1>3, <2>2, <2>3 DEF CallRecord
  <2>6. Drop(c, FALSE) \/ Leave(c, Good(c), cn)
    <3>1. CASE c.op = "put" /\ ~c.first
      BY <2>1, <2>4, <2>5, <3>1 DEF Responded
    <3>2. CASE ~(c.op = "put" /\ ~c.first)
      <4>1. ~(c.op = "put" /\ c.first /\ c.code = 100) /\ ~(c.op = "get" /\ c.code = 200)
        BY <2>4, <2>5
      <4>2. Discard(c, cn)
        BY <2>1, <3>2, <4>1 DEF Responded
      <4>3. ~(c.clength > 0)
        BY <2>4, <2>5
      <4>4. QED
        BY <4>2, <4>3 DEF Discard
    <3>3. QED
      BY <3>1, <3>2
  <2>7. Good(c) \in BOOLEAN
    BY <1>3, <2>5, GoodFacts
  <2>8. QED
    BY <1>1, <1>5, <2>4, <2>5, <2>6, <2>7, DropWhole, LeaveWhole
<1>7. CASE IsStatus(g.line)
  <2> DEFINE c == [w EXCEPT !.pc = "fields", !.code = g.line.n, !.of = g.line.of, !.clength = 0]
  <2>1. Goes(c, cn)
    BY <1>2, <1>7 DEF IsStatus, cn, w
  <2>2. /\ c.op = call.op /\ c.req = call.req /\ c.saved = call.saved /\ c.cut = w.cut
        /\ c.pc = "fields" /\ c.code = g.line.n /\ c.clength = 0
    BY <1>5 DEF CallRecord, Same
  <2> HIDE DEF c
  <2>3. ASSUME ~cn.stale, Brings(c) PROVE Begun(c, cn, log) /\ c.code # 0
    <3>1. ~conn.stale /\ ~g.cut /\ Brings(call)
      BY <1>5, <2>2, <2>3 DEF Brings
    <3>2. call.code = 0
      BY <1>1, <1>3, <3>1 DEF Running, Place, Brings
    <3>3. NotBegun(call, conn, log)
      BY <1>1, <3>1, <3>2 DEF WholeInv, Data
    <3>4. Len(conn.down) > 0 /\ IsStatus(conn.down[1]) /\ g.line = conn.down[1] /\ 1 \in 1 .. Len(conn.down)
      BY <1>4, <1>7, <3>1 DEF GetsGood
    <3>5. log.answer.req = call.req
      BY <3>3, <3>4 DEF NotBegun
    <3>6. PICK y \in Seq(Token), h \in Nat : IsWhole(y, call.req, f, m, h) /\ Stream(conn.down, 1 - 1, y, 0)
      BY <3>3, <3>4 DEF NotBegun
    <3>7. Stream(conn.down, 0, y, 0)
      BY <3>6
    <3>8. y[0 + 1] = conn.down[1]
      <4>1. 1 \in 1 .. Len(conn.down) - 0
        BY <3>4
      <4>2. conn.down[0 + 1] = y[0 + 1]
        BY <3>7, <4>1 DEF Stream
      <4>3. QED
        BY <4>2
    <3>9. IsLine(y[0 + 1])
      BY <3>4, <3>8 DEF IsLine, IsStatus
    <3>10. Stream(g.down, 0, y, 0 + 1)
      BY <1>4, <3>1, <3>7, <3>9, 0 \in Nat, StreamGets
    <3>11. c.saved = <<>>
      BY <2>2, <3>3 DEF NotBegun
    <3>12. Position(c, f, m, h, 1)
      BY <2>2, <3>6, <3>11 DEF Position, IsWhole
    <3>13. c.code # 0
      BY <1>3, <2>2, <3>4 DEF Codes
    <3>14. Stream(cn.down, 0, y, 1) /\ 1 \in Nat
      BY <1>5, <3>10
    <3>15. QED
      BY <2>2, <3>5, <3>6, <3>12, <3>13, <3>14 DEF Begun
  <2>4. ~cn.stale => Data(c, cn, log)
    BY <2>3 DEF Data
  <2>5. QED
    BY <1>1, <2>1, <2>2, <2>4, GoesWhole
<1>8. QED
  BY <1>6, <1>7

\* A PUT brings nothing.
LEMMA PutWhole ==
  ASSUME Safe, WaitsForContinue \/ SendContents
  PROVE  WholeInv'
<1>1. call.pc \in {"wait", "send"} /\ log' = log
  BY DEF WaitsForContinue, SendContents
<1>2. call \in CallRecord /\ conn \in ConnRecord /\ (~conn.stale => call.op = "put")
  BY <1>1, CallRuns DEF Running, Place
<1>3. ASSUME NEW c, NEW cn, Goes(c, cn), c.pc # "idle", c.op = call.op, cn.stale = conn.stale PROVE WholeInv'
  <2>1. ~cn.stale => Data(c, cn, log)
    BY <1>2, <1>3 DEF Data, Brings
  <2>2. QED
    BY <1>1, <1>3, <2>1, GoesWhole
<1>4. CASE Drop(call, FALSE)
  BY <1>1, <1>2, <1>4, DropWhole
<1>5. CASE WaitsForContinue
  <2> DEFINE b == [call EXCEPT !.pc = "status"]
  <2>1. Goes(b, conn) \/ Drop(call, FALSE)
    BY <1>5 DEF WaitsForContinue
  <2>2. b.pc # "idle" /\ b.op = call.op
    BY <1>2 DEF CallRecord
  <2> HIDE DEF b
  <2>3. QED
    BY <1>3, <1>4, <2>1, <2>2
<1>6. ASSUME NEW n \in 1 .. Piece, call.pc = "send",
             Goes([call EXCEPT !.left = @ - n, !.pc = IF call.left = n THEN "status" ELSE @],
                  [conn EXCEPT !.up = @ \o Units(call.req, call.len - call.left, n)])
      PROVE  WholeInv'
  <2> DEFINE p == IF call.left = n THEN "status" ELSE call.pc
             l == call.left - n
             u == conn.up \o Units(call.req, call.len - call.left, n)
             b == [call EXCEPT !.left = l, !.pc = p]
             cn == [conn EXCEPT !.up = u]
  <2>1. Goes(b, cn)
    BY <1>6
  <2>2. p # "idle"
    BY <1>6
  <2> HIDE DEF p, l, u
  <2>3. b.pc # "idle" /\ b.op = call.op
    BY <1>2, <2>2 DEF CallRecord
  <2>4. cn.stale = conn.stale
    BY <1>2 DEF ConnRecord
  <2> HIDE DEF b, cn
  <2>5. QED
    BY <1>3, <2>1, <2>3, <2>4
<1>7. QED
  BY <1>4, <1>5, <1>6 DEF SendContents

\* A call begins with nothing kept.
LEMMA CallWhole ==
  ASSUME Safe, NEW op \in Op, NEW n \in Size, Call(op, n)
  PROVE  WholeInv'
<1> DEFINE r == call.req + 1
           cn == IF conn.open THEN conn ELSE NewConn
           p == IF op = "put" THEN "wait" ELSE "status"
           u == cn.up \o <<Request(op, r, n)>> \o (IF op = "cmd" THEN Units(r, 0, n) ELSE <<>>)
           dn == [cn EXCEPT !.up = u]
           late == cn.stale
           first == op = "put"
           c0 == [NoCall EXCEPT !.op = op, !.req = r, !.len = n, !.late = late, !.first = first]
           c == [c0 EXCEPT !.pc = p]
<1>1. call.pc = "idle" /\ log' = log /\ n \in Nat /\ r \in Nat
  BY HttpClientAssumption, ConnTyped DEF Call, CallRecord
<1>2. Goes(c, dn) \/ Drop(c0, FALSE)
  BY DEF Call
<1>3. cn \in ConnRecord /\ (~cn.stale => NoStatus(cn.down))
  <2>1. NewConn \in ConnRecord /\ NewConn.down = <<>>
    BY EmptyRecords DEF NewConn, ConnRecord
  <2>2. conn \in ConnRecord /\ (~conn.stale => NoStatus(conn.down))
    BY <1>1 DEF Safe, ClientTypeOK, IInv, Quiet
  <2>3. QED
    BY <2>1, <2>2 DEF NoStatus
<1>4. late \in BOOLEAN /\ first \in BOOLEAN
  BY <1>3 DEF ConnRecord
<1>5. p \in Pc /\ p # "idle"
  BY DEF Pc
<1> HIDE DEF r, cn, p, u, late, first
<1>6. dn.down = cn.down /\ dn.stale = cn.stale
  BY <1>3 DEF ConnRecord
<1>7. c0 \in CallRecord /\ c0.saved = <<>> /\ c0.code = 0
  <2>1. NoCall \in CallRecord /\ NoCall.saved = <<>> /\ NoCall.code = 0
    BY EmptyRecords DEF NoCall
  <2>2. op \in Op \cup {"none"} /\ n \in Nat /\ r \in Nat
    BY <1>1
  <2>3. QED
    BY <1>4, <2>1, <2>2 DEF CallRecord
<1> HIDE DEF c0, dn
<1>8. c.saved = <<>> /\ c.code = 0 /\ c.pc = p
  BY <1>7 DEF CallRecord
<1> HIDE DEF c
<1>9. CASE Goes(c, dn)
  <2>1. ASSUME ~dn.stale PROVE Data(c, dn, log)
    <3>1. NotBegun(c, dn, log)
      BY <1>3, <1>6, <1>8, <2>1 DEF NotBegun, NoStatus
    <3>2. QED
      BY <1>8, <3>1 DEF Data
  <2>2. QED
    BY <1>1, <1>5, <1>8, <1>9, <2>1, GoesWhole
<1>10. CASE Drop(c0, FALSE)
  BY <1>1, <1>7, <1>10, DropWhole
<1>11. QED
  BY <1>2, <1>9, <1>10

\* The server.
LEMMA ServerWhole ==
  ASSUME WholeInv, UNCHANGED <<call, done>>, conn'.stale = conn.stale,
         Quiet(conn) => Quiet(conn') /\ log' = log,
         call.pc # "idle" /\ ~conn.stale => Data(call, conn', log')
  PROVE  WholeInv'
<1>1. CASE call.pc = "idle"
  <2>1. Brought(done, conn, log)
    BY <1>1 DEF WholeInv
  <2>2. Brought(done, conn', log')
    BY <2>1 DEF Brought
  <2>3. QED
    BY <1>1, <2>2 DEF WholeInv
<1>2. CASE call.pc # "idle"
  BY <1>2 DEF WholeInv
<1>3. QED
  BY <1>1, <1>2

\* A server that reads or takes is not done, and says nothing.
LEMMA ServerReadsWhole ==
  ASSUME Safe, WholeInv, ServerTakes \/ ServerReads \/ ServerContinues
  PROVE  WholeInv'
<1>1. UNCHANGED <<call, done, log>> /\ ~conn.closed
  BY DEF ServerTakes, ServerReads, ServerContinues, Serves
<1>2. conn'.stale = conn.stale
  BY ConnTyped DEF ServerTakes, ServerReads, ServerContinues, ConnRecord
<1>3. ~Quiet(conn)
  <2>1. conn.up # <<>> \/ conn.srv.op # "none"
    BY DEF ServerTakes, ServerReads, ServerContinues
  <2>2. QED
    BY <1>1, <2>1 DEF Quiet
<1>4. ASSUME call.pc # "idle", ~conn.stale PROVE Data(call, conn', log)
  <2>1. Data(call, conn, log)
    BY <1>4 DEF WholeInv
  <2>2. CASE ServerTakes \/ ServerReads
    <3>1. conn'.down = conn.down
      BY <2>2, ConnTyped DEF ServerTakes, ServerReads, ConnRecord
    <3>2. QED
      BY <2>1, <3>1 DEF Data, NotBegun, Begun
  <2>3. CASE ServerContinues
    <3>1. conn.srv.op = "put"
      BY <2>3 DEF ServerContinues
    <3>2. call.op = "put"
      BY <1>4, <3>1, CallRuns DEF Running, Coming
    <3>3. QED
      BY <3>2 DEF Data, Brings
  <2>4. QED
    BY <2>2, <2>3
<1>5. QED
  BY <1>1, <1>2, <1>3, <1>4, ServerWhole

\* The server goes away: the last of what it said may be lost.
LEMMA ServerDiesWhole ==
  ASSUME Safe, WholeInv, ServerDies
  PROVE  WholeInv'
<1>1. PICK m \in 0 .. Len(conn.down) :
        conn' = [conn EXCEPT !.closed = TRUE, !.srv = Idle, !.down = SubSeq(@, 1, m)]
  BY DEF ServerDies
<1>2. UNCHANGED <<call, done, log>>
  BY DEF ServerDies
<1> DEFINE d == SubSeq(conn.down, 1, m)
           z == Idle
<1>3. d \in Seq(Token) /\ Len(d) = m /\ \A i \in 1 .. m : d[i] = conn.down[i]
  BY ConnTyped, PrefixSeq
<1>4. conn' = [conn EXCEPT !.closed = TRUE, !.srv = z, !.down = d]
  BY <1>1
<1> HIDE DEF d, z
<1>5. conn'.stale = conn.stale /\ conn'.closed /\ conn'.srv = z /\ conn'.down = d
  BY <1>4, ConnTyped DEF ConnRecord
<1>6. conn.down \in Seq(Token) /\ Len(conn.down) \in Nat
  BY ConnTyped
<1>7. ASSUME NEW p \in Int, NEW y, NEW k, 0 <= p, Stream(conn.down, p, y, k) PROVE Stream(d, p, y, k)
  <2>1. \A i \in 1 .. m - p : d[p + i] = conn.down[p + i] /\ i \in 1 .. Len(conn.down) - p
    BY <1>3, <1>6, <1>7
  <2>2. QED
    BY <1>3, <1>7, <2>1 DEF Stream
<1>8. Quiet(conn) => Quiet(conn')
  <2>1. NoStatus(conn.down) => NoStatus(d)
    BY <1>3, <1>6 DEF NoStatus
  <2>2. conn'.srv.op = "none"
    BY <1>5, EmptyRecords DEF z
  <2>3. QED
    BY <1>5, <2>1, <2>2 DEF Quiet
<1>9. ASSUME Data(call, conn, log) PROVE Data(call, conn', log)
  <2>1. ASSUME NotBegun(call, conn, log) PROVE NotBegun(call, conn', log)
    <3>1. ASSUME NEW p \in 1 .. Len(d), IsStatus(d[p])
          PROVE  /\ log.answer.req = call.req
                 /\ \E y \in Seq(Token), h \in Nat :
                      /\ IsWhole(y, call.req, log.answer.op, log.answer.len, h)
                      /\ Stream(d, p - 1, y, 0)
      <4>1. p \in 1 .. Len(conn.down) /\ IsStatus(conn.down[p]) /\ p - 1 \in Int /\ 0 <= p - 1
        BY <1>3, <1>6, <3>1
      <4>2. PICK y \in Seq(Token), h \in Nat :
              /\ IsWhole(y, call.req, log.answer.op, log.answer.len, h)
              /\ Stream(conn.down, p - 1, y, 0)
        BY <2>1, <4>1 DEF NotBegun
      <4>3. Stream(d, p - 1, y, 0)
        BY <1>7, <4>1, <4>2
      <4>4. log.answer.req = call.req
        BY <2>1, <4>1 DEF NotBegun
      <4>5. QED
        BY <4>2, <4>3, <4>4
    <3>2. QED
      BY <1>5, <2>1, <3>1 DEF NotBegun
  <2>2. ASSUME Begun(call, conn, log) PROVE Begun(call, conn', log)
    <3>1. PICK y \in Seq(Token), h \in Nat, k \in Nat :
            /\ IsWhole(y, call.req, log.answer.op, log.answer.len, h)
            /\ Stream(conn.down, 0, y, k)
            /\ Position(call, log.answer.op, log.answer.len, h, k)
      BY <2>2 DEF Begun
    <3>2. Stream(d, 0, y, k)
      BY <1>7, <3>1
    <3>3. QED
      BY <1>5, <2>2, <3>1, <3>2 DEF Begun
  <2>3. QED
    BY <1>9, <2>1, <2>2 DEF Data
<1>10. call.pc # "idle" /\ ~conn.stale => Data(call, conn', log)
  BY <1>9 DEF WholeInv
<1>11. QED
  BY <1>2, <1>5, <1>8, <1>10, ServerWhole

\* What the server says is an answer.
LEMMA ReplyWhole ==
  ASSUME NEW op, op # "head", NEW r, NEW code, NEW f, NEW n, NEW close, Args(r, code, f, n, close),
         NEW y, IsReply(y, op, r, code, f, n, close), f = "close" => close
  PROVE  IsWhole(y, r, f, n, HeaderLen(f, close)) /\ HeaderLen(f, close) \in Nat
<1> DEFINE h == HeaderLen(f, close)
           a == Answer(r, code, f, n, close)
           b == Body(r, f, n)
<1>1. r \in Nat /\ n \in Nat /\ f \in {"length", "chunks", "close"} /\ close \in BOOLEAN
  BY DEF Args
<1>2. h = 2 + (IF f = "close" THEN 0 ELSE 1) + (IF close THEN 1 ELSE 0)
  BY DEF HeaderLen
<1>3. h \in Nat /\ h >= 2 /\ (h = 2 => f = "close")
  BY <1>1, <1>2
<1>4. IsAnswer(a, r, code, f, n, close)
  BY AnswerSeq DEF Args
<1>5. IsBody(b, r, f, n)
  BY <1>1, BodySeq
<1>6. /\ \A i \in 1 .. h : y[i] = a[i]
      /\ \A i \in 1 .. BodyLen(f, n) : y[h + i] = b[i]
  BY DEF IsReply
<1>7. /\ Len(a) = h
      /\ f = "length" => a[2] = [Line("length") EXCEPT !.n = n]
      /\ f = "chunks" => a[2] = Line("chunked")
      /\ close => a[Len(a) - 1] = Line("close")
      /\ a[Len(a)] = Line("end")
  BY <1>4 DEF IsAnswer
<1> HIDE DEF h, a, b
<1>8. ASSUME NEW k \in 1 .. h - 1 PROVE HeaderLine(y[k + 1], k, f, n, h)
  <2>1. y[k + 1] = a[k + 1]
    BY <1>3, <1>6
  <2>2. CASE k + 1 = h
    <3>1. y[k + 1].k = "end"
      BY <1>7, <2>1, <2>2 DEF Line
    <3>2. QED
      BY <2>2, <3>1, <1>3 DEF HeaderLine
  <2>3. CASE k + 1 # h /\ k = 1 /\ f = "length"
    <3>1. y[k + 1].k = "length" /\ y[k + 1].n = n
      BY <1>7, <2>1, <2>3 DEF Line
    <3>2. QED
      BY <2>3, <3>1 DEF HeaderLine
  <2>4. CASE k + 1 # h /\ k = 1 /\ f = "chunks"
    <3>1. y[k + 1].k = "chunked"
      BY <1>7, <2>1, <2>4 DEF Line
    <3>2. QED
      BY <2>4, <3>1 DEF HeaderLine
  <2>5. CASE k + 1 # h /\ (k > 1 \/ f = "close")
    <3>1. close /\ k + 1 = h - 1
      BY <1>1, <1>2, <2>5
    <3>2. y[k + 1].k = "close"
      BY <1>7, <2>1, <3>1 DEF Line
    <3>3. QED
      BY <2>5, <3>2 DEF HeaderLine
  <2>6. k = 1 \/ k > 1
    OBVIOUS
  <2>7. QED
    BY <1>1, <2>2, <2>3, <2>4, <2>5, <2>6
<1>9. ASSUME f = "length", NEW i \in 1 .. n PROVE y[h + i] = Unit(r, i)
  <2>1. b = Units(r, 0, n) /\ i \in 1 .. BodyLen(f, n)
    BY <1>5, <1>9 DEF IsBody, BodyLen
  <2>2. Units(r, 0, n)[i] = Unit(r, 0 + i)
    BY <1>1, UnitsSeq, 0 \in Int
  <2>3. QED
    BY <1>6, <2>1, <2>2
<1>10. ASSUME f = "chunks"
       PROVE  /\ \A j \in Nat : j < n => /\ y[h + 3 * j + 1].k = "size" /\ y[h + 3 * j + 1].n = 1
                                         /\ y[h + 3 * j + 2] = Unit(r, j + 1)
                                         /\ y[h + 3 * j + 3].k = "crlf"
              /\ y[h + 3 * n + 1].k = "size" /\ y[h + 3 * n + 1].n = 0
              /\ y[h + 3 * n + 2].k = "crlf"
  <2>1. /\ \A i \in 1 .. 3 * n : b[i] = ChunkPart(r, i)
        /\ b[3 * n + 1] = Line("size") /\ b[3 * n + 2] = Line("crlf")
    BY <1>5, <1>10 DEF IsBody
  <2>2. \A i \in 1 .. 3 * n + 2 : y[h + i] = b[i]
    BY <1>6, <1>10 DEF BodyLen
  <2>3. ASSUME NEW j \in Nat, j < n
        PROVE  /\ y[h + 3 * j + 1].k = "size" /\ y[h + 3 * j + 1].n = 1
               /\ y[h + 3 * j + 2] = Unit(r, j + 1)
               /\ y[h + 3 * j + 3].k = "crlf"
    <3>1. /\ 3 * j + 1 \in 1 .. 3 * n /\ 3 * j + 2 \in 1 .. 3 * n /\ 3 * j + 3 \in 1 .. 3 * n
          /\ 3 * j + 1 \in 1 .. 3 * n + 2 /\ 3 * j + 2 \in 1 .. 3 * n + 2 /\ 3 * j + 3 \in 1 .. 3 * n + 2
      BY <1>1, <2>3
    <3>2. /\ y[h + (3 * j + 1)] = ChunkPart(r, 3 * j + 1)
          /\ y[h + (3 * j + 2)] = ChunkPart(r, 3 * j + 2)
          /\ y[h + (3 * j + 3)] = ChunkPart(r, 3 * j + 3)
      BY <2>1, <2>2, <3>1
    <3>3. /\ h + (3 * j + 1) = h + 3 * j + 1 /\ h + (3 * j + 2) = h + 3 * j + 2
          /\ h + (3 * j + 3) = h + 3 * j + 3
      BY <1>3
    <3>4. (3 * j + 1) % 3 = 1 /\ (3 * j + 2) % 3 = 2 /\ (3 * j + 3) % 3 = 0 /\ ((3 * j + 2) + 1) \div 3 = j + 1
      OBVIOUS
    <3>5. ChunkPart(r, 3 * j + 1).k = "size" /\ ChunkPart(r, 3 * j + 1).n = 1
      BY <3>4 DEF ChunkPart, Line
    <3>6. ChunkPart(r, 3 * j + 2) = Unit(r, j + 1)
      BY <3>4 DEF ChunkPart
    <3>7. ChunkPart(r, 3 * j + 3).k = "crlf"
      BY <3>4 DEF ChunkPart, Line
    <3>8. QED
      BY <3>2, <3>3, <3>5, <3>6, <3>7
  <2>4. /\ 3 * n + 1 \in 1 .. 3 * n + 2 /\ 3 * n + 2 \in 1 .. 3 * n + 2
        /\ h + (3 * n + 1) = h + 3 * n + 1 /\ h + (3 * n + 2) = h + 3 * n + 2
    BY <1>1, <1>3
  <2>5. y[h + 3 * n + 1] = Line("size") /\ y[h + 3 * n + 2] = Line("crlf")
    <3>1. y[h + (3 * n + 1)] = b[3 * n + 1] /\ y[h + (3 * n + 2)] = b[3 * n + 2]
      BY <2>2, <2>4
    <3>2. QED
      BY <2>1, <2>4, <3>1
  <2>6. Line("size").k = "size" /\ Line("size").n = 0 /\ Line("crlf").k = "crlf"
    BY DEF Line
  <2>7. QED
    BY <2>3, <2>5, <2>6
<1>11. IsWhole(y, r, f, n, h)
  BY <1>1, <1>3, <1>8, <1>9, <1>10 DEF IsWhole
<1>12. QED
  BY <1>3, <1>11 DEF h

\* The server answers.
LEMMA ServerAnswersWhole ==
  ASSUME Safe, WholeInv, ServerAnswers
  PROVE  WholeInv'
<1>1. ~conn.closed /\ conn.srv.op # "none" /\ UNCHANGED <<opt, call, done>>
  BY AnswersFacts
<1>2. PICK framing, n, close, code : Answers(framing, n, close, code)
  BY AnswersFacts
<1> DEFINE r == conn.srv.req
           o == conn.srv.op
           y == Reply(o, r, code, framing, n, close)
           x == conn.down
           d == x \o y
           cn == Said(conn, Idle, close, d)
           a == [conn.srv EXCEPT !.op = framing, !.len = n]
           stored == code = 201
           lg == [log EXCEPT !.answer = a, !.stored = stored]
           h == HeaderLen(framing, close)
<1>3. /\ conn' = cn /\ log' = lg
      /\ framing \in {"length", "chunks", "close"} /\ n \in Nat /\ close \in BOOLEAN
      /\ code \in {200, 201, 404} /\ (framing = "close" => close)
  BY <1>2, HttpClientAssumption DEF Answers
<1>4. a.req = r /\ a.op = framing /\ a.len = n
  BY ConnTyped
<1>5. r \in Nat /\ code \in Code \ {0}
  BY <1>3, ConnTyped DEF Code
<1>6. y = Reply(o, r, code, framing, n, close) /\ x \in Seq(Token)
  BY ConnTyped
<1>7. d = x \o y
  OBVIOUS
<1> HIDE DEF y, x, a
<1>8. lg.answer = a
  BY ConnTyped DEF LogRecord
<1> HIDE DEF stored, lg
<1> HIDE DEF d
<1>9. cn.stale = conn.stale /\ cn.down = d
  BY ConnTyped DEF Said, ConnRecord
<1> HIDE DEF cn, r, o
<1>10. IsReply(y, o, r, code, framing, n, close) /\ Args(r, code, framing, n, close)
  <2>1. Args(r, code, framing, n, close)
    BY <1>3, <1>5 DEF Args
  <2>2. QED
    BY <1>6, <2>1, ReplySeq, Zenon
<1>11. OneStatus(y) /\ y \in Seq(Token)
  BY <1>10 DEF IsReply, OneStatus
<1>12. Follows(d, x, y)
  BY <1>6, <1>7, <1>11, DownFacts
<1>13. ~Quiet(conn)
  BY <1>1 DEF Quiet
<1>14. ASSUME call.pc # "idle", ~conn.stale PROVE Data(call, cn, lg)
  <2>1. Data(call, conn, log) /\ Running(call, conn, log)
    BY <1>14, CallRuns DEF WholeInv
  <2>2. SUFFICES ASSUME Brings(call) PROVE call.code = 0 /\ NotBegun(call, cn, lg)
    BY DEF Data
  <2>3. o = call.op /\ r = call.req
    BY <1>1, <2>1 DEF Running, Coming, o, r
  <2>4. call.code = 0
    <3>1. ~Final(call)
      BY <1>13, <2>1 DEF Running, Coming
    <3>2. call.code # 100
      BY <2>1, <2>2, ConnTyped DEF Running, Place, Brings, CallRecord, Pc
    <3>3. QED
      BY <2>2, <3>1, <3>2 DEF Final, Brings
  <2>5. call.saved = <<>>
    BY <2>1, <2>2, <2>4 DEF Data, NotBegun
  <2>6. NoStatus(x)
    <3>1. ASSUME NEW i \in 1 .. Len(x), IsStatus(x[i]) PROVE FALSE
      <4>1. x[i].n = 100
        BY <1>1, <2>1, <3>1 DEF Running, Coming, x
      <4>2. call.op = "put"
        BY <2>1, <3>1, <4>1 DEF Running, Coming, x
      <4>3. QED
        BY <2>2, <4>2 DEF Brings
    <3>2. QED
      BY <3>1 DEF NoStatus
  <2>7. IsWhole(y, call.req, framing, n, h) /\ h \in Nat
    <3>1. o # "head"
      BY <2>2, <2>3 DEF Brings
    <3>2. IsWhole(y, r, framing, n, h) /\ h \in Nat
      BY <1>3, <1>10, <3>1, ReplyWhole
    <3>3. QED
      BY <2>3, <3>2
  <2> HIDE DEF h
  <2>8. Stream(d, Len(x), y, 0)
    <3>1. /\ Len(d) = Len(x) + Len(y)
          /\ \A i \in 1 .. Len(x) + Len(y) : d[i] = IF i <= Len(x) THEN x[i] ELSE y[i - Len(x)]
      BY <1>6, <1>7, <1>11, ConcatProperties
    <3>2. Len(x) \in Nat /\ Len(y) \in Nat
      BY <1>6, <1>11
    <3>3. ASSUME NEW i \in 1 .. Len(d) - Len(x) PROVE d[Len(x) + i] = y[0 + i]
      <4>1. Len(x) + i \in 1 .. Len(x) + Len(y) /\ ~(Len(x) + i <= Len(x)) /\ (Len(x) + i) - Len(x) = 0 + i
        BY <3>1, <3>2
      <4>2. QED
        BY <3>1, <4>1
    <3>4. QED
      BY <3>3 DEF Stream
  <2>9. ASSUME NEW p \in 1 .. Len(d), IsStatus(d[p])
        PROVE  /\ lg.answer.req = call.req
               /\ \E z \in Seq(Token), k \in Nat :
                    /\ IsWhole(z, call.req, lg.answer.op, lg.answer.len, k)
                    /\ Stream(d, p - 1, z, 0)
    <3>1. p = Len(x) + 1
      BY <1>12, <2>6, <2>9 DEF Follows, NoStatus
    <3>2. p - 1 = Len(x)
      BY <1>6, <3>1
    <3>3. Stream(d, p - 1, y, 0)
      BY <2>8, <3>2
    <3>4. QED
      BY <1>4, <1>8, <1>11, <2>3, <2>7, <3>3
  <2>10. NotBegun(call, cn, lg)
    BY <1>9, <2>5, <2>9 DEF NotBegun
  <2>11. QED
    BY <2>4, <2>10
<1>15. QED
  BY <1>1, <1>3, <1>9, <1>13, <1>14, ServerWhole

\* No call has been made.
LEMMA InitWhole ==
  ASSUME ClientInit
  PROVE  WholeInv
<1>1. call.pc = "idle" /\ ~done.ok
  BY EmptyRecords DEF ClientInit
<1>2. QED
  BY <1>1 DEF WholeInv, Brought

\* Every step keeps WholeInv in a state that is Safe.
LEMMA NextWhole ==
  ASSUME Safe, WholeInv, ClientNext
  PROVE  WholeInv'
<1>1. ASSUME NEW op \in {"head", "get", "put", "cmd"}, NEW n \in Size, Call(op, n) PROVE WholeInv'
  BY <1>1, CallWhole DEF Op
<1>2. CASE Runs
  BY <1>2, PutWhole, ReadStatusWhole, ReadFieldWhole, ReadContentsWhole, ThrowOutWhole, ReceiveWhole,
     ReceiveFailsWhole, ReadSizeWhole, ReadTailWhole DEF Runs
<1>3. CASE ServerTakes \/ ServerContinues \/ ServerReads \/ ServerAnswers \/ ServerDies
  BY <1>3, ServerReadsWhole, ServerAnswersWhole, ServerDiesWhole
<1>4. QED
  BY <1>1, <1>2, <1>3 DEF ClientNext

\* So does a step that changes nothing.
LEMMA StutterWhole ==
  ASSUME WholeInv, UNCHANGED clientVars
  PROVE  WholeInv'
<1>1. conn' = conn /\ call' = call /\ done' = done /\ log' = log
  BY DEF clientVars
<1>2. QED
  BY <1>1 DEF WholeInv

\* WholeInv is an invariant of the specification.
LEMMA WholeCorrect == ClientSpec => []WholeInv
<1>1. ClientInit => WholeInv
  BY InitWhole
<1>2. Safe /\ WholeInv /\ [ClientNext]_clientVars => WholeInv'
  BY NextWhole, StutterWhole
<1>3. QED
  BY <1>1, <1>2, SafeCorrect, PTL DEF ClientSpec

\* A call that says it succeeded tells the truth: a GET or a command that was
\* answered has kept the contents of the answer to its own request, all of them
\* and in order, in whatever pieces they came, and a PUT that returns TRUE was
\* stored, unless an earlier call had left an answer due or a line was cut off.
\* An answer that lasts until the connection closes is not read, and a command
\* reads no chunks (qhttpclient.c, the reading of a length and of chunks).
THEOREM ResultTrueCorrect == ClientSpec => []ResultTrue
<1>1. Safe /\ WholeInv => ResultTrue
  <2>1. SUFFICES ASSUME Safe, WholeInv PROVE ResultTrue
    OBVIOUS
  <2>2. CASE call.pc = "idle"
    <3>1. Brought(done, conn, log) /\ Ended(done, conn, log)
      BY <2>1, <2>2 DEF Safe, IInv, WholeInv
    <3>2. SavedWhole
      BY <3>1 DEF SavedWhole, Brought, Brings, Whole
    <3>3. PutStored
      BY <3>1 DEF PutStored, Ended
    <3>4. QED
      BY <3>2, <3>3 DEF ResultTrue
  <2>3. CASE call.pc # "idle"
    <3>1. ~done.ok
      BY <2>1, <2>3, EmptyRecords DEF Safe, IInv
    <3>2. QED
      BY <3>1 DEF ResultTrue, SavedWhole, PutStored
  <2>4. QED
    BY <2>2, <2>3
<1>2. QED
  BY <1>1, SafeCorrect, WholeCorrect, PTL
====
