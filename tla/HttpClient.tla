----------------------------- MODULE HttpClient -----------------------------
(***************************************************************************)
(* qhttpclient: HEAD, GET, PUT and other requests over a connection that   *)
(* may be kept, to a server that answers properly, may be late and may die *)
(* at any point.  What is on the connection are lines, and units of data.  *)
(* The connection is plain HTTP: over TLS contents that nobody wants are   *)
(* read and thrown away, where here the read of them fails.                *)
(***************************************************************************)
EXTENDS Integers, Sequences, SequencesExt

CONSTANTS
  Size,     \* of what is sent and answered, in units
  Piece,    \* MAX_ATOMIC_DATA_SIZE
  MaxCalls  \* bound: calls

ASSUME HttpClientAssumption == Size \subseteq Nat /\ Piece \in Nat \ {0} /\ MaxCalls \in Nat

VARIABLES
  opt,   \* keepalive, and whether there is a timeout
  conn,  \* the connection: what is under way, and the server at its other end
  call,  \* the call that is running
  done,  \* the last call that returned
  log    \* history: how the last request that was answered was

clientVars == <<opt, conn, call, done, log>>

Line(k) == [k |-> k, of |-> 0, n |-> 0]
Request(op, r, n) == [k |-> op, of |-> r, n |-> n]
Status(r, code) == [k |-> "status", of |-> r, n |-> code]
Unit(r, i) == [k |-> "data", of |-> r, n |-> i]
Units(r, from, n) == [i \in 1 .. n |-> Unit(r, from + i)]
Garbage == Line("garbage")
Nothing == Line("nothing")

Idle == [op |-> "none", req |-> 0, len |-> 0, told |-> FALSE]

\* History: stale, an answer or a part of one may still come; confused, the
\* server took contents for a request or the other way round.
NoConn == [open |-> FALSE, closed |-> FALSE, connclose |-> FALSE, stale |-> FALSE, confused |-> FALSE,
           up |-> <<>>, down |-> <<>>, srv |-> Idle]
NewConn == [NoConn EXCEPT !.open = TRUE]

\* first: a PUT that waits for "100 continue"; left: of a piece or a chunk.
\* History: of is the request whose status line was read, cut says that the
\* answer was not there in time, late that the connection was stale before.
NoCall == [op |-> "none", req |-> 0, len |-> 0, pc |-> "idle", first |-> FALSE,
           code |-> 0, of |-> 0, clength |-> 0, left |-> 0, saved |-> <<>>,
           cut |-> FALSE, late |-> FALSE, ok |-> FALSE]

ClientInit ==
  /\ opt \in [keepalive : BOOLEAN, timeout : BOOLEAN]
  /\ conn = NoConn /\ call = NoCall /\ done = NoCall
  /\ log = [answer |-> Idle, stored |-> FALSE]

-----------------------------------------------------------------------------
(* The server, which is not part of the code *)

Serves == conn.open /\ ~conn.closed

ServerTakes ==
  /\ Serves /\ conn.srv.op = "none" /\ conn.up # <<>>
  /\ LET t == Head(conn.up) IN
     /\ conn' = [conn EXCEPT !.up = Tail(@), !.confused = @ \/ t.k = "data",
          !.srv = IF t.k = "data" THEN @ ELSE [op |-> t.k, req |-> t.of, len |-> t.n, told |-> t.k # "put"]]
  /\ UNCHANGED <<opt, call, done, log>>

ServerContinues ==
  /\ Serves /\ conn.srv.op = "put" /\ ~conn.srv.told
  /\ conn' = [conn EXCEPT !.srv.told = TRUE,
                          !.down = @ \o <<Status(conn.srv.req, 100), Line("end")>>]
  /\ UNCHANGED <<opt, call, done, log>>

ServerReads ==
  /\ Serves /\ conn.srv.told /\ conn.srv.len > 0 /\ conn.up # <<>>
  /\ conn' = [conn EXCEPT !.up = Tail(@), !.srv.len = @ - 1,
                          !.confused = @ \/ Head(conn.up).k # "data"]
  /\ UNCHANGED <<opt, call, done, log>>

\* A length, chunks, or all until the connection is closed.
Answer(r, code, framing, n, close) ==
  <<Status(r, code)>>
  \o (CASE framing = "length" -> <<[Line("length") EXCEPT !.n = n]>>
        [] framing = "chunks" -> <<Line("chunked")>>
        [] framing = "close" -> <<>>)
  \o (IF close THEN <<Line("close")>> ELSE <<>>)
  \o <<Line("end")>>

\* A chunk is a size, the unit and the end of a line.
ChunkPart(r, i) == CASE i % 3 = 1 -> [Line("size") EXCEPT !.n = 1]
                     [] i % 3 = 2 -> Unit(r, (i + 1) \div 3)
                     [] i % 3 = 0 -> Line("crlf")

Body(r, framing, n) ==
  IF framing # "chunks" THEN Units(r, 0, n)
  ELSE [i \in 1 .. 3 * n |-> ChunkPart(r, i)] \o <<Line("size"), Line("crlf")>>

\* A PUT is answered before its contents if it is refused.
ServerAnswers ==
  /\ Serves /\ conn.srv.op # "none"
  /\ LET s == conn.srv  taken == s.told /\ s.len = 0 IN
     /\ taken \/ (s.op = "put" /\ ~s.told)
     /\ \E framing \in {"length", "chunks", "close"}, n \in Size, close \in BOOLEAN,
           code \in {404} \cup (IF ~taken THEN {} ELSE IF s.op = "put" THEN {201} ELSE {200}) :
          /\ framing = "close" => close
          /\ conn' = [conn EXCEPT !.srv = Idle, !.closed = close,
                        !.down = @ \o Answer(s.req, code, framing, n, close)
                                   \o (IF s.op = "head" THEN <<>> ELSE Body(s.req, framing, n))]
          /\ log' = [log EXCEPT !.answer = [s EXCEPT !.op = framing, !.len = n], !.stored = code = 201]
  /\ UNCHANGED <<opt, call, done>>

\* What was under way may be lost.
ServerDies ==
  /\ Serves
  /\ \E n \in 0 .. Len(conn.down) :
       conn' = [conn EXCEPT !.closed = TRUE, !.srv = Idle, !.down = SubSeq(@, 1, n)]
  /\ UNCHANGED <<opt, call, done, log>>

-----------------------------------------------------------------------------
(* How a call goes on and ends *)

Goes(c, cn) == call' = c /\ conn' = cn /\ done' = NoCall

Return(c, ok, cn) == /\ call' = [NoCall EXCEPT !.req = c.req]
                     /\ done' = [c EXCEPT !.ok = ok, !.pc = "idle"]
                     /\ conn' = cn

\* _close, which reads what comes for a while and is not told apart here.
Drop(c, ok) == Return(c, ok, NoConn)

\* The connection is kept although not all of the answer has been read: a GET,
\* a HEAD, another request, or a PUT that waits for its "100 continue" got no
\* answer; an answer in chunks was not for a GET, or not what it had asked for.
Owes(c) ==
  \/ c.cut
  \/ c.code = 0 /\ (c.op = "put" => c.first)
  \/ c.clength = -1 /\ ~(c.op = "get" /\ c.code = 200)

\* "Close connection if required".
Leave(c, ok, cn) ==
  Return(c, ok, IF ~opt.keepalive \/ cn.connclose THEN NoConn
                ELSE [cn EXCEPT !.stale = @ \/ Owes(c)])

Good(c) == CASE c.op = "head" -> c.code = 200
             [] c.op = "get" -> FALSE
             [] c.op = "put" -> ~c.first /\ c.code = 201
             [] c.op = "cmd" -> TRUE

Discard(c, cn) == IF c.clength > 0 THEN Goes([c EXCEPT !.pc = "read"], cn)
                  ELSE Leave(c, Good(c), cn)

-----------------------------------------------------------------------------
(* Requests *)

\* open and sendrequest, and what a cmd sends with its request: the step is
\* where the last of these writes returns, which nothing promises (-1 for a
\* timeout, on a blocking socket).  A connection that the server has closed
\* looks writable; what is written may be lost.
Call(op, n) ==
  LET r == call.req + 1
      cn == IF conn.open THEN conn ELSE NewConn
      c == [NoCall EXCEPT !.op = op, !.req = r, !.len = n, !.late = cn.stale,
                          !.first = op = "put"]
  IN
  /\ call.pc = "idle" /\ r <= MaxCalls
  /\ op \in {"head", "get"} => n = 0
  /\ \/ Goes([c EXCEPT !.pc = IF op = "put" THEN "wait" ELSE "status"],
             [cn EXCEPT !.up = @ \o <<Request(op, r, n)>> \o (IF op = "cmd" THEN Units(r, 0, n) ELSE <<>>)])
     \/ (~conn.open \/ conn.closed) /\ Drop(c, FALSE)
  /\ UNCHANGED <<opt, log>>

-----------------------------------------------------------------------------
(* Lines *)

\* Time runs out whatever is under way, or nothing will come.
MayFail == opt.timeout \/ (conn.closed /\ conn.down = <<>>)

\* What is left of a line that was read in part.
Rest(t) == IF t.k \in {"end", "crlf"} THEN t ELSE Garbage

Parts(t) ==
  CASE t.k \in {"length", "size"} -> {[t EXCEPT !.n = m] : m \in 0 .. t.n}
    [] t.k = "status" -> {Garbage, [t EXCEPT !.n = 404]}
    [] t.k \in {"end", "crlf"} -> {t}
    [] OTHER -> {Garbage}

IsLine(t) == t.k # "data"

\* gets: a line, with the data before it if there is; or, when time runs out or
\* the server has closed, what has come of it, or nothing.
Gets ==
  LET d == conn.down  i == SelectInSeq(d, IsLine)  data == IF i = 0 THEN Len(d) ELSE i - 1 IN
       (IF i = 0 THEN {}
        ELSE {[line |-> IF i = 1 THEN d[1] ELSE Garbage, down |-> SubSeq(d, i + 1, Len(d)), cut |-> FALSE]})
  \cup (IF ~MayFail THEN {} ELSE {[line |-> Nothing, down |-> d, cut |-> TRUE]})
  \cup (IF ~opt.timeout /\ ~(conn.closed /\ i = 0) THEN {}
        ELSE {[line |-> Garbage, down |-> SubSeq(d, m + 1, Len(d)), cut |-> TRUE] : m \in 1 .. data})
  \cup (IF ~opt.timeout \/ i # 1 THEN {}
        ELSE {[line |-> p, down |-> <<Rest(d[1])>> \o Tail(d), cut |-> TRUE] : p \in Parts(d[1])})

\* The call, and the connection, when a line has been read.
Got(g) == [call EXCEPT !.cut = @ \/ g.cut]
Kept(g) == [conn EXCEPT !.down = g.down]

-----------------------------------------------------------------------------
(* Answers *)

\* The server wants the contents of a PUT.
Continue(c, cn) ==
  \/ Goes([c EXCEPT !.pc = IF c.len > 0 THEN "send" ELSE "status",
                    !.left = c.len, !.first = FALSE], cn)
  \/ Drop(c, FALSE)

\* A GET is to be saved.
Retrieve(c, cn) ==
  \/ Drop(c, FALSE)
  \/ IF c.clength = 0 THEN Leave(c, TRUE, cn)
     ELSE Goes([c EXCEPT !.pc = IF c.clength > 0 THEN "recv" ELSE "size", !.left = c.clength], cn)

\* Mutant of Responded: like every other request, a PUT that got no answer
\* leaves the connection as it is.
RespondedKeeps(c, cn) ==
  CASE c.op = "put" /\ c.first /\ c.code = 100 -> Continue(c, cn)
    [] c.op = "get" /\ c.code = 200 -> Retrieve(c, cn)
    [] OTHER -> Discard(c, cn)

\* The code of the answer and its length are known.
Responded(c, cn) ==
  CASE c.op = "put" /\ c.first /\ c.code = 100 -> Continue(c, cn)
    [] c.op = "put" /\ ~c.first /\ c.code = 0 -> Drop(c, FALSE)
    [] c.op = "get" /\ c.code = 200 -> Retrieve(c, cn)
    [] OTHER -> Discard(c, cn)

WaitsForContinue ==
  /\ call.pc = "wait"
  /\ \/ (conn.down # <<>> \/ conn.closed) /\ Goes([call EXCEPT !.pc = "status"], conn)
     \/ opt.timeout /\ Drop(call, FALSE)
  /\ UNCHANGED <<opt, log>>

ReadStatus ==
  /\ call.pc = "status"
  /\ \E g \in Gets :
       IF g.line.k # "status" THEN Responded([call EXCEPT !.code = 0, !.clength = 0], Kept(g))
       ELSE Goes([Got(g) EXCEPT !.pc = "fields", !.code = g.line.n, !.of = g.line.of, !.clength = 0],
                 Kept(g))
  /\ UNCHANGED <<opt, log>>

\* An answer whose header ends too early is an answer.
ReadField ==
  /\ call.pc = "fields"
  /\ \E g \in Gets :
       LET c == Got(g)  cn == Kept(g) IN
       CASE g.line.k \in {"end", "crlf", "nothing"} -> Responded(c, cn)
         [] g.line.k = "close" -> Goes(c, [cn EXCEPT !.connclose = TRUE])
         [] g.line.k = "length" -> Goes([c EXCEPT !.clength = IF @ = 0 THEN g.line.n ELSE @], cn)
         [] g.line.k = "chunked" -> Goes([c EXCEPT !.clength = IF @ = 0 THEN -1 ELSE @], cn)
         [] OTHER -> Goes(c, cn)
  /\ UNCHANGED <<opt, log>>

\* All at once, for a cmd.
ReadContents ==
  /\ call.pc = "read" /\ call.op = "cmd"
  /\ LET n == call.clength  d == conn.down IN
     \/ /\ Len(d) >= n
        /\ Leave([call EXCEPT !.saved = SubSeq(d, 1, n)], Good(call),
                 [conn EXCEPT !.down = SubSeq(d, n + 1, Len(d))])
     \/ /\ opt.timeout \/ (conn.closed /\ Len(d) < n)
        /\ Drop(call, FALSE)
  /\ UNCHANGED <<opt, log>>

\* "Throw out content": a read into NULL, which fails (EFAULT) as soon as there
\* is something to read.
ThrowOut ==
  /\ call.pc = "read" /\ call.op # "cmd"
  /\ opt.timeout \/ conn.closed \/ conn.down # <<>>
  /\ Drop(call, Good(call))
  /\ UNCHANGED <<opt, log>>

\* recvfile: some of what is there; or the disk is full, or the callback says no.
Receive ==
  /\ call.pc \in {"recv", "chunk"} /\ conn.down # <<>>
  /\ \/ Drop(call, FALSE)
     \/ \E n \in 1 .. Piece :
          LET d == conn.down
              c == [call EXCEPT !.saved = @ \o SubSeq(d, 1, n), !.left = @ - n]
              cn == [conn EXCEPT !.down = SubSeq(d, n + 1, Len(d))]
          IN /\ n <= Len(d) /\ n <= call.left
             /\ IF c.left > 0 THEN Goes(c, cn)
                ELSE IF c.pc = "recv" THEN Leave(c, TRUE, cn)
                ELSE Goes([c EXCEPT !.pc = "tail", !.left = 1], cn)
  /\ UNCHANGED <<opt, log>>

\* Mutant of ReceiveFails: what has come is all there is.
ReceiveFailsWell ==
  /\ call.pc \in {"recv", "chunk"} /\ MayFail
  /\ Leave(call, TRUE, conn)
  /\ UNCHANGED <<opt, log>>

\* Mutant of ReceiveFails: what does not come in time may come later.
ReceiveFailsNot ==
  /\ call.pc \in {"recv", "chunk"} /\ conn.closed /\ conn.down = <<>>
  /\ Drop(call, FALSE)
  /\ UNCHANGED <<opt, log>>

ReceiveFails ==
  /\ call.pc \in {"recv", "chunk"} /\ MayFail
  /\ Drop(call, FALSE)
  /\ UNCHANGED <<opt, log>>

\* A size that cannot be read leaves the variable for it as it was.
ReadSize ==
  /\ call.pc = "size"
  /\ \E g \in Gets :
       IF g.line.k = "nothing" THEN Drop(Got(g), FALSE)
       ELSE \E n \in IF g.line.k = "size" THEN {g.line.n} ELSE Size :
              Goes([Got(g) EXCEPT !.pc = IF n = 0 THEN "tail" ELSE "chunk", !.left = n], Kept(g))
  /\ UNCHANGED <<opt, log>>

\* left is 0 after the last chunk.
ReadTail ==
  /\ call.pc = "tail"
  /\ \E g \in Gets :
       IF g.line.k = "nothing" THEN Drop(Got(g), FALSE)
       ELSE IF call.left = 0 THEN Leave(Got(g), TRUE, Kept(g))
       ELSE Goes([Got(g) EXCEPT !.pc = "size"], Kept(g)) \/ Drop(Got(g), FALSE)
  /\ UNCHANGED <<opt, log>>

\* The file of a PUT, or as much of it as there is.
SendContents ==
  /\ call.pc = "send"
  /\ \/ Drop(call, FALSE)
     \/ \E n \in 1 .. Piece :
          /\ n <= call.left
          /\ Goes([call EXCEPT !.left = @ - n, !.pc = IF call.left = n THEN "status" ELSE @],
                  [conn EXCEPT !.up = @ \o Units(call.req, call.len - call.left, n)])
  /\ UNCHANGED <<opt, log>>

Runs ==
  \/ WaitsForContinue \/ ReadStatus \/ ReadField \/ ReadContents \/ ThrowOut
  \/ Receive \/ ReceiveFails \/ ReadSize \/ ReadTail \/ SendContents

ClientNext ==
  \/ \E op \in {"head", "get", "put", "cmd"}, n \in Size : Call(op, n)
  \/ Runs
  \/ ServerTakes \/ ServerContinues \/ ServerReads \/ ServerAnswers \/ ServerDies

\* A write waits for ever while the server lives and does not read: there is no
\* timeout for it.  The rest of a call goes on.
MayBlock == call.pc = "send" /\ ~conn.closed

ClientSpec == ClientInit /\ [][ClientNext]_clientVars /\ WF_clientVars(~MayBlock /\ Runs)

-----------------------------------------------------------------------------
(* Properties *)

\* Client and server stay in step: an answer is the answer to the request, never
\* one that came late for an earlier call, and the server never takes contents
\* for a request or a request for contents; unless an earlier call had left the
\* connection with an answer due.
AnswerIsOwn ==
  /\ done.of # 0 => done.of = done.req \/ done.late
  /\ conn.confused => conn.stale

\* What a GET saved and a cmd returned is what was answered, whole and in
\* order, unless time ran out or the server died in the middle of a header; a
\* cmd returns nothing of an answer in chunks, and nobody anything of one
\* that lasts until the connection is closed.
SavedWhole ==
  LET a == log.answer IN
  done.ok /\ done.op \in {"get", "cmd"} /\ done.code # 0 /\ ~done.cut /\ ~done.late
    => \/ a.req = done.req /\ done.saved = Units(done.req, 0, a.len)
       \/ a.op = "close"
       \/ done.op = "cmd" /\ a.op = "chunks"

\* A PUT that succeeded was stored, from all of its contents.
PutStored == done.ok /\ done.op = "put" /\ ~done.late => log.answer.req = done.req /\ log.stored

\* A call that succeeds did what it says.
ResultTrue == SavedWhole /\ PutStored

\* With a timeout a call whose request was written returns, whatever the server
\* does, unless it does not take the contents of a PUT.
CallEnds == opt.timeout /\ call.pc # "idle" ~> call.pc = "idle" \/ []MayBlock
=============================================================================
