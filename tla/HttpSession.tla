---------------------------- MODULE HttpSession ----------------------------
(***************************************************************************)
(* One connection: a client that sends requests, and the loop of httpMain  *)
(* that reads, handles and answers them.  The bytes are parts of messages: *)
(* the method with its blank, the rest of the header with the empty line,  *)
(* units of contents, and the lines of a chunked body.  Which file a       *)
(* request is about, and how handling it ends, is nondeterministic (Files  *)
(* has that); what matters here is which bytes are read by whom, and       *)
(* whether the connection goes on.                                         *)
(***************************************************************************)
EXTENDS Integers, Sequences, SequencesExt

CONSTANTS
  Request,    \* the requests a client may send
  MaxReq,     \* bound: requests on the connection, not in the code
  MaxMemory,  \* MAX_HTTP_MEMORY_CONTENTS
  MaxKeepAliveRequests,
  bEnableKeepAlive, bPut \* configuration

\* A request: its method (of which "GET" stands for GET, HEAD and OPTIONS, and
\* "DAV" for the methods that have their contents in memory), the Content-Length
\* or -1, the chunks it is made of or -1, and its headers "Connection: close"
\* and "Expect: 100-continue".
SessionAssumption ==
  /\ \A r \in Request :
       /\ r.meth \in {"GET", "DAV", "PUT", "POST"}
       /\ r.len \in Nat \cup {-1} /\ r.chunks \in Nat \cup {-1}
       /\ r.len = -1 \/ r.chunks = -1
       /\ {r.close, r.expect} \subseteq BOOLEAN
  /\ {MaxReq, MaxMemory, MaxKeepAliveRequests} \subseteq Nat
  /\ {bEnableKeepAlive, bPut} \subseteq BOOLEAN

VARIABLES
  reqs,     \* what the client asked for
  out,      \* what it has not sent of the last request
  eof,      \* it has closed the connection
  wire,     \* what was sent, and not read
  pc,       \* where the child is
  buf,      \* pszRequestBody
  block,    \* nBlockRead
  cur,      \* the request that was parsed from buf; 0 for a bad one
  want,     \* bytes still to be read of contents or a chunk
  saved,    \* what PUT wrote
  res,      \* the response: its code, and its "Connection: Keep-Alive"
  bOut,     \* pRes->bOut
  answers,  \* what the client received
  exit,     \* the child is asked to exit
  refused, piped, late  \* history: requests answered with 403 by PUT; requests
            \* sent before the one ahead of them was answered; a read timed out
            \* while the client was sending

clientVars == <<reqs, out, eof>>
readVars   == <<buf, block, cur, want, saved>>
resVars    == <<res, bOut, answers>>
history    == <<refused, piped, late>>
vars == <<clientVars, wire, pc, readVars, resVars, exit, history>>

Codes == {"none", "ok", "created", "bad", "forbidden", "not allowed",
          "not implemented"}

Token == [req : 1 .. MaxReq,
          part : {"method", "header", "data", "size", "last", "crlf"}]

TypeOK ==
  /\ reqs \in Seq(Request) /\ Len(reqs) <= MaxReq
  /\ {out, wire, buf, saved} \subseteq Seq(Token)
  /\ {eof, bOut, exit, late} \subseteq BOOLEAN
  /\ pc \in {"read", "contents", "handle", "open", "put", "size", "chunk",
             "tail", "last", "out", "next",
             "closed"}
  /\ block \in {-1, 0, 1}
  /\ cur \in 0 .. MaxReq /\ want \in Nat
  /\ res \in [code : Codes, keep : BOOLEAN]
  /\ answers \in Seq([req : 0 .. MaxReq, code : Codes, keep : BOOLEAN])
  /\ refused \subseteq 1 .. MaxReq /\ piped \subseteq 1 .. MaxReq

NoResponse == [code |-> "none", keep |-> FALSE]

Init ==
  /\ reqs = <<>> /\ out = <<>> /\ eof = FALSE /\ wire = <<>>
  /\ pc = "read" /\ buf = <<>> /\ block = 0 /\ cur = 0 /\ want = 0 /\ saved = <<>>
  /\ res = NoResponse /\ bOut = FALSE /\ answers = <<>>
  /\ exit = FALSE /\ refused = {} /\ piped = {} /\ late = FALSE

-----------------------------------------------------------------------------
(* The client *)

\* How many units of contents there are: bytes, or chunks of one.
Load(r) == IF r.chunks >= 0 THEN r.chunks ELSE IF r.len > 0 THEN r.len ELSE 0

Parts(r) ==
  IF r.chunks >= 0
  THEN [i \in 1 .. 3 * r.chunks |-> <<"size", "data", "crlf">>[1 + ((i - 1) % 3)]]
         \o <<"last", "crlf">>
  ELSE [i \in 1 .. Load(r) |-> "data"]

Message(k, r) ==
  LET parts == <<"method", "header">> \o Parts(r)
  IN [i \in 1 .. Len(parts) |-> [req |-> k, part |-> parts[i]]]

Units(k, n) == [i \in 1 .. n |-> [req |-> k, part |-> "data"]]
Contents(k) == Units(k, Load(reqs[k]))

\* It goes on as long as no answer says close.
Ask(r) ==
  /\ ~eof /\ out = <<>> /\ Len(reqs) < MaxReq /\ pc # "closed"
  /\ \A i \in 1 .. Len(answers) : answers[i].keep
  /\ reqs' = Append(reqs, r)
  /\ out' = Message(Len(reqs) + 1, r)
  /\ piped' = IF Len(answers) < Len(reqs) THEN piped \cup {Len(reqs) + 1} ELSE piped
  /\ UNCHANGED <<eof, wire, pc, readVars, resVars, exit, refused, late>>

\* With "Expect: 100-continue" the contents wait for httpRealPut.
MaySend ==
  /\ out # <<>>
  /\ reqs[out[1].req].expect /\ out[1].part \notin {"method", "header"} =>
       pc \in {"put", "size", "chunk", "tail", "last"} /\ cur = out[1].req

Send ==
  /\ MaySend
  /\ wire' = Append(wire, out[1]) /\ out' = Tail(out)
  /\ UNCHANGED <<reqs, eof, pc, readVars, resVars, exit, history>>

\* It waited for "100 Continue", and got an answer.
Drop ==
  /\ out # <<>> /\ reqs[Len(reqs)].expect /\ Len(answers) >= Len(reqs)
  /\ out' = <<>>
  /\ UNCHANGED <<reqs, eof, wire, pc, readVars, resVars, exit, history>>

HangUp ==
  /\ ~eof /\ eof' = TRUE /\ out' = <<>>
  /\ UNCHANGED <<reqs, wire, pc, readVars, resVars, exit, history>>

-----------------------------------------------------------------------------
(* Reading *)

\* poll() times out, or read() returns the end of the stream.
NoInput(l) ==
  /\ wire = <<>>
  /\ pc' = l
  /\ late' = (late \/ MaySend)
  /\ UNCHANGED <<refused, piped>>

\* _readRequest looks for an empty line at the end of what it has read: of a
\* header, or of the end of a chunked body.
EndOfHeader(b) ==
  \/ Last(b).part = "header"
  \/ Len(b) > 1 /\ Last(b).part = "crlf" /\ b[Len(b) - 1].part = "last"

\* Block reads are for requests whose client waits for the response.
BlockRead(b) ==
  IF block # 0 THEN block
  ELSE IF b[1].part = "method" /\ reqs[b[1].req].meth = "GET" THEN 1 ELSE -1

\* Mutant of Amount: every request is read in blocks.
AmountBlocks == 1 .. Len(wire)

Amount == IF block = 1 THEN 1 .. Len(wire) ELSE {1}

\* The request of a header that was read, if that is one and in one piece.
Parsed(b) == IF b[1].part = "method" /\ b[2].part = "header" THEN b[1].req ELSE 0

\* After the header: contents are loaded now, or left to PUT.
AfterHeader(k) ==
  IF k # 0 /\ reqs[k].meth \notin {"PUT", "POST"} /\ reqs[k].len \in 1 .. MaxMemory
  THEN pc' = "contents" /\ want' = reqs[k].len
  ELSE pc' = "handle" /\ UNCHANGED want

Read ==
  /\ pc = "read" /\ wire # <<>>
  /\ \E n \in Amount :
       LET b == buf \o SubSeq(wire, 1, n) IN
       /\ wire' = SubSeq(wire, n + 1, Len(wire))
       /\ block' = BlockRead(b)
       /\ IF EndOfHeader(b)
          THEN buf' = b /\ cur' = Parsed(b) /\ AfterHeader(Parsed(b))
          ELSE buf' = b /\ UNCHANGED <<pc, cur, want>>
  /\ UNCHANGED <<clientVars, saved, resVars, exit, history>>

\* nReqStatus is -1: no answer.
NoRequest ==
  /\ pc = "read" /\ NoInput("closed")
  /\ UNCHANGED <<clientVars, wire, readVars, resVars, exit>>

\* Without its contents a request is a bad one.
ReadContents ==
  /\ pc = "contents"
  /\ \/ /\ wire # <<>>
        /\ wire' = Tail(wire) /\ want' = want - 1
        /\ pc' = IF want = 1 THEN "handle" ELSE pc
        /\ UNCHANGED <<cur, history>>
     \/ /\ NoInput("handle") /\ cur' = 0
        /\ UNCHANGED <<wire, want>>
  /\ UNCHANGED <<clientVars, buf, block, saved, resVars, exit>>

-----------------------------------------------------------------------------
(* Handling *)

\* httpResponseSetCode
KeepAlive(k, wanted) ==
  wanted /\ bEnableKeepAlive /\ k # 0 /\ ~reqs[k].close

Respond(code, wanted) ==
  /\ res' = [code |-> code, keep |-> KeepAlive(cur, wanted)]
  /\ pc' = "out"

\* httpResponseOut: once, and with the last word on the connection.
ResponseOut ==
  LET keep == /\ res.keep /\ ~exit
              /\ Len(answers) + 1 < MaxKeepAliveRequests \/ MaxKeepAliveRequests = 0
  IN IF bOut THEN UNCHANGED resVars
     ELSE /\ res' = [res EXCEPT !.keep = keep]
          /\ answers' = Append(answers, [req |-> cur, code |-> res.code, keep |-> keep])
          /\ bOut' = TRUE

Bad ==
  /\ pc = "handle" /\ cur = 0
  /\ Respond("bad", FALSE)
  /\ UNCHANGED <<clientVars, wire, readVars, bOut, answers, exit, history>>

\* A method that puts out the response itself (a file, or a list of files).
Stream ==
  /\ pc = "handle" /\ cur # 0 /\ reqs[cur].meth \in {"GET", "DAV"}
  /\ res.code = "none"
  /\ res' = [code |-> "ok", keep |-> KeepAlive(cur, TRUE)]
  /\ UNCHANGED <<clientVars, wire, pc, readVars, bOut, answers, exit, history>>

Streamed ==
  /\ pc = "handle" /\ res.code = "ok"
  /\ ResponseOut /\ pc' = "out"
  /\ UNCHANGED <<clientVars, wire, readVars, exit, history>>

\* A method that leaves that to httpMain; refused methods close.
Simple ==
  /\ pc = "handle" /\ cur # 0 /\ res.code = "none"
  /\ \/ reqs[cur].meth \in {"GET", "DAV"} /\ Respond("ok", TRUE)
     \/ reqs[cur].meth \in {"GET", "DAV"} /\ Respond("not allowed", FALSE)
     \/ reqs[cur].meth = "POST" /\ Respond("not implemented", FALSE)
  /\ UNCHANGED <<clientVars, wire, readVars, bOut, answers, exit, history>>

\* httpMethodPut, up to the file.
Put ==
  /\ pc = "handle" /\ cur # 0 /\ reqs[cur].meth = "PUT"
  /\ \/ ~bPut /\ Respond("not allowed", FALSE)
     \/ bPut /\ reqs[cur].len < 0 /\ reqs[cur].chunks < 0 /\ Respond("bad", FALSE)
     \/ /\ bPut /\ (reqs[cur].len >= 0 \/ reqs[cur].chunks >= 0)
        /\ pc' = "open" /\ UNCHANGED res
  /\ UNCHANGED <<clientVars, wire, readVars, bOut, answers, exit, history>>

\* The file cannot be opened: the contents stay where they are.
Forbidden ==
  /\ pc = "open"
  /\ Respond("forbidden", TRUE)
  /\ refused' = refused \cup {cur}
  /\ UNCHANGED <<clientVars, wire, readVars, bOut, answers, exit, piped, late>>

\* httpRealPut; no contents are bad.
Open ==
  /\ pc = "open"
  /\ saved' = <<>>
  /\ \/ /\ reqs[cur].len > 0
        /\ pc' = "put" /\ want' = reqs[cur].len /\ UNCHANGED res
     \/ /\ reqs[cur].len <= 0 /\ reqs[cur].chunks >= 0
        /\ pc' = "size" /\ UNCHANGED <<want, res>>
     \/ /\ reqs[cur].len <= 0 /\ reqs[cur].chunks < 0
        /\ Respond("bad", FALSE) /\ UNCHANGED want
  /\ UNCHANGED <<clientVars, wire, buf, block, cur, bOut, answers, exit, history>>

Save(next) ==
  /\ wire # <<>>
  /\ wire' = Tail(wire) /\ want' = want - 1
  /\ saved' = Append(saved, wire[1])
  /\ IF want > 1 THEN UNCHANGED <<pc, res>>
     ELSE IF next = "out" THEN Respond("created", TRUE)
     ELSE pc' = next /\ UNCHANGED res
  /\ UNCHANGED <<clientVars, buf, block, cur, bOut, answers, exit, history>>

PutSave == pc = "put" /\ Save("out")

\* Mutant of ChunkSave: the line end after a chunk is not read.
ChunkSaveNoTail == pc = "chunk" /\ Save("size")

ChunkSave == pc = "chunk" /\ Save("tail")

\* A line that is no number has the value 0 (sscanf): the last chunk.
ChunkSize ==
  /\ pc = "size" /\ wire # <<>>
  /\ wire' = Tail(wire)
  /\ IF wire[1].part = "size" THEN pc' = "chunk" /\ want' = 1
     ELSE pc' = "last" /\ UNCHANGED want
  /\ UNCHANGED <<clientVars, buf, block, cur, saved, resVars, exit, history>>

ChunkTail ==
  /\ pc \in {"tail", "last"} /\ wire # <<>>
  /\ wire' = Tail(wire)
  /\ IF pc = "last" THEN Respond("created", TRUE) ELSE pc' = "size" /\ UNCHANGED res
  /\ UNCHANGED <<clientVars, readVars, bOut, answers, exit, history>>

PutBroken ==
  /\ pc \in {"put", "size", "chunk", "tail", "last"}
  /\ NoInput("out") /\ res' = [code |-> "bad", keep |-> FALSE]
  /\ UNCHANGED <<clientVars, wire, readVars, bOut, answers, exit>>

-----------------------------------------------------------------------------
(* The loop of httpMain *)

Out ==
  /\ pc = "out"
  /\ ResponseOut /\ pc' = "next"
  /\ UNCHANGED <<clientVars, wire, readVars, exit, history>>

\* Mutant of GoesOn: what the client wished decides, not what it was told.
GoesOnAsWished == KeepAlive(cur, TRUE)

\* The "Connection" header of the response, after httpResponseOut.
GoesOn == res.keep

Again ==
  /\ pc = "next"
  /\ IF GoesOn
     THEN /\ pc' = "read" /\ buf' = <<>> /\ block' = 0 /\ cur' = 0
          /\ res' = NoResponse /\ bOut' = FALSE
     ELSE pc' = "closed" /\ UNCHANGED <<buf, block, cur, res, bOut>>
  /\ UNCHANGED <<clientVars, wire, want, saved, answers, exit, history>>

\* poolSetExitReqeustAll, or the like.
RequestExit ==
  /\ ~exit /\ exit' = TRUE
  /\ UNCHANGED <<clientVars, wire, pc, readVars, resVars, history>>

Child ==
  \/ Read \/ NoRequest \/ ReadContents \/ Bad \/ Stream \/ Streamed \/ Simple
  \/ Put \/ Forbidden \/ Open \/ PutSave \/ ChunkSize \/ ChunkSave \/ ChunkTail
  \/ PutBroken \/ Out \/ Again

Next ==
  \/ \E r \in Request : Ask(r)
  \/ Send \/ Drop \/ HangUp \/ RequestExit
  \/ Child

Spec == Init /\ [][Next]_vars

\* The child is about to write to a client that may not read.
MayBlock ==
  /\ ~eof
  /\ \/ pc = "handle" /\ res.code = "ok"
     \/ pc = "out" /\ ~bOut
     \/ pc = "open" /\ reqs[cur].expect

\* The child runs (every read ends by its timeout), except in a write to a client
\* that does not read, and the client sends what it began to send.
FairSpec == Spec /\ WF_vars(~MayBlock /\ Child) /\ WF_vars(Send)

-----------------------------------------------------------------------------
(* Properties *)

\* Contents that nobody reads although the connection goes on: of a PUT whose
\* file could not be opened, of other methods if they are chunked or too large;
\* and what a block read may take with the header of another message.
LeftUnread(k) ==
  /\ Contents(k) # <<>> \/ reqs[k].chunks = 0
  /\ \/ k \in refused /\ ~reqs[k].expect
     \/ reqs[k].meth = "GET"
     \/ reqs[k].meth = "DAV" /\ (reqs[k].chunks >= 0 \/ reqs[k].len > MaxMemory)

Orderly ==
  /\ \A k \in 1 .. Len(reqs) : ~LeftUnread(k)
  /\ \A k \in piped : reqs[k - 1].meth # "GET"

\* Each request is answered once and in its place (with a 400 that closes the
\* connection, if its contents did not come), whatever is sent ahead and however
\* reads cut the messages, as long as nothing is left unread: the cases of
\* LeftUnread, and requests sent ahead behind a GET, are all that bring client
\* and server out of step.
InTurn ==
  \A i \in 1 .. Len(answers) :
    \/ answers[i].req = i
    \/ answers[i].req = 0 /\ ~answers[i].keep /\ (late \/ eof \/ reqs[i].expect)

\* A 201 says that the file has the contents of this request, all of them and
\* nothing else.
Stored == pc = "out" /\ res.code = "created" => saved = Contents(cur)

\* Client and server are in step.
InStep == TypeOK /\ (Orderly => InTurn /\ Stored)

\* The server does what the head of its answer says: it reads another request
\* if and only if it announced Keep-Alive.
DoesAsToldStep ==
  pc = "next" /\ pc' # "next" => (pc' = "read" <=> answers[Len(answers)].keep)

\* A connection ends, unless the child is for ever in a write to the client, which
\* reads nothing.  (The client asks MaxReq times at most: one that asks for ever is
\* served for ever, if MaxKeepAliveRequests is 0.)
Ends == <>(pc = "closed") \/ <>[]MayBlock

\* So a client that sends all of a request gets an answer, unless an earlier one
\* closed the connection.
Answered ==
  \A i \in 1 .. MaxReq :
    Len(reqs) >= i ~> \/ Len(answers) >= i \/ eof \/ late \/ ~Orderly
                      \/ \E j \in 1 .. Len(answers) : ~answers[j].keep
                      \/ []MayBlock
=============================================================================
