-------------------------------- MODULE QIo --------------------------------
(***************************************************************************)
(* qio: reads, writes, sends and lines over a connection and a file, and   *)
(* the errno of the process, which a call inherits from the ones before    *)
(* it.  The connection blocks (childStart leaves it so) and is polled      *)
(* before each read and write, which need not help a write: there may be   *)
(* less room than it wants.  The file never makes anyone wait.             *)
(***************************************************************************)
EXTENDS Integers, Sequences, FiniteSets

CONSTANTS
  Byte,      \* what a peer may send
  CR, LF,    \* the two of them that matter to gets
  Chunk,     \* MAX_IOSEND_SIZE, and the buffer of closeSocket
  Want,      \* how much is asked for
  MaxBytes,  \* bound: what a peer sends
  MaxCalls   \* bound: calls

QIoAssumption ==
  /\ {CR, LF} \subseteq Byte /\ CR # LF
  /\ Chunk \in Nat \ {0} /\ Want \subseteq Nat \ {0} /\ {MaxBytes, MaxCalls} \subseteq Nat

VARIABLES
  errno,  \* "" for anything the code does not ask about
  peer,   \* what it sent that is not read yet; whether it closed or reset
  call,   \* the call that is running
  done,   \* the last call that returned, and what it returned
  used    \* bytes sent and calls made, for the bounds

ioVars == <<errno, peer, call, done, used>>

\* loop: the inner read or write under way, of at most limit bytes, that has
\* got so many; total is what the call has done, text the line of a gets.
\* History: the bytes it took and gave, whether a poll timed out, whether a
\* signal or the peer cut it short, and the errno it found.
Idle ==
  [op |-> "none", want |-> 0, loop |-> "none", limit |-> 0, got |-> <<>>,
   total |-> 0, text |-> <<>>, taken |-> <<>>, given |-> <<>>,
   timed |-> FALSE, cut |-> FALSE, entry |-> "", ret |-> 0]

IoInit ==
  /\ errno = ""
  /\ peer = [data |-> <<>>, eof |-> FALSE, reset |-> FALSE]
  /\ call = Idle /\ done = Idle /\ used = [bytes |-> 0, calls |-> 0]

-----------------------------------------------------------------------------
(* The peer, and the child before it has one *)

\* No connection for a second; or another child took it.
WaitsForConnection ==
  /\ call.op = "none" /\ used.calls = 0
  /\ errno' \in {"ETIMEDOUT", "EAGAIN"}
  /\ UNCHANGED <<peer, call, done, used>>

PeerSends ==
  /\ used.bytes < MaxBytes /\ ~peer.eof /\ ~peer.reset
  /\ \E b \in Byte : peer' = [peer EXCEPT !.data = Append(@, b)]
  /\ used' = [used EXCEPT !.bytes = @ + 1]
  /\ UNCHANGED <<errno, call, done>>

PeerCloses ==
  /\ ~peer.eof /\ ~peer.reset /\ peer' = [peer EXCEPT !.eof = TRUE]
  /\ UNCHANGED <<errno, call, done, used>>

\* What was not read is lost.
PeerResets ==
  /\ ~peer.reset /\ peer' = [peer EXCEPT !.reset = TRUE, !.data = <<>>]
  /\ UNCHANGED <<errno, call, done, used>>

-----------------------------------------------------------------------------
(* The calls *)

Goes(c) == call' = c /\ UNCHANGED <<peer, done, used>>

Loop(loop, limit, c) == [c EXCEPT !.loop = loop, !.limit = limit, !.got = <<>>]

\* The inner loop is done.
Back == [call EXCEPT !.loop = IF @ = "in" THEN "read" ELSE "wrote"]

\* What is returned when n bytes are done: if none, the errno that is there
\* tells nothing yet from failure, whoever left it.
Result(n) == IF n > 0 THEN n ELSE IF errno = "ETIMEDOUT" THEN 0 ELSE -1

Return(c, n) ==
  /\ call' = Idle /\ done' = [c EXCEPT !.ret = n, !.loop = "none"]
  /\ UNCHANGED <<errno, peer, used>>

\* send reads from the connection (streamSave) or from the file (streamSend), a
\* chunk at a time; gets reads byte by byte; closeSocket until nothing comes.
FirstLoop(op, n, c) ==
  CASE op \in {"read", "save", "send"} ->
         Loop("in", IF op = "read" \/ n <= Chunk THEN n ELSE Chunk, c)
    [] op \in {"write", "writev"} -> Loop("out", n, [c EXCEPT !.taken = [i \in 1 .. n |-> CR]])
    [] op = "gets" -> Loop("in", 1, c)
    [] op = "drain" -> Loop("in", Chunk, c)

Start ==
  /\ call.op = "none" /\ used.calls < MaxCalls
  /\ used' = [used EXCEPT !.calls = @ + 1]
  /\ \E op \in {"read", "write", "writev", "save", "send", "gets", "drain"}, n \in Want :
       LET c == [Idle EXCEPT !.op = op, !.want = n, !.entry = errno] IN
       IF op = "gets" /\ n <= 1
       THEN done' = [c EXCEPT !.ret = -1] /\ UNCHANGED <<errno, peer, call>>
       ELSE call' = FirstLoop(op, n, c) /\ done' = Idle /\ UNCHANGED <<errno, peer>>

Left == call.limit - Len(call.got)

InFull == call.loop = "in" /\ Left = 0 /\ Goes(Back) /\ UNCHANGED errno

\* From the connection comes what is there, from the file what it holds.
ReadSome ==
  /\ call.loop = "in" /\ Left > 0
  /\ IF call.op = "send"
     THEN \E n \in 1 .. Left :
            LET b == [i \in 1 .. n |-> LF] IN
            /\ call' = [call EXCEPT !.got = @ \o b, !.taken = @ \o b]
            /\ UNCHANGED peer
     ELSE \E n \in 1 .. Len(peer.data) :
            LET b == SubSeq(peer.data, 1, n) IN
            /\ n <= Left
            /\ call' = [call EXCEPT !.got = @ \o b, !.taken = @ \o b]
            /\ peer' = [peer EXCEPT !.data = SubSeq(@, n + 1, Len(@))]
  /\ UNCHANGED <<errno, done, used>>

\* Mutant of ReadEnd: any error that is there is taken for this one.
ReadEndRetry ==
  /\ call.loop = "in" /\ Left > 0
  /\ call.op # "send" => peer.data = <<>> /\ peer.eof
  /\ errno = ""
  /\ Goes(Back) /\ UNCHANGED errno

\* The end of what was sent, or of the file: errno is not touched, and if it
\* says EAGAIN there is another read.
ReadEnd ==
  /\ call.loop = "in" /\ Left > 0
  /\ call.op # "send" => peer.data = <<>> /\ peer.eof
  /\ errno # "EAGAIN"
  /\ Goes(Back) /\ UNCHANGED errno

ReadFails ==
  /\ call.loop = "in" /\ Left > 0 /\ call.op # "send" /\ peer.reset
  /\ Goes([Back EXCEPT !.cut = TRUE]) /\ errno' = ""

\* Nothing there for so long.  The peer may also be too slow to write to.
TimesOut ==
  /\ \/ call.loop = "in" /\ Left > 0 /\ call.op # "send"
        /\ peer.data = <<>> /\ ~peer.eof /\ ~peer.reset
     \/ call.loop = "out" /\ Left > 0 /\ call.op # "save"
  /\ Goes([Back EXCEPT !.timed = TRUE]) /\ errno' = "ETIMEDOUT"

\* A signal interrupts poll, or the sleep before another read, whose errno is
\* then another one.
Interrupted ==
  /\ call.loop \in {"in", "out"} /\ Left > 0
  /\ Goes([Back EXCEPT !.cut = TRUE]) /\ errno' = ""

OutFull == call.loop = "out" /\ Left = 0 /\ Goes(Back) /\ UNCHANGED errno

\* What is written are the next bytes of what was taken.
WriteSome ==
  /\ call.loop = "out" /\ Left > 0
  /\ call.op # "save" => ~peer.reset
  /\ \E n \in 1 .. Left :
       LET from == Len(call.taken) - call.limit + Len(call.got)
           b == SubSeq(call.taken, from + 1, from + n)
       IN Goes([call EXCEPT !.got = @ \o b, !.given = @ \o b])
  /\ UNCHANGED errno

\* The connection is gone; or the disk is full.
WriteFails ==
  /\ call.loop = "out" /\ Left > 0
  /\ peer.reset \/ call.op = "save"
  /\ Goes([Back EXCEPT !.cut = TRUE]) /\ errno' = ""

-----------------------------------------------------------------------------
(* What each call does when its inner loop is done *)

Inner == Result(Len(call.got))

SimpleReturns ==
  /\ call.loop \in {"read", "wrote"} /\ call.op \in {"read", "write"}
  /\ Return(call, Inner)

DrainReads ==
  /\ call.loop = "read" /\ call.op = "drain"
  /\ IF Inner <= 0 THEN Return(call, 0)
     ELSE Goes(Loop("in", Chunk, call)) /\ UNCHANGED errno

SendReads ==
  /\ call.loop = "read" /\ call.op \in {"send", "save"}
  /\ IF Inner <= 0 THEN Return(call, Result(call.total))
     ELSE Goes(Loop("out", Len(call.got), call)) /\ UNCHANGED errno

\* Mutant of SendWrites: what was read is thought to be written.
SendWritesAll ==
  /\ call.loop = "wrote" /\ call.op \in {"send", "save"}
  /\ LET c == [call EXCEPT !.total = @ + call.limit] IN
     IF Inner <= 0 THEN Return(call, Result(call.total))
     ELSE IF c.total = c.want THEN Return(c, c.total)
     ELSE Goes(FirstLoop(c.op, c.want - c.total, c)) /\ UNCHANGED errno

\* A chunk that is not written as a whole is the last.
SendWrites ==
  /\ call.loop = "wrote" /\ call.op \in {"send", "save"}
  /\ LET c == [call EXCEPT !.total = @ + Len(call.got)] IN
     IF Inner <= 0 THEN Return(call, Result(call.total))
     ELSE IF Left > 0 \/ c.total = c.want THEN Return(c, c.total)
     ELSE Goes(FirstLoop(c.op, c.want - c.total, c)) /\ UNCHANGED errno

\* The second of two vectors follows even if the first was not written whole.
WritevWrites ==
  /\ call.loop = "wrote" /\ call.op = "writev"
  /\ LET n == Len(call.got)  second == Len(call.taken) > call.want IN
     IF Inner <= 0 THEN Return(call, call.total)
     ELSE IF second THEN Return(call, call.total + n)
     ELSE /\ Goes(Loop("out", call.want, [call EXCEPT !.total = n,
                                         !.taken = @ \o [i \in 1 .. call.want |-> LF]]))
          /\ UNCHANGED errno

\* To the end of the line, or until the buffer has room for the end only.  (The
\* code would go on if errno were EAGAIN, but then the read has not returned.)
GetsByte ==
  /\ call.loop = "read" /\ call.op = "gets"
  /\ IF Inner # 1 THEN Return(call, Result(call.total))
     ELSE LET b == call.got[1]
              c == [call EXCEPT !.total = @ + 1,
                                !.text = IF b \in {CR, LF} THEN @ ELSE Append(@, b)]
          IN IF b = LF \/ c.total = c.want - 1 THEN Return(c, c.total)
             ELSE Goes(Loop("in", 1, c)) /\ UNCHANGED errno

Runs ==
  \/ InFull \/ OutFull \/ ReadSome \/ ReadEnd \/ ReadFails \/ TimesOut
  \/ WriteSome \/ WriteFails
  \/ SimpleReturns \/ DrainReads \/ SendReads \/ SendWrites \/ WritevWrites \/ GetsByte

IoNext == WaitsForConnection \/ PeerSends \/ PeerCloses \/ PeerResets \/ Start \/ Runs \/ Interrupted

\* A write to a peer that reads nothing may never return.
WriteBlocks == call.loop = "out" /\ Left > 0 /\ call.op # "save" /\ ~peer.reset

\* The process runs, and a poll times out; nobody need send a signal, and no peer
\* need read.
IoSpec == IoInit /\ [][IoNext]_ioVars /\ WF_ioVars(~WriteBlocks /\ Runs)

-----------------------------------------------------------------------------
(* Properties *)

\* What a call says it did is what it did: a read and a gets return as many
\* bytes as they took off the connection, a write and a send as many as they
\* passed on, in order.  What a send took and did not pass on is lost, but then
\* it says less than it was asked for; and it never takes what is behind.
Counted ==
  LET c == done IN
  /\ c.ret > 0 => c.ret = Len(IF c.op \in {"read", "gets"} THEN c.taken ELSE c.given)
  /\ c.op \in {"read", "gets"} /\ c.ret <= 0 => c.taken = <<>>
  /\ c.op \in {"write", "writev", "send", "save"} /\ c.ret <= 0 => c.given = <<>>
  /\ c.op \in {"write", "send", "save"} =>
       /\ Len(c.given) <= Len(c.taken)
       /\ \A i \in 1 .. Len(c.given) : c.given[i] = c.taken[i]
       /\ Len(c.taken) <= c.want
       /\ c.taken # c.given => c.ret < c.want /\ (c.cut \/ c.timed)
  /\ c.op = "writev" /\ c.taken # c.given => c.ret < 2 * c.want /\ (c.cut \/ c.timed)

\* Zero means that time ran out, unless the call found an ETIMEDOUT of an
\* earlier one: then the end of the connection looks like that too.
ZeroIsTimeout ==
  done.ret = 0 /\ done.op \notin {"none", "drain", "writev"} => done.timed \/ done.entry = "ETIMEDOUT"

\* A line is a line: nothing behind its end is taken, no end is in it, and it is
\* what was taken without the ends.
OneLine ==
  LET Plain(n) == {i \in 1 .. n : done.taken[i] \notin {CR, LF}} IN
  done.op = "gets" =>
    /\ \A i \in 1 .. Len(done.taken) - 1 : done.taken[i] # LF
    /\ Len(done.text) = Cardinality(Plain(Len(done.taken)))
    /\ \A i \in Plain(Len(done.taken)) : done.text[Cardinality(Plain(i))] = done.taken[i]
    /\ Len(done.taken) < done.want \/ done.ret = -1

\* What a call returns is the truth.
SaysWhatItDid == Counted /\ ZeroIsTimeout /\ OneLine

\* When the connection is closed nothing of the peer is left unread (the kernel
\* would reset it), unless the peer was slow, reset it, or a signal came.
DrainsAllStep ==
  call.op = "drain" /\ call'.op = "none" /\ ~call.timed /\ ~call.cut =>
    peer.data = <<>> /\ peer.eof

\* Every call returns, unless it is for ever in a write to the peer; or it found an
\* EAGAIN, and the peer has closed.  (A drain goes on as long as the peer sends: it
\* returns as MaxBytes makes every peer stop.)
Returns ==
  call.op # "none" /\ call.entry # "EAGAIN" ~> call.op = "none" \/ []WriteBlocks

\* What the comment of qio_read says: it reads, or its time runs out, or it fails.
\* The code reads the end of the connection for ever if it found an EAGAIN.
ReadReturns == call.op = "read" ~> call.op = "none"
=============================================================================
