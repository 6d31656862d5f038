----------------------------- MODULE HostProofs -----------------------------
(***************************************************************************)
(* Proofs about what is shared on the host.  Of the log, for any number of *)
(* processes and lines and any interval: without summer time the lines go  *)
(* to the files of their time, and in any time zone every line is kept,    *)
(* and only once.  Of starts and ends, for any number of servers and of    *)
(* inode numbers.  Of the files, for any tree, any requests and any number *)
(* of children: what an answer sends, lists and says is what was there and *)
(* what was done, and a copy that is called good is good.                  *)
(***************************************************************************)
EXTENDS QLog, Startup, Files, FiniteSetTheorems, SequenceTheorems, WellFoundedInduction, TLAPS

-----------------------------------------------------------------------------
(* The log *)

Line == [id : Nat, at : Nat, behind : Int]

\* The local time of a line is in the interval of the file of this name.
Fits(l, name) == name = NameAt(l.at) - l.behind

Local(t) == t + Zone

Record ==
  [pc : {"none", "new", "dead", "open", "next", "ready", "print"}, fp : Int,
   buf : Seq(Line), outbuf : Seq(Line), nextrotate : Int, id : Nat, at : Nat,
   behind : Int]

\* What is in the buffer of a process that has a file belongs in that file.
Buffered(l) ==
  l.pc \notin {"none", "new", "dead"} =>
    /\ l.fp \in LogName
    /\ \A i \in 1 .. Len(l.buf) : Fits(l.buf[i], l.fp)

\* The daemon opens the log once.
FirstOpen(l) == l.pc = "new" => l.fp = -1

\* The next rotation is at the end of the interval in which its time was set, and
\* so the distance between the name and the time stays what it was until then.
Timed(l, t) ==
  /\ l.pc \in {"ready", "print"} =>
       /\ l.nextrotate > 0
       /\ l.nextrotate = (l.fp + l.behind + 1) * rotateinterval - Zone
       /\ (l.fp + l.behind) * rotateinterval <= Local(t)
  /\ l.pc = "print" => l.fp = NameAt(l.at) - l.behind

Proper(l, t) == Buffered(l) /\ FirstOpen(l) /\ Timed(l, t)

LogTypes ==
  /\ now \in 0 .. MaxClock
  /\ file \in [LogName -> Seq(Line)]
  /\ log \in [Proc -> Record]
  /\ written.n \in Nat

\* The lines in the files.
Filed == \A n \in LogName : \A i \in 1 .. Len(file[n]) : Fits(file[n][i], n)

LogInv == LogTypes /\ (\A p \in Proc : Proper(log[p], now)) /\ Filed

\* There is no summer time, in which the rotation and the names would not agree.
NoSummer == LogAssumption /\ Shift = 0 /\ rotateinterval > 0
-----------------------------------------------------------------------------
(* Intervals *)

\* The interval of a time is the one between whose ends it lies.
LEMMA Intervals ==
  ASSUME NEW x \in Int, NEW d \in Nat \ {0}, NEW q \in Int
  PROVE  x \div d = q <=> q * d <= x /\ x < (q + 1) * d
<1>1. x = (x \div d) * d + (x % d) /\ x % d \in 0 .. d - 1 /\ x \div d \in Int
  BY Z3
<1>2. x \div d = q => q * d <= x /\ x < (q + 1) * d
  BY <1>1, Z3
<1>3. ASSUME q * d <= x, x < (q + 1) * d PROVE x \div d = q
  BY <1>1, <1>3, Z3
<1> QED
  BY <1>2, <1>3

\* Putting sequences of lines together puts only their lines together.
LEMMA Concatenated ==
  ASSUME NEW s \in Seq(Line), NEW t \in Seq(Line), NEW name,
         \A i \in 1 .. Len(s) : Fits(s[i], name),
         \A i \in 1 .. Len(t) : Fits(t[i], name)
  PROVE  /\ s \o t \in Seq(Line)
         /\ \A i \in 1 .. Len(s \o t) : Fits((s \o t)[i], name)
<1>1. s \o t \in Seq(Line) /\ Len(s \o t) = Len(s) + Len(t)
  OBVIOUS
<1>2. ASSUME NEW i \in 1 .. Len(s \o t) PROVE Fits((s \o t)[i], name)
  <2>1. CASE i <= Len(s)
    BY <1>1, <2>1
  <2>2. CASE i > Len(s)
    BY <1>1, <2>2
  <2> QED
    BY <1>1, <2>1, <2>2
<1> QED
  BY <1>1, <1>2

\* The name of any time on the clock is that of a file.
LEMMA NamesExist ==
  ASSUME NoSummer, NEW t \in 0 .. MaxClock
  PROVE  /\ NameAt(t) = Local(t) \div rotateinterval
         /\ NameAt(t) \in LogName
         /\ NameAt(t) * rotateinterval <= Local(t)
         /\ Local(t) < (NameAt(t) + 1) * rotateinterval
<1> DEFINE d == rotateinterval
           m == MaxClock + Zone
<1>1. d \in Nat \ {0} /\ Interval = d /\ m \in Nat /\ Local(t) \in Nat /\ Local(t) <= m
  BY DEF NoSummer, LogAssumption, Local
<1>2. NameAt(t) = Local(t) \div d /\ NameAt(MaxClock) = m \div d
  BY <1>1 DEF NoSummer, LogAssumption, NameAt, Local
<1>3. Local(t) \div d \in Int /\ m \div d \in Int
  BY <1>1, Z3
<1>4. /\ (Local(t) \div d) * d <= Local(t) /\ Local(t) < ((Local(t) \div d) + 1) * d
      /\ m < ((m \div d) + 1) * d
  BY <1>1, <1>3, Intervals
<1> HIDE DEF d, m
<1>5. ASSUME NEW q \in Int, Local(t) < (q + 1) * d PROVE q >= 0
  BY <1>1, <1>5, Z3
<1>6. ASSUME NEW q \in Int, NEW r \in Int, q * d <= Local(t), m < (r + 1) * d PROVE q <= r
  <2>1. q * d < (r + 1) * d
    BY <1>1, <1>6, Z3
  <2> QED
    BY <1>1, <2>1, Z3
<1>7. NameAt(t) \in LogName
  BY <1>2, <1>3, <1>4, <1>5, <1>6 DEF LogName
<1> QED
  BY <1>2, <1>4, <1>7 DEF d
-----------------------------------------------------------------------------
(* The invariant *)

\* What a file gets belongs in it.
LEMMA FileGrows ==
  ASSUME LogTypes, Filed, NEW name \in LogName, NEW s \in Seq(Line),
         \A i \in 1 .. Len(s) : Fits(s[i], name), file' = Added(file, name, s)
  PROVE  file' \in [LogName -> Seq(Line)] /\ Filed'
<1>1. file[name] \in Seq(Line) /\ \A i \in 1 .. Len(file[name]) : Fits(file[name][i], name)
  BY DEF LogTypes, Filed
<1>2. /\ file[name] \o s \in Seq(Line)
      /\ \A i \in 1 .. Len(file[name] \o s) : Fits((file[name] \o s)[i], name)
  BY <1>1, Concatenated
<1>3. file' = [file EXCEPT ![name] = file[name] \o s]
  BY DEF Added
<1> QED
  BY <1>2, <1>3 DEF LogTypes, Filed

\* One process changes, and what it has is proper.
LEMMA OneChanges ==
  ASSUME LogInv, NEW p \in Proc, NEW l \in Record, Proper(l, now), now' = now,
         log' = [log EXCEPT ![p] = l]
  PROVE  log' \in [Proc -> Record] /\ \A q \in Proc : Proper(log'[q], now')
<1>1. log \in [Proc -> Record] /\ \A q \in Proc : Proper(log[q], now)
  BY DEF LogInv, LogTypes
<1>2. \A q \in Proc : log'[q] = IF q = p THEN l ELSE log[q]
  BY <1>1
<1> QED
  BY <1>1, <1>2

\* A process that has not opened the log, or has ended, has nothing to keep.
LEMMA NothingIsProper ==
  /\ Dead \in Record /\ NoLog \in Record
  /\ \A t : Proper(Dead, t) /\ Proper(NoLog, t)
<1>1. <<>> \in Seq(Line) /\ -1 \in Int
  OBVIOUS
<1>2. NoLog \in Record /\ NoLog.pc = "none"
  BY <1>1 DEF NoLog, Record
<1>3. Dead \in Record /\ Dead.pc = "dead"
  BY <1>2 DEF Dead, Record
<1> QED
  BY <1>2, <1>3 DEF Proper, Buffered, FirstOpen, Timed

\* The invariant holds at first.
LEMMA InitLogInv ==
  ASSUME NoSummer, LogInit
  PROVE  LogInv
<1> DEFINE First == [NoLog EXCEPT !.pc = "new"]
<1>1. First \in Record /\ \A t : Proper(First, t)
  <2>1. NoLog.fp = -1
    BY DEF NoLog
  <2>2. First \in Record /\ First.pc = "new" /\ First.fp = NoLog.fp
    BY NothingIsProper DEF Record
  <2> QED
    BY <2>1, <2>2 DEF Proper, Buffered, FirstOpen, Timed
<1>2. log \in [Proc -> Record] /\ \A p \in Proc : Proper(log[p], now)
  <2> HIDE DEF First
  <2>1. log = [p \in Proc |-> IF p = Daemon THEN First ELSE NoLog]
    BY DEF LogInit, First
  <2> QED
    BY <1>1, <2>1, NothingIsProper
<1>3. now \in 0 .. MaxClock /\ written.n \in Nat
  BY DEF LogInit, NoSummer, LogAssumption
<1>4. file \in [LogName -> Seq(Line)] /\ Filed
  BY DEF LogInit, Filed
<1> QED
  BY <1>2, <1>3, <1>4 DEF LogInv, LogTypes

\* A file that is opened is of the time looked at.
LEMMA OpenStep ==
  ASSUME NoSummer, LogInv, NEW p \in Proc, Open(p)
  PROVE  LogInv'
<1> DEFINE l == log[p]
           name == NameAt(now)
<1>1. l \in Record /\ Proper(l, now) /\ now \in Nat /\ name \in LogName /\ LogName \subseteq Int
  BY NamesExist DEF LogInv, LogTypes, LogName
<1>2. CASE l.fp # name /\ Reopen(p, name)
  <2> DEFINE r == [l EXCEPT !.fp = name, !.buf = <<>>, !.at = now, !.pc = "next"]
  <2>1. r \in Record /\ Proper(r, now)
    <3>1. <<>> \in Seq(Line) /\ Len(<<>>) = 0
      OBVIOUS
    <3>2. r \in Record /\ r.pc = "next" /\ r.fp = name /\ r.buf = <<>>
      BY <1>1, <3>1 DEF Record
    <3> QED
      BY <1>1, <3>1, <3>2 DEF Proper, Buffered, FirstOpen, Timed
  <2>2. log' = [log EXCEPT ![p] = r]
    BY <1>2 DEF Reopen
  <2>3. log' \in [Proc -> Record] /\ \A q \in Proc : Proper(log'[q], now')
    <3> HIDE DEF r
    <3> QED
      BY <2>1, <2>2, OneChanges DEF Open
  <2>4. file' \in [LogName -> Seq(Line)] /\ Filed'
    <3>0. CASE file' = file
      BY <3>0 DEF LogInv, LogTypes, Filed
    <3>1. CASE l.pc = "new"
      BY <1>1, <1>2, <3>1 DEF Reopen, Proper, FirstOpen, LogInv, LogTypes, Filed
    <3>2. CASE l.pc = "open"
      <4>1. l.fp \in LogName /\ l.buf \in Seq(Line) /\ \A i \in 1 .. Len(l.buf) : Fits(l.buf[i], l.fp)
        BY <1>1, <3>2 DEF Proper, Buffered, Record
      <4>2. l.fp # -1
        BY <4>1 DEF LogName
      <4>3. file' = file \/ file' = Added(file, l.fp, l.buf)
        BY <1>2, <4>2 DEF Reopen
      <4> QED
        BY <3>0, <4>1, <4>3, FileGrows DEF LogInv
    <3> QED
      BY <3>1, <3>2 DEF Open
  <2>5. written'.n = written.n
    BY <1>2 DEF Reopen, LogInv, LogTypes
  <2> QED
    BY <2>3, <2>4, <2>5 DEF Open, LogInv, LogTypes
<1>3. CASE UNCHANGED <<file, written>> /\ log' = [log EXCEPT ![p].pc = IF @ = "new" THEN "dead" ELSE "next", ![p].at = now]
  <2> DEFINE r == [l EXCEPT !.pc = IF l.pc = "new" THEN "dead" ELSE "next", !.at = now]
  <2>1. r \in Record /\ Proper(r, now)
    BY <1>1 DEF Record, Proper, Buffered, FirstOpen, Timed, Open
  <2>2. log' = [log EXCEPT ![p] = r]
    BY <1>3
  <2>3. log' \in [Proc -> Record] /\ \A q \in Proc : Proper(log'[q], now')
    <3> HIDE DEF r
    <3> QED
      BY <2>1, <2>2, OneChanges DEF Open
  <2> QED
    BY <1>3, <2>3 DEF Open, LogInv, LogTypes, Filed
<1> QED
  BY <1>2, <1>3 DEF Open
\* What SetNext and Begin make of a record.
SetNextOf(l, n, t, b, to) ==
  [l EXCEPT !.nextrotate = n, !.at = t, !.behind = b, !.pc = to]

BeginOf(l, id, t, out, to) ==
  [l EXCEPT !.id = id, !.at = t, !.pc = to, !.outbuf = out]

\* The record after the next rotation is set,
LEMMA SetNextMakes ==
  ASSUME NEW l \in Record, NEW n, NEW t, NEW b, NEW to, NEW r, r = SetNextOf(l, n, t, b, to)
  PROVE  r = [pc |-> to, fp |-> l.fp, buf |-> l.buf, outbuf |-> l.outbuf,
              nextrotate |-> n, id |-> l.id, at |-> t, behind |-> b]
BY DEF SetNextOf, Record

\* and after a line was begun.
LEMMA BeginMakes ==
  ASSUME NEW l \in Record, NEW id, NEW t, NEW out, NEW to, NEW r, r = BeginOf(l, id, t, out, to)
  PROVE  r = [pc |-> to, fp |-> l.fp, buf |-> l.buf, outbuf |-> out,
              nextrotate |-> l.nextrotate, id |-> id, at |-> t, behind |-> l.behind]
BY DEF BeginOf, Record

\* The time of the next rotation is that of the file, or of one as old.
LEMMA SetNextStep ==
  ASSUME NoSummer, LogInv, NEW p \in Proc, SetNext(p)
  PROVE  LogInv'
<1> DEFINE l == log[p]
           name == NameAt(now)
           n == IF rotateinterval = 0 THEN 0 ELSE NextRotate(now)
           old == name - l.fp
           to == IF l.id = 0 THEN "ready" ELSE "print"
           r == SetNextOf(l, n, now, old, to)
<1>1. l \in Record /\ Proper(l, now) /\ now \in Nat /\ name \in Int /\ l.pc = "next"
  BY NamesExist DEF LogInv, LogTypes, LogName, SetNext
<1>2. rotateinterval \in Nat \ {0} /\ Zone \in Nat
  BY DEF NoSummer, LogAssumption
<1>3. /\ n = (name + 1) * rotateinterval - Zone
      /\ name * rotateinterval <= Local(now)
      /\ Local(now) < (name + 1) * rotateinterval
  BY <1>2, NamesExist DEF NextRotate, Local, LogInv, LogTypes
<1>4. n \in Int /\ n > 0
  <2> DEFINE end == (name + 1) * rotateinterval
  <2>1. now \in Nat /\ Zone \in Nat /\ end \in Int
    BY <1>1, <1>2
  <2>2. n = end - Zone /\ now + Zone < end
    BY <1>3 DEF Local
  <2> HIDE DEF n, end
  <2> QED
    BY <2>1, <2>2
<1>5. /\ r \in Record
      /\ r.pc \in {"ready", "print"} /\ r.fp = l.fp /\ r.buf = l.buf
      /\ r.nextrotate = n /\ r.at = now /\ r.behind = old
  <2>1. /\ old \in Int /\ to \in {"ready", "print"} /\ n \in Int /\ now \in Nat
        /\ l.fp \in Int /\ l.buf \in Seq(Line) /\ l.outbuf \in Seq(Line) /\ l.id \in Nat
    BY <1>1, <1>4 DEF Record
  <2>2. r = [pc |-> to, fp |-> l.fp, buf |-> l.buf, outbuf |-> l.outbuf,
             nextrotate |-> n, id |-> l.id, at |-> now, behind |-> old]
    <3> HIDE DEF n, old, to, l
    <3> QED
      BY <1>1, SetNextMakes
  <2> HIDE DEF n, name, old, to, l, r
  <2>3. r \in Record
    BY <2>1, <2>2, SMTT(60) DEF Record
  <2>4. r.pc = to /\ r.fp = l.fp /\ r.buf = l.buf
    BY <2>2
  <2>5. r.nextrotate = n /\ r.at = now /\ r.behind = old
    BY <2>2
  <2> QED
    BY <2>1, <2>3, <2>4, <2>5
<1>6. Proper(r, now)
  <2>1. r.fp + r.behind = name /\ r.fp = name - r.behind
    <3>1. l.fp \in Int
      BY <1>1 DEF Record
    <3> HIDE DEF r, l, name
    <3> QED
      BY <1>1, <1>5, <3>1
  <2>2. Buffered(r) /\ FirstOpen(r)
    <3> HIDE DEF r, l
    <3> QED
      BY <1>1, <1>5 DEF Proper, Buffered, FirstOpen
  <2>3. Timed(r, now)
    <3> HIDE DEF r, n
    <3> QED
      BY <1>3, <1>4, <1>5, <2>1 DEF Timed
  <2> QED
    BY <2>2, <2>3 DEF Proper
<1>7. log' = [log EXCEPT ![p] = r]
  BY DEF SetNext, SetNextOf
<1>8. log' \in [Proc -> Record] /\ \A q \in Proc : Proper(log'[q], now')
  <2> HIDE DEF r
  <2> QED
    BY <1>5, <1>6, <1>7, OneChanges DEF SetNext
<1> QED
  BY <1>8 DEF SetNext, LogInv, LogTypes, Filed

\* A line begins: its time is before the next rotation, or the log is opened again.
LEMMA BeginStep ==
  ASSUME NoSummer, LogInv, NEW p \in Proc, Begin(p)
  PROVE  LogInv'
<1> DEFINE l == log[p]
           due == l.nextrotate > 0 /\ now >= l.nextrotate
           line == [id |-> written.n + 1, at |-> now, behind |-> 0]
           out == IF mode.out = "buffer" THEN Append(l.outbuf, line) ELSE l.outbuf
           to == IF due THEN "open" ELSE "print"
           id == line.id
           r == BeginOf(l, id, now, out, to)
<1>1. /\ l \in Record /\ Proper(l, now) /\ now \in Nat /\ l.pc = "ready"
      /\ written.n \in Nat /\ line \in Line /\ line.id \in Nat
  BY DEF LogInv, LogTypes, Begin, Line
<1>2. out \in Seq(Line)
  <2> HIDE DEF line
  <2> QED
    BY <1>1 DEF Record
<1>3. /\ r \in Record
      /\ r.pc = to /\ r.fp = l.fp /\ r.buf = l.buf
      /\ r.nextrotate = l.nextrotate /\ r.at = now /\ r.behind = l.behind
  <2>1. /\ id \in Nat /\ to \in {"open", "print"} /\ now \in Nat /\ l.fp \in Int
        /\ l.buf \in Seq(Line) /\ l.nextrotate \in Int /\ l.behind \in Int
    BY <1>1 DEF Record
  <2>2. r = [pc |-> to, fp |-> l.fp, buf |-> l.buf, outbuf |-> out,
             nextrotate |-> l.nextrotate, id |-> id, at |-> now, behind |-> l.behind]
    <3> HIDE DEF id, out, to, l
    <3> QED
      BY <1>1, BeginMakes
  <2> HIDE DEF id, out, to, l, r
  <2>3. r \in Record
    BY <1>2, <2>1, <2>2, SMTT(60) DEF Record
  <2>4. r.pc = to /\ r.fp = l.fp /\ r.buf = l.buf
    BY <2>2
  <2>5. r.nextrotate = l.nextrotate /\ r.at = now /\ r.behind = l.behind
    BY <2>2
  <2> QED
    BY <2>3, <2>4, <2>5
<1>4. Buffered(r) /\ FirstOpen(r)
  <2> HIDE DEF r, l, to
  <2>1. r.pc \in {"open", "print"}
    BY <1>3 DEF to
  <2> QED
    BY <1>1, <1>3, <2>1 DEF Proper, Buffered, FirstOpen
<1>5. ~due => l.fp + l.behind = NameAt(now)
  <2> DEFINE n == l.fp + l.behind
  <2>1. /\ n \in Int /\ l.nextrotate \in Int /\ rotateinterval \in Nat \ {0} /\ Zone \in Nat
        /\ Local(now) \in Int
    <3>1. l.fp \in Int /\ l.behind \in Int /\ l.nextrotate \in Int
      <4> HIDE DEF l
      <4> QED
        BY <1>1 DEF Record
    <3>2. rotateinterval \in Nat \ {0} /\ Zone \in Nat
      BY DEF NoSummer, LogAssumption
    <3> HIDE DEF l
    <3> QED
      BY <1>1, <3>1, <3>2 DEF Local
  <2>2. /\ l.nextrotate > 0 /\ l.nextrotate = (n + 1) * rotateinterval - Zone
        /\ n * rotateinterval <= Local(now)
    BY <1>1 DEF Proper, Timed
  <2>3. SUFFICES ASSUME ~due PROVE n = NameAt(now)
    OBVIOUS
  <2>4. now < l.nextrotate
    BY <1>1, <2>1, <2>2, <2>3
  <2>5. Local(now) < (n + 1) * rotateinterval
    <3> DEFINE end == (n + 1) * rotateinterval
    <3>1. now \in Nat /\ l.nextrotate = end - Zone /\ end \in Int
      BY <1>1, <2>1, <2>2
    <3>2. Local(now) < end
      <4> HIDE DEF end, n, l
      <4> QED
        BY <2>1, <2>4, <3>1 DEF Local
    <3> QED
      BY <3>2
  <2> HIDE DEF n, l
  <2>6. Local(now) \div rotateinterval = n
    BY <2>1, <2>2, <2>5, Intervals
  <2> QED
    BY <2>6, NamesExist DEF LogInv, LogTypes
<1>6. Timed(r, now)
  <2>1. /\ l.nextrotate > 0
        /\ l.nextrotate = (l.fp + l.behind + 1) * rotateinterval - Zone
        /\ (l.fp + l.behind) * rotateinterval <= Local(now)
        /\ l.fp \in Int /\ l.behind \in Int
    BY <1>1 DEF Proper, Timed, Record
  <2>2. ~due => l.fp = NameAt(now) - l.behind
    BY <1>5, <2>1
  <2> HIDE DEF r, due
  <2> QED
    BY <1>3, <2>1, <2>2 DEF Timed
<1>7. log' = [log EXCEPT ![p] = r]
  BY DEF Begin, BeginOf
<1>8. log' \in [Proc -> Record] /\ \A q \in Proc : Proper(log'[q], now')
  <2> HIDE DEF r
  <2> QED
    BY <1>3, <1>4, <1>6, <1>7, OneChanges DEF Begin, Proper
<1>9. written'.n \in Nat
  BY <1>1 DEF Begin
<1> QED
  BY <1>8, <1>9 DEF Begin, LogInv, LogTypes, Filed
\* A line is printed in the file of its time, or nowhere.
LEMMA PrintStep ==
  ASSUME NoSummer, LogInv, NEW p \in Proc, PrintLine(p)
  PROVE  LogInv'
<1> DEFINE l == log[p]
           line == [id |-> l.id, at |-> l.at, behind |-> l.behind]
           all == Append(l.buf, line)
<1>1. /\ l \in Record /\ Proper(l, now) /\ l.pc = "print"
      /\ line \in Line /\ line.at = l.at /\ line.behind = l.behind
  BY DEF LogInv, LogTypes, PrintLine, Record, Line
<1>2. /\ l.buf \in Seq(Line) /\ l.fp \in LogName /\ Fits(line, l.fp)
      /\ \A i \in 1 .. Len(l.buf) : Fits(l.buf[i], l.fp)
  <2> HIDE DEF line
  <2> QED
    BY <1>1 DEF Proper, Buffered, Timed, Fits, Record
<1>3. all \in Seq(Line) /\ \A i \in 1 .. Len(all) : Fits(all[i], l.fp)
  <2> HIDE DEF line, l
  <2> QED
    BY <1>1, <1>2
<1>4. PICK left \in {<<>>, all} : \E files \in {file, Added(file, l.fp, all)} :
        \E said, lost : Printed(p, left, files, said, lost)
  <2> HIDE DEF l, all
  <2>1. \E left \in {<<>>, all} : \E files \in {file, Added(file, l.fp, all)} :
          \E said, lost : Printed(p, left, files, said, lost)
    BY Zenon DEF PrintLine, l, all
  <2> QED
    BY <2>1
<1> DEFINE r == [l EXCEPT !.pc = "ready", !.id = 0, !.at = 0, !.buf = left]
<1>4a. left \in Seq(Line) /\ \A i \in 1 .. Len(left) : Fits(left[i], l.fp)
  <2> HIDE DEF all, l
  <2>1. CASE left = <<>>
    <3>1. <<>> \in Seq(Line) /\ 1 .. Len(<<>>) = {}
      OBVIOUS
    <3> QED
      BY <2>1, <3>1
  <2>2. CASE left = all
    BY <1>3, <2>2
  <2> QED
    BY <1>4, <2>1, <2>2
<1>5. /\ r \in Record
      /\ r.pc = "ready" /\ r.fp = l.fp /\ r.buf = left
      /\ r.nextrotate = l.nextrotate /\ r.behind = l.behind
  <2> HIDE DEF l
  <2> QED
    BY <1>1, <1>4a DEF Record
<1>6. Proper(r, now)
  <2> HIDE DEF r, l
  <2> QED
    BY <1>1, <1>2, <1>4a, <1>5 DEF Proper, Buffered, FirstOpen, Timed
<1>7. log' = [log EXCEPT ![p] = r]
  BY <1>4 DEF Printed
<1>8. log' \in [Proc -> Record] /\ \A q \in Proc : Proper(log'[q], now')
  <2> HIDE DEF r
  <2> QED
    BY <1>5, <1>6, <1>7, OneChanges DEF PrintLine
<1>9. file' \in [LogName -> Seq(Line)] /\ Filed'
  <2>1. file' = file \/ file' = Added(file, l.fp, all)
    BY <1>4 DEF Printed
  <2> HIDE DEF all, l
  <2>2. CASE file' = file
    BY <2>2 DEF LogInv, LogTypes, Filed
  <2>3. CASE file' = Added(file, l.fp, all)
    BY <1>2, <1>3, <2>3, FileGrows DEF LogInv
  <2> QED
    BY <2>1, <2>2, <2>3
<1>10. now' = now /\ written'.n = written.n
  BY <1>4 DEF PrintLine, Printed, LogInv, LogTypes
<1> QED
  BY <1>8, <1>9, <1>10 DEF LogInv, LogTypes

\* What is in the buffer goes to the file or is lost, whoever ends then or not.
LEMMA FlushedStep ==
  ASSUME LogInv, NEW p \in Proc, Alive(p), Flushed(p)
  PROVE  file' \in [LogName -> Seq(Line)] /\ Filed' /\ now' = now /\ written'.n = written.n
<1> DEFINE l == log[p]
<1>1. l.fp \in LogName /\ l.buf \in Seq(Line) /\ \A i \in 1 .. Len(l.buf) : Fits(l.buf[i], l.fp)
  BY DEF LogInv, LogTypes, Proper, Buffered, Record, Alive
<1>2. file' = file \/ file' = Added(file, l.fp, l.buf)
  BY DEF Flushed
<1>3. written'.n = written.n
  BY DEF Flushed, LogInv, LogTypes
<1> HIDE DEF l
<1>4. CASE file' = file
  BY <1>3, <1>4 DEF LogInv, LogTypes, Filed, Flushed
<1>5. CASE file' = Added(file, l.fp, l.buf)
  BY <1>1, <1>3, <1>5, FileGrows DEF LogInv, Flushed
<1> QED
  BY <1>2, <1>4, <1>5

\* A flush only moves lines to their file.
LEMMA FlushStep ==
  ASSUME LogInv, NEW p \in Proc, Flush(p)
  PROVE  LogInv'
<1> DEFINE l == log[p]
           r == [l EXCEPT !.buf = <<>>, !.outbuf = <<>>]
<1>1. l \in Record /\ Proper(l, now) /\ l.pc = "ready"
  BY DEF LogInv, LogTypes, Flush
<1>2. <<>> \in Seq(Line) /\ Len(<<>>) = 0
  OBVIOUS
<1>3. /\ r \in Record
      /\ r.pc = "ready" /\ r.fp = l.fp /\ r.buf = <<>>
      /\ r.nextrotate = l.nextrotate /\ r.behind = l.behind
  <2> HIDE DEF l
  <2> QED
    BY <1>1, <1>2 DEF Record
<1>4. Proper(r, now)
  <2> HIDE DEF l, r
  <2> QED
    BY <1>1, <1>2, <1>3 DEF Proper, Buffered, FirstOpen, Timed
<1>5. Alive(p) /\ Flushed(p) /\ log' = [log EXCEPT ![p] = r]
  BY <1>1 DEF Flush, Alive
<1> HIDE DEF r
<1> QED
  BY <1>3, <1>4, <1>5, OneChanges, FlushedStep DEF LogInv, LogTypes

\* The other steps end a process, make one like the daemon, or let time pass.
LEMMA OtherLogSteps ==
  ASSUME NoSummer, LogInv
  PROVE  /\ \A p \in Proc : FreeLog(p) \/ Fork(p) \/ Kill(p) => LogInv'
         /\ LogTick \/ UNCHANGED logVars => LogInv'
<1>1. ASSUME NEW p \in Proc, FreeLog(p) PROVE LogInv'
  BY <1>1, NothingIsProper, OneChanges, FlushedStep DEF FreeLog, LogInv, LogTypes, Flushed
<1>2. ASSUME NEW p \in Proc, Kill(p) PROVE LogInv'
  <2>1. now' = now /\ log' \in [Proc -> Record] /\ \A q \in Proc : Proper(log'[q], now')
    BY <1>2, NothingIsProper, OneChanges DEF Kill
  <2>2. written'.n = written.n /\ file' = file
    BY <1>2 DEF Kill, LogInv, LogTypes
  <2> QED
    BY <2>1, <2>2 DEF LogInv, LogTypes, Filed
<1>3. ASSUME NEW p \in Proc, Fork(p) PROVE LogInv'
  <2>1. Daemon \in Proc
    BY DEF NoSummer, LogAssumption
  <2>2. log[Daemon] \in Record /\ Proper(log[Daemon], now)
    BY <2>1 DEF LogInv, LogTypes
  <2>3. log' \in [Proc -> Record] /\ \A q \in Proc : Proper(log'[q], now')
    BY <1>3, <2>2, OneChanges DEF Fork
  <2> QED
    BY <1>3, <2>3 DEF Fork, LogInv, LogTypes, Filed
<1>4. CASE LogTick
  <2>1. /\ now \in Nat /\ now' \in Nat /\ now' \in 0 .. MaxClock /\ now <= now'
        /\ log' = log /\ file' = file /\ written' = written
    BY <1>4 DEF LogTick, LogInv, LogTypes, NoSummer, LogAssumption
  <2>2. Local(now) \in Int /\ Local(now') \in Int /\ Local(now) <= Local(now')
    BY <2>1 DEF Local, NoSummer, LogAssumption
  <2>3. ASSUME NEW q \in Proc PROVE Proper(log[q], now')
    <3> DEFINE l == log[q]
               n == (l.fp + l.behind) * rotateinterval
    <3>1. l \in Record /\ Proper(l, now)
      BY DEF LogInv, LogTypes
    <3>2. n \in Int
      BY <3>1 DEF Record, NoSummer, LogAssumption
    <3>3. l.pc \in {"ready", "print"} => n <= Local(now')
      <4>1. l.pc \in {"ready", "print"} => n <= Local(now)
        BY <3>1 DEF Proper, Timed
      <4>2. n <= Local(now) => n <= Local(now')
        <5> HIDE DEF n, l
        <5> QED
          BY <2>2, <3>2
      <4> QED
        BY <4>1, <4>2
    <3> QED
      BY <3>1, <3>3 DEF Proper, Timed
  <2> QED
    BY <2>1, <2>3 DEF LogInv, LogTypes, Filed
<1>5. CASE UNCHANGED logVars
  BY <1>5 DEF logVars, LogInv, LogTypes, Filed
<1> QED
  BY <1>1, <1>2, <1>3, <1>4, <1>5

\* Without summer time every line is in the file of its time, or of the one that
\* was just as old when the process last set the time of its rotation: each
\* rotates by a time it made at its own moment (qlog.c:273, 309), and forks,
\* deaths, failed opens and buffers in between change nothing.
THEOREM InPlaceCorrect == NoSummer => (LogSpec => []InPlace)
<1>1. ASSUME NoSummer, LogInv, [LogNext]_logVars PROVE LogInv'
  BY <1>1, OpenStep, SetNextStep, BeginStep, PrintStep, FlushStep, OtherLogSteps DEF LogNext
<1>2. LogInv => InPlace
  BY DEF LogInv, Filed, Fits, InPlace
<1>3. NoSummer /\ LogInit => LogInv
  BY InitLogInv
<1> QED
  <2> SUFFICES ASSUME NoSummer PROVE LogSpec => []InPlace
    OBVIOUS
  <2>1. LogInv /\ [LogNext]_logVars => LogInv'
    BY <1>1
  <2>2. LogInit => LogInv
    BY <1>3
  <2> QED
    BY <1>2, <2>1, <2>2, PTL DEF LogSpec
-----------------------------------------------------------------------------
(* Lines and their places: what happens to them when texts grow, join or go *)

\* No two places hold the same line.
Unique(texts) ==
  \A s, t \in DOMAIN texts : \A k \in 1 .. Len(texts[s]), l \in 1 .. Len(texts[t]) :
    texts[s][k].id = texts[t][l].id => s = t /\ k = l

Holds(texts, i) == \E s \in DOMAIN texts : \E k \in 1 .. Len(texts[s]) : texts[s][k].id = i

\* Every line is held, none twice.
LEMMA UniqueIsOnce ==
  ASSUME NEW texts, NEW ids, Unique(texts), \A i \in ids : Holds(texts, i)
  PROVE  Once(ids, texts)
<1> SUFFICES ASSUME NEW i \in ids
             PROVE  \E s \in DOMAIN texts : \E k \in 1 .. Len(texts[s]) :
                      /\ texts[s][k].id = i
                      /\ \A t \in DOMAIN texts : \A l \in 1 .. Len(texts[t]) :
                           texts[t][l].id = i => t = s /\ l = k
  BY DEF Once
<1>1. PICK s \in DOMAIN texts : \E k \in 1 .. Len(texts[s]) : texts[s][k].id = i
  BY DEF Holds
<1>2. PICK k \in 1 .. Len(texts[s]) : texts[s][k].id = i
  BY <1>1
<1>3. ASSUME NEW t \in DOMAIN texts, NEW l \in 1 .. Len(texts[t]), texts[t][l].id = i
      PROVE  t = s /\ l = k
  BY <1>1, <1>2, <1>3 DEF Unique
<1> QED
  BY <1>1, <1>2, <1>3

\* The text of one place is put after that of another, and its own is empty then.
Joined(T, U, a, b) ==
  /\ DOMAIN U = DOMAIN T /\ U[a] = T[a] \o T[b] /\ U[b] = <<>>
  /\ \A s \in DOMAIN T \ {a, b} : U[s] = T[s]

\* A line is put at the end of the text of a place.
Longer(T, U, a, line) ==
  /\ DOMAIN U = DOMAIN T /\ U[a] = Append(T[a], line)
  /\ \A s \in DOMAIN T \ {a} : U[s] = T[s]

\* The text of a place is lost.
Emptied(T, U, b) ==
  /\ DOMAIN U = DOMAIN T /\ U[b] = <<>>
  /\ \A s \in DOMAIN T \ {b} : U[s] = T[s]

\* Every line of the joined texts is from one place of the parts, and is there.
LEMMA JoinedKeeps ==
  ASSUME NEW S, NEW T \in [S -> Seq(Line)], NEW U, NEW a \in S, NEW b \in S, a # b,
         Joined(T, U, a, b)
  PROVE  /\ Unique(T) => Unique(U)
         /\ \A i : Holds(U, i) => Holds(T, i)
         /\ \A i : Holds(T, i) => Holds(U, i)
<1>1. /\ T[a] \in Seq(Line) /\ T[b] \in Seq(Line) /\ T[a] \o T[b] \in Seq(Line)
      /\ Len(T[a]) \in Nat /\ Len(T[b]) \in Nat
      /\ Len(T[a] \o T[b]) = Len(T[a]) + Len(T[b])
      /\ \A k \in 1 .. Len(T[a]) : (T[a] \o T[b])[k] = T[a][k]
      /\ \A k \in 1 .. Len(T[b]) : (T[a] \o T[b])[Len(T[a]) + k] = T[b][k]
  OBVIOUS
<1>2. /\ DOMAIN T = S /\ DOMAIN U = S /\ U[a] = T[a] \o T[b] /\ Len(U[b]) = 0
      /\ \A s \in S \ {a, b} : U[s] = T[s]
  BY DEF Joined
<1> DEFINE From(s, k, t, l) ==
             /\ U[s][k] = T[t][l]
             /\ \/ t = s /\ l = k /\ s # b /\ (s = a => k <= Len(T[a]))
                \/ t = b /\ s = a /\ k = Len(T[a]) + l
<1>3. ASSUME NEW s \in S, NEW k \in 1 .. Len(U[s])
      PROVE  \E t \in S : \E l \in 1 .. Len(T[t]) : From(s, k, t, l)
  <2>1. CASE s = a /\ k <= Len(T[a])
    <3>1. k \in 1 .. Len(T[a]) /\ From(s, k, a, k)
      BY <1>1, <1>2, <2>1
    <3> QED
      BY <3>1
  <2>2. CASE s = a /\ k > Len(T[a])
    <3> DEFINE l == k - Len(T[a])
    <3>1. l \in 1 .. Len(T[b]) /\ k = Len(T[a]) + l
      BY <1>1, <1>2, <2>2
    <3> HIDE DEF l
    <3>2. From(s, k, b, l)
      BY <1>1, <1>2, <2>2, <3>1
    <3> QED
      BY <3>1, <3>2
  <2>3. CASE s # a
    <3>1. s # b
      BY <1>2
    <3>2. U[s] = T[s]
      BY <1>2, <2>3, <3>1
    <3> QED
      BY <2>3, <3>1, <3>2
  <2> QED
    BY <1>1, <2>1, <2>2, <2>3
<1>4. ASSUME NEW t \in S, NEW l \in 1 .. Len(T[t])
      PROVE  \E s \in S : \E k \in 1 .. Len(U[s]) : U[s][k] = T[t][l]
  <2>1. CASE t = a
    <3>1. l \in 1 .. Len(U[a]) /\ U[a][l] = T[t][l]
      BY <1>1, <1>2, <2>1
    <3> QED
      BY <3>1
  <2>2. CASE t = b
    <3>1. Len(T[a]) + l \in 1 .. Len(U[a]) /\ U[a][Len(T[a]) + l] = T[t][l]
      BY <1>1, <1>2, <2>2
    <3> QED
      BY <3>1
  <2>3. CASE t \notin {a, b}
    BY <1>2, <2>3
  <2> QED
    BY <2>1, <2>2, <2>3
<1>5. ASSUME Unique(T), NEW s \in S, NEW k \in 1 .. Len(U[s]),
             NEW t \in S, NEW l \in 1 .. Len(U[t]), U[s][k].id = U[t][l].id
      PROVE  s = t /\ k = l
  <2>1. PICK s1 \in S : \E k1 \in 1 .. Len(T[s1]) : From(s, k, s1, k1)
    BY <1>3
  <2>2. PICK k1 \in 1 .. Len(T[s1]) : From(s, k, s1, k1)
    BY <2>1
  <2>3. PICK t1 \in S : \E l1 \in 1 .. Len(T[t1]) : From(t, l, t1, l1)
    BY <1>3
  <2>4. PICK l1 \in 1 .. Len(T[t1]) : From(t, l, t1, l1)
    BY <2>3
  <2>5. T[s1][k1].id = T[t1][l1].id
    BY <1>5, <2>2, <2>4
  <2>6. s1 = t1 /\ k1 = l1
    BY <1>2, <1>5, <2>1, <2>2, <2>3, <2>4, <2>5 DEF Unique
  <2> QED
    BY <1>1, <2>2, <2>4, <2>6
<1>6. ASSUME Unique(T) PROVE Unique(U)
  <2>1. \A s, t \in S : \A k \in 1 .. Len(U[s]), l \in 1 .. Len(U[t]) :
          U[s][k].id = U[t][l].id => s = t /\ k = l
    BY <1>5, <1>6
  <2> QED
    BY <1>2, <2>1 DEF Unique
<1>7. ASSUME NEW i, Holds(U, i) PROVE Holds(T, i)
  <2>1. PICK s \in S : \E k \in 1 .. Len(U[s]) : U[s][k].id = i
    BY <1>2, <1>7 DEF Holds
  <2>2. PICK k \in 1 .. Len(U[s]) : U[s][k].id = i
    BY <2>1
  <2>3. \E t \in S : \E l \in 1 .. Len(T[t]) : T[t][l] = U[s][k]
    BY <1>3
  <2> QED
    BY <1>2, <2>2, <2>3 DEF Holds
<1>8. ASSUME NEW i, Holds(T, i) PROVE Holds(U, i)
  <2>1. PICK t \in S : \E l \in 1 .. Len(T[t]) : T[t][l].id = i
    BY <1>2, <1>8 DEF Holds
  <2>2. PICK l \in 1 .. Len(T[t]) : T[t][l].id = i
    BY <2>1
  <2>3. \E s \in S : \E k \in 1 .. Len(U[s]) : U[s][k] = T[t][l]
    BY <1>4
  <2> QED
    BY <1>2, <2>2, <2>3 DEF Holds
<1> QED
  BY <1>6, <1>7, <1>8

\* A line that was not there is there then, and the others still are.
LEMMA LongerKeeps ==
  ASSUME NEW S, NEW T \in [S -> Seq(Line)], NEW U, NEW a \in S, NEW line \in Line,
         ~Holds(T, line.id), Longer(T, U, a, line)
  PROVE  /\ Unique(T) => Unique(U)
         /\ \A i : Holds(U, i) => Holds(T, i) \/ i = line.id
         /\ \A i : Holds(T, i) => Holds(U, i)
         /\ Holds(U, line.id)
<1>1. /\ T[a] \in Seq(Line) /\ Len(T[a]) \in Nat
      /\ Append(T[a], line) \in Seq(Line) /\ Len(Append(T[a], line)) = Len(T[a]) + 1
      /\ \A k \in 1 .. Len(T[a]) : Append(T[a], line)[k] = T[a][k]
      /\ Append(T[a], line)[Len(T[a]) + 1] = line
  OBVIOUS
<1>2. /\ DOMAIN T = S /\ DOMAIN U = S /\ U[a] = Append(T[a], line)
      /\ \A s \in S \ {a} : U[s] = T[s]
  BY DEF Longer
<1>3. ASSUME NEW s \in S, NEW k \in 1 .. Len(U[s])
      PROVE  \/ k \in 1 .. Len(T[s]) /\ U[s][k] = T[s][k]
             \/ s = a /\ k = Len(T[a]) + 1 /\ U[s][k] = line
  BY <1>1, <1>2
<1>4. ASSUME NEW s \in S, NEW k \in 1 .. Len(T[s])
      PROVE  k \in 1 .. Len(U[s]) /\ U[s][k] = T[s][k]
  <2>1. CASE s = a
    BY <1>1, <1>2, <2>1
  <2>2. CASE s # a
    BY <1>2, <2>2
  <2> QED
    BY <2>1, <2>2
<1>5. \A s \in S : \A k \in 1 .. Len(T[s]) : T[s][k].id # line.id
  BY <1>2 DEF Holds
<1>6. ASSUME Unique(T), NEW s \in S, NEW k \in 1 .. Len(U[s]),
             NEW t \in S, NEW l \in 1 .. Len(U[t]), U[s][k].id = U[t][l].id
      PROVE  s = t /\ k = l
  <2>1. CASE k \in 1 .. Len(T[s]) /\ U[s][k] = T[s][k]
    <3>1. l \in 1 .. Len(T[t]) /\ U[t][l] = T[t][l]
      BY <1>3, <1>5, <1>6, <2>1
    <3> QED
      BY <1>2, <1>6, <2>1, <3>1 DEF Unique
  <2>2. CASE s = a /\ k = Len(T[a]) + 1 /\ U[s][k] = line
    BY <1>3, <1>5, <1>6, <2>2
  <2> QED
    BY <1>3, <2>1, <2>2
<1>7. ASSUME Unique(T) PROVE Unique(U)
  <2>1. \A s, t \in S : \A k \in 1 .. Len(U[s]), l \in 1 .. Len(U[t]) :
          U[s][k].id = U[t][l].id => s = t /\ k = l
    BY <1>6, <1>7
  <2> QED
    BY <1>2, <2>1 DEF Unique
<1>8. ASSUME NEW i, Holds(U, i) PROVE Holds(T, i) \/ i = line.id
  <2>1. PICK s \in S : \E k \in 1 .. Len(U[s]) : U[s][k].id = i
    BY <1>2, <1>8 DEF Holds
  <2>2. PICK k \in 1 .. Len(U[s]) : U[s][k].id = i
    BY <2>1
  <2>3. (k \in 1 .. Len(T[s]) /\ U[s][k] = T[s][k]) \/ U[s][k] = line
    BY <1>3
  <2> QED
    BY <1>2, <2>2, <2>3 DEF Holds
<1>9. ASSUME NEW i, Holds(T, i) PROVE Holds(U, i)
  <2>1. PICK s \in S : \E k \in 1 .. Len(T[s]) : T[s][k].id = i
    BY <1>2, <1>9 DEF Holds
  <2>2. PICK k \in 1 .. Len(T[s]) : T[s][k].id = i
    BY <2>1
  <2>3. k \in 1 .. Len(U[s]) /\ U[s][k] = T[s][k]
    BY <1>4
  <2> QED
    BY <1>2, <2>2, <2>3 DEF Holds
<1>10. Holds(U, line.id)
  <2>1. Len(T[a]) + 1 \in 1 .. Len(U[a]) /\ U[a][Len(T[a]) + 1] = line
    BY <1>1, <1>2
  <2> QED
    BY <1>2, <2>1 DEF Holds
<1> QED
  BY <1>7, <1>8, <1>9, <1>10

\* No other lines are lost than those of the place.
LEMMA EmptiedKeeps ==
  ASSUME NEW S, NEW T \in [S -> Seq(Line)], NEW U, NEW b \in S, Emptied(T, U, b)
  PROVE  /\ Unique(T) => Unique(U)
         /\ \A i : Holds(U, i) => Holds(T, i)
         /\ \A i : Holds(T, i) => Holds(U, i) \/ i \in Ids(T[b])
<1>1. /\ DOMAIN T = S /\ DOMAIN U = S /\ Len(U[b]) = 0
      /\ \A s \in S \ {b} : U[s] = T[s]
  BY DEF Emptied
<1>2. \A s \in S : \A k \in 1 .. Len(U[s]) : s # b /\ U[s] = T[s]
  BY <1>1
<1>3. Unique(T) => Unique(U)
  BY <1>1, <1>2 DEF Unique
<1>4. \A i : Holds(U, i) => Holds(T, i)
  BY <1>1, <1>2 DEF Holds
<1>5. \A i : Holds(T, i) => Holds(U, i) \/ i \in Ids(T[b])
  BY <1>1 DEF Holds, Ids
<1> QED
  BY <1>3, <1>4, <1>5
-----------------------------------------------------------------------------
(* What is written and what is on the way to it are texts in places *)

Places(names) == ({"out"} \X names) \cup ({"buf"} \X Proc)

TextsAt(T, names, out, buf) ==
  /\ T \in [Places(names) -> Seq(Line)]
  /\ \A n \in names : <<"out", n>> \in Places(names) /\ T[<<"out", n>>] = out[n]
  /\ \A p \in Proc : <<"buf", p>> \in Places(names) /\ T[<<"buf", p>>] = buf[p]
  /\ \A s \in Places(names) : \/ \E n \in names : s = <<"out", n>>
                              \/ \E p \in Proc : s = <<"buf", p>>

\* Texts has the files under "out" and the buffers under "buf".
LEMMA TextsInPlaces ==
  ASSUME NEW names, NEW out \in [names -> Seq(Line)], NEW buf \in [Proc -> Seq(Line)]
  PROVE  TextsAt(Texts(out, buf), names, out, buf)
<1> DEFINE T == [s \in Places(names) |-> IF s[1] = "out" THEN out[s[2]] ELSE buf[s[2]]]
<1>1. DOMAIN out = names /\ DOMAIN buf = Proc
  OBVIOUS
<1>2. Texts(out, buf) = T
  BY <1>1 DEF Texts, Places
<1>3. ASSUME NEW n \in names PROVE <<"out", n>> \in Places(names) /\ T[<<"out", n>>] = out[n]
  <2>1. <<"out", n>> \in Places(names)
    BY DEF Places
  <2> QED
    BY <2>1
<1>4. ASSUME NEW p \in Proc PROVE <<"buf", p>> \in Places(names) /\ T[<<"buf", p>>] = buf[p]
  <2>1. <<"buf", p>> \in Places(names)
    BY DEF Places
  <2> QED
    BY <2>1
<1>5. ASSUME NEW s \in Places(names)
      PROVE  \/ \E n \in names : s = <<"out", n>>
             \/ \E p \in Proc : s = <<"buf", p>>
  BY DEF Places
<1>6. T \in [Places(names) -> Seq(Line)]
  <2>1. ASSUME NEW s \in Places(names) PROVE T[s] \in Seq(Line)
    <3>1. ASSUME NEW n \in names, s = <<"out", n>> PROVE T[s] \in Seq(Line)
      <4> HIDE DEF T
      <4> QED
        BY <1>3, <3>1
    <3>2. ASSUME NEW p \in Proc, s = <<"buf", p>> PROVE T[s] \in Seq(Line)
      <4> HIDE DEF T
      <4> QED
        BY <1>4, <3>2
    <3> QED
      BY <1>5, <3>1, <3>2
  <2> QED
    BY <2>1
<1> HIDE DEF T
<1> QED
  BY <1>2, <1>3, <1>4, <1>5, <1>6 DEF TextsAt

\* What the invariant says of the log, and of the duplicate: every line that must
\* be there is, none is twice, and they are among the lines that were begun.
Kept(T, ids, most) ==
  /\ Unique(T)
  /\ \A i \in ids : Holds(T, i)
  /\ \A i : Holds(T, i) => i \in 1 .. most

MoreBy(U, T, id) == \A i : Holds(U, i) => Holds(T, i) \/ i = id
NoMore(U, T) == \A i : Holds(U, i) => Holds(T, i)

\* The buffer of p is put after what is there under the name n.
Flushes(out, buf, out2, buf2, n, p) ==
  /\ out2[n] = out[n] \o buf[p] /\ \A m \in DOMAIN out \ {n} : out2[m] = out[m]
  /\ buf2[p] = <<>> /\ \A q \in Proc \ {p} : buf2[q] = buf[q]

\* Lines that go from a buffer to the end of its file stay once.
LEMMA FlushKeeps ==
  ASSUME NEW names, NEW out \in [names -> Seq(Line)], NEW buf \in [Proc -> Seq(Line)],
         NEW out2 \in [names -> Seq(Line)], NEW buf2 \in [Proc -> Seq(Line)],
         NEW n \in names, NEW p \in Proc, NEW ids, NEW most,
         Flushes(out, buf, out2, buf2, n, p), Kept(Texts(out, buf), ids, most)
  PROVE  Kept(Texts(out2, buf2), ids, most) /\ NoMore(Texts(out2, buf2), Texts(out, buf))
<1> DEFINE T == Texts(out, buf)
           U == Texts(out2, buf2)
           a == <<"out", n>>
           b == <<"buf", p>>
           S == Places(names)
<1>0. /\ out2[n] = out[n] \o buf[p] /\ \A m \in names \ {n} : out2[m] = out[m]
      /\ buf2[p] = <<>> /\ \A q \in Proc \ {p} : buf2[q] = buf[q]
  BY DEF Flushes
<1>1. /\ T \in [S -> Seq(Line)] /\ U \in [S -> Seq(Line)]
      /\ \A m \in names : T[<<"out", m>>] = out[m] /\ U[<<"out", m>>] = out2[m]
      /\ \A q \in Proc : T[<<"buf", q>>] = buf[q] /\ U[<<"buf", q>>] = buf2[q]
      /\ a \in S /\ b \in S /\ a # b
  <2>1. TextsAt(T, names, out, buf) /\ TextsAt(U, names, out2, buf2)
    BY TextsInPlaces
  <2> HIDE DEF T, U
  <2> QED
    BY <2>1 DEF TextsAt
<1>2. \A s \in S : (\E m \in names : s = <<"out", m>>) \/ (\E q \in Proc : s = <<"buf", q>>)
  BY TextsInPlaces DEF TextsAt
<1> HIDE DEF T, U, S
<1>3. ASSUME NEW s \in S \ {a, b} PROVE U[s] = T[s]
  <2>1. CASE \E m \in names : s = <<"out", m>>
    <3>1. PICK m \in names : s = <<"out", m>>
      BY <2>1
    <3>2. m # n
      BY <1>3, <3>1
    <3> QED
      BY <1>0, <1>1, <3>1, <3>2
  <2>2. CASE \E q \in Proc : s = <<"buf", q>>
    <3>1. PICK q \in Proc : s = <<"buf", q>>
      BY <2>2
    <3>2. q # p
      BY <1>3, <3>1
    <3> QED
      BY <1>0, <1>1, <3>1, <3>2
  <2> QED
    BY <1>2, <2>1, <2>2
<1>4. Joined(T, U, a, b)
  <2>1. U[a] = T[a] \o T[b] /\ U[b] = <<>> /\ DOMAIN T = S /\ DOMAIN U = S
    BY <1>0, <1>1
  <2> HIDE DEF a, b
  <2> QED
    BY <1>3, <2>1 DEF Joined
<1>5. /\ Unique(T) => Unique(U)
      /\ \A i : Holds(U, i) => Holds(T, i)
      /\ \A i : Holds(T, i) => Holds(U, i)
  <2> HIDE DEF a, b
  <2> QED
    BY <1>1, <1>4, JoinedKeeps
<1> QED
  BY <1>5 DEF Kept, NoMore, T, U

\* A line that is not there is put into the buffer of p.
Begins(buf, buf2, p, line) ==
  buf2[p] = Append(buf[p], line) /\ \A q \in Proc \ {p} : buf2[q] = buf[q]

\* A new line at the end of a buffer is there once.
LEMMA BufferKeeps ==
  ASSUME NEW names, NEW out \in [names -> Seq(Line)], NEW buf \in [Proc -> Seq(Line)],
         NEW buf2 \in [Proc -> Seq(Line)], NEW p \in Proc, NEW line \in Line,
         NEW ids, NEW most \in Nat, NEW more \in Nat,
         Begins(buf, buf2, p, line),
         Kept(Texts(out, buf), ids, most), ~Holds(Texts(out, buf), line.id),
         most <= more, line.id \in 1 .. more
  PROVE  /\ Kept(Texts(out, buf2), ids \cup {line.id}, more)
         /\ MoreBy(Texts(out, buf2), Texts(out, buf), line.id)
<1> DEFINE T == Texts(out, buf)
           U == Texts(out, buf2)
           b == <<"buf", p>>
           S == Places(names)
<1>1. /\ T \in [S -> Seq(Line)] /\ U \in [S -> Seq(Line)]
      /\ \A m \in names : T[<<"out", m>>] = out[m] /\ U[<<"out", m>>] = out[m]
      /\ \A q \in Proc : T[<<"buf", q>>] = buf[q] /\ U[<<"buf", q>>] = buf2[q]
      /\ b \in S
  <2>1. TextsAt(T, names, out, buf) /\ TextsAt(U, names, out, buf2)
    BY TextsInPlaces
  <2> HIDE DEF T, U
  <2> QED
    BY <2>1 DEF TextsAt
<1>2. \A s \in S : (\E m \in names : s = <<"out", m>>) \/ (\E q \in Proc : s = <<"buf", q>>)
  BY TextsInPlaces DEF TextsAt
<1> HIDE DEF T, U, S
<1>3. ASSUME NEW s \in S \ {b} PROVE U[s] = T[s]
  <2>1. CASE \E m \in names : s = <<"out", m>>
    BY <1>1, <2>1
  <2>2. CASE \E q \in Proc : s = <<"buf", q>>
    <3>1. PICK q \in Proc : s = <<"buf", q>>
      BY <2>2
    <3>2. q # p
      BY <1>3, <3>1
    <3> QED
      BY <1>1, <3>1, <3>2 DEF Begins
  <2> QED
    BY <1>2, <2>1, <2>2
<1>4. Longer(T, U, b, line)
  <2>1. U[b] = Append(T[b], line) /\ DOMAIN T = S /\ DOMAIN U = S
    BY <1>1 DEF Begins
  <2> HIDE DEF b
  <2> QED
    BY <1>3, <2>1 DEF Longer
<1>5. /\ Unique(T) => Unique(U)
      /\ \A i : Holds(U, i) => Holds(T, i) \/ i = line.id
      /\ \A i : Holds(T, i) => Holds(U, i)
      /\ Holds(U, line.id)
  <2>1. ~Holds(T, line.id)
    BY DEF T
  <2> HIDE DEF b
  <2> QED
    BY <1>1, <1>4, <2>1, LongerKeeps
<1>6. Kept(T, ids, most)
  BY DEF T
<1>7. Unique(U) /\ \A i \in ids \cup {line.id} : Holds(U, i)
  BY <1>5, <1>6 DEF Kept
<1>8. ASSUME NEW i, Holds(U, i) PROVE i \in 1 .. more
  <2>1. Holds(T, i) => i \in 1 .. most
    BY <1>6 DEF Kept
  <2> QED
    BY <1>5, <1>8, <2>1
<1> QED
  BY <1>5, <1>7, <1>8 DEF Kept, MoreBy, T, U

\* What is in the buffer of p is lost.
Loses(buf, buf2, p) == buf2[p] = <<>> /\ \A q \in Proc \ {p} : buf2[q] = buf[q]

\* A buffer that is lost takes its lines with it.
LEMMA LossKeeps ==
  ASSUME NEW names, NEW out \in [names -> Seq(Line)], NEW buf \in [Proc -> Seq(Line)],
         NEW buf2 \in [Proc -> Seq(Line)], NEW p \in Proc, NEW ids, NEW most,
         Loses(buf, buf2, p), Kept(Texts(out, buf), ids, most)
  PROVE  /\ Kept(Texts(out, buf2), ids \ Ids(buf[p]), most)
         /\ NoMore(Texts(out, buf2), Texts(out, buf))
<1> DEFINE T == Texts(out, buf)
           U == Texts(out, buf2)
           b == <<"buf", p>>
           S == Places(names)
<1>1. /\ T \in [S -> Seq(Line)] /\ U \in [S -> Seq(Line)]
      /\ \A m \in names : T[<<"out", m>>] = out[m] /\ U[<<"out", m>>] = out[m]
      /\ \A q \in Proc : T[<<"buf", q>>] = buf[q] /\ U[<<"buf", q>>] = buf2[q]
      /\ b \in S
  <2>1. TextsAt(T, names, out, buf) /\ TextsAt(U, names, out, buf2)
    BY TextsInPlaces
  <2> HIDE DEF T, U
  <2> QED
    BY <2>1 DEF TextsAt
<1>2. \A s \in S : (\E m \in names : s = <<"out", m>>) \/ (\E q \in Proc : s = <<"buf", q>>)
  BY TextsInPlaces DEF TextsAt
<1> HIDE DEF T, U, S
<1>3. ASSUME NEW s \in S \ {b} PROVE U[s] = T[s]
  <2>1. CASE \E m \in names : s = <<"out", m>>
    BY <1>1, <2>1
  <2>2. CASE \E q \in Proc : s = <<"buf", q>>
    <3>1. PICK q \in Proc : s = <<"buf", q>>
      BY <2>2
    <3>2. q # p
      BY <1>3, <3>1
    <3> QED
      BY <1>1, <3>1, <3>2 DEF Loses
  <2> QED
    BY <1>2, <2>1, <2>2
<1>4. Emptied(T, U, b)
  <2>1. U[b] = <<>> /\ DOMAIN T = S /\ DOMAIN U = S
    BY <1>1 DEF Loses
  <2> HIDE DEF b
  <2> QED
    BY <1>3, <2>1 DEF Emptied
<1>5. /\ Unique(T) => Unique(U)
      /\ \A i : Holds(U, i) => Holds(T, i)
      /\ \A i : Holds(T, i) => Holds(U, i) \/ i \in Ids(buf[p])
  <2>1. T[b] = buf[p]
    BY <1>1
  <2> HIDE DEF b
  <2> QED
    <3>1. \A i : Holds(T, i) => Holds(U, i) \/ i \in Ids(T[b])
      BY <1>1, <1>4, EmptiedKeeps
    <3>2. /\ Unique(T) => Unique(U)
          /\ \A i : Holds(U, i) => Holds(T, i)
      BY <1>1, <1>4, EmptiedKeeps
    <3> QED
      BY <2>1, <3>1, <3>2
<1> QED
  BY <1>5 DEF Kept, NoMore, T, U

\* A line that is not there is shown at once: names is {0}.
LEMMA OutKeeps ==
  ASSUME NEW out \in [{0} -> Seq(Line)], NEW buf \in [Proc -> Seq(Line)],
         NEW out2 \in [{0} -> Seq(Line)], NEW line \in Line,
         NEW ids, NEW most \in Nat, NEW more \in Nat,
         out2[0] = Append(out[0], line),
         Kept(Texts(out, buf), ids, most), ~Holds(Texts(out, buf), line.id),
         most <= more, line.id \in 1 .. more
  PROVE  Kept(Texts(out2, buf), ids \cup {line.id}, more)
<1> DEFINE T == Texts(out, buf)
           U == Texts(out2, buf)
           a == <<"out", 0>>
           S == Places({0})
<1>1. /\ T \in [S -> Seq(Line)] /\ U \in [S -> Seq(Line)]
      /\ T[a] = out[0] /\ U[a] = out2[0] /\ a \in S
      /\ \A q \in Proc : T[<<"buf", q>>] = buf[q] /\ U[<<"buf", q>>] = buf[q]
      /\ \A s \in S : s = a \/ \E q \in Proc : s = <<"buf", q>>
  <2>1. TextsAt(T, {0}, out, buf) /\ TextsAt(U, {0}, out2, buf)
    BY TextsInPlaces
  <2> HIDE DEF T, U
  <2> QED
    BY <2>1 DEF TextsAt
<1> HIDE DEF T, U, S
<1>2. ASSUME NEW s \in S \ {a} PROVE U[s] = T[s]
  <2>1. PICK q \in Proc : s = <<"buf", q>>
    BY <1>1, <1>2
  <2> QED
    BY <1>1, <2>1
<1>3. Longer(T, U, a, line)
  <2>1. U[a] = Append(T[a], line) /\ DOMAIN T = S /\ DOMAIN U = S
    BY <1>1
  <2> HIDE DEF a
  <2> QED
    BY <1>2, <2>1 DEF Longer
<1>4. /\ Unique(T) => Unique(U)
      /\ \A i : Holds(U, i) => Holds(T, i) \/ i = line.id
      /\ \A i : Holds(T, i) => Holds(U, i)
      /\ Holds(U, line.id)
  <2>1. ~Holds(T, line.id)
    BY DEF T
  <2> HIDE DEF a
  <2> QED
    BY <1>1, <1>3, <2>1, LongerKeeps
<1>5. Kept(T, ids, most)
  BY DEF T
<1>6. Unique(U) /\ \A i \in ids \cup {line.id} : Holds(U, i)
  BY <1>4, <1>5 DEF Kept
<1>7. ASSUME NEW i, Holds(U, i) PROVE i \in 1 .. more
  <2>1. Holds(T, i) => i \in 1 .. most
    BY <1>5 DEF Kept
  <2> QED
    BY <1>4, <1>7, <2>1
<1> QED
  BY <1>6, <1>7 DEF Kept, U
-----------------------------------------------------------------------------
(* Every line once *)

Idle == {"none", "new", "dead"}

\* A process that has no log has nothing in its buffers; one that has it has a
\* file; and one that is not in a call has no line of its own.
Ready(l) ==
  /\ l.pc \in Idle => l.buf = <<>> /\ l.outbuf = <<>>
  /\ l.pc = "new" => l.fp = -1
  /\ l.pc \notin Idle => l.fp \in LogName
  /\ l.pc \in Idle \cup {"ready"} => l.id = 0
  /\ l.pc = "print" => l.id > 0

Lines == [n : Nat, said : SUBSET Nat, shown : SUBSET Nat, lost : SUBSET Nat, unseen : SUBSET Nat]

OnceTypes ==
  /\ LogTypes /\ screen \in Seq(Line) /\ written \in Lines
  /\ mode.out \in {"off", "flush", "buffer"}

Screen == [s \in {0} |-> screen]
Bufs == [p \in Proc |-> log[p].buf]
Outbufs == [p \in Proc |-> log[p].outbuf]

\* The lines that are begun and not yet in a buffer are of different processes,
\* and nowhere else.
OwnLines ==
  \A p \in Proc :
    /\ log[p].id \in 0 .. written.n
    /\ ~Holds(Texts(file, Bufs), log[p].id)
    /\ \A q \in Proc : log[p].id = log[q].id /\ log[p].id > 0 => p = q

OnceInv ==
  /\ OnceTypes
  /\ \A p \in Proc : Ready(log[p])
  /\ OwnLines
  /\ Kept(Texts(file, Bufs), written.said \ written.lost, written.n)
  /\ Kept(Texts(Screen, Outbufs), written.shown \ written.unseen, written.n)

\* The name of any time on the clock is that of a file, in summer as well.
LEMMA NameOfTime ==
  ASSUME LogAssumption, NEW t \in 0 .. MaxClock
  PROVE  NameAt(t) \in LogName
<1> DEFINE d == Interval
           x == t + Zone + Shift
           m == MaxClock + Zone + Shift
<1>1. d \in Nat \ {0} /\ x \in Nat /\ m \in Nat /\ x <= m
  BY DEF LogAssumption
<1>2. NameAt(t) = x \div d /\ NameAt(MaxClock) = m \div d
  BY DEF NameAt
<1> HIDE DEF d, x, m
<1>3. x \div d \in Int /\ m \div d \in Int
  BY <1>1, Z3
<1>4. /\ (x \div d) * d <= x /\ x < ((x \div d) + 1) * d
      /\ m < ((m \div d) + 1) * d
  BY <1>1, <1>3, Intervals
<1>5. ASSUME NEW q \in Int, x < (q + 1) * d PROVE q >= 0
  BY <1>1, <1>5, Z3
<1>6. ASSUME NEW q \in Int, NEW r \in Int, q * d <= x, m < (r + 1) * d PROVE q <= r
  <2>1. q * d < (r + 1) * d
    BY <1>1, <1>6, Z3
  <2> QED
    BY <1>1, <2>1, Z3
<1> QED
  BY <1>2, <1>3, <1>4, <1>5, <1>6 DEF LogName

\* What changes when one process does.
LEMMA OneOfLog ==
  ASSUME OnceTypes, NEW p \in Proc, NEW l \in Record, log' = [log EXCEPT ![p] = l]
  PROVE  /\ log' \in [Proc -> Record] /\ log'[p] = l
         /\ \A q \in Proc \ {p} : log'[q] = log[q]
         /\ Bufs \in [Proc -> Seq(Line)] /\ Outbufs \in [Proc -> Seq(Line)]
         /\ Bufs' \in [Proc -> Seq(Line)] /\ Outbufs' \in [Proc -> Seq(Line)]
         /\ Bufs'[p] = l.buf /\ Outbufs'[p] = l.outbuf
         /\ Bufs[p] = log[p].buf /\ Outbufs[p] = log[p].outbuf
         /\ \A q \in Proc \ {p} : Bufs'[q] = Bufs[q] /\ Outbufs'[q] = Outbufs[q]
<1>1. log \in [Proc -> Record]
  BY DEF OnceTypes, LogTypes
<1>2. /\ log' \in [Proc -> Record] /\ log'[p] = l
      /\ \A q \in Proc \ {p} : log'[q] = log[q]
  BY <1>1
<1>3. \A r \in Record : r.buf \in Seq(Line) /\ r.outbuf \in Seq(Line)
  BY DEF Record
<1>4. /\ Bufs \in [Proc -> Seq(Line)] /\ Outbufs \in [Proc -> Seq(Line)]
      /\ Bufs' \in [Proc -> Seq(Line)] /\ Outbufs' \in [Proc -> Seq(Line)]
  BY <1>1, <1>2, <1>3 DEF Bufs, Outbufs
<1>5. \A q \in Proc : /\ Bufs[q] = log[q].buf /\ Outbufs[q] = log[q].outbuf
                      /\ Bufs'[q] = log'[q].buf /\ Outbufs'[q] = log'[q].outbuf
  BY DEF Bufs, Outbufs
<1> QED
  BY <1>2, <1>4, <1>5

\* The process changes and what is in the buffers does not.
LEMMA SameBuffers ==
  ASSUME OnceTypes, NEW p \in Proc, NEW l \in Record, log' = [log EXCEPT ![p] = l],
         l.buf = log[p].buf
  PROVE  Bufs' = Bufs
<1>1. /\ Bufs \in [Proc -> Seq(Line)] /\ Bufs' \in [Proc -> Seq(Line)]
      /\ Bufs'[p] = Bufs[p] /\ \A q \in Proc \ {p} : Bufs'[q] = Bufs[q]
  BY OneOfLog
<1> QED
  BY <1>1

\* What was printed for the screen stays when a log only moves.
LEMMA SameOutbuffers ==
  ASSUME OnceTypes, NEW p \in Proc, NEW l \in Record, log' = [log EXCEPT ![p] = l],
         l.outbuf = log[p].outbuf
  PROVE  Outbufs' = Outbufs
<1>1. /\ Outbufs \in [Proc -> Seq(Line)] /\ Outbufs' \in [Proc -> Seq(Line)]
      /\ Outbufs'[p] = Outbufs[p] /\ \A q \in Proc \ {p} : Outbufs'[q] = Outbufs[q]
  BY OneOfLog
<1> QED
  BY <1>1

\* A process changes, no more lines are in the log, and its own line is the one it
\* had or none: then the lines that are begun are still apart.
LEMMA OwnLinesKept ==
  ASSUME OnceInv, NEW p \in Proc, NEW l \in Record, log' = [log EXCEPT ![p] = l],
         l.id \in {0, log[p].id}, written'.n = written.n,
         NoMore(Texts(file', Bufs'), Texts(file, Bufs))
  PROVE  OwnLines'
<1>1. /\ \A q \in Proc : log'[q].id \in {0, log[q].id}
      /\ \A q \in Proc : log[q].id \in 0 .. written.n /\ ~Holds(Texts(file, Bufs), log[q].id)
      /\ ~Holds(Texts(file, Bufs), 0)
      /\ written.n \in Nat
  <2>1. OnceTypes /\ OwnLines
    BY DEF OnceInv
  <2>2. log'[p] = l /\ \A q \in Proc \ {p} : log'[q] = log[q]
    BY <2>1, OneOfLog
  <2>3. Holds(Texts(file, Bufs), 0) => 0 \in 1 .. written.n
    BY DEF OnceInv, Kept
  <2>4. written.n \in Nat
    BY <2>1 DEF OnceTypes, LogTypes
  <2> QED
    BY <2>1, <2>2, <2>3, <2>4 DEF OwnLines
<1>2. ASSUME NEW q \in Proc
      PROVE  log'[q].id \in 0 .. written'.n /\ ~Holds(Texts(file', Bufs'), log'[q].id)
  BY <1>1 DEF NoMore
<1>3. ASSUME NEW q \in Proc, NEW r \in Proc, log'[q].id = log'[r].id, log'[q].id > 0
      PROVE  q = r
  <2>1. log'[q].id = log[q].id /\ log'[r].id = log[r].id
    BY <1>1, <1>3
  <2> QED
    BY <1>3, <2>1 DEF OnceInv, OwnLines
<1> QED
  BY <1>2, <1>3 DEF OwnLines

\* A step of a process that neither begins a line, nor writes one, nor flushes.
LEMMA NothingWritten ==
  ASSUME OnceInv, NEW p \in Proc, NEW l \in Record, log' = [log EXCEPT ![p] = l],
         Ready(l), l.id \in {0, log[p].id}, l.buf = log[p].buf, l.outbuf = log[p].outbuf,
         UNCHANGED <<now, file, screen, mode, written>>
  PROVE  OnceInv'
<1>1. OnceTypes /\ \A q \in Proc : Ready(log[q])
  BY DEF OnceInv
<1>2. /\ log' \in [Proc -> Record] /\ log'[p] = l
      /\ \A q \in Proc \ {p} : log'[q] = log[q]
  BY <1>1, OneOfLog
<1>3. Bufs' = Bufs /\ Outbufs' = Outbufs /\ Screen' = Screen
  <2>1. Bufs' = Bufs
    BY <1>1, SameBuffers
  <2>2. Outbufs' = Outbufs
    BY <1>1, SameOutbuffers
  <2> QED
    BY <2>1, <2>2 DEF Screen
<1>4. OnceTypes'
  BY <1>1, <1>2 DEF OnceTypes, LogTypes
<1>5. \A q \in Proc : Ready(log'[q])
  BY <1>1, <1>2
<1>6. /\ Texts(file', Bufs') = Texts(file, Bufs)
      /\ Texts(Screen', Outbufs') = Texts(Screen, Outbufs)
  BY <1>3
<1>7. OwnLines'
  <2>1. written'.n = written.n
    OBVIOUS
  <2>2. NoMore(Texts(file', Bufs'), Texts(file, Bufs))
    BY <1>6 DEF NoMore
  <2> QED
    BY <2>1, <2>2, OwnLinesKept
<1>8. /\ Kept(Texts(file, Bufs), written.said \ written.lost, written.n)
      /\ Kept(Texts(Screen, Outbufs), written.shown \ written.unseen, written.n)
  BY DEF OnceInv
<1>9. /\ Kept(Texts(file', Bufs'), written'.said \ written'.lost, written'.n)
      /\ Kept(Texts(Screen', Outbufs'), written'.shown \ written'.unseen, written'.n)
  BY <1>6, <1>8
<1> QED
  BY <1>4, <1>5, <1>7, <1>9 DEF OnceInv

\* What a process has in its buffer is written to its file or is lost, and what it
\* has in the other is shown, or lost, or stays.
LEMMA BufferGoes ==
  ASSUME OnceInv, NEW p \in Proc, NEW l \in Record, log' = [log EXCEPT ![p] = l],
         Ready(l), l.id \in {0, log[p].id}, l.buf = <<>>,
         written' \in Lines, written'.n = written.n,
         \/ /\ file' = Added(file, log[p].fp, log[p].buf) /\ log[p].fp \in LogName
            /\ written'.said \ written'.lost \subseteq written.said \ written.lost
         \/ /\ file' = file
            /\ written'.said \ written'.lost \subseteq
                 (written.said \ written.lost) \ Ids(log[p].buf),
         \/ /\ screen' = screen /\ l.outbuf = log[p].outbuf
            /\ written'.shown \ written'.unseen \subseteq written.shown \ written.unseen
         \/ /\ screen' = screen \o log[p].outbuf /\ l.outbuf = <<>>
            /\ written'.shown \ written'.unseen \subseteq written.shown \ written.unseen
         \/ /\ screen' = screen /\ l.outbuf = <<>>
            /\ written'.shown \ written'.unseen \subseteq
                 (written.shown \ written.unseen) \ Ids(log[p].outbuf),
         UNCHANGED <<now, mode>>
  PROVE  OnceInv'
<1> DEFINE n == log[p].fp
           ids == written.said \ written.lost
           left == written'.said \ written'.lost
           sids == written.shown \ written.unseen
           sleft == written'.shown \ written'.unseen
<1>1. OnceTypes /\ \A q \in Proc : Ready(log[q])
  BY DEF OnceInv
<1>2. /\ log' \in [Proc -> Record] /\ log'[p] = l
      /\ \A q \in Proc \ {p} : log'[q] = log[q]
      /\ Bufs \in [Proc -> Seq(Line)] /\ Outbufs \in [Proc -> Seq(Line)]
      /\ Bufs' \in [Proc -> Seq(Line)] /\ Outbufs' \in [Proc -> Seq(Line)]
      /\ Bufs'[p] = l.buf /\ Outbufs'[p] = l.outbuf
      /\ Bufs[p] = log[p].buf /\ Outbufs[p] = log[p].outbuf
      /\ \A q \in Proc \ {p} : Bufs'[q] = Bufs[q] /\ Outbufs'[q] = Outbufs[q]
  BY <1>1, OneOfLog
<1>3. /\ file \in [LogName -> Seq(Line)] /\ log[p].buf \in Seq(Line)
      /\ log[p].outbuf \in Seq(Line) /\ screen \in Seq(Line)
  BY <1>1 DEF OnceTypes, LogTypes, Record
<1>4. Kept(Texts(file, Bufs), ids, written.n) /\ Kept(Texts(Screen, Outbufs), sids, written.n)
  BY DEF OnceInv
<1>5. \A T, all, some : Kept(T, all, written.n) /\ some \subseteq all => Kept(T, some, written.n)
  BY DEF Kept
<1> DEFINE files == file'
           bufs == Bufs'
           outbufs == Outbufs'
           shown == Screen'
<1>6. /\ file' \in [LogName -> Seq(Line)]
      /\ Kept(Texts(file', Bufs'), left, written.n)
      /\ NoMore(Texts(file', Bufs'), Texts(file, Bufs))
  <2>1. ASSUME file' = Added(file, n, log[p].buf), n \in LogName, left \subseteq ids
        PROVE  /\ files \in [LogName -> Seq(Line)]
               /\ Kept(Texts(files, bufs), left, written.n)
               /\ NoMore(Texts(files, bufs), Texts(file, Bufs))
    <3> DEFINE all == file[n] \o log[p].buf
    <3>1. all \in Seq(Line) /\ all = file[n] \o Bufs[p]
      BY <1>2, <1>3, <2>1
    <3>2. files = [file EXCEPT ![n] = all]
      BY <2>1 DEF Added
    <3>3. /\ files \in [LogName -> Seq(Line)] /\ files[n] = all
          /\ \A m \in LogName \ {n} : files[m] = file[m]
      <4> HIDE DEF n, all, files
      <4> QED
        BY <1>3, <2>1, <3>1, <3>2
    <3>4. Flushes(file, Bufs, files, bufs, n, p)
      <4>1. /\ DOMAIN file = LogName /\ bufs[p] = <<>>
            /\ \A q \in Proc \ {p} : bufs[q] = Bufs[q]
        BY <1>2, <1>3
      <4> HIDE DEF n, all, files, bufs
      <4> QED
        BY <3>1, <3>3, <4>1 DEF Flushes
    <3>5. bufs \in [Proc -> Seq(Line)]
      BY <1>2
    <3> HIDE DEF n, all, files, bufs, ids, left
    <3>6. Kept(Texts(files, bufs), ids, written.n) /\ NoMore(Texts(files, bufs), Texts(file, Bufs))
      BY <1>2, <1>3, <1>4, <2>1, <3>3, <3>4, <3>5, FlushKeeps
    <3> QED
      BY <1>5, <2>1, <3>3, <3>6
  <2>2. ASSUME file' = file, left \subseteq ids \ Ids(log[p].buf)
        PROVE  /\ files \in [LogName -> Seq(Line)]
               /\ Kept(Texts(files, bufs), left, written.n)
               /\ NoMore(Texts(files, bufs), Texts(file, Bufs))
    <3>1. Loses(Bufs, bufs, p) /\ bufs \in [Proc -> Seq(Line)] /\ files = file
      BY <1>2, <2>2 DEF Loses
    <3> HIDE DEF files, bufs, ids, left
    <3>2. /\ Kept(Texts(file, bufs), ids \ Ids(Bufs[p]), written.n)
          /\ NoMore(Texts(file, bufs), Texts(file, Bufs))
      BY <1>2, <1>3, <1>4, <3>1, LossKeeps
    <3> QED
      BY <1>2, <1>3, <1>5, <2>2, <3>1, <3>2
  <2> QED
    BY <2>1, <2>2
<1>7. screen' \in Seq(Line) /\ Kept(Texts(Screen', Outbufs'), sleft, written.n)
  <2>1. /\ Screen \in [{0} -> Seq(Line)] /\ Screen[0] = screen /\ screen \o log[p].outbuf \in Seq(Line)
    BY <1>3 DEF Screen
  <2>2. ASSUME screen' = screen, l.outbuf = log[p].outbuf, sleft \subseteq sids
        PROVE  screen' \in Seq(Line) /\ Kept(Texts(shown, outbufs), sleft, written.n)
    <3>1. outbufs = Outbufs /\ shown = Screen
      BY <1>1, <2>2, SameOutbuffers DEF Screen
    <3> HIDE DEF shown, outbufs, sids, sleft
    <3> QED
      BY <1>3, <1>4, <1>5, <2>2, <3>1
  <2>3. ASSUME screen' = screen \o log[p].outbuf, l.outbuf = <<>>, sleft \subseteq sids
        PROVE  screen' \in Seq(Line) /\ Kept(Texts(shown, outbufs), sleft, written.n)
    <3>1. /\ shown \in [{0} -> Seq(Line)] /\ shown[0] = Screen[0] \o Outbufs[p]
          /\ outbufs \in [Proc -> Seq(Line)]
      BY <1>2, <2>1, <2>3 DEF Screen
    <3>2. 0 \in {0} /\ Flushes(Screen, Outbufs, shown, outbufs, 0, p)
      <4>1. DOMAIN Screen \ {0} = {} /\ outbufs[p] = <<>> /\ \A q \in Proc \ {p} : outbufs[q] = Outbufs[q]
        BY <1>2, <2>1, <2>3
      <4> HIDE DEF shown, outbufs
      <4> QED
        BY <3>1, <4>1 DEF Flushes
    <3> HIDE DEF shown, outbufs, sids, sleft
    <3>3. Kept(Texts(shown, outbufs), sids, written.n)
      BY <1>2, <1>4, <2>1, <3>1, <3>2, FlushKeeps
    <3> QED
      BY <1>5, <2>1, <2>3, <3>3
  <2>4. ASSUME screen' = screen, l.outbuf = <<>>, sleft \subseteq sids \ Ids(log[p].outbuf)
        PROVE  screen' \in Seq(Line) /\ Kept(Texts(shown, outbufs), sleft, written.n)
    <3>1. Loses(Outbufs, outbufs, p) /\ outbufs \in [Proc -> Seq(Line)] /\ shown = Screen
      BY <1>2, <2>4 DEF Loses, Screen
    <3> HIDE DEF shown, outbufs, sids, sleft
    <3>2. Kept(Texts(Screen, outbufs), sids \ Ids(Outbufs[p]), written.n)
      BY <1>2, <1>4, <2>1, <3>1, LossKeeps
    <3> QED
      BY <1>2, <1>3, <1>5, <2>4, <3>1, <3>2
  <2> QED
    BY <2>2, <2>3, <2>4
<1>8. OnceTypes'
  BY <1>1, <1>2, <1>6, <1>7 DEF OnceTypes, LogTypes
<1>9. \A q \in Proc : Ready(log'[q])
  BY <1>1, <1>2
<1>10. OwnLines'
  BY <1>6, OwnLinesKept
<1>11. /\ Kept(Texts(file', Bufs'), written'.said \ written'.lost, written'.n)
       /\ Kept(Texts(Screen', Outbufs'), written'.shown \ written'.unseen, written'.n)
  BY <1>6, <1>7
<1> QED
  BY <1>8, <1>9, <1>10, <1>11 DEF OnceInv

\* No line is a set of lines.
LEMMA NoneLost == {} \in SUBSET Nat
OBVIOUS

\* The history after lines were reported, or lost.
LEMMA LinesMore ==
  ASSUME written \in Lines, NEW said \in SUBSET Nat, NEW lost \in SUBSET Nat,
         NEW unseen \in SUBSET Nat,
         written' = [written EXCEPT !.said = @ \cup said, !.lost = @ \cup lost,
                                    !.unseen = @ \cup unseen]
  PROVE  /\ written' \in Lines /\ written'.n = written.n /\ written'.shown = written.shown
         /\ written'.said = written.said \cup said /\ written'.lost = written.lost \cup lost
         /\ written'.unseen = written.unseen \cup unseen
<1>1. /\ written.said \cup said \in SUBSET Nat /\ written.lost \cup lost \in SUBSET Nat
      /\ written.unseen \cup unseen \in SUBSET Nat /\ written.n \in Nat
      /\ written.shown \in SUBSET Nat
  BY DEF Lines
<1>2. written' = [n |-> written.n, said |-> written.said \cup said, shown |-> written.shown,
                  lost |-> written.lost \cup lost, unseen |-> written.unseen \cup unseen]
  BY DEF Lines
<1> QED
  BY <1>1, <1>2, SMTT(60) DEF Lines

\* The history after buffers were lost.
LEMMA LinesLess ==
  ASSUME written \in Lines, NEW lost \in SUBSET Nat, NEW unseen \in SUBSET Nat,
         written' = [written EXCEPT !.lost = @ \cup lost, !.unseen = @ \cup unseen]
  PROVE  /\ written' \in Lines /\ written'.n = written.n /\ written'.shown = written.shown
         /\ written'.said = written.said /\ written'.lost = written.lost \cup lost
         /\ written'.unseen = written.unseen \cup unseen
<1>1. written' = [n |-> written.n, said |-> written.said, shown |-> written.shown,
                  lost |-> written.lost \cup lost, unseen |-> written.unseen \cup unseen]
  BY DEF Lines
<1>2. /\ written.lost \cup lost \in SUBSET Nat /\ written.unseen \cup unseen \in SUBSET Nat
      /\ written.n \in Nat /\ written.shown \in SUBSET Nat /\ written.said \in SUBSET Nat
  BY DEF Lines
<1> QED
  BY <1>1, <1>2, SMTT(60) DEF Lines

\* Lines have numbers.
LEMMA IdsAreNumbers ==
  ASSUME NEW s \in Seq(Line), NEW ok \in BOOLEAN
  PROVE  /\ Ids(s) \in SUBSET Nat /\ Lost(s, ok) \in SUBSET Nat
         /\ ok => Lost(s, ok) = {}
         /\ ~ok => Lost(s, ok) = Ids(s)
<1>1. \A i \in 1 .. Len(s) : s[i].id \in Nat
  <2>1. \A i \in 1 .. Len(s) : s[i] \in Line
    OBVIOUS
  <2> QED
    BY <2>1 DEF Line
<1> QED
  BY <1>1 DEF Ids, Lost

\* What Open, PrintLine and Flush make of a record.
OpenOf(l, name, t) == [l EXCEPT !.fp = name, !.buf = <<>>, !.at = t, !.pc = "next"]
FailOf(l, t) == [l EXCEPT !.pc = IF l.pc = "new" THEN "dead" ELSE "next", !.at = t]
PrintOf(l, left) == [l EXCEPT !.pc = "ready", !.id = 0, !.at = 0, !.buf = left]
FlushOf(l) == [l EXCEPT !.buf = <<>>, !.outbuf = <<>>]

\* The record after an open,
LEMMA OpenMakes ==
  ASSUME NEW l \in Record, NEW name \in Int, NEW t \in Nat, NEW r, r = OpenOf(l, name, t)
  PROVE  /\ r \in Record /\ r.pc = "next" /\ r.fp = name /\ r.id = l.id
         /\ r.buf = <<>> /\ r.outbuf = l.outbuf
<1>1. <<>> \in Seq(Line)
  OBVIOUS
<1>2. r = [pc |-> "next", fp |-> name, buf |-> <<>>, outbuf |-> l.outbuf,
           nextrotate |-> l.nextrotate, id |-> l.id, at |-> t, behind |-> l.behind]
  BY DEF OpenOf, Record
<1> QED
  BY <1>1, <1>2, SMTT(60) DEF Record

\* after one that failed,
LEMMA FailMakes ==
  ASSUME NEW l \in Record, NEW t \in Nat, NEW r, r = FailOf(l, t)
  PROVE  /\ r \in Record /\ r.pc = (IF l.pc = "new" THEN "dead" ELSE "next")
         /\ r.fp = l.fp /\ r.id = l.id /\ r.buf = l.buf /\ r.outbuf = l.outbuf
<1> DEFINE to == IF l.pc = "new" THEN "dead" ELSE "next"
<1>1. to \in {"dead", "next"}
  OBVIOUS
<1>2. r = [pc |-> to, fp |-> l.fp, buf |-> l.buf, outbuf |-> l.outbuf,
           nextrotate |-> l.nextrotate, id |-> l.id, at |-> t, behind |-> l.behind]
  BY DEF FailOf, Record
<1> HIDE DEF to
<1>3. r \in Record
  BY <1>1, <1>2, SMTT(60) DEF Record
<1> QED
  BY <1>2, <1>3 DEF to

\* after a line was printed,
LEMMA PrintMakes ==
  ASSUME NEW l \in Record, NEW left \in Seq(Line), NEW r, r = PrintOf(l, left)
  PROVE  /\ r \in Record /\ r.pc = "ready" /\ r.fp = l.fp /\ r.id = 0
         /\ r.buf = left /\ r.outbuf = l.outbuf
<1>1. r = [pc |-> "ready", fp |-> l.fp, buf |-> left, outbuf |-> l.outbuf,
           nextrotate |-> l.nextrotate, id |-> 0, at |-> 0, behind |-> l.behind]
  BY DEF PrintOf, Record
<1> QED
  BY <1>1, SMTT(60) DEF Record

\* and after a flush.
LEMMA FlushMakes ==
  ASSUME NEW l \in Record, NEW r, r = FlushOf(l)
  PROVE  /\ r \in Record /\ r.pc = l.pc /\ r.fp = l.fp /\ r.id = l.id
         /\ r.buf = <<>> /\ r.outbuf = <<>>
<1>1. <<>> \in Seq(Line)
  OBVIOUS
<1>2. r = [pc |-> l.pc, fp |-> l.fp, buf |-> <<>>, outbuf |-> <<>>,
           nextrotate |-> l.nextrotate, id |-> l.id, at |-> l.at, behind |-> l.behind]
  BY DEF FlushOf, Record
<1> QED
  BY <1>1, <1>2, SMTT(60) DEF Record

\* A process with no log is one.
LEMMA NoLogIsReady ==
  /\ NoLog \in Record /\ Ready(NoLog) /\ NoLog.pc = "none" /\ NoLog.id = 0
  /\ NoLog.buf = <<>> /\ NoLog.outbuf = <<>> /\ NoLog.fp = -1
  /\ Dead \in Record /\ Ready(Dead) /\ Dead.id = 0
  /\ Dead.buf = <<>> /\ Dead.outbuf = <<>>
<1>1. <<>> \in Seq(Line) /\ -1 \in Int
  OBVIOUS
<1>2. /\ NoLog \in Record /\ NoLog.pc = "none" /\ NoLog.id = 0
      /\ NoLog.buf = <<>> /\ NoLog.outbuf = <<>> /\ NoLog.fp = -1
  BY <1>1 DEF NoLog, Record
<1>3. /\ Dead \in Record /\ Dead.pc = "dead" /\ Dead.id = 0
      /\ Dead.buf = <<>> /\ Dead.outbuf = <<>>
  BY <1>2 DEF Dead, Record
<1> QED
  BY <1>2, <1>3 DEF Ready, Idle

\* The log is opened, or not: what was in the buffer is in the old file then, or lost.
LEMMA OpenKeepsOnce ==
  ASSUME LogAssumption, OnceInv, NEW p \in Proc, Open(p)
  PROVE  OnceInv'
<1> DEFINE l == log[p]
           name == NameAt(now)
<1>1. /\ l \in Record /\ Ready(l) /\ now \in Nat /\ name \in LogName /\ name \in Int
      /\ l.pc \in {"new", "open"} /\ UNCHANGED <<now, screen, mode>> /\ written \in Lines
  <2>1. name \in LogName
    BY NameOfTime DEF OnceInv, OnceTypes, LogTypes
  <2> QED
    BY <2>1 DEF OnceInv, OnceTypes, LogTypes, Open, LogName, LogAssumption
<1>2. CASE Reopen(p, name)
  <2> DEFINE r == OpenOf(l, name, now)
  <2>1. log' = [log EXCEPT ![p] = r]
    BY <1>2 DEF Reopen, OpenOf
  <2>2. r \in Record /\ r.pc = "next" /\ r.fp = name /\ r.id = l.id /\ r.buf = <<>> /\ r.outbuf = l.outbuf
    <3>1. l \in Record /\ name \in Int /\ now \in Nat /\ r = OpenOf(l, name, now)
      BY <1>1
    <3> HIDE DEF r, name, l
    <3> QED
      BY <3>1, OpenMakes
  <2>3. PICK ok \in BOOLEAN :
          /\ file' = IF ok /\ l.fp # -1 THEN Added(file, l.fp, l.buf) ELSE file
          /\ written' = [written EXCEPT !.lost = @ \cup Lost(l.buf, ok)]
    BY <1>2 DEF Reopen
  <2> HIDE DEF r, name
  <2>4. Ready(r) /\ r.id \in {0, log[p].id} /\ r.outbuf = log[p].outbuf
    BY <1>1, <2>2 DEF Ready, Idle
  <2>5. /\ Lost(l.buf, ok) \in SUBSET Nat /\ (ok => Lost(l.buf, ok) = {})
        /\ (~ok => Lost(l.buf, ok) = Ids(l.buf))
    <3>1. l.buf \in Seq(Line)
      BY <1>1 DEF Record
    <3> QED
      BY <3>1, IdsAreNumbers
  <2>6. /\ written' \in Lines /\ written'.n = written.n /\ written'.shown = written.shown
        /\ written'.said = written.said /\ written'.unseen = written.unseen
        /\ written'.lost = written.lost \cup Lost(l.buf, ok)
    <3> DEFINE gone == Lost(l.buf, ok)
               none == {}
    <3>1. /\ written' = [written EXCEPT !.lost = @ \cup gone, !.unseen = @ \cup none]
          /\ gone \in SUBSET Nat /\ none \in SUBSET Nat /\ written \in Lines
      BY <1>1, <2>3, <2>5 DEF Lines
    <3>2. written.unseen \cup none = written.unseen
      OBVIOUS
    <3> HIDE DEF gone, none
    <3>3. /\ written' \in Lines /\ written'.n = written.n /\ written'.shown = written.shown
          /\ written'.said = written.said /\ written'.lost = written.lost \cup gone
          /\ written'.unseen = written.unseen \cup none
      BY <3>1, LinesLess
    <3> QED
      BY <3>2, <3>3 DEF gone
  <2>7. \/ /\ file' = Added(file, log[p].fp, log[p].buf) /\ log[p].fp \in LogName
           /\ written'.said \ written'.lost \subseteq written.said \ written.lost
        \/ /\ file' = file
           /\ written'.said \ written'.lost \subseteq
                (written.said \ written.lost) \ Ids(log[p].buf)
    <3>1. CASE ok /\ l.fp # -1
      <4>1. l.pc = "open" /\ l.fp \in LogName
        BY <1>1, <3>1 DEF Ready, Idle
      <4> QED
        BY <2>3, <2>6, <3>1, <4>1
    <3>2. CASE ok /\ l.fp = -1
      <4>1. Ids(l.buf) = {}
        <5>1. l.pc = "new"
          BY <1>1, <3>2 DEF Ready, Idle, LogName
        <5>2. l.buf = <<>> /\ 1 .. Len(<<>>) = {}
          BY <1>1, <5>1 DEF Ready, Idle
        <5> QED
          BY <5>2 DEF Ids
      <4> QED
        BY <2>3, <2>6, <3>2, <4>1
    <3>3. CASE ~ok
      BY <2>3, <2>5, <2>6, <3>3
    <3> QED
      BY <3>1, <3>2, <3>3
  <2>8. /\ screen' = screen /\ r.outbuf = log[p].outbuf
        /\ written'.shown \ written'.unseen \subseteq written.shown \ written.unseen
    BY <1>1, <2>4, <2>6
  <2> HIDE DEF l
  <2> QED
    BY <1>1, <2>1, <2>2, <2>4, <2>6, <2>7, <2>8, BufferGoes
<1>3. CASE /\ log' = [log EXCEPT ![p].pc = IF @ = "new" THEN "dead" ELSE "next", ![p].at = now]
           /\ UNCHANGED <<file, written>>
  <2> DEFINE r == FailOf(l, now)
  <2>1. log' = [log EXCEPT ![p] = r]
    BY <1>3 DEF FailOf
  <2>2. /\ r \in Record /\ r.pc = (IF l.pc = "new" THEN "dead" ELSE "next")
        /\ r.fp = l.fp /\ r.id = l.id /\ r.buf = l.buf /\ r.outbuf = l.outbuf
    <3>1. l \in Record /\ now \in Nat /\ r = FailOf(l, now)
      BY <1>1
    <3> HIDE DEF r, l
    <3> QED
      BY <3>1, FailMakes
  <2> HIDE DEF r, name
  <2>3. Ready(r)
    BY <1>1, <2>2 DEF Ready, Idle
  <2>4. UNCHANGED <<now, file, screen, mode, written>>
    BY <1>1, <1>3
  <2>5. r.id \in {0, log[p].id} /\ r.outbuf = log[p].outbuf /\ r.buf = log[p].buf
    BY <2>2
  <2> HIDE DEF l
  <2> QED
    BY <2>1, <2>2, <2>3, <2>4, <2>5, NothingWritten
<1> QED
  BY <1>2, <1>3 DEF Open

\* Setting the next rotation moves no line.
LEMMA SetNextKeepsOnce ==
  ASSUME LogAssumption, OnceInv, NEW p \in Proc, SetNext(p)
  PROVE  OnceInv'
<1> DEFINE l == log[p]
           n == IF rotateinterval = 0 THEN 0 ELSE NextRotate(now)
           old == NameAt(now) - l.fp
           to == IF l.id = 0 THEN "ready" ELSE "print"
           r == SetNextOf(l, n, now, old, to)
<1>1. /\ l \in Record /\ Ready(l) /\ now \in Nat /\ NameAt(now) \in Int
      /\ l.pc = "next" /\ UNCHANGED <<now, file, screen, mode, written>>
  <2>1. NameAt(now) \in LogName
    BY NameOfTime DEF OnceInv, OnceTypes, LogTypes
  <2> QED
    BY <2>1 DEF OnceInv, OnceTypes, LogTypes, SetNext, LogName, LogAssumption
<1>2. n \in Int
  <2>1. rotateinterval # 0 => NextRotate(now) \in Int
    BY <1>1 DEF LogAssumption, NextRotate
  <2> QED
    BY <2>1
<1>3. /\ old \in Int /\ to \in {"ready", "print"} /\ l.fp \in Int /\ l.id \in Nat
      /\ l.buf \in Seq(Line) /\ l.outbuf \in Seq(Line)
  BY <1>1 DEF Record
<1>4. r = [pc |-> to, fp |-> l.fp, buf |-> l.buf, outbuf |-> l.outbuf,
           nextrotate |-> n, id |-> l.id, at |-> now, behind |-> old]
  <2> HIDE DEF n, old, to, l
  <2> QED
    BY <1>1, SetNextMakes
<1>5. log' = [log EXCEPT ![p] = r]
  BY DEF SetNext, SetNextOf
<1>6. (to = "ready" => l.id = 0) /\ (to = "print" => l.id # 0)
  OBVIOUS
<1> HIDE DEF n, old, to, r
<1>7. /\ r \in Record /\ r.pc = to /\ r.fp = l.fp /\ r.id = l.id
      /\ r.buf = l.buf /\ r.outbuf = l.outbuf
  <2> HIDE DEF l
  <2> QED
    BY <1>1, <1>2, <1>3, <1>4, SMTT(60) DEF Record
<1>8. Ready(r)
  <2> HIDE DEF l
  <2> QED
    BY <1>1, <1>3, <1>6, <1>7 DEF Ready, Idle
<1>9. r.id \in {0, log[p].id} /\ r.outbuf = log[p].outbuf /\ r.buf = log[p].buf
  BY <1>7
<1> HIDE DEF l
<1> QED
  BY <1>1, <1>5, <1>7, <1>8, <1>9, NothingWritten

\* What is written goes to the duplicate at once, and waits for the file.
LEMMA BeginKeepsOnce ==
  ASSUME LogAssumption, OnceInv, NEW p \in Proc, Begin(p)
  PROVE  OnceInv'
<1> DEFINE l == log[p]
           due == l.nextrotate > 0 /\ now >= l.nextrotate
           k == written.n + 1
           line == [id |-> k, at |-> now, behind |-> 0]
           out == IF mode.out = "buffer" THEN Append(l.outbuf, line) ELSE l.outbuf
           to == IF due THEN "open" ELSE "print"
           r == BeginOf(l, k, now, out, to)
           shown == IF mode.out = "off" THEN written.shown ELSE written.shown \cup {k}
           old == written.shown \ written.unseen
<1>1. /\ OnceTypes /\ l \in Record /\ Ready(l) /\ now \in Nat /\ l.pc = "ready"
      /\ written \in Lines /\ written.n \in Nat /\ k \in Nat /\ k > 0 /\ written.n < k
      /\ UNCHANGED <<now, file, mode>>
  BY DEF OnceInv, OnceTypes, LogTypes, Begin, Lines
<1>2. line \in Line /\ line.id = k
  BY <1>1 DEF Line
<1>3. /\ l.buf \in Seq(Line) /\ l.outbuf \in Seq(Line) /\ screen \in Seq(Line)
      /\ file \in [LogName -> Seq(Line)]
  BY <1>1 DEF Record, OnceTypes, LogTypes
<1>4. out \in Seq(Line) /\ to \in {"open", "print"}
  <2> HIDE DEF line, l, due
  <2> QED
    BY <1>2, <1>3
<1>5. r = [pc |-> to, fp |-> l.fp, buf |-> l.buf, outbuf |-> out,
           nextrotate |-> l.nextrotate, id |-> k, at |-> now, behind |-> l.behind]
  <2> HIDE DEF k, out, to, l
  <2> QED
    BY <1>1, BeginMakes
<1>6. /\ log' = [log EXCEPT ![p] = r]
      /\ \E ok \in BOOLEAN :
           /\ screen' = (IF ok /\ mode.out = "flush" THEN Append(screen, line) ELSE screen)
           /\ written' = [written EXCEPT !.n = k, !.shown = shown,
                !.unseen = IF mode.out = "flush" THEN @ \cup Lost(<<line>>, ok) ELSE @]
  <2>1. log' = [log EXCEPT ![p] = r]
    BY <1>2 DEF Begin, BeginOf
  <2> QED
    BY <2>1 DEF Begin
<1>6a. PICK ok \in BOOLEAN :
         /\ screen' = (IF ok /\ mode.out = "flush" THEN Append(screen, line) ELSE screen)
         /\ written' = [written EXCEPT !.n = k, !.shown = shown,
              !.unseen = IF mode.out = "flush" THEN @ \cup Lost(<<line>>, ok) ELSE @]
  BY <1>6
<1>6b. Lost(<<line>>, ok) \in SUBSET Nat /\ Lost(<<line>>, ok) = (IF ok THEN {} ELSE {k})
  <2>1. <<line>> \in Seq(Line) /\ Ids(<<line>>) = {k}
    <3>1. <<line>>[1] = line /\ 1 .. Len(<<line>>) = {1}
      OBVIOUS
    <3>2. {<<line>>[i].id : i \in 1 .. Len(<<line>>)} = {k}
      <4> HIDE DEF line
      <4> QED
        BY <1>2, <3>1
    <3> QED
      BY <1>2, <3>2 DEF Ids
  <2> HIDE DEF line, k
  <2> QED
    BY <2>1, IdsAreNumbers
<1> DEFINE unseen == IF mode.out = "flush" THEN written.unseen \cup Lost(<<line>>, ok) ELSE written.unseen
<1> HIDE DEF to, r, due
<1>7. /\ r \in Record /\ r.pc = to /\ r.fp = l.fp /\ r.id = k
      /\ r.buf = l.buf /\ r.outbuf = out
  <2> HIDE DEF l, k, out
  <2> QED
    BY <1>1, <1>4, <1>5, SMTT(60) DEF Record
<1>8. Ready(r)
  <2> HIDE DEF l, k, out
  <2> QED
    BY <1>1, <1>4, <1>7 DEF Ready, Idle
<1>9. /\ written' \in Lines /\ written'.n = k /\ written'.shown = shown
      /\ written'.said = written.said /\ written'.lost = written.lost
      /\ written'.unseen = unseen
  <2>1. shown \in SUBSET Nat /\ unseen \in SUBSET Nat
    <3> HIDE DEF line
    <3> QED
      BY <1>1, <1>6b DEF Lines
  <2>2. written' = [written EXCEPT !.n = k, !.shown = shown, !.unseen = unseen]
    BY <1>6a
  <2> HIDE DEF k, shown, unseen
  <2> QED
    BY <1>1, <2>1, <2>2 DEF Lines
<1>10. /\ log' \in [Proc -> Record] /\ log'[p] = r
       /\ \A q \in Proc \ {p} : log'[q] = log[q]
       /\ Outbufs \in [Proc -> Seq(Line)] /\ Outbufs' \in [Proc -> Seq(Line)]
       /\ Outbufs'[p] = out /\ Outbufs[p] = l.outbuf
       /\ \A q \in Proc \ {p} : Outbufs'[q] = Outbufs[q]
       /\ Bufs' = Bufs
  <2> HIDE DEF out
  <2>1. Bufs' = Bufs
    BY <1>1, <1>6, <1>7, SameBuffers
  <2> QED
    BY <1>1, <1>6, <1>7, <2>1, OneOfLog
<1>11. /\ Kept(Texts(file, Bufs), written.said \ written.lost, written.n)
       /\ Kept(Texts(Screen, Outbufs), written.shown \ written.unseen, written.n)
       /\ OwnLines /\ \A q \in Proc : Ready(log[q])
  BY DEF OnceInv
<1>12. Kept(Texts(file', Bufs'), written'.said \ written'.lost, written'.n)
  <2>1. Kept(Texts(file, Bufs), written.said \ written.lost, k)
    <3> HIDE DEF k
    <3> QED
      BY <1>1, <1>11 DEF Kept
  <2> QED
    BY <1>1, <1>9, <1>10, <2>1
<1>13. Screen \in [{0} -> Seq(Line)] /\ Screen[0] = screen
  BY <1>3 DEF Screen
<1>14. Kept(Texts(Screen', Outbufs'), written'.shown \ written'.unseen, written'.n)
  <2>1. ~Holds(Texts(Screen, Outbufs), k) /\ Kept(Texts(Screen, Outbufs), old, k)
    <3> HIDE DEF k
    <3> QED
      BY <1>1, <1>11 DEF Kept
  <2>2. \A T, ids : Kept(T, ids, k) /\ shown \ unseen \subseteq ids => Kept(T, shown \ unseen, k)
    BY DEF Kept
  <2>3. CASE mode.out = "buffer"
    <3>1. Begins(Outbufs, Outbufs', p, line) /\ Screen' = Screen
      BY <1>6a, <1>10, <2>3 DEF Begins, Screen
    <3>2. written.n <= k /\ line.id \in 1 .. k /\ ~Holds(Texts(Screen, Outbufs), line.id)
      BY <1>1, <1>2, <2>1
    <3>3. Kept(Texts(Screen, Outbufs'), old \cup {line.id}, k)
      <4> HIDE DEF k, line, l, out, shown
      <4> QED
        BY <1>1, <1>2, <1>10, <1>11, <1>13, <3>1, <3>2, BufferKeeps
    <3>4. shown \ unseen \subseteq old \cup {line.id}
      BY <1>2, <2>3
    <3> HIDE DEF shown, unseen, old, line
    <3> QED
      BY <1>9, <2>2, <3>1, <3>3, <3>4
  <2>4. CASE mode.out = "flush"
    <3>1. Outbufs' = Outbufs
      BY <1>1, <1>6, <1>7, <2>4, SameOutbuffers
    <3>2. CASE ok
      <4>1. Screen' \in [{0} -> Seq(Line)] /\ Screen'[0] = Append(Screen[0], line)
        BY <1>2, <1>3, <1>6a, <2>4, <3>2 DEF Screen
      <4>2. Kept(Texts(Screen', Outbufs), old \cup {line.id}, k)
        <5>1. written.n <= k /\ line.id \in 1 .. k /\ ~Holds(Texts(Screen, Outbufs), line.id)
          BY <1>1, <1>2, <2>1
        <5> HIDE DEF k, line, l, out, shown
        <5> QED
          BY <1>1, <1>2, <1>10, <1>11, <1>13, <4>1, <5>1, OutKeeps
      <4>3. shown \ unseen \subseteq old \cup {line.id}
        BY <1>2, <2>4
      <4> HIDE DEF shown, unseen, old, line
      <4> QED
        BY <1>9, <2>2, <3>1, <4>2, <4>3
    <3>3. CASE ~ok
      <4>1. Screen' = Screen
        BY <1>6a, <3>3 DEF Screen
      <4>2. shown \ unseen \subseteq old
        <5> HIDE DEF k, line
        <5> QED
          BY <1>6b, <2>4, <3>3
      <4> HIDE DEF shown, unseen, old
      <4> QED
        BY <1>9, <2>1, <2>2, <3>1, <4>1, <4>2
    <3> QED
      BY <3>2, <3>3
  <2>5. CASE mode.out = "off"
    <3>1. Outbufs' = Outbufs /\ Screen' = Screen
      BY <1>1, <1>6, <1>6a, <1>7, <2>5, SameOutbuffers DEF Screen
    <3>2. shown \ unseen \subseteq old
      BY <2>5
    <3> HIDE DEF shown, unseen, old
    <3> QED
      BY <1>9, <2>1, <2>2, <3>1, <3>2
  <2> QED
    BY <1>1, <2>3, <2>4, <2>5 DEF OnceTypes
<1>15. OwnLines'
  <2>1. \A q \in Proc : /\ log[q].id \in 0 .. written.n /\ ~Holds(Texts(file, Bufs), log[q].id)
                        /\ \A s \in Proc : log[q].id = log[s].id /\ log[q].id > 0 => q = s
    BY <1>11 DEF OwnLines
  <2>2. ~Holds(Texts(file, Bufs), k) /\ file' = file
    <3> HIDE DEF k
    <3> QED
      BY <1>1, <1>11 DEF Kept
  <2>3. \A q \in Proc : IF q = p THEN log'[q].id = k ELSE log'[q].id = log[q].id
    BY <1>7, <1>10
  <2> HIDE DEF k, l, out
  <2>4. ASSUME NEW q \in Proc PROVE log'[q].id \in 0 .. k /\ ~Holds(Texts(file', Bufs'), log'[q].id)
    <3>1. Texts(file', Bufs') = Texts(file, Bufs)
      BY <1>10, <2>2
    <3>2. k \in 0 .. k /\ 0 .. written.n \subseteq 0 .. k
      BY <1>1
    <3> QED
      BY <2>1, <2>2, <2>3, <3>1, <3>2
  <2>5. ASSUME NEW q \in Proc, NEW s \in Proc, log'[q].id = log'[s].id, log'[q].id > 0 PROVE q = s
    BY <1>1, <2>1, <2>3, <2>5
  <2> QED
    BY <1>9, <2>4, <2>5 DEF OwnLines
<1>16. OnceTypes'
  <2>1. screen' \in Seq(Line)
    <3> HIDE DEF line
    <3> QED
      BY <1>2, <1>3, <1>6a
  <2> QED
    BY <1>1, <1>9, <1>10, <2>1 DEF OnceTypes, LogTypes
<1>17. \A q \in Proc : Ready(log'[q])
  BY <1>8, <1>10, <1>11
<1> QED
  BY <1>12, <1>14, <1>15, <1>16, <1>17 DEF OnceInv

\* The line is put into the buffer, and goes to the file with what was there
\* before it, or stays.
LineGoes(p) ==
  LET all == Append(log[p].buf, [id |-> log[p].id, at |-> log[p].at, behind |-> log[p].behind])
  IN Printed(p, IF mode.logflush THEN <<>> ELSE all,
             IF mode.logflush THEN Added(file, log[p].fp, all) ELSE file, {log[p].id}, {})

\* Then it is there once.
LEMMA LineKeepsOnce ==
  ASSUME LogAssumption, OnceInv, NEW p \in Proc, log[p].pc = "print", LineGoes(p),
         UNCHANGED <<now, screen, mode>>
  PROVE  OnceInv'
<1> DEFINE l == log[p]
           n == l.fp
           line == [id |-> l.id, at |-> l.at, behind |-> l.behind]
           all == Append(l.buf, line)
           left == IF mode.logflush THEN <<>> ELSE all
           r == PrintOf(l, left)
           mid == [Bufs EXCEPT ![p] = all]
           said == written.said \cup {l.id}
           ids == (written.said \ written.lost) \cup {l.id}
<1>1. /\ OnceTypes /\ l \in Record /\ Ready(l) /\ l.pc = "print" /\ written \in Lines
      /\ written.n \in Nat /\ UNCHANGED <<now, screen, mode>>
      /\ \A q \in Proc : Ready(log[q])
  BY DEF OnceInv, OnceTypes, LogTypes, Lines
<1>2. /\ l.id \in Nat /\ l.id > 0 /\ l.at \in Nat /\ l.behind \in Int /\ n \in LogName
      /\ l.buf \in Seq(Line) /\ l.outbuf \in Seq(Line) /\ file \in [LogName -> Seq(Line)]
  BY <1>1 DEF Record, Ready, Idle, OnceTypes, LogTypes
<1>3. line \in Line /\ line.id = l.id
  BY <1>2 DEF Line
<1>4. all \in Seq(Line) /\ left \in Seq(Line)
  <2> HIDE DEF line
  <2> QED
    BY <1>2, <1>3
<1>5. log' = [log EXCEPT ![p] = r]
  BY DEF LineGoes, Printed, PrintOf
<1>6. /\ r \in Record /\ r.pc = "ready" /\ r.fp = n /\ r.id = 0
      /\ r.buf = left /\ r.outbuf = l.outbuf
  <2> HIDE DEF left
  <2> QED
    BY <1>1, <1>4, PrintMakes
<1> HIDE DEF r
<1>7. Ready(r)
  <2> HIDE DEF left, l
  <2> QED
    BY <1>2, <1>6 DEF Ready, Idle
<1>8. /\ file' = (IF mode.logflush THEN Added(file, n, all) ELSE file)
      /\ written' = [written EXCEPT !.said = said, !.lost = written.lost]
  BY DEF LineGoes, Printed
<1>9. /\ written' \in Lines /\ written'.n = written.n /\ written'.said = said
      /\ written'.shown = written.shown /\ written'.lost = written.lost
      /\ written'.unseen = written.unseen
  <2>1. said \in SUBSET Nat
    BY <1>1, <1>2 DEF Lines
  <2> HIDE DEF said
  <2> QED
    BY <1>1, <1>8, <2>1 DEF Lines
<1>10. /\ log' \in [Proc -> Record] /\ log'[p] = r
       /\ \A q \in Proc \ {p} : log'[q] = log[q]
       /\ Bufs \in [Proc -> Seq(Line)] /\ Bufs' \in [Proc -> Seq(Line)]
       /\ Bufs[p] = l.buf /\ Bufs'[p] = left
       /\ \A q \in Proc \ {p} : Bufs'[q] = Bufs[q]
       /\ Outbufs' = Outbufs /\ Screen' = Screen
  <2> HIDE DEF left
  <2>1. Outbufs' = Outbufs
    BY <1>1, <1>5, <1>6, SameOutbuffers
  <2> QED
    BY <1>1, <1>5, <1>6, <2>1, OneOfLog DEF Screen
<1>11. /\ Kept(Texts(file, Bufs), written.said \ written.lost, written.n)
       /\ Kept(Texts(Screen, Outbufs), written.shown \ written.unseen, written.n)
       /\ OwnLines
  BY DEF OnceInv
\* First into the buffer...
<1>12. /\ mid \in [Proc -> Seq(Line)] /\ mid[p] = all
       /\ \A q \in Proc \ {p} : mid[q] = Bufs[q]
  <2> HIDE DEF all
  <2> QED
    BY <1>4, <1>10
<1>13. /\ Kept(Texts(file, mid), ids, written.n)
       /\ MoreBy(Texts(file, mid), Texts(file, Bufs), l.id)
  <2>1. Begins(Bufs, mid, p, line)
    BY <1>10, <1>12 DEF Begins
  <2>2. /\ ~Holds(Texts(file, Bufs), line.id) /\ line.id \in 1 .. written.n
        /\ written.n <= written.n
    BY <1>1, <1>2, <1>3, <1>11 DEF OwnLines
  <2>3. Kept(Texts(file, Bufs), written.said \ written.lost, written.n)
    BY <1>11
  <2>4. Bufs \in [Proc -> Seq(Line)] /\ mid \in [Proc -> Seq(Line)]
    BY <1>10, <1>12
  <2> DEFINE old == written.said \ written.lost
             more == written.n
  <2> HIDE DEF mid, line, l, old, more
  <2>5. /\ Kept(Texts(file, mid), old \cup {line.id}, more)
        /\ MoreBy(Texts(file, mid), Texts(file, Bufs), line.id)
    <3>1. Kept(Texts(file, Bufs), old, more) /\ more \in Nat /\ more <= more /\ line.id \in 1 .. more
      BY <1>1, <2>2, <2>3 DEF old, more
    <3> QED
      BY <1>2, <1>3, <2>1, <2>2, <2>4, <3>1, BufferKeeps
  <2> QED
    BY <1>3, <2>5 DEF old, more
\* ...and then to the file, if it is flushed.
<1> DEFINE files == file'
           bufs == Bufs'
<1>14. /\ files \in [LogName -> Seq(Line)]
       /\ Kept(Texts(files, bufs), ids, written.n)
       /\ NoMore(Texts(files, bufs), Texts(file, mid))
  <2>1. CASE mode.logflush
    <3>1. file' = [file EXCEPT ![n] = file[n] \o all] /\ left = <<>>
      BY <1>8, <2>1 DEF Added
    <3>2. file[n] \o all \in Seq(Line)
      <4> HIDE DEF all
      <4> QED
        BY <1>2, <1>4
    <3>3. /\ files \in [LogName -> Seq(Line)] /\ files[n] = file[n] \o all
          /\ \A m \in LogName \ {n} : files[m] = file[m]
      <4> HIDE DEF all, n
      <4> QED
        BY <1>2, <3>1, <3>2
    <3>4. Flushes(file, mid, files, bufs, n, p) /\ n \in LogName
      <4>1. DOMAIN file = LogName /\ bufs[p] = <<>> /\ \A q \in Proc \ {p} : bufs[q] = mid[q]
        BY <1>2, <1>10, <1>12, <3>1
      <4> HIDE DEF mid, all, n, files, bufs
      <4> QED
        BY <1>2, <1>12, <3>3, <4>1 DEF Flushes
    <3>5. mid \in [Proc -> Seq(Line)] /\ bufs \in [Proc -> Seq(Line)]
      BY <1>10, <1>12
    <3> HIDE DEF mid, n, files, bufs, ids
    <3>6. /\ Kept(Texts(files, bufs), ids, written.n)
          /\ NoMore(Texts(files, bufs), Texts(file, mid))
      BY <1>2, <1>13, <3>3, <3>4, <3>5, FlushKeeps
    <3> QED
      BY <3>3, <3>6
  <2>2. CASE ~mode.logflush
    <3>1. files = file /\ left = all
      BY <1>8, <2>2
    <3>2. bufs = mid
      <4>1. /\ bufs \in [Proc -> Seq(Line)] /\ mid \in [Proc -> Seq(Line)]
            /\ bufs[p] = mid[p] /\ \A q \in Proc \ {p} : bufs[q] = mid[q]
        BY <1>10, <1>12, <3>1
      <4> HIDE DEF bufs, mid
      <4>2. \A q \in Proc : bufs[q] = mid[q]
        BY <4>1
      <4> QED
        BY <4>1, <4>2
    <3> HIDE DEF mid, bufs, files
    <3> QED
      BY <1>2, <1>13, <3>1, <3>2 DEF NoMore
  <2> QED
    BY <2>1, <2>2
<1>15. Kept(Texts(file', Bufs'), written'.said \ written'.lost, written'.n)
  <2>1. written'.said \ written'.lost \subseteq ids
    BY <1>9
  <2> HIDE DEF ids, mid
  <2> QED
    BY <1>9, <1>14, <2>1 DEF Kept
<1>16. OwnLines'
  <2>1. /\ \A q \in Proc : log[q].id \in 0 .. written.n /\ ~Holds(Texts(file, Bufs), log[q].id)
        /\ \A q \in Proc : \A s \in Proc : log[q].id = log[s].id /\ log[q].id > 0 => q = s
        /\ ~Holds(Texts(file', Bufs'), 0)
    <3>1. ~Holds(Texts(file', Bufs'), 0)
      <4> HIDE DEF mid, ids, files, bufs
      <4>1. Holds(Texts(files, bufs), 0) => 0 \in 1 .. written.n
        BY <1>14 DEF Kept
      <4> QED
        BY <1>1, <4>1 DEF files, bufs
    <3> QED
      BY <1>11, <3>1 DEF OwnLines
  <2>2. \A i : Holds(Texts(file', Bufs'), i) => Holds(Texts(file, Bufs), i) \/ i = l.id
    <3> HIDE DEF mid, ids
    <3> QED
      BY <1>13, <1>14 DEF MoreBy, NoMore
  <2>3. log'[p].id = 0 /\ \A q \in Proc \ {p} : log'[q].id = log[q].id
    BY <1>6, <1>10
  <2>4. \A q \in Proc \ {p} : log[q].id # l.id \/ log[q].id = 0
    BY <1>1, <1>2, <2>1
  <2>5. ASSUME NEW q \in Proc
        PROVE  log'[q].id \in 0 .. written'.n /\ ~Holds(Texts(file', Bufs'), log'[q].id)
    <3>1. CASE q = p
      BY <1>1, <1>9, <2>1, <2>3, <3>1
    <3>2. CASE q # p
      <4>1. log'[q].id = log[q].id
        BY <2>3, <3>2
      <4> QED
        BY <1>1, <1>9, <2>1, <2>2, <2>4, <3>2, <4>1
    <3> QED
      BY <3>1, <3>2
  <2>6. ASSUME NEW q \in Proc, NEW s \in Proc, log'[q].id = log'[s].id, log'[q].id > 0
        PROVE  q = s
    <3>1. q # p /\ s # p
      BY <2>3, <2>6
    <3> QED
      BY <2>1, <2>3, <2>6, <3>1
  <2> QED
    BY <2>5, <2>6 DEF OwnLines
<1>17. OnceTypes'
  BY <1>1, <1>9, <1>10, <1>14 DEF OnceTypes, LogTypes
<1>18. \A q \in Proc : Ready(log'[q])
  BY <1>1, <1>7, <1>10
<1>19. Kept(Texts(Screen', Outbufs'), written'.shown \ written'.unseen, written'.n)
  BY <1>9, <1>10, <1>11
<1> QED
  BY <1>15, <1>16, <1>17, <1>18, <1>19 DEF OnceInv

\* A line that is printed stays in the buffer or goes to the file, or it is lost
\* with what was in the buffer, whether it is reported or not.
LEMMA PrintKeepsOnce ==
  ASSUME LogAssumption, OnceInv, NEW p \in Proc, PrintLine(p)
  PROVE  OnceInv'
<1> DEFINE l == log[p]
           line == [id |-> l.id, at |-> l.at, behind |-> l.behind]
           all == Append(l.buf, line)
           r == PrintOf(l, <<>>)
<1>1. /\ l \in Record /\ l.pc = "print" /\ written \in Lines /\ l.id \in Nat
      /\ UNCHANGED <<now, screen, mode>> /\ l.buf \in Seq(Line) /\ line \in Line /\ line.id = l.id
      /\ Ready(l)
  BY DEF OnceInv, OnceTypes, LogTypes, PrintLine, Record, Line
<1>2. CASE LineGoes(p)
  BY <1>1, <1>2, LineKeepsOnce
<1>3. ASSUME NEW said \in SUBSET Nat, NEW lost \in SUBSET Nat,
             Printed(p, <<>>, file, said, lost), said \subseteq lost, Ids(l.buf) \subseteq lost
      PROVE  OnceInv'
  <2>1. log' = [log EXCEPT ![p] = r] /\ file' = file
    BY <1>3 DEF Printed, PrintOf
  <2>2. /\ r \in Record /\ r.pc = "ready" /\ r.fp = l.fp /\ r.id = 0
        /\ r.buf = <<>> /\ r.outbuf = l.outbuf
    <3> DEFINE none == <<>>
    <3>1. none \in Seq(Line) /\ r = PrintOf(l, none)
      OBVIOUS
    <3> HIDE DEF none, r, l
    <3>2. r.buf = none
      BY <1>1, <3>1, PrintMakes DEF l
    <3>3. r \in Record /\ r.pc = "ready" /\ r.fp = l.fp /\ r.id = 0 /\ r.outbuf = l.outbuf
      BY <1>1, <3>1, PrintMakes DEF l
    <3> QED
      BY <3>2, <3>3 DEF none
  <2>3. /\ written' \in Lines /\ written'.n = written.n /\ written'.shown = written.shown
        /\ written'.said = written.said \cup said /\ written'.lost = written.lost \cup lost
        /\ written'.unseen = written.unseen \cup {}
    <3>1. written' = [written EXCEPT !.said = @ \cup said, !.lost = @ \cup lost,
                                     !.unseen = @ \cup {}]
      BY <1>1, <1>3 DEF Printed, Lines
    <3> QED
      BY <1>1, <3>1, NoneLost, LinesMore
  <2>4. /\ written'.said \ written'.lost \subseteq (written.said \ written.lost) \ Ids(log[p].buf)
        /\ written'.shown \ written'.unseen \subseteq written.shown \ written.unseen
    BY <1>3, <2>3
  <2> HIDE DEF r
  <2>5. Ready(r)
    BY <1>1, <2>2 DEF Ready, Idle
  <2> HIDE DEF l
  <2>6. r.id \in {0, log[p].id} /\ r.outbuf = log[p].outbuf
    BY <2>2 DEF l
  <2> QED
    BY <1>1, <2>1, <2>2, <2>3, <2>4, <2>5, <2>6, BufferGoes
<1>4. \/ LineGoes(p)
      \/ Printed(p, <<>>, file, {l.id}, Ids(all))
      \/ Printed(p, <<>>, file, {}, Ids(l.buf))
  BY DEF PrintLine, LineGoes
<1>5. CASE Printed(p, <<>>, file, {l.id}, Ids(all))
  <2>1. all \in Seq(Line) /\ Ids(l.buf) \cup {l.id} \subseteq Ids(all)
    <3> HIDE DEF line
    <3>1. /\ all \in Seq(Line) /\ Len(all) = Len(l.buf) + 1 /\ all[Len(all)] = line
          /\ \A i \in 1 .. Len(l.buf) : all[i] = l.buf[i]
      BY <1>1
    <3> HIDE DEF all, l
    <3>2. 1 .. Len(l.buf) \subseteq 1 .. Len(all) /\ Len(all) \in 1 .. Len(all)
      BY <1>1, <3>1
    <3> QED
      BY <1>1, <3>1, <3>2 DEF Ids
  <2>2. Ids(all) \in SUBSET Nat
    BY <2>1, IdsAreNumbers
  <2> HIDE DEF all, line
  <2> QED
    BY <1>1, <1>3, <1>5, <2>1, <2>2
<1>6. CASE Printed(p, <<>>, file, {}, Ids(l.buf))
  BY <1>1, <1>3, <1>6, IdsAreNumbers
<1> QED
  BY <1>2, <1>4, <1>5, <1>6

\* Each buffer is written or lost, and the process goes on or ends.
LEMMA FlushKeepsOnce ==
  ASSUME OnceInv, NEW p \in Proc, Flush(p) \/ FreeLog(p)
  PROVE  OnceInv'
<1> DEFINE l == log[p]
<1>1. /\ l \in Record /\ Ready(l) /\ l.fp \in LogName /\ Flushed(p) /\ written \in Lines
      /\ l.buf \in Seq(Line) /\ l.outbuf \in Seq(Line) /\ UNCHANGED <<now, mode>>
  BY DEF OnceInv, OnceTypes, LogTypes, Flush, FreeLog, Alive, Ready, Idle, Record, Flushed
<1>2. PICK ok \in BOOLEAN, shown \in BOOLEAN :
        /\ file' = IF ok THEN Added(file, l.fp, l.buf) ELSE file
        /\ screen' = IF shown THEN screen \o l.outbuf ELSE screen
        /\ written' = [written EXCEPT !.lost = @ \cup Lost(l.buf, ok),
                                      !.unseen = @ \cup Lost(l.outbuf, shown)]
  BY <1>1 DEF Flushed
<1>3. /\ Lost(l.buf, ok) \in SUBSET Nat /\ (ok => Lost(l.buf, ok) = {})
      /\ (~ok => Lost(l.buf, ok) = Ids(l.buf))
      /\ Lost(l.outbuf, shown) \in SUBSET Nat /\ (shown => Lost(l.outbuf, shown) = {})
      /\ (~shown => Lost(l.outbuf, shown) = Ids(l.outbuf))
  BY <1>1, IdsAreNumbers
<1>4. /\ written' \in Lines /\ written'.n = written.n /\ written'.shown = written.shown
      /\ written'.said = written.said
      /\ written'.unseen = written.unseen \cup Lost(l.outbuf, shown)
      /\ written'.lost = written.lost \cup Lost(l.buf, ok)
  <2> DEFINE gone == Lost(l.buf, ok)
             dark == Lost(l.outbuf, shown)
  <2>1. /\ written' = [written EXCEPT !.lost = @ \cup gone, !.unseen = @ \cup dark]
        /\ gone \in SUBSET Nat /\ dark \in SUBSET Nat /\ written \in Lines
    BY <1>1, <1>2, <1>3
  <2> HIDE DEF gone, dark
  <2>2. /\ written' \in Lines /\ written'.n = written.n /\ written'.shown = written.shown
        /\ written'.said = written.said /\ written'.lost = written.lost \cup gone
        /\ written'.unseen = written.unseen \cup dark
    BY <2>1, LinesLess
  <2> QED
    BY <2>2 DEF gone, dark
<1>5. \/ /\ file' = Added(file, log[p].fp, log[p].buf) /\ log[p].fp \in LogName
         /\ written'.said \ written'.lost \subseteq written.said \ written.lost
      \/ /\ file' = file
         /\ written'.said \ written'.lost \subseteq
              (written.said \ written.lost) \ Ids(log[p].buf)
  <2>1. CASE ok
    BY <1>1, <1>2, <1>4, <2>1
  <2>2. CASE ~ok
    BY <1>2, <1>3, <1>4, <2>2
  <2> QED
    BY <2>1, <2>2
<1>6. \/ /\ screen' = screen \o log[p].outbuf
         /\ written'.shown \ written'.unseen \subseteq written.shown \ written.unseen
      \/ /\ screen' = screen
         /\ written'.shown \ written'.unseen \subseteq
              (written.shown \ written.unseen) \ Ids(log[p].outbuf)
  <2>1. CASE shown
    BY <1>2, <1>4, <2>1
  <2>2. CASE ~shown
    BY <1>2, <1>3, <1>4, <2>2
  <2> QED
    BY <2>1, <2>2
<1>7. CASE Flush(p)
  <2> DEFINE r == FlushOf(l)
  <2>1. log' = [log EXCEPT ![p] = r] /\ l.pc = "ready"
    BY <1>7 DEF Flush, FlushOf
  <2>2. /\ r \in Record /\ r.pc = l.pc /\ r.fp = l.fp /\ r.id = l.id
        /\ r.buf = <<>> /\ r.outbuf = <<>>
    BY <1>1, FlushMakes
  <2> HIDE DEF r
  <2>3. Ready(r) /\ r.id \in {0, log[p].id}
    BY <1>1, <2>1, <2>2 DEF Ready, Idle
  <2> HIDE DEF l
  <2> QED
    BY <1>1, <1>4, <1>5, <1>6, <2>1, <2>2, <2>3, BufferGoes
<1>8. CASE FreeLog(p)
  <2>1. log' = [log EXCEPT ![p] = Dead]
    BY <1>8 DEF FreeLog
  <2> HIDE DEF l
  <2> QED
    BY <1>1, <1>4, <1>5, <1>6, <2>1, NoLogIsReady, BufferGoes
<1> QED
  BY <1>7, <1>8

\* What is in the buffers of a process that is killed is lost, and nothing else.
LEMMA KillKeepsOnce ==
  ASSUME OnceInv, NEW p \in Proc, Kill(p)
  PROVE  OnceInv'
<1> DEFINE l == log[p]
<1>1. /\ written \in Lines /\ l.buf \in Seq(Line) /\ l.outbuf \in Seq(Line)
      /\ UNCHANGED <<now, file, screen, mode>> /\ log' = [log EXCEPT ![p] = Dead]
      /\ written' = [written EXCEPT !.lost = @ \cup Ids(l.buf), !.unseen = @ \cup Ids(l.outbuf)]
  BY DEF OnceInv, OnceTypes, LogTypes, Kill, Record
<1>2. Ids(l.buf) \in SUBSET Nat /\ Ids(l.outbuf) \in SUBSET Nat
  BY <1>1, IdsAreNumbers
<1>3. /\ written' \in Lines /\ written'.n = written.n /\ written'.shown = written.shown
      /\ written'.said = written.said /\ written'.unseen = written.unseen \cup Ids(l.outbuf)
      /\ written'.lost = written.lost \cup Ids(l.buf)
  <2> DEFINE gone == Ids(l.buf)
             dark == Ids(l.outbuf)
  <2>1. /\ written' = [written EXCEPT !.lost = @ \cup gone, !.unseen = @ \cup dark]
        /\ gone \in SUBSET Nat /\ dark \in SUBSET Nat /\ written \in Lines
    BY <1>1, <1>2
  <2> HIDE DEF gone, dark
  <2>2. /\ written' \in Lines /\ written'.n = written.n /\ written'.shown = written.shown
        /\ written'.said = written.said /\ written'.lost = written.lost \cup gone
        /\ written'.unseen = written.unseen \cup dark
    BY <2>1, LinesLess
  <2> QED
    BY <2>2 DEF gone, dark
<1>4. /\ written'.said \ written'.lost \subseteq (written.said \ written.lost) \ Ids(log[p].buf)
      /\ written'.shown \ written'.unseen \subseteq
           (written.shown \ written.unseen) \ Ids(log[p].outbuf)
  BY <1>3
<1> HIDE DEF l
<1> QED
  BY <1>1, <1>3, <1>4, NoLogIsReady, BufferGoes

\* A child begins with the empty buffers of the daemon.
LEMMA ForkKeepsOnce ==
  ASSUME LogAssumption, OnceInv, NEW q \in Proc, Fork(q)
  PROVE  OnceInv'
<1> DEFINE l == log[Daemon]
<1>1. Daemon \in Proc
  BY DEF LogAssumption
<1>2. /\ l \in Record /\ Ready(l) /\ Ready(log[q]) /\ l.pc = "ready" /\ log[q].pc = "none"
      /\ l.buf = <<>> /\ l.outbuf = <<>> /\ log' = [log EXCEPT ![q] = l]
      /\ UNCHANGED <<now, file, screen, mode, written>>
  BY <1>1 DEF OnceInv, OnceTypes, LogTypes, Fork
<1>3. l.id \in {0, log[q].id} /\ l.buf = log[q].buf /\ l.outbuf = log[q].outbuf
  BY <1>2 DEF Ready, Idle
<1> HIDE DEF l
<1> QED
  BY <1>2, <1>3, NothingWritten

\* Nor does time.
LEMMA TickKeepsOnce ==
  ASSUME LogAssumption, OnceInv, LogTick \/ UNCHANGED logVars
  PROVE  OnceInv'
<1>1. /\ UNCHANGED <<file, screen, log, mode, written>> /\ now' \in 0 .. MaxClock
      /\ OnceTypes
  BY DEF LogTick, logVars, OnceInv, OnceTypes, LogTypes, LogAssumption
<1>2. Bufs' = Bufs /\ Outbufs' = Outbufs /\ Screen' = Screen
  BY <1>1 DEF Bufs, Outbufs, Screen
<1>3. OnceTypes'
  BY <1>1 DEF OnceTypes, LogTypes
<1>4. OwnLines'
  BY <1>1, <1>2 DEF OnceInv, OwnLines
<1> QED
  BY <1>1, <1>2, <1>3, <1>4 DEF OnceInv

\* No line is anywhere at first.
LEMMA InitOnce ==
  ASSUME LogAssumption, LogInit
  PROVE  OnceInv
<1> DEFINE First == [NoLog EXCEPT !.pc = "new"]
<1>1. /\ First \in Record /\ Ready(First) /\ First.id = 0 /\ First.buf = <<>> /\ First.outbuf = <<>>
  <2>1. /\ First \in Record /\ First.pc = "new" /\ First.id = NoLog.id /\ First.fp = NoLog.fp
        /\ First.buf = NoLog.buf /\ First.outbuf = NoLog.outbuf
    BY NoLogIsReady DEF Record
  <2> HIDE DEF First
  <2> QED
    BY <2>1, NoLogIsReady DEF Ready, Idle
<1> HIDE DEF First
<1>2. log = [p \in Proc |-> IF p = Daemon THEN First ELSE NoLog]
  BY DEF LogInit, First
<1>3. /\ log \in [Proc -> Record]
      /\ \A p \in Proc : /\ Ready(log[p]) /\ log[p].id = 0
                         /\ log[p].buf = <<>> /\ log[p].outbuf = <<>>
  BY <1>1, <1>2, NoLogIsReady
<1>4. OnceTypes
  <2>1. /\ now \in 0 .. MaxClock /\ file \in [LogName -> Seq(Line)] /\ screen \in Seq(Line)
        /\ written \in Lines /\ mode.out \in {"off", "flush", "buffer"}
    BY DEF LogInit, LogAssumption, Lines
  <2>2. written.n \in Nat
    BY <2>1 DEF Lines
  <2> QED
    BY <1>3, <2>1, <2>2 DEF OnceTypes, LogTypes
<1>5. /\ written.n = 0 /\ written.said = {} /\ written.shown = {}
      /\ file = [n \in LogName |-> <<>>] /\ screen = <<>>
  BY DEF LogInit
<1>6. /\ Bufs \in [Proc -> Seq(Line)] /\ Outbufs \in [Proc -> Seq(Line)]
      /\ \A p \in Proc : Bufs[p] = <<>> /\ Outbufs[p] = <<>>
      /\ Screen \in [{0} -> Seq(Line)] /\ Screen[0] = <<>>
      /\ file \in [LogName -> Seq(Line)] /\ \A n \in LogName : file[n] = <<>>
  BY <1>3, <1>4, <1>5 DEF Bufs, Outbufs, Screen, OnceTypes
<1>7. ASSUME NEW names, NEW out \in [names -> Seq(Line)], NEW buf \in [Proc -> Seq(Line)],
             \A n \in names : out[n] = <<>>, \A p \in Proc : buf[p] = <<>>
      PROVE  \A s \in DOMAIN Texts(out, buf) : Len(Texts(out, buf)[s]) = 0
  <2> DEFINE T == Texts(out, buf)
  <2>1. TextsAt(T, names, out, buf)
    BY TextsInPlaces
  <2> HIDE DEF T
  <2>2. ASSUME NEW s \in DOMAIN T PROVE T[s] = <<>>
    <3>1. (\E n \in names : s = <<"out", n>>) \/ (\E p \in Proc : s = <<"buf", p>>)
      BY <2>1 DEF TextsAt
    <3>2. ASSUME NEW n \in names, s = <<"out", n>> PROVE T[s] = <<>>
      BY <1>7, <2>1, <3>2 DEF TextsAt
    <3>3. ASSUME NEW p \in Proc, s = <<"buf", p>> PROVE T[s] = <<>>
      BY <1>7, <2>1, <3>3 DEF TextsAt
    <3> QED
      BY <3>1, <3>2, <3>3
  <2>3. \A s \in DOMAIN T : Len(T[s]) = 0
    BY <2>2
  <2> QED
    BY <2>3 DEF T
<1>8. ASSUME NEW T, \A s \in DOMAIN T : Len(T[s]) = 0
      PROVE  Kept(T, {}, 0) /\ \A i : ~Holds(T, i)
  BY <1>8 DEF Kept, Unique, Holds
<1>9. Kept(Texts(file, Bufs), {}, 0) /\ \A i : ~Holds(Texts(file, Bufs), i)
  <2>1. \A s \in DOMAIN Texts(file, Bufs) : Len(Texts(file, Bufs)[s]) = 0
    BY <1>6, <1>7
  <2> QED
    BY <1>8, <2>1
<1>10. Kept(Texts(Screen, Outbufs), {}, 0)
  <2>1. \A s \in DOMAIN Texts(Screen, Outbufs) : Len(Texts(Screen, Outbufs)[s]) = 0
    <3>1. \A n \in {0} : Screen[n] = <<>>
      BY <1>6
    <3> QED
      BY <1>6, <1>7, <3>1
  <2> QED
    BY <1>8, <2>1
<1>11. OwnLines
  <2>1. written.n = 0 /\ 0 \in 0 .. 0
    BY <1>5
  <2>2. ASSUME NEW p \in Proc PROVE log[p].id = 0 /\ ~(log[p].id > 0)
    <3>1. log[p].id = 0
      BY <1>3
    <3> QED
      BY <3>1
  <2>3. \A p \in Proc : log[p].id \in 0 .. written.n
    BY <2>1, <2>2
  <2>4. \A p \in Proc : ~Holds(Texts(file, Bufs), log[p].id)
    BY <1>9
  <2> QED
    BY <2>2, <2>3, <2>4, Zenon DEF OwnLines
<1>12. written.said \ written.lost = {} /\ written.shown \ written.unseen = {}
  BY <1>5
<1> QED
  BY <1>3, <1>4, <1>5, <1>9, <1>10, <1>11, <1>12 DEF OnceInv

\* Every step keeps the invariant.
LEMMA OnceInvHolds == LogAssumption => (LogSpec => []OnceInv)
<1>1. ASSUME LogAssumption, OnceInv, [LogNext]_logVars PROVE OnceInv'
  BY <1>1, OpenKeepsOnce, SetNextKeepsOnce, BeginKeepsOnce, PrintKeepsOnce, FlushKeepsOnce,
     ForkKeepsOnce, KillKeepsOnce, TickKeepsOnce DEF LogNext
<1> SUFFICES ASSUME LogAssumption PROVE LogSpec => []OnceInv
  OBVIOUS
<1>2. OnceInv /\ [LogNext]_logVars => OnceInv'
  BY <1>1
<1>3. LogInit => OnceInv
  BY InitOnce
<1> QED
  BY <1>2, <1>3, PTL DEF LogSpec

\* A line that was reported as written is in one file or on the way to it, and only
\* once; what was sent to the duplicate likewise: whoever rotates, forks, flushes,
\* ends in the middle of a call or is killed, in any time zone, summer or not.  Only
\* a buffer that is lost, with its process or by a write that failed, takes with it
\* what was in it.
THEOREM LinesOnceCorrect == LogAssumption => (LogSpec => []LinesOnce)
<1>1. OnceInv => LinesOnce
  <2> SUFFICES ASSUME OnceInv PROVE LinesOnce
    OBVIOUS
  <2>1. InLog = Texts(file, Bufs) /\ OnScreen = Texts(Screen, Outbufs)
    BY DEF InLog, OnScreen, Bufs, Screen, Outbufs
  <2>2. /\ Kept(Texts(file, Bufs), written.said \ written.lost, written.n)
        /\ Kept(Texts(Screen, Outbufs), written.shown \ written.unseen, written.n)
    BY DEF OnceInv
  <2>3. \A T, ids, most : Kept(T, ids, most) => Once(ids, T)
    BY UniqueIsOnce DEF Kept
  <2>4. /\ Once(written.said \ written.lost, Texts(file, Bufs))
        /\ Once(written.shown \ written.unseen, Texts(Screen, Outbufs))
    BY <2>2, <2>3
  <2> QED
    BY <2>1, <2>4 DEF LinesOnce
<1> SUFFICES ASSUME LogAssumption PROVE LogSpec => []LinesOnce
  OBVIOUS
<1>2. LogSpec => []OnceInv
  BY OnceInvHolds
<1> QED
  BY <1>1, <1>2, PTL

\* The log keeps what a log is for, unless summer time makes the end of an interval
\* another than that of its name.
THEOREM LogKeptCorrect ==
  LogAssumption /\ (Shift = 0 \/ rotateinterval = 0) => (LogSpec => []LogKept)
<1> SUFFICES ASSUME LogAssumption, Shift = 0 \/ rotateinterval = 0
             PROVE  LogSpec => []LogKept
  OBVIOUS
<1>1. LogSpec => []LinesOnce
  BY LinesOnceCorrect
<1>2. LogSpec => []InPlace
  <2>1. CASE rotateinterval = 0
    <3>1. InPlace
      BY <2>1 DEF InPlace
    <3> QED
      BY <3>1, PTL
  <2>2. CASE rotateinterval # 0
    <3>1. NoSummer
      BY <2>2 DEF NoSummer, LogAssumption
    <3> QED
      BY <3>1, InPlaceCorrect
  <2> QED
    BY <2>1, <2>2
<1>3. LinesOnce /\ InPlace => LogKept
  BY DEF LogKept
<1> QED
  BY <1>1, <1>2, <1>3, PTL
-----------------------------------------------------------------------------
(* Starts and ends *)

Steps == {"new", "save", "init", "free", "again", "bind", "run", "close", "rm", "unlink",
          "ended", "dead"}
Reasons == Kinds \cup {"", "pid", "disk", "port", "killed", "attach", "limit"}

InstRecord == [pc : Steps, of : Kinds, key : Inode \cup {None}, path : {"same", "other"}, why : Reasons]

StartTypes ==
  /\ inst \in [Inst -> InstRecord]
  /\ pid \in [ino : Inode \cup {None}, by : Inst \cup {None}]
  /\ ipc \in [Kinds -> [Inode -> Inst \cup {None}]]
  /\ port \in Inst \cup {None}

Owns(i, kind) == \E n \in Inode : ipc[kind][n] = i

\* While an instance starts and runs, and until it unlinks it, the pid file is
\* there and its own, and it has what it has made so far; the key it frees is
\* the one it makes again.
Started(i) ==
  /\ inst[i].pc \in {"init", "free", "again", "bind", "run"} => pid.ino # None /\ pid.by = i
  /\ inst[i].pc \in {"init", "free", "again"} /\ inst[i].of = "shm" => Owns(i, "sem")
  /\ inst[i].pc \in {"bind", "run"} => \A kind \in Kinds : Owns(i, kind)
  /\ inst[i].pc \in {"free", "again"} => inst[i].key = pid.ino
  /\ inst[i].pc \in {"new", "save"} => inst[i].of = "sem"
  /\ IsAt(i, "again") => ipc[inst[i].of][inst[i].key] = None

\* Until two live at once: there is one, and it is well on its way, or has a
\* good reason.
Alone ==
  ~raced =>
    /\ \A i, j \in Inst : Lives(i) /\ Lives(j) => i = j
    /\ \A i \in Inst : Started(i) /\ inst[i].why \notin Kinds

\* What an instance has given back, whoever else lived.
GivenBack ==
  \A i \in Inst :
    /\ IsAt(i, "rm") /\ inst[i].of = "sem" => "shm" \in Unknown(i) \/ ~Owns(i, "shm")
    /\ inst[i].pc \in {"unlink", "ended"} => \A kind \in Kinds \ Unknown(i) : ~Owns(i, kind)
    /\ IsAt(i, "ended") /\ inst[i].path = "same" => pid.by # i

StartInv == StartTypes /\ Alone /\ GivenBack
-----------------------------------------------------------------------------
\* The invariant holds at first.
LEMMA InitStartInv == StartupAssumption /\ StartInit => StartInv
<1> SUFFICES ASSUME StartupAssumption, StartInit PROVE StartInv
  OBVIOUS
<1>1. StartTypes
  BY DEF StartInit, StartTypes, InstRecord, New, Steps, Reasons, Kinds, None
<1>2. Alone /\ GivenBack
  BY DEF StartInit, Alone, GivenBack, Started, Lives, IsAt, New, Kinds
<1> QED
  BY <1>1, <1>2 DEF StartInv

\* Each step keeps the types.
LEMMA TypesStep == StartTypes /\ [StartNext]_startVars => StartTypes'
<1> SUFFICES ASSUME StartTypes, [StartNext]_startVars PROVE StartTypes'
  OBVIOUS
<1>a. ASSUME NEW i \in Inst, NEW r \in InstRecord, Go(i, r),
             pid' \in [ino : Inode \cup {None}, by : Inst \cup {None}],
             ipc' \in [Kinds -> [Inode -> Inst \cup {None}]], port' \in Inst \cup {None}
      PROVE  StartTypes'
  BY <1>a DEF StartTypes, Go
<1>b. /\ pid \in [ino : Inode \cup {None}, by : Inst \cup {None}]
      /\ ipc \in [Kinds -> [Inode -> Inst \cup {None}]] /\ port \in Inst \cup {None}
      /\ \A i \in Inst : inst[i] \in InstRecord
  BY DEF StartTypes
<1>1. ASSUME NEW i \in Inst PROVE
        /\ \A why \in Reasons : End(inst[i], why) \in InstRecord
        /\ \A pc \in Steps : [inst[i] EXCEPT !.pc = pc] \in InstRecord
        /\ \A pc \in Steps, why \in Reasons : [inst[i] EXCEPT !.pc = pc, !.why = why] \in InstRecord
        /\ \A pc \in Steps, of \in Kinds : [inst[i] EXCEPT !.pc = pc, !.of = of] \in InstRecord
        /\ \A pc \in Steps, n \in Inode : [inst[i] EXCEPT !.pc = pc, !.key = n] \in InstRecord
        /\ \A pc \in Steps : [inst[i] EXCEPT !.pc = pc, !.of = "shm", !.key = None] \in InstRecord
        /\ [inst[i] EXCEPT !.path = "other"] \in InstRecord
        /\ [End(inst[i], "killed") EXCEPT !.pc = "dead"] \in InstRecord
  BY <1>b DEF InstRecord, End, Steps, Kinds, Reasons
<1>2. ASSUME NEW i \in Inst, CheckPid(i) \/ SaveFails(i) \/ Reload(i) \/ ToldToEnd(i) \/ Dies(i)
      PROVE  StartTypes'
  <2>1. \E r \in InstRecord : Go(i, r)
    BY <1>1, <1>2 DEF CheckPid, SaveFails, Reload, ToldToEnd, Dies, Steps, Reasons
  <2>2. UNCHANGED <<pid, ipc, port>>
    BY <1>2 DEF CheckPid, SaveFails, Reload, ToldToEnd, Dies
  <2> QED
    BY <1>a, <1>b, <2>1, <2>2
<1>3. ASSUME NEW i \in Inst, SavePid(i) \/ UnlinkPid(i) PROVE StartTypes'
  <2>1. \E r \in InstRecord : Go(i, r)
    BY <1>1, <1>3 DEF SavePid, UnlinkPid, Steps
  <2>2. UNCHANGED <<ipc, port>>
    BY <1>3 DEF SavePid, UnlinkPid
  <2>3. pid' \in [ino : Inode \cup {None}, by : Inst \cup {None}]
    BY <1>b, <1>3 DEF SavePid, UnlinkPid
  <2> QED
    BY <1>a, <1>b, <2>1, <2>2, <2>3
<1>4. ASSUME NEW i \in Inst, BindPort(i) \/ Close(i) PROVE StartTypes'
  <2>1. \E r \in InstRecord : Go(i, r)
    BY <1>1, <1>4 DEF BindPort, Close, Steps, Kinds, Reasons
  <2>2. UNCHANGED <<pid, ipc>> /\ port' \in Inst \cup {None}
    BY <1>b, <1>4 DEF BindPort, Close
  <2> QED
    BY <1>a, <1>b, <2>1, <2>2
<1>5. ASSUME NEW i \in Inst, NEW kind \in Kinds, InitIpc(i, kind) \/ InitAgain(i, kind)
      PROVE  StartTypes'
  <2>1. \E r \in InstRecord : Go(i, r)
    BY <1>b, <1>1, <1>5 DEF InitIpc, InitAgain, Made, Steps, Reasons
  <2>2. UNCHANGED <<pid, port>>
    BY <1>5 DEF InitIpc, InitAgain
  <2>3. \/ UNCHANGED ipc
        \/ \E n : ipc' = [ipc EXCEPT ![kind][n] = i]
    BY <1>5 DEF InitIpc, InitAgain, Made
  <2>4. ipc' \in [Kinds -> [Inode -> Inst \cup {None}]]
    BY <1>b, <2>3
  <2> QED
    BY <1>a, <1>b, <2>1, <2>2, <2>4
<1>6. ASSUME NEW i \in Inst, NEW kind \in Kinds, FreeStale(i, kind) \/ Release(i, kind)
      PROVE  StartTypes'
  <2>1. \E r \in InstRecord : Go(i, r)
    BY <1>1, <1>6 DEF FreeStale, Release, Steps, Kinds
  <2>2. UNCHANGED <<pid, port>>
    BY <1>6 DEF FreeStale, Release
  <2>3. ipc' \in [Kinds -> [Inode -> Inst \cup {None}]]
    BY <1>b, <1>6 DEF FreeStale, Release
  <2> QED
    BY <1>a, <1>b, <2>1, <2>2, <2>3
<1>7. CASE ChildrenEnd \/ Repair \/ UNCHANGED startVars
  <2>1. inst' = inst /\ ipc' = ipc
    BY <1>7 DEF ChildrenEnd, Repair, startVars
  <2>2. pid' \in [ino : Inode \cup {None}, by : Inst \cup {None}] /\ port' \in Inst \cup {None}
    BY <1>b, <1>7 DEF ChildrenEnd, Repair, startVars
  <2> QED
    BY <2>1, <2>2 DEF StartTypes
<1> QED
  BY <1>2, <1>3, <1>4, <1>5, <1>6, <1>7 DEF StartNext

\* Where the instance is after its step.
LEMMA StepsOfIt ==
  ASSUME inst \in [Inst -> InstRecord], NEW i \in Inst
  PROVE  /\ CheckPid(i) => inst'[i].pc \in {"dead", "save"}
         /\ SaveFails(i) => inst'[i].pc = "close" /\ inst'[i].why = "disk"
         /\ SavePid(i) => inst'[i].pc = "init"
         /\ BindPort(i) => inst'[i].pc \in {"run", "close"} /\ inst'[i].why \in {inst[i].why, "port"}
         /\ Reload(i) => inst'[i].pc = "run" /\ inst'[i].why = inst[i].why
         /\ ToldToEnd(i) => inst'[i].pc = "close" /\ inst'[i].why = ""
         /\ Close(i) => inst'[i].pc = "rm" /\ inst'[i].why = inst[i].why
         /\ UnlinkPid(i) => inst'[i].pc = "ended" /\ inst'[i].why = inst[i].why
         /\ Dies(i) => inst'[i].pc = "dead" /\ inst'[i].why = "killed"
         /\ \A kind \in Kinds : InitIpc(i, kind) => inst'[i].pc \in {"close", "init", "bind", "free"}
         /\ \A kind \in Kinds : InitAgain(i, kind) => inst'[i].pc \in {"close", "init", "bind"}
<1> USE DEF InstRecord
<1>1. \A r : Go(i, r) => inst'[i] = r
  BY DEF Go
<1>2. \A why : End(inst[i], why).pc = "close" /\ End(inst[i], why).why = why
  BY DEF End
<1>3. /\ CheckPid(i) => inst'[i].pc \in {"dead", "save"}
      /\ SaveFails(i) => inst'[i].pc = "close" /\ inst'[i].why = "disk"
      /\ SavePid(i) => inst'[i].pc = "init"
      /\ ToldToEnd(i) => inst'[i].pc = "close" /\ inst'[i].why = ""
  <2>1. CheckPid(i) => inst'[i].pc \in {"dead", "save"}
    BY <1>1 DEF CheckPid
  <2>2. SaveFails(i) => inst'[i].pc = "close" /\ inst'[i].why = "disk"
    BY <1>1, <1>2 DEF SaveFails
  <2>3. SavePid(i) => inst'[i].pc = "init"
    BY <1>1 DEF SavePid
  <2>4. ToldToEnd(i) => inst'[i].pc = "close" /\ inst'[i].why = ""
    BY <1>1, <1>2 DEF ToldToEnd
  <2> QED
    BY <2>1, <2>2, <2>3, <2>4
<1>4. BindPort(i) => inst'[i].pc \in {"run", "close"} /\ inst'[i].why \in {inst[i].why, "port"}
  BY <1>1, <1>2 DEF BindPort
<1>5. Reload(i) => inst'[i].pc = "run" /\ inst'[i].why = inst[i].why
  BY <1>1 DEF Reload, IsAt
<1>6. /\ Close(i) => inst'[i].pc = "rm" /\ inst'[i].why = inst[i].why
      /\ UnlinkPid(i) => inst'[i].pc = "ended" /\ inst'[i].why = inst[i].why
  BY <1>1 DEF Close, UnlinkPid
<1>7. Dies(i) => inst'[i].pc = "dead" /\ inst'[i].why = "killed"
  BY <1>1 DEF Dies, End
<1>8. ASSUME NEW kind \in Kinds, NEW n, Made(i, kind, n) PROVE inst'[i].pc \in {"init", "bind", "close"}
  <2>1. CASE Go(i, [inst[i] EXCEPT !.pc = IF kind = "sem" THEN "init" ELSE "bind", !.of = "shm", !.key = None])
    BY <1>1, <2>1
  <2>2. ASSUME NEW why, Go(i, End(inst[i], why)) PROVE inst'[i].pc = "close"
    BY <1>1, <1>2, <2>2
  <2> QED
    BY <1>8, <2>1, <2>2 DEF Made
<1>9. ASSUME NEW kind \in Kinds, InitIpc(i, kind) PROVE inst'[i].pc \in {"close", "init", "bind", "free"}
  BY <1>1, <1>2, <1>8, <1>9 DEF InitIpc
<1>10. ASSUME NEW kind \in Kinds, InitAgain(i, kind) PROVE inst'[i].pc \in {"close", "init", "bind"}
  BY <1>1, <1>2, <1>8, <1>10 DEF InitAgain
<1> QED
  BY <1>3, <1>4, <1>5, <1>6, <1>7, <1>9, <1>10

\* Every step but CheckPid is one of an instance that lives, so until two live it
\* is that of the only one.
LEMMA AloneStep == StartupAssumption /\ StartTypes /\ Alone /\ [StartNext]_startVars => Alone'
<1> SUFFICES ASSUME StartupAssumption, StartTypes, Alone, [StartNext]_startVars, ~raced' PROVE Alone'
  BY DEF Alone
<1>1. ~raced
  BY DEF StartNext, CheckPid, SaveFails, SavePid, BindPort, InitIpc, FreeStale, InitAgain, Release, Reload,
         ToldToEnd, Close, UnlinkPid, Dies, ChildrenEnd, Repair, startVars
<1>2. /\ \A i, j \in Inst : Lives(i) /\ Lives(j) => i = j
      /\ \A i \in Inst : Started(i) /\ inst[i].why \notin Kinds
  BY <1>1 DEF Alone
<1>3. /\ pid \in [ino : Inode \cup {None}, by : Inst \cup {None}]
      /\ ipc \in [Kinds -> [Inode -> Inst \cup {None}]]
      /\ inst \in [Inst -> InstRecord]
  BY DEF StartTypes
<1>a. ASSUME NEW i \in Inst, Lives(i) \/ \A j \in Inst : ~Lives(j), NEW r, Go(i, r),
             Started(i)', inst'[i].why \notin Kinds
      PROVE  Alone'
  <2>1. \A j \in Inst : j # i => inst'[j] = inst[j] /\ ~Lives(j)
    BY <1>2, <1>3, <1>a DEF Go
  <2>2. \A j \in Inst : j # i => Started(j)' /\ inst'[j].why \notin Kinds /\ ~Lives(j)'
    BY <1>2, <2>1 DEF Started, Lives, IsAt
  <2> QED
    BY <1>a, <2>2 DEF Alone
<1>4. ASSUME NEW i \in Inst, CheckPid(i) PROVE Alone'
  <2>1. CASE pid.ino # None
    <3>1. inst' = [inst EXCEPT ![i] = [inst[i] EXCEPT !.pc = "dead", !.why = "pid"]]
      BY <1>4, <2>1 DEF CheckPid, Go
    <3>2. UNCHANGED <<pid, ipc>>
      BY <1>4 DEF CheckPid
    <3>3. inst'[i].pc = "dead" /\ inst'[i].why = "pid" /\ \A j \in Inst : j # i => inst'[j] = inst[j]
      BY <1>3, <3>1 DEF InstRecord
    <3> QED
      BY <1>2, <3>2, <3>3 DEF Alone, Started, Lives, IsAt, Owns, Kinds
  <2>2. CASE pid.ino = None
    <3>1. Go(i, [inst[i] EXCEPT !.pc = "save"]) /\ ~Another
      BY <1>4, <2>2 DEF CheckPid
    <3>2. inst'[i].pc = "save" /\ inst'[i].why = inst[i].why /\ inst'[i].of = inst[i].of
      BY <1>3, <3>1 DEF Go, InstRecord
    <3>3. inst[i].of = "sem"
      BY <1>2, <1>4 DEF CheckPid, Started, IsAt
    <3>4. Started(i)'
      BY <3>2, <3>3 DEF Started, IsAt
    <3> QED
      BY <1>a, <1>2, <2>2, <3>1, <3>2, <3>4 DEF Another
  <2> QED
    BY <2>1, <2>2
<1>5. ASSUME NEW i \in Inst, SaveFails(i) \/ ToldToEnd(i) \/ Close(i) \/ UnlinkPid(i) \/ Dies(i)
      PROVE  Alone'
  <2>1. Lives(i)
    BY <1>5 DEF SaveFails, ToldToEnd, Close, UnlinkPid, Dies, IsAt, Lives
  <2>2. \E r : Go(i, r)
    BY <1>5 DEF SaveFails, ToldToEnd, Close, UnlinkPid, Dies
  <2>3. /\ inst'[i].pc \in {"close", "rm", "ended", "dead"}
        /\ inst'[i].why \in {inst[i].why, "disk", "", "killed"}
    BY <1>3, <1>5, StepsOfIt
  <2>4. inst'[i].why \notin Kinds
    BY <1>2, <2>3 DEF Kinds
  <2> QED
    BY <1>a, <2>1, <2>2, <2>3, <2>4 DEF Started, IsAt
<1>6. ASSUME NEW i \in Inst, SavePid(i) PROVE Alone'
  <2>1. Lives(i) /\ inst[i].pc = "save"
    BY <1>6 DEF SavePid, IsAt, Lives
  <2>2. Go(i, [inst[i] EXCEPT !.pc = "init"])
    BY <1>6 DEF SavePid
  <2>3. inst'[i].pc = "init" /\ inst'[i].why = inst[i].why /\ inst'[i].of = inst[i].of
    BY <1>3, <2>2 DEF Go, InstRecord
  <2>4. inst[i].of = "sem"
    BY <1>2, <2>1 DEF Started
  <2>5. pid'.ino # None /\ pid'.by = i
    BY <1>6 DEF SavePid, StartupAssumption, None
  <2> QED
    BY <1>a, <1>2, <2>1, <2>2, <2>3, <2>4, <2>5 DEF Started, IsAt
<1>7. ASSUME NEW i \in Inst, BindPort(i) \/ Reload(i) PROVE Alone'
  <2>1. Lives(i) /\ inst[i].pc \in {"bind", "run"}
    BY <1>7 DEF BindPort, Reload, IsAt, Lives
  <2>2. \E r : Go(i, r)
    BY <1>7 DEF BindPort, Reload
  <2>3. inst'[i].pc \in {"run", "close"} /\ inst'[i].why \in {inst[i].why, "port"}
    BY <1>3, <1>7, StepsOfIt
  <2>4. UNCHANGED <<pid, ipc>>
    BY <1>7 DEF BindPort, Reload
  <2>5. Started(i)'
    BY <1>2, <2>1, <2>3, <2>4 DEF Started, IsAt, Owns
  <2> QED
    BY <1>a, <1>2, <2>1, <2>2, <2>3, <2>5 DEF Kinds
\* What is made is owned.
<1>b. ASSUME NEW i \in Inst, NEW kind \in Kinds, NEW n \in Inode, Made(i, kind, n), UNCHANGED pid,
             Lives(i), inst[i].of = kind, inst[i].pc \in {"init", "again"}
      PROVE  Alone'
  <2>1. CASE ~\E why \in {"attach", "limit"} : Go(i, End(inst[i], why))
    <3>1. /\ Go(i, [inst[i] EXCEPT !.pc = IF kind = "sem" THEN "init" ELSE "bind", !.of = "shm", !.key = None])
          /\ ipc' = [ipc EXCEPT ![kind][n] = i]
      BY <1>b, <2>1 DEF Made
    <3>2. /\ inst'[i].pc = IF kind = "sem" THEN "init" ELSE "bind"
          /\ inst'[i].of = "shm" /\ inst'[i].why = inst[i].why
      BY <1>3, <3>1 DEF Go, InstRecord
    <3>3. Owns(i, kind)' /\ \A k \in Kinds : Owns(i, k) => Owns(i, k)'
      BY <1>3, <3>1 DEF Owns
    <3>4. Started(i)'
      BY <1>2, <1>b, <3>2, <3>3 DEF Started, IsAt, Kinds
    <3> QED
      BY <1>a, <1>2, <1>b, <3>1, <3>2, <3>4
  <2>2. ASSUME NEW why \in {"attach", "limit"}, Go(i, End(inst[i], why)) PROVE Alone'
    <3>1. inst'[i].pc = "close" /\ inst'[i].why = why
      BY <1>3, <2>2 DEF Go, End, InstRecord
    <3>2. Started(i)' /\ inst'[i].why \notin Kinds
      BY <3>1 DEF Started, IsAt, Kinds
    <3> QED
      BY <1>a, <1>b, <2>2, <3>2
  <2> QED
    BY <2>1, <2>2
<1>8. ASSUME NEW i \in Inst, NEW kind \in Kinds, InitIpc(i, kind) PROVE Alone'
  <2>1. Lives(i) /\ inst[i].pc = "init" /\ inst[i].of = kind /\ UNCHANGED pid
    BY <1>8 DEF InitIpc, IsAt, Lives
  <2>2. pid.ino # None /\ pid.by = i /\ pid.ino \in Inode
    BY <1>2, <1>3, <2>1 DEF Started
  <2>3. CASE ipc[kind][pid.ino] = None
    BY <1>8, <1>b, <2>1, <2>2, <2>3 DEF InitIpc
  <2>4. CASE ipc[kind][pid.ino] # None
    <3>1. Go(i, [inst[i] EXCEPT !.pc = "free", !.key = pid.ino]) /\ UNCHANGED ipc
      BY <1>8, <2>2, <2>4 DEF InitIpc
    <3>2. /\ inst'[i].pc = "free" /\ inst'[i].key = pid.ino
          /\ inst'[i].of = inst[i].of /\ inst'[i].why = inst[i].why
      BY <1>3, <3>1 DEF Go, InstRecord
    <3>3. Started(i)'
      BY <1>2, <2>1, <2>2, <3>1, <3>2 DEF Started, IsAt, Owns
    <3> QED
      BY <1>a, <1>2, <2>1, <3>1, <3>2, <3>3
  <2> QED
    BY <2>3, <2>4
<1>9. ASSUME NEW i \in Inst, NEW kind \in Kinds, FreeStale(i, kind) PROVE Alone'
  <2>1. Lives(i) /\ inst[i].pc = "free" /\ inst[i].of = kind /\ UNCHANGED pid
    BY <1>9 DEF FreeStale, IsAt, Lives
  <2>2. Go(i, [inst[i] EXCEPT !.pc = "again"])
    BY <1>9 DEF FreeStale
  <2>3. /\ inst'[i].pc = "again" /\ inst'[i].key = inst[i].key
        /\ inst'[i].of = inst[i].of /\ inst'[i].why = inst[i].why
    BY <1>3, <2>2 DEF Go, InstRecord
  <2>4. pid.ino # None /\ pid.by = i /\ pid.ino \in Inode /\ inst[i].key = pid.ino
    BY <1>2, <1>3, <2>1 DEF Started
  <2>5. ipc'[kind][pid.ino] = None /\ \A k \in Kinds : k # kind => ipc'[k] = ipc[k]
    BY <1>3, <1>9, <2>4 DEF FreeStale
  <2>6. kind = "shm" => Owns(i, "sem")'
    BY <1>2, <2>1, <2>5 DEF Started, Owns, Kinds
  <2>7. Started(i)'
    BY <2>1, <2>3, <2>4, <2>5, <2>6 DEF Started, IsAt
  <2> QED
    BY <1>a, <1>2, <2>1, <2>2, <2>3, <2>7
<1>10. ASSUME NEW i \in Inst, NEW kind \in Kinds, InitAgain(i, kind) PROVE Alone'
  <2>1. Lives(i) /\ inst[i].pc = "again" /\ inst[i].of = kind /\ UNCHANGED pid
    BY <1>10 DEF InitAgain, IsAt, Lives
  <2>2. inst[i].key = pid.ino /\ pid.ino \in Inode /\ ipc[kind][inst[i].key] = None
    BY <1>2, <1>3, <2>1 DEF Started, IsAt
  <2> QED
    BY <1>10, <1>b, <2>1, <2>2 DEF InitAgain
<1>11. ASSUME NEW i \in Inst, NEW kind \in Kinds, Release(i, kind) PROVE Alone'
  <2>1. Lives(i)
    BY <1>11 DEF Release, IsAt, Lives
  <2>2. inst'[i].pc \in {"rm", "unlink"} /\ inst'[i].why = inst[i].why /\ \E r : Go(i, r)
    BY <1>3, <1>11 DEF Release, Go, InstRecord
  <2> QED
    BY <1>a, <1>2, <2>1, <2>2 DEF Started, IsAt
<1>12. CASE ChildrenEnd \/ Repair \/ UNCHANGED startVars
  <2>1. UNCHANGED <<inst, ipc>> /\ (UNCHANGED pid \/ \A i \in Inst : ~Lives(i))
    BY <1>12 DEF ChildrenEnd, Repair, startVars
  <2> QED
    BY <1>2, <2>1 DEF Alone, Started, Lives, IsAt, Owns
<1> QED
  BY <1>4, <1>5, <1>6, <1>7, <1>8, <1>9, <1>10, <1>11, <1>12 DEF StartNext

\* Nobody makes anything for another, and what is removed is not made again.
LEMMA GivenBackStep == StartupAssumption /\ StartTypes /\ GivenBack /\ [StartNext]_startVars => GivenBack'
<1> SUFFICES ASSUME StartupAssumption, StartTypes, GivenBack, [StartNext]_startVars PROVE GivenBack'
  OBVIOUS
<1>0. /\ pid \in [ino : Inode \cup {None}, by : Inst \cup {None}]
      /\ ipc \in [Kinds -> [Inode -> Inst \cup {None}]]
      /\ inst \in [Inst -> InstRecord]
  BY DEF StartTypes
<1>a. ASSUME NEW i \in Inst, NEW r, Go(i, r),
             \A j \in Inst, k \in Kinds : j # i /\ Owns(j, k)' => Owns(j, k),
             pid'.by \in {pid.by, i, None},
             inst'[i].pc = "rm" /\ inst'[i].of = "sem" => ("shm" \in Unknown(i) \/ ~Owns(i, "shm"))',
             inst'[i].pc \in {"unlink", "ended"} => (\A k \in Kinds \ Unknown(i) : ~Owns(i, k))',
             inst'[i].pc = "ended" /\ inst'[i].path = "same" => pid'.by # i
      PROVE  GivenBack'
  <2>1. \A j \in Inst : j # i => inst'[j] = inst[j]
    BY <1>0, <1>a DEF Go
  <2>2. \A j \in Inst : j # i /\ pid'.by = j => pid.by = j
    BY <1>a DEF StartupAssumption, None
  <2> QED
    BY <1>a, <2>1, <2>2 DEF GivenBack, IsAt, Unknown, Kinds
<1>1. ASSUME NEW i \in Inst,
             CheckPid(i) \/ SaveFails(i) \/ SavePid(i) \/ BindPort(i) \/ Reload(i) \/ ToldToEnd(i) \/ Dies(i)
      PROVE  GivenBack'
  <2>1. UNCHANGED ipc /\ (\E r : Go(i, r)) /\ pid'.by \in {pid.by, i}
    <3>1. CASE SavePid(i)
      BY <3>1 DEF SavePid
    <3>2. CASE ~SavePid(i)
      BY <1>1, <3>2 DEF CheckPid, SaveFails, BindPort, Reload, ToldToEnd, Dies
    <3> QED
      BY <3>1, <3>2
  <2>2. inst'[i].pc \notin {"rm", "unlink", "ended"}
    BY <1>0, <1>1, StepsOfIt
  <2> QED
    BY <1>a, <2>1, <2>2 DEF Owns
<1>2. ASSUME NEW i \in Inst, Close(i) PROVE GivenBack'
  <2>1. UNCHANGED <<ipc, pid>> /\ (\E r : Go(i, r))
    BY <1>2 DEF Close
  <2>2. inst'[i].pc = "rm" /\ inst'[i].of = "shm"
    BY <1>0, <1>2 DEF Close, Go, InstRecord
  <2> QED
    BY <1>a, <2>1, <2>2 DEF Owns
<1>3. ASSUME NEW i \in Inst, NEW kind \in Kinds, InitIpc(i, kind) \/ InitAgain(i, kind) PROVE GivenBack'
  <2>1. UNCHANGED pid /\ (\E r : Go(i, r))
    BY <1>3 DEF InitIpc, InitAgain, Made
  <2>2. inst'[i].pc \notin {"rm", "unlink", "ended"}
    BY <1>0, <1>3, StepsOfIt
  <2>3. UNCHANGED ipc \/ \E n : ipc' = [ipc EXCEPT ![kind][n] = i]
    BY <1>3 DEF InitIpc, InitAgain, Made
  <2>4. \A j \in Inst, k \in Kinds : j # i /\ Owns(j, k)' => Owns(j, k)
    BY <1>0, <2>3 DEF Owns
  <2> QED
    BY <1>a, <2>1, <2>2, <2>4
<1>4. ASSUME NEW i \in Inst, NEW kind \in Kinds, FreeStale(i, kind) PROVE GivenBack'
  <2>1. UNCHANGED pid /\ (\E r : Go(i, r))
    BY <1>4 DEF FreeStale
  <2>2. inst'[i].pc = "again"
    BY <1>0, <1>4 DEF FreeStale, Go, InstRecord
  <2>3. \A j \in Inst, k \in Kinds : Owns(j, k)' => Owns(j, k)
    BY <1>0, <1>4 DEF FreeStale, Owns, StartupAssumption, None
  <2> QED
    BY <1>a, <2>1, <2>2, <2>3
<1>5. ASSUME NEW i \in Inst, NEW kind \in Kinds, Release(i, kind) PROVE GivenBack'
  <2>1. UNCHANGED pid /\ (\E r : Go(i, r)) /\ inst[i].pc = "rm" /\ inst[i].of = kind
    BY <1>5 DEF Release, IsAt
  <2>2. /\ inst'[i].pc = (IF kind = "shm" THEN "rm" ELSE "unlink") /\ inst'[i].of = "sem"
        /\ Unknown(i)' = Unknown(i)
    BY <1>0, <1>5 DEF Release, Go, InstRecord, Unknown
  <2>3. \A j \in Inst, k \in Kinds : Owns(j, k)' => Owns(j, k)
    BY <1>0, <1>5 DEF Release, Owns, StartupAssumption, None
  <2>4. kind \in Unknown(i) \/ ~Owns(i, kind)'
    BY <1>0, <1>5 DEF Release, Owns, StartupAssumption, None
  <2>5. kind = "sem" => "shm" \in Unknown(i) \/ ~Owns(i, "shm")'
    BY <2>1, <2>3 DEF GivenBack, IsAt, Kinds
  <2> QED
    BY <1>a, <2>1, <2>2, <2>3, <2>4, <2>5 DEF Kinds, Unknown
<1>6. ASSUME NEW i \in Inst, UnlinkPid(i) PROVE GivenBack'
  <2>1. UNCHANGED ipc /\ (\E r : Go(i, r)) /\ inst[i].pc = "unlink" /\ pid'.by \in {pid.by, None}
    BY <1>6 DEF UnlinkPid, IsAt
  <2>2. inst'[i].pc = "ended" /\ inst'[i].path = inst[i].path /\ Unknown(i)' = Unknown(i)
    BY <1>0, <1>6 DEF UnlinkPid, Go, InstRecord, Unknown
  <2>3. inst[i].path = "same" => pid'.by # i
    BY <1>6 DEF UnlinkPid, StartupAssumption, None
  <2>4. \A k \in Kinds \ Unknown(i) : ~Owns(i, k)'
    BY <2>1 DEF GivenBack, Owns
  <2> QED
    BY <1>a, <2>1, <2>2, <2>3, <2>4 DEF Owns
<1>7. CASE ChildrenEnd \/ Repair \/ UNCHANGED startVars
  <2>1. UNCHANGED <<inst, ipc>> /\ pid'.by \in {pid.by, None}
    BY <1>7 DEF ChildrenEnd, Repair, startVars
  <2> QED
    BY <2>1 DEF GivenBack, IsAt, Owns, Unknown, StartupAssumption, None
<1> QED
  BY <1>1, <1>2, <1>3, <1>4, <1>5, <1>6, <1>7 DEF StartNext

\* A server that runs has its semaphores, its memory and its pid file, what a
\* killed one has left keeps none from starting, and one that has ended leaves
\* nothing but memory it could not attach, for any number of servers of one
\* configuration.
THEOREM StartsAndEndsCorrect == StartupAssumption => (StartSpec => []StartsAndEnds)
<1> SUFFICES ASSUME StartupAssumption PROVE StartSpec => []StartsAndEnds
  OBVIOUS
<1>1. StartInit => StartInv
  BY InitStartInv
<1>2. StartInv /\ [StartNext]_startVars => StartInv'
  BY TypesStep, AloneStep, GivenBackStep DEF StartInv
<1>3. StartInv => StartsAndEnds
  <2> SUFFICES ASSUME StartInv PROVE StartsAndEnds
    OBVIOUS
  <2>1. \A i \in Inst : (\A kind \in Kinds : Owns(i, kind)) => Has(i) = Kinds
    BY DEF Has, Owns
  <2>2. \A i \in Inst : (\A kind \in Kinds \ Unknown(i) : ~Owns(i, kind)) => Has(i) \subseteq Unknown(i)
    BY DEF Has, Owns
  <2> QED
    BY <2>1, <2>2 DEF StartInv, Alone, GivenBack, Started, IsAt, StartsAndEnds, RunningOwns,
        FailsForReason, LeavesNothing
<1> QED
  BY <1>1, <1>2, <1>3, PTL DEF StartSpec

-----------------------------------------------------------------------------
(* Induction *)

\* Over numbers, with a set in place of a predicate.
LEMMA NatSetInduction ==
  ASSUME NEW S, 0 \in S, \A n \in Nat : n \in S => n + 1 \in S
  PROVE  Nat \subseteq S
<1> DEFINE T == Nat \ S
           R == {ss \in Nat \X Nat : ss[1] < ss[2]}
<1> SUFFICES ASSUME T # {} PROVE FALSE
  OBVIOUS
<1>1. IsWellFoundedOn(R, Nat) /\ T \subseteq Nat
  BY NatLessThanWellFounded, Zenon DEF OpToRel
<1>2. PICK x \in T : \A y \in T : ~ (<<y, x>> \in R)
  BY <1>1, WFMin, Zenon
<1>3. x # 0 /\ x - 1 \in Nat /\ x - 1 \notin T
  <2>1. x # 0 /\ x \in Nat
    OBVIOUS
  <2>2. x - 1 \in Nat /\ x - 1 < x
    BY <2>1, SMT
  <2>3. <<x - 1, x>> \in R
    BY <2>1, <2>2, SMT
  <2>4. QED
    BY <1>2, <2>1, <2>2, <2>3, Zenon
<1>4. x - 1 + 1 = x
  BY SMT
<1>5. QED
  BY <1>3, <1>4, Zenon

\* Sequences with the same elements are the same.
LEMMA SameSeq ==
  ASSUME NEW S, NEW a \in Seq(S), NEW b \in Seq(S), Len(a) = Len(b), \A i \in 1 .. Len(a) : a[i] = b[i]
  PROVE  a = b
<1>1. a = [i \in 1 .. Len(a) |-> a[i]] /\ b = [i \in 1 .. Len(b) |-> b[i]]
  BY SMT
<1>2. QED
  BY <1>1

\* A path is an entry of a shorter one.
LEMMA PathParts ==
  ASSUME NEW p \in Seq(Name), p # <<>>
  PROVE  Front(p) \in Seq(Name) /\ Last(p) \in Name /\ p = Append(Front(p), Last(p)) /\ Len(Front(p)) = Len(p) - 1
<1>1. Len(p) \in Nat \ {0} /\ p \in [1 .. Len(p) -> Name]
  BY SMT
<1>2. Front(p) = [i \in 1 .. Len(p) - 1 |-> p[i]] /\ Last(p) = p[Len(p)]
  BY <1>1, SMT DEF Front, Last
<1>3. QED
  BY <1>1, <1>2, SMT

\* What is so of the root, and of an entry when it is so of the directory, is so of every path.
LEMMA PathInduction ==
  ASSUME NEW S, <<>> \in S, \A p \in Seq(Name), n \in Name : p \in S => Append(p, n) \in S
  PROVE  Seq(Name) \subseteq S
<1> DEFINE T == {k \in Nat : \A p \in Seq(Name) : Len(p) = k => p \in S}
<1>1. 0 \in T
  BY SMT
<1>2. ASSUME NEW k \in Nat, k \in T
      PROVE  k + 1 \in T
  <2>1. SUFFICES ASSUME NEW p \in Seq(Name), Len(p) = k + 1
                 PROVE  p \in S
    BY SMT
  <2>2. p # <<>>
    BY <2>1, SMT
  <2>3. Front(p) \in Seq(Name) /\ Last(p) \in Name /\ p = Append(Front(p), Last(p)) /\ Len(Front(p)) = k
    BY <2>1, <2>2, PathParts, SMT
  <2>4. Front(p) \in S
    BY <1>2, <2>3
  <2>5. QED
    BY <2>3, <2>4, Zenon
<1> HIDE DEF T
<1>3. Nat \subseteq T
  BY <1>1, <1>2, NatSetInduction, Zenon
<1>4. QED
  BY <1>3, SMT DEF T

-----------------------------------------------------------------------------
(* Where a path leads *)

InoRecord ==
  [kind : {"none", "file", "dir"}, data : Seq(Nat), mtime : Nat, names : [Name -> Ino \cup {0}]]

GoodTree(tree) ==
  /\ tree \in [Ino -> InoRecord] /\ tree[Root].kind = "dir" /\ Root \in Ino
  /\ \A i \in Ino : tree[i].kind = "none" => tree[i] = NoIno
  /\ \A i \in Ino, n \in Name : tree[i].names[n] # 0 =>
       tree[i].kind = "dir" /\ tree[tree[i].names[n]].kind # "none"

Follow(tree, i, n) == IF i = 0 THEN 0 ELSE tree[i].names[n]

\* What the first m names of a path lead to.
Trail(tree, path, m, w) ==
  /\ w \in [0 .. m -> Ino \cup {0}] /\ w[0] = Root
  /\ \A k \in 1 .. m : w[k] = Follow(tree, w[k - 1], path[k])

\* One name more can be followed,
LEMMA TrailStep ==
  ASSUME NEW tree, GoodTree(tree), NEW path \in Seq(Name), NEW m \in Nat, m < Len(path),
         NEW w, Trail(tree, path, m, w)
  PROVE  \E v : Trail(tree, path, m + 1, v) /\ \A k \in 0 .. m : v[k] = w[k]
<1> DEFINE v == [k \in 0 .. m + 1 |-> IF k = m + 1 THEN Follow(tree, w[m], path[m + 1]) ELSE w[k]]
<1>1. path[m + 1] \in Name /\ w[m] \in Ino \cup {0}
  BY SMT DEF Trail
<1>2. Follow(tree, w[m], path[m + 1]) \in Ino \cup {0}
  BY <1>1 DEF Follow, GoodTree, InoRecord
<1>3. v \in [0 .. m + 1 -> Ino \cup {0}] /\ v[0] = Root /\ \A k \in 0 .. m : v[k] = w[k]
  BY <1>2, SMT DEF Trail
<1>4. ASSUME NEW k \in 1 .. m + 1
      PROVE  v[k] = Follow(tree, v[k - 1], path[k])
  <2>1. CASE k = m + 1
    <3>1. v[k] = Follow(tree, w[m], path[m + 1]) /\ v[k - 1] = w[m]
      BY <2>1, SMT
    <3>2. QED
      BY <2>1, <3>1
  <2>2. CASE k # m + 1
    <3>1. k \in 1 .. m /\ k - 1 \in 0 .. m /\ k \in 0 .. m
      BY <2>2, SMT
    <3>2. v[k] = w[k] /\ v[k - 1] = w[k - 1]
      BY <3>1, <1>3
    <3>3. QED
      BY <3>1, <3>2 DEF Trail
  <2>3. QED
    BY <2>1, <2>2
<1> HIDE DEF v
<1>5. QED
  BY <1>3, <1>4 DEF Trail

\* ...and so all of them can.
LEMMA TrailExists ==
  ASSUME NEW tree, GoodTree(tree), NEW path \in Seq(Name)
  PROVE  \E w : Trail(tree, path, Len(path), w)
<1> DEFINE T == {m \in Nat : m <= Len(path) => \E w : Trail(tree, path, m, w)}
<1>1. 0 \in T
  <2>1. Trail(tree, path, 0, [k \in 0 .. 0 |-> Root])
    BY SMT DEF Trail, GoodTree
  <2>2. QED
    BY <2>1, SMT
<1>2. ASSUME NEW m \in Nat, m \in T
      PROVE  m + 1 \in T
  <2>1. CASE m < Len(path)
    <3>1. PICK w : Trail(tree, path, m, w)
      BY <1>2, <2>1, SMT
    <3>2. \E v : Trail(tree, path, m + 1, v)
      BY <2>1, <3>1, TrailStep
    <3>3. QED
      BY <3>2, SMT
  <2>2. CASE ~(m < Len(path))
    BY <2>2, SMT
  <2>3. QED
    BY <2>1, <2>2
<1> HIDE DEF T
<1>3. Nat \subseteq T
  BY <1>1, <1>2, NatSetInduction, Zenon
<1>4. Len(path) \in Nat /\ Len(path) <= Len(path)
  BY SMT
<1>5. QED
  BY <1>3, <1>4 DEF T

\* There is one way only.
LEMMA OneTrail ==
  ASSUME NEW tree, NEW p, NEW q, NEW m \in Nat, \A k \in 1 .. m : p[k] = q[k],
         NEW w, NEW v, NEW a \in Nat, NEW b \in Nat, m <= a, m <= b, Trail(tree, p, a, w), Trail(tree, q, b, v)
  PROVE  w[m] = v[m]
<1> DEFINE T == {k \in Nat : k <= m => w[k] = v[k]}
<1>1. 0 \in T
  BY SMT DEF Trail
<1>2. ASSUME NEW k \in Nat, k \in T
      PROVE  k + 1 \in T
  <2>1. SUFFICES ASSUME k + 1 <= m
                 PROVE  w[k + 1] = v[k + 1]
    BY SMT
  <2>2. k + 1 \in 1 .. m /\ k + 1 \in 1 .. a /\ k + 1 \in 1 .. b /\ k + 1 - 1 = k /\ k <= m
    BY <2>1, SMT
  <2>3. w[k + 1] = Follow(tree, w[k], p[k + 1]) /\ v[k + 1] = Follow(tree, v[k], q[k + 1])
    BY <2>2 DEF Trail
  <2>4. QED
    BY <1>2, <2>2, <2>3
<1> HIDE DEF T
<1>3. Nat \subseteq T
  BY <1>1, <1>2, NatSetInduction, Zenon
<1>4. QED
  BY <1>3, SMT DEF T

\* Looking up a path follows it.
LEMMA LookupTrail ==
  ASSUME NEW tree, GoodTree(tree), NEW path \in Seq(Name), NEW w, Trail(tree, path, Len(path), w)
  PROVE  LookupIn(tree, path) = w[Len(path)]
<1> DEFINE at == CHOOSE at : at = [k \in 0 .. Len(path) |->
              IF k = 0 THEN Root
              ELSE IF at[k - 1] = 0 THEN 0 ELSE tree[at[k - 1]].names[path[k]]]
           N == Len(path)
<1>0. N \in Nat
  BY SMT
<1>1. w = [k \in 0 .. N |-> IF k = 0 THEN Root ELSE IF w[k - 1] = 0 THEN 0 ELSE tree[w[k - 1]].names[path[k]]]
  <2>1. w = [k \in 0 .. N |-> w[k]]
    BY DEF Trail
  <2>2. \A k \in 0 .. N : w[k] = IF k = 0 THEN Root ELSE IF w[k - 1] = 0 THEN 0 ELSE tree[w[k - 1]].names[path[k]]
    <3>1. \A k \in 0 .. N : k # 0 => k \in 1 .. N
      BY <1>0, SMT
    <3>2. QED
      BY <3>1 DEF Trail, Follow
  <2>3. QED
    BY <2>1, <2>2
<1>2. at = [k \in 0 .. N |-> IF k = 0 THEN Root ELSE IF at[k - 1] = 0 THEN 0 ELSE tree[at[k - 1]].names[path[k]]]
  BY <1>1
<1>3. LookupIn(tree, path) = at[N]
  BY DEF LookupIn
<1> HIDE DEF at
<1> DEFINE T == {k \in Nat : k <= N => at[k] = w[k]}
<1>4. 0 \in T
  BY <1>0, <1>2, SMT DEF Trail
<1>5. ASSUME NEW k \in Nat, k \in T
      PROVE  k + 1 \in T
  <2>1. SUFFICES ASSUME k + 1 <= N
                 PROVE  at[k + 1] = w[k + 1]
    BY SMT
  <2>2. k + 1 \in 0 .. N /\ k + 1 # 0 /\ k + 1 - 1 = k /\ k <= N
    BY <1>0, <2>1, SMT
  <2>3. at[k + 1] = IF at[k] = 0 THEN 0 ELSE tree[at[k]].names[path[k + 1]]
    BY <1>2, <2>2
  <2>4. w[k + 1] = IF w[k] = 0 THEN 0 ELSE tree[w[k]].names[path[k + 1]]
    BY <1>1, <2>2
  <2>5. QED
    BY <1>5, <2>2, <2>3, <2>4
<1> HIDE DEF T
<1>6. Nat \subseteq T
  BY <1>4, <1>5, NatSetInduction, Zenon
<1>7. QED
  BY <1>0, <1>3, <1>6, SMT DEF T

\* The last name of a path is looked up where the names before it lead.
LEMMA LookupEntry ==
  ASSUME NEW tree, GoodTree(tree)
  PROVE  /\ LookupIn(tree, <<>>) = Root
         /\ \A p \in Seq(Name) : LookupIn(tree, p) \in Ino \cup {0}
         /\ \A p \in Seq(Name), n \in Name : LookupIn(tree, Append(p, n)) = Follow(tree, LookupIn(tree, p), n)
<1>1. <<>> \in Seq(Name) /\ Len(<<>>) = 0
  BY SMT
<1>2. \A p \in Seq(Name) : \E w : Trail(tree, p, Len(p), w) /\ LookupIn(tree, p) = w[Len(p)]
  BY TrailExists, LookupTrail
<1>3. LookupIn(tree, <<>>) = Root
  BY <1>1, <1>2 DEF Trail
<1>4. \A p \in Seq(Name) : Len(p) \in Nat /\ Len(p) \in 0 .. Len(p)
  BY SMT
<1>5. \A p \in Seq(Name) : LookupIn(tree, p) \in Ino \cup {0}
  BY <1>2, <1>4 DEF Trail
<1>6. ASSUME NEW p \in Seq(Name), NEW n \in Name
      PROVE  LookupIn(tree, Append(p, n)) = Follow(tree, LookupIn(tree, p), n)
  <2> DEFINE q == Append(p, n)
             m == Len(p)
  <2>1. q \in Seq(Name) /\ Len(q) = m + 1 /\ q[m + 1] = n /\ m \in Nat /\ \A k \in 1 .. m : p[k] = q[k]
    BY SMT
  <2>2. PICK w : Trail(tree, p, m, w) /\ LookupIn(tree, p) = w[m]
    BY <1>2
  <2>3. PICK v : Trail(tree, q, m + 1, v) /\ LookupIn(tree, q) = v[m + 1]
    BY <1>2, <2>1
  <2>4. m + 1 \in Nat /\ m <= m /\ m <= m + 1 /\ m + 1 \in 1 .. m + 1 /\ m + 1 - 1 = m
    BY <2>1, SMT
  <2> HIDE DEF q, m
  <2>5. w[m] = v[m]
    BY <2>1, <2>2, <2>3, <2>4, OneTrail
  <2>6. v[m + 1] = Follow(tree, v[m], q[m + 1])
    BY <2>3, <2>4 DEF Trail
  <2>7. QED
    BY <2>1, <2>2, <2>3, <2>5, <2>6 DEF q
<1>7. QED
  BY <1>3, <1>5, <1>6

-----------------------------------------------------------------------------
(* What becomes of paths and files when the tree is changed *)

EmptyIn(tree, i) == \A n \in Name : tree[i].names[n] = 0

\* Where a path leads to another inode now, one of them is none, or was empty.
Loose(t, u) ==
  \A p \in Seq(Name) :
    LET i == LookupIn(t, p)  j == LookupIn(u, p) IN j = i \/ j = 0 \/ i = 0 \/ EmptyIn(t, i)

\* A path that led somewhere still does, but to inode i, and none leads now to what
\* was there before but another path led to.
Firm(t, u, i) ==
  \A p \in Seq(Name) :
    LET a == LookupIn(t, p)  b == LookupIn(u, p) IN
    /\ a # 0 => b = a \/ a = i
    /\ b = a \/ b = 0 \/ t[b].kind = "none"

\* All is as it was, but for the contents of inode i and what is new.
Stays(t, u, i) ==
  \A j \in Ino : t[j].kind # "none" =>
    u[j].kind = t[j].kind /\ (j # i => u[j].data = t[j].data /\ u[j].mtime = t[j].mtime)

\* A file that is new, or has other contents, has the time of the change.
Dated(t, u, time) ==
  \A j \in Ino : u[j].kind = "file" =>
    \/ t[j].kind = "file" /\ u[j].data = t[j].data /\ u[j].mtime = t[j].mtime
    \/ u[j].mtime = time

\* What may become of an entry.
LinksLoose(t, u) ==
  \A i \in Ino, n \in Name :
    LET a == t[i].names[n]  b == u[i].names[n] IN b = a \/ b = 0 \/ a = 0 \/ EmptyIn(t, a)
LinksAdd(t, u, new) ==
  \A i \in Ino, n \in Name : u[i].names[n] = t[i].names[n] \/ (t[i].names[n] = 0 /\ u[i].names[n] = new)
LinksCut(t, u, old) ==
  \A i \in Ino, n \in Name : u[i].names[n] = t[i].names[n] \/ (t[i].names[n] = old /\ u[i].names[n] = 0)

\* What holds of the entries holds of the paths.
LEMMA LooseLinks ==
  ASSUME NEW t, GoodTree(t), NEW u, GoodTree(u), LinksLoose(t, u)
  PROVE  Loose(t, u)
<1> DEFINE S == {p \in Seq(Name) : LET i == LookupIn(t, p)  j == LookupIn(u, p) IN
                                   j = i \/ j = 0 \/ i = 0 \/ EmptyIn(t, i)}
<1>1. <<>> \in S
  BY LookupEntry, SMT
<1>2. ASSUME NEW p \in Seq(Name), NEW n \in Name, p \in S
      PROVE  Append(p, n) \in S
  <2> DEFINE i == LookupIn(t, p)
             j == LookupIn(u, p)
  <2>1. /\ LookupIn(t, Append(p, n)) = Follow(t, i, n) /\ i \in Ino \cup {0}
        /\ LookupIn(u, Append(p, n)) = Follow(u, j, n) /\ j \in Ino \cup {0}
    BY LookupEntry
  <2>2. j = i \/ j = 0 \/ i = 0 \/ EmptyIn(t, i)
    BY <1>2
  <2>3. Append(p, n) \in Seq(Name)
    BY SMT
  <2> HIDE DEF i, j
  <2>4. LET a == Follow(t, i, n)  b == Follow(u, j, n) IN b = a \/ b = 0 \/ a = 0 \/ EmptyIn(t, a)
    <3>1. CASE j = i /\ i # 0
      BY <2>1, <3>1, Zenon DEF Follow, LinksLoose
    <3>2. CASE j = 0 \/ i = 0
      BY <3>2 DEF Follow
    <3>3. CASE EmptyIn(t, i)
      BY <3>3 DEF Follow, EmptyIn
    <3>4. QED
      BY <2>2, <3>1, <3>2, <3>3
  <2>5. QED
    BY <2>1, <2>3, <2>4
<1> HIDE DEF S
<1>3. Seq(Name) \subseteq S
  BY <1>1, <1>2, PathInduction, Zenon
<1>4. QED
  BY <1>3 DEF S, Loose

\* A new inode without entries is bound where there was none.
LEMMA LinkAdded ==
  ASSUME NEW t, GoodTree(t), NEW u, GoodTree(u), NEW new \in Ino, EmptyIn(u, new), LinksAdd(t, u, new)
  PROVE  \A p \in Seq(Name) : LookupIn(u, p) = LookupIn(t, p) \/ (LookupIn(t, p) = 0 /\ LookupIn(u, p) = new)
<1> DEFINE S == {p \in Seq(Name) : LookupIn(u, p) = LookupIn(t, p) \/ (LookupIn(t, p) = 0 /\ LookupIn(u, p) = new)}
<1>1. <<>> \in S
  BY LookupEntry, SMT
<1>2. ASSUME NEW p \in Seq(Name), NEW n \in Name, p \in S
      PROVE  Append(p, n) \in S
  <2> DEFINE i == LookupIn(t, p)
             j == LookupIn(u, p)
  <2>1. /\ LookupIn(t, Append(p, n)) = Follow(t, i, n) /\ i \in Ino \cup {0}
        /\ LookupIn(u, Append(p, n)) = Follow(u, j, n) /\ j \in Ino \cup {0}
    BY LookupEntry
  <2>2. j = i \/ (i = 0 /\ j = new)
    BY <1>2
  <2>3. Append(p, n) \in Seq(Name)
    BY SMT
  <2> HIDE DEF i, j
  <2>4. Follow(u, j, n) = Follow(t, i, n) \/ (Follow(t, i, n) = 0 /\ Follow(u, j, n) = new)
    <3>1. CASE j = i
      BY <2>1, <3>1 DEF Follow, LinksAdd
    <3>2. CASE i = 0 /\ j = new
      BY <3>2 DEF Follow, EmptyIn
    <3>3. QED
      BY <2>2, <3>1, <3>2
  <2>5. QED
    BY <2>1, <2>3, <2>4
<1> HIDE DEF S
<1>3. Seq(Name) \subseteq S
  BY <1>1, <1>2, PathInduction, Zenon
<1>4. QED
  BY <1>3 DEF S

\* An inode without entries is unbound.
LEMMA LinkCut ==
  ASSUME NEW t, GoodTree(t), NEW u, GoodTree(u), NEW old \in Ino, EmptyIn(t, old), LinksCut(t, u, old)
  PROVE  \A p \in Seq(Name) : LookupIn(u, p) = LookupIn(t, p) \/ (LookupIn(t, p) = old /\ LookupIn(u, p) = 0)
<1> DEFINE S == {p \in Seq(Name) : LookupIn(u, p) = LookupIn(t, p) \/ (LookupIn(t, p) = old /\ LookupIn(u, p) = 0)}
<1>1. <<>> \in S
  BY LookupEntry, SMT
<1>2. ASSUME NEW p \in Seq(Name), NEW n \in Name, p \in S
      PROVE  Append(p, n) \in S
  <2> DEFINE i == LookupIn(t, p)
             j == LookupIn(u, p)
  <2>1. /\ LookupIn(t, Append(p, n)) = Follow(t, i, n) /\ i \in Ino \cup {0}
        /\ LookupIn(u, Append(p, n)) = Follow(u, j, n) /\ j \in Ino \cup {0}
    BY LookupEntry
  <2>2. j = i \/ (i = old /\ j = 0)
    BY <1>2
  <2>3. Append(p, n) \in Seq(Name)
    BY SMT
  <2> HIDE DEF i, j
  <2>4. Follow(u, j, n) = Follow(t, i, n) \/ (Follow(t, i, n) = old /\ Follow(u, j, n) = 0)
    <3>1. CASE j = i
      BY <2>1, <3>1 DEF Follow, LinksCut
    <3>2. CASE i = old /\ j = 0
      BY <3>2 DEF Follow, EmptyIn
    <3>3. QED
      BY <2>2, <3>1, <3>2
  <2>5. QED
    BY <2>1, <2>3, <2>4
<1> HIDE DEF S
<1>3. Seq(Name) \subseteq S
  BY <1>1, <1>2, PathInduction, Zenon
<1>4. QED
  BY <1>3 DEF S

-----------------------------------------------------------------------------
(* The four changes of the tree *)

\* There are only so many names in a tree.
LEMMA BindingsFinite ==
  ASSUME FilesAssumption, NEW t
  PROVE  IsFiniteSet(Bindings(t)) /\ Cardinality(Bindings(t)) \in Nat
<1>1. IsFiniteSet(Ino)
  <2>1. {MaxIno, MaxTime, MaxReq} \subseteq Nat
    BY DEF FilesAssumption
  <2>2. 1 \in Int /\ MaxIno \in Int
    BY <2>1, SMT
  <2>3. QED
    BY <2>2, FS_Interval DEF Ino
<1>2. IsFiniteSet(Ino \X Name)
  BY <1>1, FS_Product DEF FilesAssumption
<1>3. Bindings(t) \in SUBSET (Ino \X Name)
  BY DEF Bindings
<1>4. QED
  BY <1>2, <1>3, FS_Subset, FS_CardinalityType

Rewrites(t, u, i, data, time) == u = [t EXCEPT ![i].data = data, ![i].mtime = time]

\* The contents of a file, and its time.
LEMMA TreeWritten ==
  ASSUME FilesAssumption, NEW t, GoodTree(t), NEW i \in Ino, t[i].kind = "file",
         NEW data \in Seq(Nat), NEW time \in Nat, NEW u, Rewrites(t, u, i, data, time)
  PROVE  /\ GoodTree(u) /\ Loose(t, u) /\ Firm(t, u, 0) /\ Stays(t, u, i) /\ Dated(t, u, time)
         /\ u[i].kind = "file" /\ u[i].data = data
         /\ Cardinality(Bindings(u)) = Cardinality(Bindings(t))
<1>1. t \in [Ino -> InoRecord] /\ t[i] \in InoRecord
  BY DEF GoodTree
<1>2. u = [t EXCEPT ![i] = [t[i] EXCEPT !.data = data, !.mtime = time]]
  BY <1>1 DEF Rewrites
<1> DEFINE rec == [t[i] EXCEPT !.data = data, !.mtime = time]
<1>a. rec \in InoRecord /\ rec.kind = "file" /\ rec.data = data /\ rec.mtime = time /\ rec.names = t[i].names
  BY <1>1 DEF InoRecord
<1> HIDE DEF rec
<1>3. u \in [Ino -> InoRecord] /\ u[i] = rec /\ \A j \in Ino \ {i} : u[j] = t[j]
  BY <1>1, <1>2, <1>a DEF rec
<1>4. /\ \A j \in Ino : u[j].names = t[j].names /\ u[j].kind = t[j].kind
      /\ u[i].data = data /\ u[i].mtime = time
  BY <1>3, <1>a
<1>5. GoodTree(u)
  <2>1. u[Root].kind = "dir" /\ Root \in Ino
    BY <1>4 DEF GoodTree
  <2>2. \A j \in Ino : u[j].kind = "none" => u[j] = NoIno
    BY <1>3, <1>4 DEF GoodTree
  <2>3. ASSUME NEW j \in Ino, NEW n \in Name, u[j].names[n] # 0
        PROVE  u[j].kind = "dir" /\ u[u[j].names[n]].kind # "none"
    <3>1. t[j].names[n] # 0 /\ t[j].names[n] \in Ino
      BY <1>1, <1>4, <2>3 DEF InoRecord
    <3>2. QED
      BY <3>1, <1>4 DEF GoodTree
  <2>4. QED
    BY <1>3, <2>1, <2>2, <2>3 DEF GoodTree
<1>6. Loose(t, u)
  <2>1. LinksLoose(t, u)
    BY <1>4 DEF LinksLoose
  <2>2. QED
    BY <1>5, <2>1, LooseLinks
<1>7. Firm(t, u, 0)
  <2>1. \A n \in Name : t[i].names[n] = 0
    <3>1. t[i].kind # "dir"
      OBVIOUS
    <3>2. QED
      BY <3>1 DEF GoodTree
  <2>2. EmptyIn(u, i)
    BY <2>1, <1>4 DEF EmptyIn
  <2>3. EmptyIn(t, i)
    BY <2>1 DEF EmptyIn
  <2>4. \A p \in Seq(Name) : LookupIn(u, p) = LookupIn(t, p) \/ (LookupIn(t, p) = 0 /\ LookupIn(u, p) = i)
    <3>1. LinksAdd(t, u, i)
      BY <1>4 DEF LinksAdd
    <3>2. QED
      BY <3>1, <1>5, <2>2, LinkAdded
  <2>5. \A p \in Seq(Name) : LookupIn(u, p) = LookupIn(t, p) \/ (LookupIn(t, p) = i /\ LookupIn(u, p) = 0)
    <3>1. LinksCut(t, u, i)
      BY <1>4 DEF LinksCut
    <3>2. QED
      BY <3>1, <1>5, <2>3, LinkCut
  <2>6. i # 0
    BY SMT DEF Ino
  <2>7. QED
    BY <2>4, <2>5, <2>6 DEF Firm
<1>8. Stays(t, u, i) /\ Dated(t, u, time)
  BY <1>3, <1>4 DEF Stays, Dated
<1>9. Bindings(u) = Bindings(t)
  BY <1>4 DEF Bindings
<1>10. QED
  BY <1>4, <1>5, <1>6, <1>7, <1>8, <1>9

Adds(t, u, d, n, new, rec) == \E t1 : t1 = [t EXCEPT ![new] = rec] /\ u = [t1 EXCEPT ![d].names[n] = new]

\* A new file or directory.
LEMMA TreeAdded ==
  ASSUME FilesAssumption, NEW t, GoodTree(t), NEW d \in Ino, t[d].kind = "dir", NEW n \in Name,
         t[d].names[n] = 0, NEW new \in Ino, t[new].kind = "none",
         NEW rec \in InoRecord, rec.kind \in {"file", "dir"}, rec.names = NoIno.names, NEW time \in Nat,
         rec.kind = "file" => rec.mtime = time,
         NEW u, Adds(t, u, d, n, new, rec)
  PROVE  /\ GoodTree(u) /\ Loose(t, u) /\ Firm(t, u, 0) /\ Stays(t, u, 0) /\ Dated(t, u, time)
         /\ u[new] = rec
         /\ Cardinality(Bindings(u)) = Cardinality(Bindings(t)) + 1
<1>1. t \in [Ino -> InoRecord] /\ d # new /\ new # 0 /\ t[d] \in InoRecord
  BY SMT DEF GoodTree, Ino
<1>2. t[new] = NoIno /\ \A x \in Name : NoIno.names[x] = 0
  BY DEF GoodTree, NoIno
<1>a. PICK t1 : t1 = [t EXCEPT ![new] = rec] /\ u = [t1 EXCEPT ![d].names[n] = new]
  BY DEF Adds
<1>3. t1 \in [Ino -> InoRecord] /\ t1[new] = rec /\ \A j \in Ino \ {new} : t1[j] = t[j]
  BY <1>1, <1>a
<1>5. /\ u[new] = rec /\ \A j \in Ino \ {new, d} : u[j] = t[j]
      /\ u[d] = [t[d] EXCEPT !.names[n] = new]
  BY <1>1, <1>3, <1>a
<1>6. [t[d] EXCEPT !.names[n] = new] \in InoRecord
  BY <1>1 DEF InoRecord
<1>7. u \in [Ino -> InoRecord]
  <2>1. \A j \in Ino : u[j] \in InoRecord
    BY <1>1, <1>5, <1>6
  <2>2. u = [j \in Ino |-> u[j]]
    BY <1>3, <1>a
  <2>3. QED
    BY <2>1, <2>2
<1>8. /\ u[d].kind = "dir" /\ u[d].data = t[d].data /\ u[d].mtime = t[d].mtime
      /\ u[d].names[n] = new /\ \A x \in Name \ {n} : u[d].names[x] = t[d].names[x]
  BY <1>1, <1>5 DEF InoRecord
<1>9. \A j \in Ino, x \in Name : IF j = d /\ x = n THEN u[j].names[x] = new ELSE u[j].names[x] = t[j].names[x]
  <2>1. \A x \in Name : u[new].names[x] = t[new].names[x]
    BY <1>2, <1>5
  <2>2. \A j \in Ino \ {d}, x \in Name : u[j].names[x] = t[j].names[x]
    BY <2>1, <1>5
  <2>3. QED
    BY <2>2, <1>8
<1>10. \A j \in Ino : j # new => u[j].kind = t[j].kind /\ u[j].data = t[j].data /\ u[j].mtime = t[j].mtime
  BY <1>5, <1>8
<1>11. GoodTree(u)
  <2>1. u[Root].kind = "dir" /\ Root \in Ino
    BY <1>10, <1>1 DEF GoodTree
  <2>2. \A j \in Ino : u[j].kind = "none" => u[j] = NoIno
    BY <1>5, <1>8 DEF GoodTree
  <2>3. ASSUME NEW j \in Ino, NEW x \in Name, u[j].names[x] # 0
        PROVE  u[j].kind = "dir" /\ u[u[j].names[x]].kind # "none"
    <3>1. CASE j = d /\ x = n
      BY <3>1, <1>5, <1>8
    <3>2. CASE ~(j = d /\ x = n)
      <4>1. t[j].names[x] # 0 /\ t[j].names[x] \in Ino /\ u[j].names[x] = t[j].names[x]
        BY <1>1, <1>9, <2>3, <3>2 DEF InoRecord
      <4>2. t[j].kind = "dir" /\ t[t[j].names[x]].kind # "none"
        BY <4>1 DEF GoodTree
      <4>3. j # new /\ t[j].names[x] # new
        BY <4>2
      <4>4. QED
        BY <1>10, <4>1, <4>2, <4>3
    <3>3. QED
      BY <3>1, <3>2
  <2>4. QED
    BY <1>7, <2>1, <2>2, <2>3 DEF GoodTree
<1>12. EmptyIn(u, new)
  BY <1>2, <1>5 DEF EmptyIn
<1>13. Loose(t, u)
  <2>1. LinksLoose(t, u)
    BY <1>9 DEF LinksLoose
  <2>2. QED
    BY <1>11, <2>1, LooseLinks
<1>14. \A p \in Seq(Name) : LookupIn(u, p) = LookupIn(t, p) \/ (LookupIn(t, p) = 0 /\ LookupIn(u, p) = new)
  <2>1. LinksAdd(t, u, new)
    BY <1>9 DEF LinksAdd
  <2>2. QED
    BY <1>11, <1>12, <2>1, LinkAdded
<1>15. Firm(t, u, 0)
  BY <1>14 DEF Firm
<1>16. Stays(t, u, 0)
  BY <1>10 DEF Stays
<1>17. Dated(t, u, time)
  BY <1>5, <1>10 DEF Dated
<1>18. Bindings(u) = Bindings(t) \cup {<<d, n>>} /\ <<d, n>> \notin Bindings(t)
  <2>1. \A b \in Ino \X Name : b = <<d, n>> <=> (b[1] = d /\ b[2] = n)
    OBVIOUS
  <2>2. \A b \in Ino \X Name : u[b[1]].names[b[2]] # 0 <=> b = <<d, n>> \/ t[b[1]].names[b[2]] # 0
    BY <1>1, <1>9, <2>1
  <2>3. <<d, n>> \in Ino \X Name
    OBVIOUS
  <2>4. \A b : b \in Bindings(u) <=> b \in Bindings(t) \/ b = <<d, n>>
    BY <2>2, <2>3 DEF Bindings
  <2>5. <<d, n>> \notin Bindings(t)
    BY <2>1, <2>3 DEF Bindings
  <2>6. QED
    BY <2>4, <2>5
<1>19. Cardinality(Bindings(u)) = Cardinality(Bindings(t)) + 1
  BY <1>18, BindingsFinite, FS_AddElement
<1>20. QED
  BY <1>5, <1>11, <1>13, <1>15, <1>16, <1>17, <1>19

Cuts(t, u, d, n) == u = [t EXCEPT ![d].names[n] = 0]

\* A file, or an empty directory, is removed.
LEMMA TreeCut ==
  ASSUME FilesAssumption, NEW t, GoodTree(t), NEW d \in Ino, NEW n \in Name,
         NEW i \in Ino, t[d].names[n] = i, EmptyIn(t, i), NEW time \in Nat,
         NEW u, Cuts(t, u, d, n)
  PROVE  /\ GoodTree(u) /\ Loose(t, u) /\ Firm(t, u, i) /\ Stays(t, u, 0) /\ Dated(t, u, time)
         /\ Cardinality(Bindings(u)) = Cardinality(Bindings(t)) - 1
<1>1. t \in [Ino -> InoRecord] /\ i # 0 /\ t[d] \in InoRecord
  BY SMT DEF GoodTree, Ino
<1>2. u[d] = [t[d] EXCEPT !.names[n] = 0] /\ \A j \in Ino \ {d} : u[j] = t[j]
  BY <1>1 DEF Cuts
<1>3. [t[d] EXCEPT !.names[n] = 0] \in InoRecord
  BY <1>1 DEF InoRecord
<1>4. u \in [Ino -> InoRecord]
  <2>1. \A j \in Ino : u[j] \in InoRecord
    BY <1>1, <1>2, <1>3
  <2>2. u = [j \in Ino |-> u[j]]
    BY <1>1 DEF Cuts
  <2>3. QED
    BY <2>1, <2>2
<1>5. /\ u[d].kind = t[d].kind /\ u[d].data = t[d].data /\ u[d].mtime = t[d].mtime
      /\ u[d].names[n] = 0 /\ \A x \in Name \ {n} : u[d].names[x] = t[d].names[x]
  BY <1>1, <1>2 DEF InoRecord
<1>6. \A j \in Ino, x \in Name : IF j = d /\ x = n THEN u[j].names[x] = 0 ELSE u[j].names[x] = t[j].names[x]
  BY <1>2, <1>5
<1>7. \A j \in Ino : u[j].kind = t[j].kind /\ u[j].data = t[j].data /\ u[j].mtime = t[j].mtime
  BY <1>2, <1>5
<1>8. t[d].kind = "dir"
  BY <1>1 DEF GoodTree
<1>9. GoodTree(u)
  <2>1. u[Root].kind = "dir" /\ Root \in Ino
    BY <1>7 DEF GoodTree
  <2>2. \A j \in Ino : u[j].kind = "none" => u[j] = NoIno
    BY <1>2, <1>7, <1>8 DEF GoodTree
  <2>3. ASSUME NEW j \in Ino, NEW x \in Name, u[j].names[x] # 0
        PROVE  u[j].kind = "dir" /\ u[u[j].names[x]].kind # "none"
    <3>1. t[j].names[x] # 0 /\ t[j].names[x] \in Ino /\ u[j].names[x] = t[j].names[x]
      BY <1>1, <1>6, <2>3 DEF InoRecord
    <3>2. t[j].kind = "dir" /\ t[t[j].names[x]].kind # "none"
      BY <3>1 DEF GoodTree
    <3>3. QED
      BY <1>7, <3>1, <3>2
  <2>4. QED
    BY <1>4, <2>1, <2>2, <2>3 DEF GoodTree
<1>10. Loose(t, u)
  <2>1. LinksLoose(t, u)
    BY <1>6 DEF LinksLoose
  <2>2. QED
    BY <1>9, <2>1, LooseLinks
<1>11. \A p \in Seq(Name) : LookupIn(u, p) = LookupIn(t, p) \/ (LookupIn(t, p) = i /\ LookupIn(u, p) = 0)
  <2>1. LinksCut(t, u, i)
    BY <1>6 DEF LinksCut
  <2>2. QED
    BY <1>9, <2>1, LinkCut
<1>12. Firm(t, u, i)
  BY <1>11 DEF Firm
<1>13. Stays(t, u, 0) /\ Dated(t, u, time)
  BY <1>7 DEF Stays, Dated
<1>14. Bindings(u) = Bindings(t) \ {<<d, n>>} /\ <<d, n>> \in Bindings(t)
  <2>1. \A b \in Ino \X Name : b = <<d, n>> <=> (b[1] = d /\ b[2] = n)
    OBVIOUS
  <2>2. \A b \in Ino \X Name : u[b[1]].names[b[2]] # 0 <=> b # <<d, n>> /\ t[b[1]].names[b[2]] # 0
    BY <1>6, <2>1
  <2>3. <<d, n>> \in Ino \X Name
    OBVIOUS
  <2>4. QED
    BY <1>1, <2>1, <2>2, <2>3 DEF Bindings
<1>15. Cardinality(Bindings(u)) = Cardinality(Bindings(t)) - 1
  BY <1>14, BindingsFinite, FS_RemoveElement
<1>16. QED
  BY <1>9, <1>10, <1>12, <1>13, <1>15

Moves(t, u, d, n, e, m, o) ==
  /\ \A i \in Ino : u[i].kind = t[i].kind /\ u[i].data = t[i].data /\ u[i].mtime = t[i].mtime
  /\ \A i \in Ino \ {d, e} : u[i] = t[i]
  /\ \A i \in Ino, x \in Name :
       u[i].names[x] = IF i = e /\ x = m THEN o ELSE IF i = d /\ x = n THEN 0 ELSE t[i].names[x]

\* What n leads to in d is what m leads to in e from now on, where there was
\* nothing, or something empty.
LEMMA TreeMoved ==
  ASSUME FilesAssumption, NEW t, GoodTree(t), NEW d \in Ino, NEW n \in Name, NEW e \in Ino, NEW m \in Name,
         t[e].kind = "dir", NEW o \in Ino, t[d].names[n] = o, NEW k \in Ino \cup {0}, t[e].names[m] = k,
         k # o, k # 0 => EmptyIn(t, k), NEW u \in [Ino -> InoRecord], Moves(t, u, d, n, e, m, o)
  PROVE  /\ GoodTree(u) /\ Loose(t, u) /\ Stays(t, u, 0)
         /\ Cardinality(Bindings(u)) = Cardinality(Bindings(t)) - (IF k = 0 THEN 0 ELSE 1)
<1>0. /\ \A i \in Ino : u[i].kind = t[i].kind /\ u[i].data = t[i].data /\ u[i].mtime = t[i].mtime
      /\ \A i \in Ino \ {d, e} : u[i] = t[i]
      /\ \A i \in Ino, x \in Name :
           u[i].names[x] = IF i = e /\ x = m THEN o ELSE IF i = d /\ x = n THEN 0 ELSE t[i].names[x]
  BY DEF Moves
<1>1. t \in [Ino -> InoRecord] /\ o # 0
  BY SMT DEF GoodTree, Ino
<1>2. t[d].kind = "dir" /\ t[o].kind # "none"
  BY <1>1 DEF GoodTree
<1>3. u[e].names[m] = o
  BY <1>0
<1>4. \A i \in Ino, x \in Name : (i = e /\ x = m) \/ u[i].names[x] = 0 \/ u[i].names[x] = t[i].names[x]
  BY <1>0
<1>5. GoodTree(u)
  <2>1. u[Root].kind = "dir" /\ Root \in Ino
    BY <1>0 DEF GoodTree
  <2>2. \A i \in Ino : u[i].kind = "none" => u[i] = NoIno
    BY <1>0, <1>2 DEF GoodTree
  <2>3. ASSUME NEW j \in Ino, NEW x \in Name, u[j].names[x] # 0
        PROVE  u[j].kind = "dir" /\ u[u[j].names[x]].kind # "none"
    <3>1. CASE j = e /\ x = m
      BY <3>1, <1>0, <1>2, <1>3
    <3>2. CASE ~(j = e /\ x = m)
      <4>1. t[j].names[x] # 0 /\ t[j].names[x] \in Ino /\ u[j].names[x] = t[j].names[x]
        BY <1>1, <1>4, <2>3, <3>2 DEF InoRecord
      <4>2. t[j].kind = "dir" /\ t[t[j].names[x]].kind # "none"
        BY <4>1 DEF GoodTree
      <4>3. QED
        BY <1>0, <4>1, <4>2
    <3>3. QED
      BY <3>1, <3>2
  <2>4. QED
    BY <2>1, <2>2, <2>3 DEF GoodTree
<1>6. Loose(t, u)
  <2>1. LinksLoose(t, u)
    BY <1>4 DEF LinksLoose
  <2>2. QED
    BY <1>5, <2>1, LooseLinks
<1>7. Stays(t, u, 0)
  BY <1>0 DEF Stays
<1>8. /\ Bindings(u) = (Bindings(t) \ {<<d, n>>}) \cup {<<e, m>>} /\ <<d, n>> \in Bindings(t)
      /\ <<e, m>> # <<d, n>> /\ (<<e, m>> \in Bindings(t) <=> k # 0)
  <2>1. /\ \A b \in Ino \X Name : b = <<d, n>> <=> (b[1] = d /\ b[2] = n)
        /\ \A b \in Ino \X Name : b = <<e, m>> <=> (b[1] = e /\ b[2] = m)
    OBVIOUS
  <2>2. \A b \in Ino \X Name :
          u[b[1]].names[b[2]] # 0 <=> b = <<e, m>> \/ (b # <<d, n>> /\ t[b[1]].names[b[2]] # 0)
    BY <1>0, <1>1, <2>1
  <2>3. <<d, n>> \in Ino \X Name /\ <<e, m>> \in Ino \X Name /\ <<e, m>> # <<d, n>>
    OBVIOUS
  <2>4. <<d, n>> \in Bindings(t) /\ (<<e, m>> \in Bindings(t) <=> k # 0)
    BY <1>1, <2>1, <2>3 DEF Bindings
  <2>5. \A b : b \in Bindings(u) <=> b = <<e, m>> \/ (b # <<d, n>> /\ b \in Bindings(t))
    BY <2>2, <2>3 DEF Bindings
  <2>6. QED
    BY <2>3, <2>4, <2>5
<1>9. Cardinality(Bindings(u)) = Cardinality(Bindings(t)) - (IF k = 0 THEN 0 ELSE 1)
  <2> DEFINE B == Bindings(t) \ {<<d, n>>}
  <2>1. IsFiniteSet(B) /\ Cardinality(B) = Cardinality(Bindings(t)) - 1
    BY <1>8, BindingsFinite, FS_RemoveElement
  <2>2. <<e, m>> \in B <=> k # 0
    BY <1>8
  <2>3. Bindings(u) = B \cup {<<e, m>>}
    BY <1>8
  <2> HIDE DEF B
  <2>4. Cardinality(Bindings(u)) = IF k # 0 THEN Cardinality(B) ELSE Cardinality(B) + 1
    BY <2>1, <2>2, <2>3, FS_AddElement
  <2>5. Cardinality(Bindings(t)) \in Nat
    BY BindingsFinite
  <2>6. CASE k = 0
    BY <2>1, <2>4, <2>5, <2>6
  <2>7. CASE k # 0
    BY <2>1, <2>4, <2>5, <2>7
  <2>8. QED
    BY <2>6, <2>7
<1>10. QED
  BY <1>5, <1>6, <1>7, <1>9

-----------------------------------------------------------------------------
(* What a child knows *)

Stations == {"free", "get", "open", "head", "send", "answered", "put", "save", "mkcol", "mkdir", "move",
           "delete", "remove", "propfind", "opendir", "readdir", "entry", "stat"}

StationsOf(op) ==
  CASE op = "get" -> {"get", "open", "head", "send", "answered"}
    [] op = "put" -> {"put", "save", "answered"}
    [] op = "mkcol" -> {"mkcol", "mkdir", "answered"}
    [] op = "move" -> {"move", "answered"}
    [] op = "delete" -> {"delete", "remove", "answered"}
    [] op = "propfind" -> {"propfind", "opendir", "readdir", "entry", "answered"}
    [] op = "stat" -> {"stat", "answered"}
    [] OTHER -> {"free"}

ChildRecord ==
  [pc : Stations, req : Request \cup {Free.req}, path : Seq(Name),
   stat : [ino : Ino \cup {0}, kind : {"none", "file", "dir"}, size : Nat, mtime : Nat],
   fd : Ino \cup {0}, off : Nat, want : Nat, got : Seq(Nat), list : SUBSET Name, next : Nat \ {0},
   at : Nat, code : Nat, disturbed : BOOLEAN, moved : BOOLEAN, kept : SUBSET Name, net : {-1, 0, 1}]

\* A request goes through the places of its method, and names are added and
\* removed where the method does.
Progress(r) ==
  /\ r.pc \in StationsOf(r.req.op)
  /\ r.pc # "free" => r.req \in Request
  /\ r.pc \notin {"send", "answered"} => r.code = 0 /\ r.got = <<>>
  /\ r.pc = "put" => r.off = 0
  /\ r.pc \in {"head", "send"} => r.fd # 0
  /\ r.pc \in {"propfind", "opendir"} => r.next = 1
  /\ r.req.op = "get" => r.path = r.req.path \/ (Index # 0 /\ r.path = Append(r.req.path, Index))
  /\ r.req.op \notin {"none", "get"} => r.path = r.req.path
  /\ r.net = 1 => r.req.op = "put" /\ r.pc # "put"
  /\ r.net = -1 => r.req.op = "move" /\ r.pc = "answered"

\* What it has seen or opened exists.
There(r, tree) == \A i \in {r.fd, r.stat.ino} : i # 0 => tree[i].kind # "none"

Sending(r) == r.pc = "send" \/ (r.req.op = "get" /\ r.pc = "answered" /\ r.code \in {200, 206})

Looked(r) == r.pc \in {"open", "head"} \/ Sending(r)

\* A GET has seen the file as it still is, and opened that one.
Seen(r, tree) ==
  ~r.disturbed /\ Looked(r) =>
    /\ r.stat.ino # 0 /\ r.stat.kind = "file" /\ tree[r.stat.ino].kind = "file"
    /\ r.stat.size = Len(tree[r.stat.ino].data) /\ r.stat.mtime = tree[r.stat.ino].mtime
    /\ r.pc # "open" => r.fd = r.stat.ino

\* What it has sent is a piece of the file.
Piece(r, data) ==
  LET p == Portion(r) IN
  /\ r.code = p.code /\ r.want = p.size /\ r.off = p.from + Len(r.got) /\ Len(r.got) <= r.want
  /\ \A i \in 1 .. Len(r.got) : p.from + i <= Len(data) /\ r.got[i] = data[p.from + i]
  /\ r.pc = "answered" => Len(r.got) = r.want \/ r.off >= Len(data)

SentSo(r, tree) == ~r.disturbed /\ Sending(r) => Piece(r, tree[r.fd].data)

\* It is still where the path leads.
Finds(r, tree) ==
  ~r.disturbed /\ ~r.moved /\ Looked(r) => LookupIn(tree, r.path) = r.stat.ino

Saving(r) == r.pc = "save" \/ (r.req.op = "put" /\ r.pc = "answered" /\ r.code = 201)

\* What a PUT has saved is what the file has.
Stores(r, tree) ==
  Saving(r) =>
    /\ r.fd # 0 /\ tree[r.fd].kind = "file" /\ r.want = r.req.size /\ r.off <= r.want
    /\ r.pc = "answered" => r.off = r.want
    /\ ~r.disturbed => tree[r.fd].data = [i \in 1 .. r.off |-> r.req.body]

\* The names that were there all the time, up to the next one, are in the list.
Lists(r, tree) ==
  /\ r.kept \subseteq Entries(tree, r.path)
  /\ r.kept # {} => r.req.op = "propfind" /\ r.pc \in {"readdir", "entry", "answered"}
  /\ r.pc \in {"readdir", "entry"} =>
       /\ r.fd # 0 /\ (r.kept # {} => LookupIn(tree, r.path) = r.fd)
       /\ \A n \in r.kept : n < r.next => n \in r.list
  /\ r.pc = "entry" => r.next \in Name
  /\ r.req.op = "propfind" /\ r.pc = "answered" /\ r.code = 207 => r.kept \subseteq r.list

ChildOK(r, tree) ==
  /\ r \in ChildRecord /\ Progress(r) /\ There(r, tree) /\ Seen(r, tree) /\ SentSo(r, tree)
  /\ Finds(r, tree) /\ Stores(r, tree) /\ Lists(r, tree)

\* What the steps of others make of what it knows.
Aside(r, r2, u, i, move) ==
  r2 = [r EXCEPT !.disturbed = @ \/ (i # 0 /\ i \in {r.fd, r.stat.ino}), !.moved = @ \/ move,
                 !.kept = @ \cap Entries(u, r.path)]

\* What the step of another leaves alone.
LEMMA AsideFields ==
  ASSUME NEW r \in ChildRecord, NEW r2, NEW u, NEW i, NEW move \in BOOLEAN, Aside(r, r2, u, i, move)
  PROVE  /\ r2 \in ChildRecord
         /\ r2.pc = r.pc /\ r2.req = r.req /\ r2.path = r.path /\ r2.stat = r.stat /\ r2.fd = r.fd
         /\ r2.off = r.off /\ r2.want = r.want /\ r2.got = r.got /\ r2.list = r.list /\ r2.next = r.next
         /\ r2.at = r.at /\ r2.code = r.code /\ r2.net = r.net
         /\ r2.disturbed = (r.disturbed \/ (i # 0 /\ i \in {r.fd, r.stat.ino}))
         /\ r2.moved = (r.moved \/ move) /\ r2.kept = r.kept \cap Entries(u, r.path)
<1>1. (r.disturbed \/ (i # 0 /\ i \in {r.fd, r.stat.ino})) \in BOOLEAN /\ (r.moved \/ move) \in BOOLEAN
  BY DEF ChildRecord
<1>2. r.kept \cap Entries(u, r.path) \in SUBSET Name
  BY DEF ChildRecord
<1>3. QED
  BY <1>1, <1>2 DEF Aside, ChildRecord

\* While others change the tree, a child still knows what it knew.
LEMMA AsideOK ==
  ASSUME FilesAssumption, NEW t, GoodTree(t), NEW u, GoodTree(u), NEW i \in Ino \cup {0}, NEW move \in BOOLEAN,
         Loose(t, u), Stays(t, u, i), move \/ Firm(t, u, i),
         NEW r, ChildOK(r, t), NEW r2, Aside(r, r2, u, i, move)
  PROVE  ChildOK(r2, u)
<1>0. /\ r \in ChildRecord /\ r2 \in ChildRecord
      /\ r2.pc = r.pc /\ r2.req = r.req /\ r2.path = r.path /\ r2.stat = r.stat /\ r2.fd = r.fd
      /\ r2.off = r.off /\ r2.want = r.want /\ r2.got = r.got /\ r2.list = r.list /\ r2.next = r.next
      /\ r2.at = r.at /\ r2.code = r.code /\ r2.net = r.net
      /\ r2.disturbed = (r.disturbed \/ (i # 0 /\ i \in {r.fd, r.stat.ino}))
      /\ r2.moved = (r.moved \/ move) /\ r2.kept = r.kept \cap Entries(u, r.path)
  BY AsideFields DEF ChildOK
<1>1. Progress(r2)
  BY <1>0 DEF ChildOK, Progress
<1>2. r.fd \in Ino \cup {0} /\ r.stat.ino \in Ino \cup {0} /\ r.path \in Seq(Name)
  BY <1>0 DEF ChildRecord
<1>3. \A j \in {r.fd, r.stat.ino} : j # 0 => t[j].kind # "none" /\ u[j].kind = t[j].kind
  BY <1>2 DEF ChildOK, There, Stays
<1>4. There(r2, u)
  BY <1>0, <1>3 DEF There
<1>5. ASSUME ~r2.disturbed
      PROVE  /\ ~r.disturbed
             /\ \A j \in {r.fd, r.stat.ino} : j # 0 => j # i /\ u[j].data = t[j].data /\ u[j].mtime = t[j].mtime
  <2>1. ~r.disturbed /\ ~(i # 0 /\ i \in {r.fd, r.stat.ino})
    BY <1>0, <1>5
  <2>2. ASSUME NEW j \in {r.fd, r.stat.ino}, j # 0
        PROVE  j # i /\ u[j].data = t[j].data /\ u[j].mtime = t[j].mtime
    <3>1. j # i /\ j \in Ino
      BY <1>2, <2>1, <2>2
    <3>2. t[j].kind # "none"
      BY <1>3, <2>2
    <3>3. QED
      BY <3>1, <3>2 DEF Stays
  <2>3. QED
    BY <2>1, <2>2
<1>6. Looked(r2) = Looked(r) /\ Sending(r2) = Sending(r) /\ Saving(r2) = Saving(r) /\ Portion(r2) = Portion(r)
  BY <1>0 DEF Looked, Sending, Saving, Portion
<1>7. Seen(r2, u)
  <2>1. SUFFICES ASSUME ~r2.disturbed, Looked(r2)
                 PROVE  /\ r2.stat.ino # 0 /\ r2.stat.kind = "file" /\ u[r2.stat.ino].kind = "file"
                        /\ r2.stat.size = Len(u[r2.stat.ino].data) /\ r2.stat.mtime = u[r2.stat.ino].mtime
                        /\ r2.pc # "open" => r2.fd = r2.stat.ino
    BY DEF Seen
  <2>2. /\ r.stat.ino # 0 /\ r.stat.kind = "file" /\ t[r.stat.ino].kind = "file"
        /\ r.stat.size = Len(t[r.stat.ino].data) /\ r.stat.mtime = t[r.stat.ino].mtime
        /\ r.pc # "open" => r.fd = r.stat.ino
    BY <1>5, <1>6, <2>1 DEF ChildOK, Seen
  <2>3. u[r.stat.ino].kind = t[r.stat.ino].kind /\ u[r.stat.ino].data = t[r.stat.ino].data
        /\ u[r.stat.ino].mtime = t[r.stat.ino].mtime
    BY <1>3, <1>5, <2>1, <2>2
  <2>4. QED
    BY <1>0, <2>2, <2>3
<1>8. SentSo(r2, u)
  <2>1. SUFFICES ASSUME ~r2.disturbed, Sending(r2)
                 PROVE  Piece(r2, u[r2.fd].data)
    BY DEF SentSo
  <2>2. Piece(r, t[r.fd].data)
    BY <1>5, <1>6, <2>1 DEF ChildOK, SentSo
  <2>3. r.fd = r.stat.ino /\ r.stat.ino # 0
    BY <1>0, <1>5, <1>6, <2>1 DEF ChildOK, Seen, Looked, Sending
  <2>4. u[r2.fd].data = t[r.fd].data
    BY <1>0, <1>5, <2>1, <2>3
  <2>5. QED
    BY <1>0, <1>6, <2>2, <2>4 DEF Piece
<1>9. Finds(r2, u)
  <2>1. SUFFICES ASSUME ~r2.disturbed, ~r2.moved, Looked(r2)
                 PROVE  LookupIn(u, r2.path) = r2.stat.ino
    BY DEF Finds
  <2>2. LookupIn(t, r.path) = r.stat.ino /\ r.stat.ino # 0
    BY <1>0, <1>5, <1>6, <2>1 DEF ChildOK, Finds, Seen
  <2>3. r.stat.ino # i /\ Firm(t, u, i)
    BY <1>0, <1>5, <2>1, <2>2
  <2>4. QED
    BY <1>0, <1>2, <2>2, <2>3 DEF Firm
<1>10. Stores(r2, u)
  <2>1. SUFFICES ASSUME Saving(r2)
                 PROVE  /\ r2.fd # 0 /\ u[r2.fd].kind = "file" /\ r2.want = r2.req.size /\ r2.off <= r2.want
                        /\ r2.pc = "answered" => r2.off = r2.want
                        /\ ~r2.disturbed => u[r2.fd].data = [k \in 1 .. r2.off |-> r2.req.body]
    BY DEF Stores
  <2>2. /\ r.fd # 0 /\ t[r.fd].kind = "file" /\ r.want = r.req.size /\ r.off <= r.want
        /\ r.pc = "answered" => r.off = r.want
        /\ ~r.disturbed => t[r.fd].data = [k \in 1 .. r.off |-> r.req.body]
    BY <1>6, <2>1 DEF ChildOK, Stores
  <2>3. ~r2.disturbed => ~r.disturbed /\ u[r.fd].data = t[r.fd].data
    BY <1>5, <2>2
  <2>4. QED
    BY <1>0, <1>3, <2>2, <2>3
<1>11. Lists(r2, u)
  <2>1. r2.kept \subseteq Entries(u, r2.path) /\ r2.kept \subseteq r.kept
    BY <1>0
  <2>2. ASSUME r.pc \in {"readdir", "entry"}, r2.kept # {}
        PROVE  LookupIn(u, r.path) = r.fd
    <3>1. LookupIn(t, r.path) = r.fd /\ r.kept \subseteq Entries(t, r.path) /\ r.fd # 0
      BY <2>1, <2>2 DEF ChildOK, Lists
    <3>2. PICK n \in r2.kept : TRUE
      BY <2>2
    <3>3. n \in Entries(u, r.path) /\ n \in Entries(t, r.path)
      BY <1>0, <2>1, <3>1
    <3>4. LookupIn(u, r.path) # 0 /\ ~EmptyIn(t, LookupIn(t, r.path))
      BY <3>3 DEF Entries, EmptyIn
    <3>5. QED
      BY <1>2, <3>1, <3>4 DEF Loose
  <2>3. QED
    BY <1>0, <2>1, <2>2 DEF ChildOK, Lists
<1>12. QED
  BY <1>0, <1>1, <1>4, <1>7, <1>8, <1>9, <1>10, <1>11 DEF ChildOK

-----------------------------------------------------------------------------
(* What a step of a child needs *)

\* What a path leads to exists.
LEMMA LookupThere ==
  ASSUME NEW t, GoodTree(t), NEW p \in Seq(Name)
  PROVE  LookupIn(t, p) \in Ino \cup {0} /\ (LookupIn(t, p) # 0 => t[LookupIn(t, p)].kind # "none")
<1>1. LookupIn(t, p) \in Ino \cup {0}
  BY LookupEntry
<1>2. CASE p = <<>>
  <2>1. LookupIn(t, p) = Root
    BY <1>2, LookupEntry
  <2>2. QED
    BY <1>1, <2>1 DEF GoodTree
<1>3. CASE p # <<>>
  <2>1. Front(p) \in Seq(Name) /\ Last(p) \in Name /\ p = Append(Front(p), Last(p))
    BY <1>3, PathParts
  <2>2. /\ LookupIn(t, p) = Follow(t, LookupIn(t, Front(p)), Last(p))
        /\ LookupIn(t, Front(p)) \in Ino \cup {0}
    BY <2>1, LookupEntry
  <2>3. QED
    BY <1>1, <2>1, <2>2 DEF Follow, GoodTree
<1>4. QED
  BY <1>2, <1>3

StatRecord == [ino : Ino \cup {0}, kind : {"none", "file", "dir"}, size : Nat, mtime : Nat]

\* What stat tells of a path.
LEMMA StatThere ==
  ASSUME GoodTree(ino), NEW p \in Seq(Name)
  PROVE  /\ Stat(p) \in StatRecord /\ Stat(p).ino = Lookup(p) /\ Lookup(p) \in Ino \cup {0}
         /\ Stat(p).kind = "none" <=> Lookup(p) = 0
         /\ Lookup(p) # 0 => /\ Stat(p).kind = ino[Lookup(p)].kind /\ Stat(p).mtime = ino[Lookup(p)].mtime
                             /\ Stat(p).size = Len(ino[Lookup(p)].data)
<1>1. Lookup(p) \in Ino \cup {0} /\ (Lookup(p) # 0 => ino[Lookup(p)].kind # "none")
  BY LookupThere DEF Lookup
<1>2. CASE Lookup(p) = 0
  BY <1>1, <1>2 DEF Stat, NoStat, StatRecord
<1>3. CASE Lookup(p) # 0
  <2>1. ino[Lookup(p)] \in InoRecord
    BY <1>1, <1>3 DEF GoodTree
  <2>2. Len(ino[Lookup(p)].data) \in Nat
    BY <2>1 DEF InoRecord
  <2>3. QED
    BY <1>1, <1>3, <2>1, <2>2 DEF Stat, StatRecord, InoRecord
<1>4. QED
  BY <1>2, <1>3

\* Which request a child serves, from where it is.
LEMMA OpOf ==
  ASSUME FilesAssumption, NEW r \in ChildRecord, Progress(r)
  PROVE  /\ r.pc = "free" <=> r.req.op = "none"
         /\ r.pc # "free" => r.req \in Request
         /\ r.pc \in {"get", "open", "head", "send"} => r.req.op = "get"
         /\ r.pc \in {"put", "save"} => r.req.op = "put"
         /\ r.pc \in {"mkcol", "mkdir"} => r.req.op = "mkcol"
         /\ r.pc = "move" => r.req.op = "move"
         /\ r.pc \in {"delete", "remove"} => r.req.op = "delete"
         /\ r.pc \in {"propfind", "opendir", "readdir", "entry"} => r.req.op = "propfind"
         /\ r.pc = "stat" => r.req.op = "stat"
<1>1. r.pc \in StationsOf(r.req.op) /\ (r.pc # "free" => r.req \in Request)
  BY DEF Progress
<1>2. \A q \in Request : q.op \in {"get", "stat", "put", "mkcol", "move", "delete", "propfind"}
  BY DEF FilesAssumption
<1>3. r.req \in Request \cup {Free.req}
  BY DEF ChildRecord
<1>4. Free.req.op = "none"
  BY DEF Free
<1>5. CASE r.req \in Request
  BY <1>1, <1>2, <1>5 DEF StationsOf
<1>6. CASE r.req = Free.req
  BY <1>1, <1>4, <1>6 DEF StationsOf
<1>7. QED
  BY <1>3, <1>5, <1>6

\* What it makes known before an answer, on a path.
NetOf(r) == IF r.pc = "answered" THEN Told(r) ELSE r.net

\* A child that claims nothing.
LEMMA QuietOK ==
  ASSUME NEW t, NEW r \in ChildRecord, Progress(r), There(r, t), ~Looked(r), ~Saving(r), r.kept = {},
         r.pc \notin {"readdir", "entry"}
  PROVE  ChildOK(r, t)
BY DEF ChildOK, Seen, SentSo, Finds, Stores, Lists, Looked

\* An answer that claims nothing.
LEMMA AnswerOK ==
  ASSUME FilesAssumption, NEW t, NEW r \in ChildRecord, Progress(r), There(r, t), r.kept = {}, r.pc # "free",
         NEW code \in Nat, r.req.op = "get" => code \notin {200, 206}, r.req.op = "put" => code # 201
  PROVE  /\ ChildOK(Answer(r, code), t)
         /\ Answer(r, code).req = r.req /\ Answer(r, code).at = r.at /\ Answer(r, code).moved = r.moved
         /\ (r.req.op = "mkcol" => code # 201) /\ (r.req.op = "delete" => code # 204) =>
              NetOf(Answer(r, code)) = r.net
<1> DEFINE a == Answer(r, code)
<1>1. /\ a \in ChildRecord /\ a.pc = "answered" /\ a.code = code /\ a.req = r.req /\ a.path = r.path
      /\ a.stat = r.stat /\ a.fd = r.fd /\ a.net = r.net /\ a.kept = r.kept /\ a.at = r.at /\ a.moved = r.moved
  BY DEF Answer, ChildRecord, Stations
<1> HIDE DEF a
<1>2. r.req \in Request /\ r.req.op # "none"
  BY OpOf
<1>3. r.req.op \in {"get", "stat", "put", "mkcol", "move", "delete", "propfind"}
  BY <1>2 DEF FilesAssumption
<1>4. "answered" \in StationsOf(r.req.op)
  BY <1>3 DEF StationsOf
<1>5. Progress(a)
  BY <1>1, <1>2, <1>4 DEF Progress
<1>6. There(a, t)
  BY <1>1 DEF There
<1>7. ~Looked(a) /\ ~Saving(a)
  BY <1>1 DEF Looked, Sending, Saving
<1>8. ChildOK(a, t)
  BY <1>1, <1>5, <1>6, <1>7, QuietOK
<1>9. (r.req.op = "mkcol" => code # 201) /\ (r.req.op = "delete" => code # 204) => NetOf(a) = r.net
  BY <1>1 DEF NetOf, Told, ChildRecord
<1>10. QED
  BY <1>1, <1>8, <1>9 DEF a

-----------------------------------------------------------------------------
(* What a step leaves as it should be *)

CopyRecord ==
  [path : Seq(Name) \cup {<<0>>}, data : Seq(Nat), size : Nat, mtime : Nat, at : Nat, moved : BOOLEAN]

\* The tree is one, and each child knows what it thinks it does.
Known ==
  /\ GoodTree(ino) /\ clock \in Nat /\ copy \in CopyRecord /\ used \in [req : Nat, net : Int]
  /\ child \in [Child -> ChildRecord] /\ \A c \in Child : ChildOK(child[c], ino)

Gone(t, u) == \E i \in Ino \cup {0} : Firm(t, u, i)

\* What is known of a child, and its types.
LEMMA ChildFields ==
  ASSUME Known, NEW c \in Child
  PROVE  /\ child[c] \in ChildRecord /\ ChildOK(child[c], ino) /\ Progress(child[c]) /\ There(child[c], ino)
         /\ child[c].path \in Seq(Name) /\ child[c].fd \in Ino \cup {0} /\ child[c].stat \in StatRecord
         /\ child[c].off \in Nat /\ child[c].want \in Nat /\ child[c].got \in Seq(Nat)
         /\ child[c].net \in {-1, 0, 1} /\ child[c].next \in Nat \ {0}
         /\ (child[c].req.op # "propfind" \/ child[c].pc \in {"propfind", "opendir"}) => child[c].kept = {}
         /\ child[c].pc # "answered" => NetOf(child[c]) = child[c].net
<1>1. ChildOK(child[c], ino) /\ child[c] \in ChildRecord
  BY DEF Known
<1>2. (child[c].req.op # "propfind" \/ child[c].pc \in {"propfind", "opendir"}) => child[c].kept = {}
  BY <1>1 DEF ChildOK, Lists
<1>3. QED
  BY <1>1, <1>2 DEF ChildOK, ChildRecord, StatRecord, NetOf

\* A step of a request, after which each child still does, and the request has
\* told of what it made.
Settled(c) ==
  /\ GoodTree(ino') /\ child' \in [Child -> ChildRecord] /\ \A x \in Child : ChildOK(child'[x], ino')
  /\ \A x \in Child : child'[x].req = child[x].req
  /\ \A x \in Child \ {c} :
       child'[x].at = child[x].at /\ child'[x].code = child[x].code /\ NetOf(child'[x]) = NetOf(child[x])
  /\ child'[c].at \in {child[c].at, clock} /\ clock' = clock /\ used' = used
  /\ Cardinality(Bindings(ino')) - Cardinality(Bindings(ino)) = NetOf(child'[c]) - NetOf(child[c])
  /\ \/ copy' = [copy EXCEPT !.moved = TRUE]
     \/ /\ copy' = copy /\ Gone(ino, ino') /\ Dated(ino, ino', clock)
        /\ \A x \in Child : child'[x].moved = child[x].moved

\* A tree that is left alone.
LEMMA SameTree ==
  ASSUME NEW t, NEW time
  PROVE  Loose(t, t) /\ Stays(t, t, 0) /\ Firm(t, t, 0) /\ Gone(t, t) /\ Dated(t, t, time)
<1>1. Loose(t, t) /\ Stays(t, t, 0) /\ Firm(t, t, 0) /\ Dated(t, t, time)
  BY DEF Loose, Stays, Firm, Dated
<1>2. QED
  BY <1>1 DEF Gone

\* A step that changes no file,
LEMMA NowSettled ==
  ASSUME FilesAssumption, Known, NEW c \in Child, NEW r, Now(c, r), ChildOK(r, ino),
         r.req = child[c].req, r.at \in {child[c].at, clock}, r.moved = child[c].moved,
         NetOf(r) = NetOf(child[c])
  PROVE  Settled(c)
<1>1. child' = [child EXCEPT ![c] = r] /\ ino' = ino /\ clock' = clock /\ copy' = copy /\ used' = used
  BY DEF Now
<1>2. r \in ChildRecord /\ child \in [Child -> ChildRecord]
  BY DEF ChildOK, Known
<1>3. child' \in [Child -> ChildRecord] /\ child'[c] = r /\ \A x \in Child \ {c} : child'[x] = child[x]
  BY <1>1, <1>2
<1>4. \A x \in Child : ChildOK(child'[x], ino')
  BY <1>1, <1>3 DEF Known
<1>5. Gone(ino, ino') /\ Dated(ino, ino', clock)
  BY <1>1, SameTree
<1>6. Cardinality(Bindings(ino)) \in Nat /\ NetOf(r) \in Int
  <2>1. r.net \in Int
    BY <1>2, SMT DEF ChildRecord
  <2>2. QED
    BY <2>1, BindingsFinite, SMT DEF NetOf, Told
<1>7. Cardinality(Bindings(ino')) - Cardinality(Bindings(ino)) = NetOf(child'[c]) - NetOf(child[c])
  BY <1>1, <1>3, <1>6
<1>8. QED
  BY <1>1, <1>3, <1>4, <1>5, <1>7 DEF Settled, Known

\* ...one that changes some,
LEMMA ChangeSettled ==
  ASSUME FilesAssumption, Known, NEW c \in Child, NEW i \in Ino \cup {0}, NEW r, Change(c, i, r),
         GoodTree(ino'), Loose(ino, ino'), Stays(ino, ino', i), ChildOK(r, ino'),
         r.req = child[c].req, r.at = child[c].at, r.moved = child[c].moved, clock' = clock, used' = used,
         Cardinality(Bindings(ino')) - Cardinality(Bindings(ino)) = NetOf(r) - NetOf(child[c]),
         \/ r.req.op = "move" /\ copy' = [copy EXCEPT !.moved = TRUE]
         \/ r.req.op # "move" /\ copy' = copy /\ Firm(ino, ino', i) /\ Dated(ino, ino', clock)
  PROVE  Settled(c)
<1> DEFINE move == r.req.op = "move"
<1>1. \A x \in Child \ {c} : Aside(child[x], child'[x], ino', i, move)
  BY DEF Change, Aside
<1>2. child'[c] = r /\ child' = [x \in Child |-> child'[x]]
  BY DEF Change
<1>3. move \in BOOLEAN /\ (move \/ Firm(ino, ino', i))
  OBVIOUS
<1> HIDE DEF move
<1>4. \A x \in Child : child[x] \in ChildRecord /\ ChildOK(child[x], ino)
  BY DEF Known
<1>5. \A x \in Child \ {c} :
        /\ child'[x].req = child[x].req /\ child'[x].at = child[x].at /\ child'[x].pc = child[x].pc
        /\ child'[x].code = child[x].code /\ child'[x].net = child[x].net
        /\ child'[x].moved = (child[x].moved \/ move) /\ child[x].moved \in BOOLEAN
  <2>1. SUFFICES ASSUME NEW x \in Child \ {c}
                 PROVE  /\ child'[x].req = child[x].req /\ child'[x].at = child[x].at /\ child'[x].pc = child[x].pc
                        /\ child'[x].code = child[x].code /\ child'[x].net = child[x].net
                        /\ child'[x].moved = (child[x].moved \/ move) /\ child[x].moved \in BOOLEAN
    OBVIOUS
  <2>2. Aside(child[x], child'[x], ino', i, move) /\ child[x] \in ChildRecord
    BY <1>1, <1>4
  <2>3. child[x].moved \in BOOLEAN
    BY <2>2 DEF ChildRecord
  <2>4. /\ child'[x].req = child[x].req /\ child'[x].at = child[x].at /\ child'[x].pc = child[x].pc
        /\ child'[x].code = child[x].code /\ child'[x].net = child[x].net
    BY <2>2 DEF Aside, ChildRecord
  <2>5. child'[x].moved = (child[x].moved \/ move)
    BY <2>2, Zenon DEF Aside, ChildRecord
  <2>6. QED
    BY <2>3, <2>4, <2>5, Zenon
<1>6. \A x \in Child : ChildOK(child'[x], ino')
  <2>1. \A x \in Child \ {c} : ChildOK(child'[x], ino')
    BY <1>1, <1>3, <1>4, AsideOK DEF Known
  <2>2. QED
    BY <1>2, <2>1
<1>7. child' \in [Child -> ChildRecord]
  <2>1. \A x \in Child : child'[x] \in ChildRecord
    BY <1>6 DEF ChildOK
  <2>2. QED
    BY <1>2, <2>1
<1>8. \A x \in Child \ {c} : NetOf(child'[x]) = NetOf(child[x])
  BY <1>5 DEF NetOf, Told
<1>9. \/ copy' = [copy EXCEPT !.moved = TRUE]
      \/ /\ copy' = copy /\ Gone(ino, ino') /\ Dated(ino, ino', clock)
         /\ \A x \in Child : child'[x].moved = child[x].moved
  <2>1. CASE ~move
    <3>1. \A x \in Child : child'[x].moved = child[x].moved
      BY <1>2, <1>5, <2>1
    <3>2. QED
      BY <2>1, <3>1 DEF Gone, move
  <2>2. CASE move
    BY <2>2 DEF move
  <2>3. QED
    BY <2>1, <2>2
<1>10. QED
  BY <1>2, <1>5, <1>6, <1>7, <1>8, <1>9 DEF Settled

\* A step that changes no file after all.
LEMMA StillSettled ==
  ASSUME FilesAssumption, Known, NEW c \in Child, NEW r, Change(c, 0, r), ino' = ino, ChildOK(r, ino),
         r.req = child[c].req, r.at = child[c].at, r.moved = child[c].moved, clock' = clock, used' = used,
         copy' = copy, NetOf(r) = NetOf(child[c]), r.req.op # "move"
  PROVE  Settled(c)
<1>1. Loose(ino, ino') /\ Stays(ino, ino', 0) /\ Firm(ino, ino', 0) /\ Dated(ino, ino', clock)
  BY SameTree
<1>2. GoodTree(ino') /\ ChildOK(r, ino') /\ 0 \in Ino \cup {0}
  BY DEF Known
<1>3. r.net \in {-1, 0, 1} /\ child[c].net \in {-1, 0, 1}
  BY ChildFields DEF ChildOK, ChildRecord
<1>4. NetOf(r) \in Int /\ Cardinality(Bindings(ino)) \in Nat
  BY <1>3, BindingsFinite, SMT DEF NetOf, Told
<1>5. Cardinality(Bindings(ino')) - Cardinality(Bindings(ino)) = NetOf(r) - NetOf(child[c])
  BY <1>4
<1>6. QED
  BY <1>1, <1>2, <1>5, ChangeSettled

-----------------------------------------------------------------------------
(* The steps of GET and HEAD *)

\* It takes a look at the file.
LEMMA StatTaken ==
  ASSUME Known, NEW c \in Child, NEW r, r = [child[c] EXCEPT !.stat = Stat(child[c].path)]
  PROVE  /\ r \in ChildRecord /\ Progress(r) /\ There(r, ino)
         /\ r.pc = child[c].pc /\ r.req = child[c].req /\ r.path = child[c].path /\ r.fd = child[c].fd
         /\ r.kept = child[c].kept /\ r.net = child[c].net /\ r.at = child[c].at /\ r.moved = child[c].moved
         /\ r.code = child[c].code /\ r.got = child[c].got /\ r.next = child[c].next /\ r.off = child[c].off
         /\ r.stat = Stat(child[c].path)
<1>1. /\ child[c] \in ChildRecord /\ Progress(child[c]) /\ There(child[c], ino) /\ child[c].path \in Seq(Name)
  BY ChildFields
<1>2. /\ Stat(child[c].path) \in StatRecord /\ Stat(child[c].path).ino = Lookup(child[c].path)
      /\ Lookup(child[c].path) # 0 => ino[Lookup(child[c].path)].kind # "none"
  BY <1>1, StatThere, LookupThere DEF Known, Lookup
<1>3. /\ r \in ChildRecord
      /\ r.pc = child[c].pc /\ r.req = child[c].req /\ r.path = child[c].path /\ r.fd = child[c].fd
      /\ r.kept = child[c].kept /\ r.net = child[c].net /\ r.at = child[c].at /\ r.moved = child[c].moved
      /\ r.code = child[c].code /\ r.got = child[c].got /\ r.next = child[c].next /\ r.off = child[c].off
      /\ r.stat = Stat(child[c].path)
  BY <1>1, <1>2 DEF ChildRecord, StatRecord
<1>4. Progress(r)
  BY <1>1, <1>3 DEF Progress
<1>5. There(r, ino)
  BY <1>1, <1>2, <1>3 DEF There
<1>6. QED
  BY <1>3, <1>4, <1>5

\* A GET has seen a file that exists, or says that there is none.
LEMMA GetStatSettled ==
  ASSUME FilesAssumption, Known, NEW c \in Child, GetStat(c)
  PROVE  Settled(c)
<1> DEFINE s == child[c]
           r == [s EXCEPT !.stat = Stat(s.path)]
<1>1. /\ s \in ChildRecord /\ s.pc = "get" /\ s.path \in Seq(Name) /\ NetOf(s) = s.net
      /\ Progress(s) /\ GoodTree(ino)
  BY ChildFields DEF GetStat, At, Known
<1>2. s.req.op = "get" /\ s.req \in Request /\ s.kept = {}
  BY <1>1, OpOf, ChildFields
<1>3. /\ r \in ChildRecord /\ Progress(r) /\ There(r, ino) /\ r.pc = "get" /\ r.req = s.req /\ r.path = s.path
      /\ r.kept = {} /\ r.net = s.net /\ r.at = s.at /\ r.moved = s.moved /\ r.stat = Stat(s.path)
      /\ r.code = 0 /\ r.got = <<>>
  BY <1>1, <1>2, StatTaken DEF Progress
<1>4. /\ r.stat \in StatRecord /\ r.stat.ino = Lookup(s.path)
      /\ r.stat.kind = "none" <=> Lookup(s.path) = 0
      /\ Lookup(s.path) # 0 => /\ r.stat.kind = ino[Lookup(s.path)].kind /\ r.stat.mtime = ino[Lookup(s.path)].mtime
                               /\ r.stat.size = Len(ino[Lookup(s.path)].data)
  BY <1>1, <1>3, StatThere
<1>5. Now(c, IF r.stat.kind = "none" THEN Answer(r, 404)
             ELSE IF r.stat.kind = "file" THEN [r EXCEPT !.pc = "open"]
             ELSE IF Index # 0 /\ r.path = r.req.path THEN [r EXCEPT !.path = Append(@, Index)]
             ELSE Answer(r, 403))
  BY DEF GetStat
<1> HIDE DEF r
<1>6. ASSUME NEW code \in {404, 403}
      PROVE  /\ ChildOK(Answer(r, code), ino) /\ NetOf(Answer(r, code)) = NetOf(s)
             /\ Answer(r, code).req = s.req /\ Answer(r, code).at = s.at /\ Answer(r, code).moved = s.moved
  <2>1. code \in Nat /\ code \notin {200, 206}
    BY <1>6, SMT
  <2>2. QED
    BY <1>1, <1>2, <1>3, <2>1, AnswerOK
<1>7. CASE r.stat.kind = "none"
  <2>1. Now(c, Answer(r, 404))
    BY <1>5, <1>7
  <2>2. QED
    BY <1>6, <2>1, NowSettled
<1>8. CASE r.stat.kind = "file"
  <2> DEFINE a == [r EXCEPT !.pc = "open"]
  <2>1. Now(c, a)
    BY <1>5, <1>8
  <2>2. /\ a \in ChildRecord /\ a.pc = "open" /\ a.req = s.req /\ a.path = s.path /\ a.kept = {} /\ a.net = s.net
        /\ a.at = s.at /\ a.moved = s.moved /\ a.stat = r.stat /\ a.fd = r.fd /\ a.code = 0 /\ a.got = <<>>
    BY <1>3 DEF ChildRecord, Stations
  <2> HIDE DEF a
  <2>3. Progress(a) /\ There(a, ino)
    BY <1>2, <1>3, <2>2 DEF Progress, StationsOf, There
  <2>4. Seen(a, ino) /\ Finds(a, ino)
    BY <1>4, <1>8, <2>2 DEF Seen, Finds, Lookup
  <2>5. ~Sending(a) /\ ~Saving(a)
    BY <2>2 DEF Sending, Saving
  <2>6. ChildOK(a, ino)
    BY <2>2, <2>3, <2>4, <2>5 DEF ChildOK, SentSo, Stores, Lists
  <2>7. NetOf(a) = NetOf(s)
    BY <1>1, <2>2 DEF NetOf
  <2>8. QED
    BY <2>1, <2>2, <2>6, <2>7, NowSettled
<1>9. CASE r.stat.kind \notin {"none", "file"} /\ Index # 0 /\ r.path = r.req.path
  <2> DEFINE a == [r EXCEPT !.path = Append(@, Index)]
  <2>1. Now(c, a)
    BY <1>5, <1>9
  <2>2. Append(r.path, Index) \in Seq(Name)
    <3>1. Index \in Name
      BY <1>9 DEF FilesAssumption
    <3>2. QED
      BY <1>1, <1>3, <3>1
  <2>3. /\ a \in ChildRecord /\ a.pc = "get" /\ a.req = s.req /\ a.path = Append(s.req.path, Index) /\ a.kept = {}
        /\ a.net = s.net /\ a.at = s.at /\ a.moved = s.moved /\ a.stat = r.stat /\ a.fd = r.fd
        /\ a.code = 0 /\ a.got = <<>>
    BY <1>3, <1>9, <2>2 DEF ChildRecord
  <2> HIDE DEF a
  <2>4. Progress(a) /\ There(a, ino)
    BY <1>2, <1>3, <1>9, <2>3 DEF Progress, StationsOf, There
  <2>5. ~Looked(a) /\ ~Saving(a)
    BY <2>3 DEF Looked, Sending, Saving
  <2>6. ChildOK(a, ino) /\ NetOf(a) = NetOf(s)
    BY <1>1, <2>3, <2>4, <2>5, QuietOK DEF NetOf
  <2>7. QED
    BY <2>1, <2>3, <2>6, NowSettled
<1>10. CASE r.stat.kind \notin {"none", "file"} /\ ~(Index # 0 /\ r.path = r.req.path)
  <2>1. Now(c, Answer(r, 403))
    BY <1>5, <1>10
  <2>2. QED
    BY <1>6, <2>1, NowSettled
<1>11. QED
  BY <1>7, <1>8, <1>9, <1>10

\* It opens the one it saw, or was disturbed.
LEMMA GetOpenSettled ==
  ASSUME FilesAssumption, Known, NEW c \in Child, GetOpen(c)
  PROVE  Settled(c)
<1> DEFINE s == child[c]
           i == Lookup(s.path)
           a == [s EXCEPT !.pc = "head", !.fd = i, !.disturbed = @ \/ i # s.stat.ino]
<1>1. /\ s \in ChildRecord /\ s.pc = "open" /\ s.path \in Seq(Name) /\ NetOf(s) = s.net
      /\ Progress(s) /\ There(s, ino) /\ ChildOK(s, ino) /\ GoodTree(ino)
  BY ChildFields DEF GetOpen, At, Known
<1>2. s.req.op = "get" /\ s.req \in Request /\ s.kept = {}
  BY <1>1, OpOf, ChildFields
<1>3. i \in Ino \cup {0} /\ (i # 0 => ino[i].kind # "none")
  BY <1>1, LookupThere DEF Lookup
<1>4. CASE i = 0
  <2>1. Now(c, Answer(s, 404))
    BY <1>4 DEF GetOpen
  <2>2. /\ ChildOK(Answer(s, 404), ino) /\ NetOf(Answer(s, 404)) = NetOf(s)
        /\ Answer(s, 404).req = s.req /\ Answer(s, 404).at = s.at /\ Answer(s, 404).moved = s.moved
    BY <1>1, <1>2, AnswerOK
  <2>3. QED
    BY <2>1, <2>2, NowSettled
<1>5. CASE i # 0
  <2>1. Now(c, a)
    BY <1>5 DEF GetOpen
  <2>2. /\ a \in ChildRecord /\ a.pc = "head" /\ a.req = s.req /\ a.path = s.path /\ a.kept = {} /\ a.net = s.net
        /\ a.at = s.at /\ a.moved = s.moved /\ a.stat = s.stat /\ a.fd = i /\ a.code = s.code /\ a.got = s.got
    BY <1>1, <1>2, <1>3 DEF ChildRecord, Stations
  <2>3. ~a.disturbed => ~s.disturbed /\ i = s.stat.ino
    BY <1>1 DEF ChildRecord
  <2> HIDE DEF a, i
  <2>4. Progress(a) /\ There(a, ino)
    BY <1>1, <1>2, <1>3, <1>5, <2>2 DEF Progress, StationsOf, There
  <2>5. Seen(a, ino) /\ Finds(a, ino)
    BY <1>1, <2>2, <2>3 DEF ChildOK, Looked, Seen, Finds
  <2>6. ~Sending(a) /\ ~Saving(a)
    BY <2>2 DEF Sending, Saving
  <2>7. ChildOK(a, ino) /\ NetOf(a) = NetOf(s)
    BY <1>1, <2>2, <2>4, <2>5, <2>6 DEF ChildOK, SentSo, Stores, Lists, NetOf
  <2>8. QED
    BY <2>1, <2>2, <2>7, NowSettled
<1>6. QED
  BY <1>4, <1>5

\* A range that is accepted is not negative.
LEMMA PortionType ==
  ASSUME FilesAssumption, NEW r, r.req \in Request, r.stat.size \in Nat
  PROVE  Portion(r).from \in Nat /\ Portion(r).size \in Nat /\ Portion(r).code \in {200, 206}
<1>1. r.req.range \in {<<>>} \cup ((Nat \cup {-1}) \X (Nat \cup {-1}))
  BY DEF FilesAssumption
<1>2. CASE r.req.range = <<>>
  BY <1>2 DEF Portion
<1>3. CASE r.req.range \in (Nat \cup {-1}) \X (Nat \cup {-1})
  <2> DEFINE p == ParseRange(r.req.range, r.stat.size)
  <2>1. r.req.range[1] \in Nat \cup {-1} /\ r.req.range[2] \in Nat \cup {-1}
    BY <1>3
  <2> DEFINE first == IF r.req.range[1] = -1 THEN 0 ELSE r.req.range[1]
             last == IF r.req.range[2] = -1 THEN r.stat.size - 1 ELSE r.req.range[2]
  <2>a. first \in Nat /\ last \in Int
    BY <2>1
  <2>b. (p.ok <=> first <= last) /\ p.from = first /\ p.size = last - first + 1
    BY DEF ParseRange
  <2> HIDE DEF first, last, p
  <2>2. p.from \in Nat /\ (p.ok => p.size \in Nat)
    BY <2>a, <2>b
  <2>3. QED
    BY <2>2 DEF Portion, p
<1>4. QED
  BY <1>1, <1>2, <1>3

\* It announces what it is about to send.
LEMMA GetHeadSettled ==
  ASSUME FilesAssumption, Known, NEW c \in Child, GetHead(c)
  PROVE  Settled(c)
<1> DEFINE s == child[c]
           p == Portion(s)
           next == IF s.stat.size > 0 THEN "send" ELSE "answered"
           a == [s EXCEPT !.pc = next, !.off = p.from, !.want = p.size, !.code = p.code, !.at = clock]
<1>1. /\ s \in ChildRecord /\ s.pc = "head" /\ s.path \in Seq(Name) /\ NetOf(s) = s.net /\ s.stat \in StatRecord
      /\ Progress(s) /\ There(s, ino) /\ ChildOK(s, ino) /\ GoodTree(ino) /\ clock \in Nat
  BY ChildFields DEF GetHead, At, Known
<1>2. s.req.op = "get" /\ s.req \in Request /\ s.kept = {} /\ s.got = <<>> /\ s.stat.size \in Nat /\ s.fd # 0
  BY <1>1, OpOf, ChildFields DEF Progress, StatRecord
<1>3. p.from \in Nat /\ p.size \in Nat /\ p.code \in {200, 206}
  BY <1>2, PortionType
<1>4. CASE NotModified(s.req.cond, s.stat)
  <2>1. Now(c, Answer(s, 304))
    BY <1>4 DEF GetHead
  <2>2. /\ ChildOK(Answer(s, 304), ino) /\ NetOf(Answer(s, 304)) = NetOf(s)
        /\ Answer(s, 304).req = s.req /\ Answer(s, 304).at = s.at /\ Answer(s, 304).moved = s.moved
    BY <1>1, <1>2, AnswerOK
  <2>3. QED
    BY <2>1, <2>2, NowSettled
<1>5. CASE ~NotModified(s.req.cond, s.stat)
  <2>1. Now(c, a)
    BY <1>5 DEF GetHead
  <2>2. p.code \in Nat
    BY <1>3
  <2> HIDE DEF p
  <2>3. /\ a \in ChildRecord /\ a.pc = next
        /\ a.req = s.req /\ a.path = s.path /\ a.kept = {} /\ a.net = s.net /\ a.at = clock /\ a.moved = s.moved
        /\ a.stat = s.stat /\ a.fd = s.fd /\ a.code = p.code /\ a.got = <<>> /\ a.off = p.from /\ a.want = p.size
    <3>1. next \in Stations
      BY DEF Stations
    <3> HIDE DEF next
    <3>2. a \in ChildRecord
      BY <1>1, <1>3, <2>2, <3>1 DEF ChildRecord
    <3>3. s \in ChildRecord
      BY <1>1
    <3>4. /\ a.pc = next /\ a.req = s.req /\ a.path = s.path /\ a.kept = s.kept /\ a.net = s.net /\ a.at = clock
          /\ a.moved = s.moved /\ a.stat = s.stat /\ a.fd = s.fd /\ a.code = p.code /\ a.got = s.got
          /\ a.off = p.from /\ a.want = p.size
      BY <3>3 DEF ChildRecord
    <3>5. QED
      BY <1>2, <3>2, <3>4
  <2>4. a.disturbed = s.disturbed
    BY <1>1 DEF ChildRecord
  <2> HIDE DEF a
  <2>5. Progress(a) /\ There(a, ino)
    BY <1>1, <1>2, <2>3 DEF Progress, StationsOf, There
  <2>6. Looked(s) /\ ~Saving(a)
    BY <1>1, <1>2, <2>3 DEF Looked, Saving
  <2>7. Seen(a, ino) /\ Finds(a, ino)
    BY <1>1, <2>3, <2>4, <2>6 DEF ChildOK, Seen, Finds
  <2>8. SentSo(a, ino)
    <3>1. SUFFICES ASSUME ~a.disturbed
                   PROVE  Piece(a, ino[a.fd].data)
      BY DEF SentSo
    <3>2. Portion(a) = p
      BY <2>3 DEF Portion, p
    <3>3. s.stat.size = Len(ino[a.fd].data)
      BY <1>1, <2>3, <2>4, <2>6, <3>1 DEF ChildOK, Seen
    <3>4. Len(a.got) = 0
      BY <2>3
    <3>5. a.pc = "answered" => a.off >= Len(ino[a.fd].data)
      BY <1>2, <1>3, <2>3, <3>3
    <3>6. QED
      BY <1>3, <2>3, <3>2, <3>4, <3>5 DEF Piece
  <2>9. ChildOK(a, ino)
    BY <2>3, <2>5, <2>6, <2>7, <2>8 DEF ChildOK, Stores, Lists
  <2>10. NetOf(a) = NetOf(s)
    BY <1>1, <1>2, <2>3 DEF NetOf, Told, ChildRecord
  <2>11. QED
    BY <2>1, <2>3, <2>9, <2>10, NowSettled
<1>6. QED
  BY <1>4, <1>5

\* It sends one byte more of the file, or has sent all that it can.
LEMMA GetSendSettled ==
  ASSUME FilesAssumption, Known, NEW c \in Child, GetSend(c)
  PROVE  Settled(c)
<1> DEFINE s == child[c]
           data == ino[s.fd].data
           more == Len(s.got) < s.want /\ s.off < Len(data)
<1>1. /\ s \in ChildRecord /\ s.pc = "send" /\ s.path \in Seq(Name) /\ NetOf(s) = s.net /\ s.stat \in StatRecord
      /\ Progress(s) /\ There(s, ino) /\ ChildOK(s, ino) /\ GoodTree(ino)
      /\ s.off \in Nat /\ s.want \in Nat /\ s.got \in Seq(Nat)
  BY ChildFields DEF GetSend, At, Known
<1>2. s.req.op = "get" /\ s.req \in Request /\ s.kept = {} /\ s.stat.size \in Nat /\ s.fd \in Ino
  BY <1>1, OpOf, ChildFields DEF Progress, StatRecord
<1>3. data \in Seq(Nat)
  BY <1>1, <1>2 DEF GoodTree, InoRecord
<1>4. Portion(s).from \in Nat /\ Portion(s).size \in Nat /\ Portion(s).code \in {200, 206}
  BY <1>2, PortionType
<1>5. /\ Sending(s) /\ Looked(s)
      /\ ~s.disturbed => Piece(s, data) /\ s.fd = s.stat.ino
  BY <1>1 DEF ChildOK, SentSo, Seen, Looked, Sending
<1>6. CASE more
  <2> DEFINE a == [s EXCEPT !.off = @ + 1, !.got = Append(@, data[s.off + 1])]
  <2>1. Now(c, a)
    BY <1>6 DEF GetSend
  <2>2. data[s.off + 1] \in Nat /\ Append(s.got, data[s.off + 1]) \in Seq(Nat) /\ s.off + 1 \in Nat
    <3>1. s.off + 1 \in 1 .. Len(data)
      BY <1>1, <1>3, <1>6
    <3>2. data[s.off + 1] \in Nat
      BY <1>3, <3>1
    <3>3. QED
      BY <1>1, <3>2
  <2> HIDE DEF data
  <2>3. /\ a \in ChildRecord /\ a.pc = "send" /\ a.req = s.req /\ a.path = s.path /\ a.kept = {} /\ a.net = s.net
        /\ a.at = s.at /\ a.moved = s.moved /\ a.stat = s.stat /\ a.fd = s.fd /\ a.code = s.code
        /\ a.got = Append(s.got, data[s.off + 1]) /\ a.off = s.off + 1 /\ a.want = s.want
    BY <1>1, <1>2, <2>2 DEF ChildRecord
  <2>4. a.disturbed = s.disturbed
    BY <1>1 DEF ChildRecord
  <2> HIDE DEF a
  <2>5. Progress(a) /\ There(a, ino) /\ ~Saving(a)
    BY <1>1, <1>2, <2>3 DEF Progress, StationsOf, There, Saving
  <2>6. Seen(a, ino) /\ Finds(a, ino)
    BY <1>1, <1>5, <2>3, <2>4 DEF ChildOK, Seen, Finds
  <2>7. SentSo(a, ino)
    <3>1. SUFFICES ASSUME ~a.disturbed
                   PROVE  Piece(a, data)
      BY <2>3 DEF SentSo, data
    <3>2. Portion(a) = Portion(s)
      BY <2>3 DEF Portion
    <3>3. Piece(s, data)
      BY <1>5, <2>4, <3>1
    <3>4. Len(a.got) = Len(s.got) + 1 /\ a.got[Len(s.got) + 1] = data[s.off + 1]
          /\ \A i \in 1 .. Len(s.got) : a.got[i] = s.got[i]
      BY <1>1, <2>2, <2>3
    <3>5. s.off = Portion(s).from + Len(s.got) /\ Len(s.got) \in Nat /\ Len(data) \in Nat
      BY <1>1, <1>3, <3>3 DEF Piece
    <3>6. \A i \in 1 .. Len(a.got) : Portion(s).from + i <= Len(data) /\ a.got[i] = data[Portion(s).from + i]
      <4>1. SUFFICES ASSUME NEW i \in 1 .. Len(a.got)
                     PROVE  Portion(s).from + i <= Len(data) /\ a.got[i] = data[Portion(s).from + i]
        OBVIOUS
      <4>2. CASE i = Len(s.got) + 1
        <5>1. Portion(s).from + i = s.off + 1
          BY <1>4, <3>5, <4>2
        <5>2. QED
          BY <1>1, <1>6, <3>4, <3>5, <4>2, <5>1 DEF data
      <4>3. CASE i # Len(s.got) + 1
        <5>1. i \in 1 .. Len(s.got)
          BY <3>4, <3>5, <4>1, <4>3
        <5>2. QED
          BY <3>3, <3>4, <5>1 DEF Piece
      <4>4. QED
        BY <4>2, <4>3
    <3>7. QED
      <4>1. a.code = Portion(s).code /\ a.want = Portion(s).size /\ a.pc # "answered"
        BY <2>3, <3>3 DEF Piece
      <4>2. a.off = Portion(s).from + Len(a.got)
        BY <1>4, <2>3, <3>4, <3>5
      <4>3. Len(a.got) <= a.want
        BY <1>1, <1>6, <2>3, <3>4, <3>5
      <4>4. QED
        BY <3>2, <3>6, <4>1, <4>2, <4>3 DEF Piece
  <2>8. ChildOK(a, ino)
    BY <2>3, <2>5, <2>6, <2>7 DEF ChildOK, Stores, Lists
  <2>9. NetOf(a) = NetOf(s)
    BY <1>1, <2>3 DEF NetOf
  <2>10. QED
    BY <2>1, <2>3, <2>8, <2>9, NowSettled
<1>7. CASE ~more
  <2> DEFINE a == [s EXCEPT !.pc = "answered"]
  <2>1. Now(c, a)
    BY <1>7 DEF GetSend
  <2>2. /\ a \in ChildRecord /\ a.pc = "answered" /\ a.req = s.req /\ a.path = s.path /\ a.kept = {} /\ a.net = s.net
        /\ a.at = s.at /\ a.moved = s.moved /\ a.stat = s.stat /\ a.fd = s.fd /\ a.code = s.code
        /\ a.got = s.got /\ a.off = s.off /\ a.want = s.want
    BY <1>1, <1>2 DEF ChildRecord, Stations
  <2>3. a.disturbed = s.disturbed
    BY <1>1 DEF ChildRecord
  <2> HIDE DEF a
  <2>4. Progress(a) /\ There(a, ino) /\ ~Saving(a)
    BY <1>1, <1>2, <2>2 DEF Progress, StationsOf, There, Saving
  <2>5. Seen(a, ino) /\ Finds(a, ino)
    BY <1>1, <1>5, <2>2, <2>3 DEF ChildOK, Seen, Finds
  <2>6. SentSo(a, ino)
    <3>1. SUFFICES ASSUME ~a.disturbed
                   PROVE  Piece(a, data)
      BY <2>2 DEF SentSo
    <3>2. Portion(a) = Portion(s) /\ Piece(s, data)
      BY <1>5, <2>2, <2>3, <3>1 DEF Portion
    <3>3. Len(s.got) = s.want \/ s.off >= Len(data)
      BY <1>1, <1>3, <1>7, <3>2 DEF Piece
    <3>4. QED
      BY <2>2, <3>2, <3>3 DEF Piece
  <2>7. ChildOK(a, ino)
    BY <2>2, <2>4, <2>5, <2>6 DEF ChildOK, Stores, Lists
  <2>8. NetOf(a) = NetOf(s)
    BY <1>1, <1>2, <2>2 DEF NetOf, Told, ChildRecord
  <2>9. QED
    BY <2>1, <2>2, <2>7, <2>8, NowSettled
<1>8. QED
  BY <1>6, <1>7

\* A look claims nothing.
LEMMA LookSettled ==
  ASSUME FilesAssumption, Known, NEW c \in Child, Look(c)
  PROVE  Settled(c)
<1> DEFINE s == child[c]
           r == [s EXCEPT !.stat = Stat(s.path)]
           code == CASE r.req.as = "unlock" -> 204
                     [] r.req.as = "lock" -> 200
                     [] r.stat.kind = "none" -> 404
                     [] r.req.as = "proppatch" -> 207
                     [] r.stat.kind = "dir" -> 403
                     [] OTHER -> 200
<1>1. /\ s \in ChildRecord /\ s.pc = "stat" /\ NetOf(s) = s.net /\ Progress(s)
  BY ChildFields DEF Look, At
<1>2. s.req.op = "stat" /\ s.kept = {}
  BY <1>1, OpOf, ChildFields
<1>3. /\ r \in ChildRecord /\ Progress(r) /\ There(r, ino) /\ r.pc = "stat" /\ r.req = s.req
      /\ r.kept = {} /\ r.net = s.net /\ r.at = s.at /\ r.moved = s.moved
  BY <1>1, <1>2, StatTaken
<1>4. Now(c, Answer(r, code)) /\ code \in Nat
  BY DEF Look
<1> HIDE DEF r, code
<1>5. /\ ChildOK(Answer(r, code), ino) /\ NetOf(Answer(r, code)) = NetOf(s)
      /\ Answer(r, code).req = s.req /\ Answer(r, code).at = s.at /\ Answer(r, code).moved = s.moved
  BY <1>1, <1>2, <1>3, <1>4, AnswerOK
<1>6. QED
  BY <1>4, <1>5, NowSettled

-----------------------------------------------------------------------------
(* The steps of PUT *)

\* A name is looked up in its directory.
LEMMA ParentOf ==
  ASSUME GoodTree(ino), NEW p \in Seq(Name), p # <<>>
  PROVE  /\ Parent(p) \in Ino \cup {0} /\ Last(p) \in Name /\ Lookup(p) \in Ino \cup {0}
         /\ Lookup(p) = Follow(ino, Parent(p), Last(p))
<1>1. Front(p) \in Seq(Name) /\ Last(p) \in Name /\ p = Append(Front(p), Last(p))
  BY PathParts
<1>2. /\ LookupIn(ino, p) = Follow(ino, LookupIn(ino, Front(p)), Last(p))
      /\ LookupIn(ino, Front(p)) \in Ino \cup {0}
  BY <1>1, LookupEntry
<1>3. LookupIn(ino, p) \in Ino \cup {0}
  BY LookupEntry
<1>4. QED
  BY <1>1, <1>2, <1>3 DEF Parent, Lookup

\* The root is an inode.
LEMMA RootThere ==
  ASSUME GoodTree(ino), NEW p \in Seq(Name), Lookup(p) = 0
  PROVE  p # <<>>
<1>1. Root # 0
  BY SMT DEF Root
<1>2. QED
  BY <1>1, LookupEntry DEF Lookup

\* What does not exist has no contents.
LEMMA NoInoRecord == NoIno \in InoRecord /\ NoIno.data = <<>> /\ NoIno.kind = "none"
<1>1. [n \in Name |-> 0] \in [Name -> Ino \cup {0}] /\ <<>> \in Seq(Nat)
  BY SMT
<1>2. QED
  BY <1>1, SMT DEF NoIno, InoRecord

\* A new inode was not there before.
LEMMA NewInoFresh ==
  ASSUME Fresh # {}
  PROVE  NewIno \in Ino /\ ino[NewIno].kind = "none" /\ NewIno # 0
<1>1. NewIno \in Fresh
  BY DEF NewIno
<1>2. QED
  BY <1>1, SMT DEF Fresh, Ino

\* The file system has the new file, or directory.
LEMMA BindNew ==
  ASSUME FilesAssumption, GoodTree(ino), NEW p \in Seq(Name), Lookup(p) = 0, IsDir(Parent(p)), Fresh # {},
         NEW rec \in InoRecord, rec.kind \in {"file", "dir"}, rec.names = NoIno.names, NEW time \in Nat,
         rec.kind = "file" => rec.mtime = time, NEW u, u = Bind([ino EXCEPT ![NewIno] = rec], p, NewIno)
  PROVE  /\ GoodTree(u) /\ Loose(ino, u) /\ Firm(ino, u, 0) /\ Stays(ino, u, 0) /\ Dated(ino, u, time)
         /\ u[NewIno] = rec
         /\ Cardinality(Bindings(u)) = Cardinality(Bindings(ino)) + 1
<1>1. p # <<>>
  BY RootThere
<1>2. /\ Parent(p) \in Ino \cup {0} /\ Last(p) \in Name
      /\ Lookup(p) = Follow(ino, Parent(p), Last(p))
  BY <1>1, ParentOf
<1>3. Parent(p) \in Ino /\ ino[Parent(p)].kind = "dir" /\ ino[Parent(p)].names[Last(p)] = 0
  BY <1>2 DEF IsDir, Follow
<1>4. NewIno \in Ino /\ ino[NewIno].kind = "none"
  BY NewInoFresh
<1>5. Adds(ino, u, Parent(p), Last(p), NewIno, rec)
  BY DEF Adds, Bind
<1>6. Parent(p) \in Ino /\ ino[Parent(p)].kind = "dir" /\ Last(p) \in Name /\ ino[Parent(p)].names[Last(p)] = 0
  BY <1>2, <1>3
<1> HIDE DEF Root
<1>7. QED
  BY <1>4, <1>5, <1>6, TreeAdded, SMTT(60)

\* A PUT has emptied a file or made one, with a name more.
LEMMA PutOpenSettled ==
  ASSUME FilesAssumption, Known, NEW c \in Child, PutOpen(c)
  PROVE  Settled(c)
<1> DEFINE s == child[c]
           i == Lookup(s.path)
<1>1. /\ s \in ChildRecord /\ s.pc = "put" /\ s.path \in Seq(Name) /\ NetOf(s) = s.net /\ s.stat \in StatRecord
      /\ Progress(s) /\ There(s, ino) /\ ChildOK(s, ino) /\ GoodTree(ino) /\ clock \in Nat
      /\ clock' = clock /\ copy' = copy /\ used' = used
  BY ChildFields DEF PutOpen, At, Known
<1>2. s.req.op = "put" /\ s.req \in Request /\ s.kept = {} /\ s.net = 0 /\ s.off = 0 /\ s.got = <<>> /\ s.code = 0
  <2>1. s.req.op = "put" /\ s.req \in Request
    BY <1>1, OpOf
  <2>2. s.kept = {} /\ s.net \in {-1, 0, 1}
    BY <2>1, ChildFields
  <2>3. QED
    BY <1>1, <2>1, <2>2 DEF Progress
<1>3. i \in Ino \cup {0} /\ (i # 0 => ino[i].kind # "none")
  BY <1>1, LookupThere DEF Lookup
<1>4. s.req.size \in Nat
  BY <1>2 DEF FilesAssumption
<1>5. <<>> = [k \in 1 .. 0 |-> s.req.body]
  BY SMT
<1> HIDE DEF i
<1>6. CASE IsFile(i)
  <2> DEFINE d == \E x \in Child \ {c} : child[x].fd = i /\ child[x].req.op = "put"
             a == [s EXCEPT !.pc = "save", !.fd = i, !.want = s.req.size, !.disturbed = d]
  <2>1. ino' = [ino EXCEPT ![i].data = <<>>, ![i].mtime = clock] /\ Change(c, i, a)
    BY <1>6 DEF PutOpen, i
  <2>2. i \in Ino /\ ino[i].kind = "file" /\ ino[i] \in InoRecord
    BY <1>1, <1>3, <1>6 DEF IsFile, GoodTree
  <2>3. Rewrites(ino, ino', i, <<>>, clock)
    BY <2>1 DEF Rewrites
  <2>3a. <<>> \in Seq(Nat)
    BY SMT
  <2>4. PICK e \in Seq(Nat) : e = <<>>
    BY <2>3a, Zenon
  <2>a. Rewrites(ino, ino', i, e, clock)
    BY <2>3, <2>4
  <2>b. /\ GoodTree(ino') /\ Loose(ino, ino') /\ Firm(ino, ino', 0) /\ Stays(ino, ino', i) /\ Dated(ino, ino', clock)
        /\ ino'[i].kind = "file" /\ ino'[i].data = e
        /\ Cardinality(Bindings(ino')) = Cardinality(Bindings(ino))
    BY <1>1, <2>2, <2>a, TreeWritten
  <2>5. /\ GoodTree(ino') /\ Loose(ino, ino') /\ Firm(ino, ino', 0) /\ Stays(ino, ino', i) /\ Dated(ino, ino', clock)
        /\ ino'[i].kind = "file" /\ ino'[i].data = <<>>
        /\ Cardinality(Bindings(ino')) = Cardinality(Bindings(ino))
    BY <2>4, <2>b
  <2>6. Firm(ino, ino', i)
    BY <2>5 DEF Firm
  <2>7. d \in BOOLEAN
    OBVIOUS
  <2> HIDE DEF d
  <2>8. /\ a \in ChildRecord /\ a.pc = "save" /\ a.req = s.req /\ a.path = s.path /\ a.kept = {} /\ a.net = 0
        /\ a.at = s.at /\ a.moved = s.moved /\ a.stat = s.stat /\ a.fd = i /\ a.code = s.code
        /\ a.got = s.got /\ a.off = 0 /\ a.want = s.req.size
    BY <1>1, <1>2, <1>4, <2>2, <2>7 DEF ChildRecord, Stations
  <2> HIDE DEF a
  <2>9. Progress(a)
    BY <1>1, <1>2, <2>8 DEF Progress, StationsOf
  <2>10. There(a, ino')
    <3>1. s.stat.ino # 0 => ino'[s.stat.ino].kind # "none"
      BY <1>1, <2>5 DEF There, Stays, StatRecord
    <3>2. QED
      BY <2>5, <2>8, <3>1 DEF There
  <2>11. Stores(a, ino')
    BY <1>4, <1>5, <2>2, <2>5, <2>8, SMT DEF Stores, Ino
  <2>12. ~Looked(a)
    BY <2>8 DEF Looked, Sending
  <2>13. ChildOK(a, ino')
    BY <2>8, <2>9, <2>10, <2>11, <2>12 DEF ChildOK, Seen, SentSo, Finds, Lists, Looked
  <2>14. NetOf(a) = 0
    BY <2>8 DEF NetOf
  <2>15. Cardinality(Bindings(ino')) - Cardinality(Bindings(ino)) = NetOf(a) - NetOf(s)
    BY <1>1, <1>2, <2>5, <2>14, BindingsFinite
  <2>16. QED
    BY <1>1, <1>2, <1>3, <2>1, <2>5, <2>6, <2>8, <2>13, <2>15, ChangeSettled
<1>7. CASE i = 0 /\ IsDir(Parent(s.path))
  <2> DEFINE a == [s EXCEPT !.pc = "save", !.fd = NewIno, !.want = s.req.size, !.net = 1]
             rec == [NoIno EXCEPT !.kind = "file", !.mtime = clock]
  <2>1. ~IsFile(i)
    BY <1>7 DEF IsFile
  <2>2. Fresh # {} /\ ino' = Bind([ino EXCEPT ![NewIno] = rec], s.path, NewIno) /\ Change(c, NewIno, a)
    BY <1>7, <2>1 DEF PutOpen, i
  <2>3. rec \in InoRecord /\ rec.kind = "file" /\ rec.mtime = clock /\ rec.names = NoIno.names /\ rec.data = <<>>
    <3>1. NoIno \in InoRecord /\ NoIno.data = <<>>
      BY NoInoRecord
    <3>2. QED
      BY <1>1, <3>1 DEF InoRecord
  <2> HIDE DEF rec
  <2>4. Lookup(s.path) = 0
    BY <1>7 DEF i
  <2>5. /\ GoodTree(ino') /\ Loose(ino, ino') /\ Firm(ino, ino', 0) /\ Stays(ino, ino', 0) /\ Dated(ino, ino', clock)
        /\ ino'[NewIno] = rec
        /\ Cardinality(Bindings(ino')) = Cardinality(Bindings(ino)) + 1
    BY <1>1, <1>7, <2>2, <2>3, <2>4, BindNew
  <2>6. NewIno \in Ino /\ NewIno # 0
    BY <2>2, NewInoFresh
  <2>7. Firm(ino, ino', NewIno) /\ Stays(ino, ino', NewIno)
    <3>1. \A j \in Ino : j # 0
      BY SMT DEF Ino
    <3>2. QED
      BY <2>5, <3>1 DEF Firm, Stays
  <2>8. /\ a \in ChildRecord /\ a.pc = "save" /\ a.req = s.req /\ a.path = s.path /\ a.kept = {} /\ a.net = 1
        /\ a.at = s.at /\ a.moved = s.moved /\ a.stat = s.stat /\ a.fd = NewIno /\ a.code = s.code
        /\ a.got = s.got /\ a.off = 0 /\ a.want = s.req.size
    BY <1>1, <1>2, <1>4, <2>6 DEF ChildRecord, Stations
  <2> HIDE DEF a
  <2>9. Progress(a)
    BY <1>1, <1>2, <2>8 DEF Progress, StationsOf
  <2>10. There(a, ino')
    <3>1. s.stat.ino # 0 => ino'[s.stat.ino].kind # "none"
      BY <1>1, <2>5 DEF There, Stays, StatRecord
    <3>2. QED
      BY <2>3, <2>5, <2>8, <3>1 DEF There
  <2>11. Stores(a, ino')
    BY <1>4, <1>5, <2>3, <2>5, <2>6, <2>8, SMT DEF Stores
  <2>12. ~Looked(a)
    BY <2>8 DEF Looked, Sending
  <2>13. ChildOK(a, ino')
    BY <2>8, <2>9, <2>10, <2>11, <2>12 DEF ChildOK, Seen, SentSo, Finds, Lists, Looked
  <2>14. NetOf(a) = 1
    BY <2>8 DEF NetOf
  <2>15. Cardinality(Bindings(ino')) - Cardinality(Bindings(ino)) = NetOf(a) - NetOf(s)
    BY <1>1, <1>2, <2>5, <2>14, BindingsFinite
  <2>16. QED
    BY <1>1, <1>2, <2>2, <2>5, <2>6, <2>7, <2>8, <2>13, <2>15, ChangeSettled
<1>8. CASE ~IsFile(i) /\ ~(i = 0 /\ IsDir(Parent(s.path)))
  <2>1. ino' = ino /\ Change(c, 0, Answer(s, 403))
    BY <1>8 DEF PutOpen, i
  <2>2. /\ ChildOK(Answer(s, 403), ino) /\ NetOf(Answer(s, 403)) = NetOf(s)
        /\ Answer(s, 403).req = s.req /\ Answer(s, 403).at = s.at /\ Answer(s, 403).moved = s.moved
    BY <1>1, <1>2, AnswerOK
  <2>3. QED
    BY <1>1, <1>2, <2>1, <2>2, StillSettled
<1>9. QED
  BY <1>6, <1>7, <1>8

\* A byte that is written leaves bytes;
LEMMA WrittenType ==
  ASSUME NEW data \in Seq(Nat), NEW off \in Nat, NEW unit \in Nat
  PROVE  Written(data, off, unit) \in Seq(Nat)
<1> DEFINE m == IF off < Len(data) THEN Len(data) ELSE off + 1
           f == [k \in 1 .. m |-> IF k = off + 1 THEN unit ELSE IF k <= Len(data) THEN data[k] ELSE 0]
<1>1. m \in Nat
  BY SMT
<1> HIDE DEF m
<1>2. \A k \in 1 .. m : f[k] \in Nat
  BY SMT
<1>3. f \in Seq(Nat)
  BY <1>1, <1>2, SMT
<1>4. QED
  BY <1>3 DEF Written, m

\* ...at the end of a file of such bytes it makes that one longer.
LEMMA WrittenNext ==
  ASSUME NEW off \in Nat, NEW unit
  PROVE  Written([k \in 1 .. off |-> unit], off, unit) = [k \in 1 .. off + 1 |-> unit]
<1> DEFINE data == [k \in 1 .. off |-> unit]
<1>1. Len(data) = off
  BY SMT
<1>2. \A k \in 1 .. off + 1 : k # off + 1 => k \in 1 .. off
  BY SMT
<1>3. QED
  BY <1>1, <1>2, SMT DEF Written

\* It saves one byte more.
LEMMA PutSaveSettled ==
  ASSUME FilesAssumption, Known, NEW c \in Child, PutSave(c)
  PROVE  Settled(c)
<1> DEFINE s == child[c]
           i == s.fd
           data == ino[i].data
<1>1. /\ s \in ChildRecord /\ s.pc = "save" /\ s.path \in Seq(Name) /\ NetOf(s) = s.net /\ s.stat \in StatRecord
      /\ Progress(s) /\ There(s, ino) /\ ChildOK(s, ino) /\ GoodTree(ino) /\ clock \in Nat
      /\ s.off \in Nat /\ s.want \in Nat /\ s.fd \in Ino \cup {0} /\ s.net \in {-1, 0, 1}
      /\ clock' = clock /\ copy' = copy /\ used' = used
  BY ChildFields DEF PutSave, At, Known
<1>2. s.req.op = "put" /\ s.req \in Request /\ s.kept = {} /\ s.got = <<>> /\ s.code = 0
  <2>1. s.req.op = "put" /\ s.req \in Request
    BY <1>1, OpOf
  <2>2. QED
    BY <1>1, <2>1, ChildFields DEF Progress
<1>3. s.req.size \in Nat /\ s.req.body \in Nat
  BY <1>2 DEF FilesAssumption
<1>4. /\ Saving(s) /\ i \in Ino /\ ino[i].kind = "file" /\ s.want = s.req.size /\ s.off <= s.want
      /\ ~s.disturbed => data = [k \in 1 .. s.off |-> s.req.body]
  BY <1>1 DEF ChildOK, Stores, Saving
<1>5. ino[i] \in InoRecord /\ data \in Seq(Nat)
  BY <1>1, <1>4 DEF GoodTree, InoRecord
<1> HIDE DEF i
<1>6. ASSUME s.off < s.want, ino' = [ino EXCEPT ![i].data = Written(@, s.off, s.req.body), ![i].mtime = clock],
             Change(c, i, [s EXCEPT !.off = @ + 1])
      PROVE  Settled(c)
  <2> DEFINE a == [s EXCEPT !.off = @ + 1]
             w == Written(data, s.off, s.req.body)
  <2>1. w \in Seq(Nat)
    BY <1>1, <1>3, <1>5, WrittenType
  <2>2. Rewrites(ino, ino', i, w, clock)
    BY <1>6 DEF Rewrites
  <2> HIDE DEF w
  <2>3. /\ GoodTree(ino') /\ Loose(ino, ino') /\ Firm(ino, ino', 0) /\ Stays(ino, ino', i) /\ Dated(ino, ino', clock)
        /\ ino'[i].kind = "file" /\ ino'[i].data = w
        /\ Cardinality(Bindings(ino')) = Cardinality(Bindings(ino))
    BY <1>1, <1>4, <2>1, <2>2, TreeWritten
  <2>4. Firm(ino, ino', i)
    BY <2>3 DEF Firm
  <2>5. /\ a \in ChildRecord /\ a.pc = "save" /\ a.req = s.req /\ a.path = s.path /\ a.kept = {} /\ a.net = s.net
        /\ a.at = s.at /\ a.moved = s.moved /\ a.stat = s.stat /\ a.fd = i /\ a.code = s.code
        /\ a.got = s.got /\ a.off = s.off + 1 /\ a.want = s.want
    <3>1. s.off + 1 \in Nat
      BY <1>1
    <3>2. a \in ChildRecord
      BY <1>1, <3>1 DEF ChildRecord
    <3>3. s \in ChildRecord
      BY <1>1
    <3>4. /\ a.pc = s.pc /\ a.req = s.req /\ a.path = s.path /\ a.kept = s.kept /\ a.net = s.net
          /\ a.at = s.at /\ a.moved = s.moved /\ a.stat = s.stat /\ a.fd = s.fd /\ a.code = s.code
          /\ a.got = s.got /\ a.off = s.off + 1 /\ a.want = s.want
      BY <3>3 DEF ChildRecord
    <3>5. QED
      BY <1>1, <1>2, <3>2, <3>4 DEF i
  <2>6. a.disturbed = s.disturbed
    BY <1>1 DEF ChildRecord
  <2> HIDE DEF a
  <2>7. Progress(a)
    BY <1>1, <1>2, <2>5 DEF Progress, StationsOf
  <2>8. There(a, ino')
    <3>1. s.stat.ino # 0 => ino'[s.stat.ino].kind # "none"
      BY <1>1, <2>3 DEF There, Stays, StatRecord
    <3>2. QED
      BY <2>3, <2>5, <3>1 DEF There
  <2>9. Stores(a, ino')
    <3>1. ~a.disturbed => w = [k \in 1 .. a.off |-> a.req.body]
      <4>1. SUFFICES ASSUME ~a.disturbed
                     PROVE  w = [k \in 1 .. s.off + 1 |-> s.req.body]
        BY <2>5
      <4>2. data = [k \in 1 .. s.off |-> s.req.body]
        BY <1>4, <2>6, <4>1
      <4>3. Written([k \in 1 .. s.off |-> s.req.body], s.off, s.req.body) = [k \in 1 .. s.off + 1 |-> s.req.body]
        BY <1>1, WrittenNext
      <4>4. QED
        BY <4>2, <4>3, Zenon DEF w
    <3>2. a.off <= a.want /\ a.fd # 0 /\ a.want = a.req.size
      BY <1>1, <1>4, <1>6, <2>5, SMT DEF Ino
    <3>3. QED
      BY <2>3, <2>5, <3>1, <3>2 DEF Stores
  <2>10. ~Looked(a)
    BY <2>5 DEF Looked, Sending
  <2>11. ChildOK(a, ino')
    BY <2>5, <2>7, <2>8, <2>9, <2>10 DEF ChildOK, Seen, SentSo, Finds, Lists, Looked
  <2>12. NetOf(a) = s.net
    BY <2>5 DEF NetOf
  <2>13. Cardinality(Bindings(ino')) - Cardinality(Bindings(ino)) = NetOf(a) - NetOf(s)
    BY <1>1, <2>3, <2>12, BindingsFinite
  <2>14. QED
    BY <1>1, <1>2, <1>4, <1>6, <2>3, <2>4, <2>5, <2>11, <2>13, ChangeSettled DEF a
<1>7. ASSUME ino' = ino, Change(c, 0, Answer(s, IF s.off = s.want /\ s.want > 0 THEN 201 ELSE 400))
      PROVE  Settled(c)
  <2>1. CASE s.off = s.want /\ s.want > 0
    <3> DEFINE a == Answer(s, 201)
    <3>1. Change(c, 0, a)
      BY <1>7, <2>1
    <3>2. /\ a \in ChildRecord /\ a.pc = "answered" /\ a.req = s.req /\ a.path = s.path /\ a.kept = {} /\ a.net = s.net
          /\ a.at = s.at /\ a.moved = s.moved /\ a.stat = s.stat /\ a.fd = i /\ a.code = 201
          /\ a.got = s.got /\ a.off = s.off /\ a.want = s.want
      <4>1. a \in ChildRecord
        BY <1>1 DEF ChildRecord, Stations, Answer
      <4>2. s \in ChildRecord
        BY <1>1
      <4>3. /\ a.pc = "answered" /\ a.req = s.req /\ a.path = s.path /\ a.kept = s.kept /\ a.net = s.net
            /\ a.at = s.at /\ a.moved = s.moved /\ a.stat = s.stat /\ a.fd = s.fd /\ a.code = 201
            /\ a.got = s.got /\ a.off = s.off /\ a.want = s.want
        BY <4>2 DEF ChildRecord, Answer
      <4>4. QED
        BY <1>2, <4>1, <4>3 DEF i
    <3>3. a.disturbed = s.disturbed
      BY <1>1 DEF ChildRecord, Answer
    <3> HIDE DEF a
    <3>4. Progress(a) /\ There(a, ino)
      BY <1>1, <1>2, <3>2 DEF Progress, StationsOf, There, i
    <3>5. Stores(a, ino)
      BY <1>1, <1>4, <2>1, <3>2, <3>3, SMT DEF Stores, Ino
    <3>6. ~Looked(a)
      BY <1>2, <3>2 DEF Looked, Sending
    <3>7. ChildOK(a, ino)
      BY <3>2, <3>4, <3>5, <3>6, <1>2 DEF ChildOK, Seen, SentSo, Finds, Lists, Looked
    <3>8. NetOf(a) = NetOf(s)
      BY <1>1, <1>2, <3>2 DEF NetOf, Told
    <3>9. QED
      BY <1>1, <1>2, <1>7, <3>1, <3>2, <3>7, <3>8, StillSettled
  <2>2. CASE ~(s.off = s.want /\ s.want > 0)
    <3>1. Change(c, 0, Answer(s, 400))
      BY <1>7, <2>2
    <3>2. /\ ChildOK(Answer(s, 400), ino) /\ NetOf(Answer(s, 400)) = NetOf(s)
          /\ Answer(s, 400).req = s.req /\ Answer(s, 400).at = s.at /\ Answer(s, 400).moved = s.moved
      BY <1>1, <1>2, AnswerOK
    <3>3. QED
      BY <1>1, <1>2, <1>7, <3>1, <3>2, StillSettled
  <2>3. QED
    BY <2>1, <2>2
<1>8. QED
  BY <1>6, <1>7 DEF PutSave, i

-----------------------------------------------------------------------------
(* The steps of MKCOL, MOVE and DELETE *)

\* A MKCOL makes nothing where something is,
LEMMA MkcolStatSettled ==
  ASSUME FilesAssumption, Known, NEW c \in Child, MkcolStat(c)
  PROVE  Settled(c)
<1> DEFINE s == child[c]
           a == [s EXCEPT !.pc = "mkdir"]
<1>1. /\ s \in ChildRecord /\ s.pc = "mkcol" /\ NetOf(s) = s.net /\ Progress(s) /\ There(s, ino)
  BY ChildFields DEF MkcolStat, At
<1>2. s.req.op = "mkcol" /\ s.req \in Request /\ s.kept = {}
  BY <1>1, OpOf, ChildFields
<1>3. CASE Stat(s.path).kind # "none"
  <2>1. Now(c, Answer(s, 403))
    BY <1>3 DEF MkcolStat
  <2>2. /\ ChildOK(Answer(s, 403), ino) /\ NetOf(Answer(s, 403)) = NetOf(s)
        /\ Answer(s, 403).req = s.req /\ Answer(s, 403).at = s.at /\ Answer(s, 403).moved = s.moved
    BY <1>1, <1>2, AnswerOK
  <2>3. QED
    BY <2>1, <2>2, NowSettled
<1>4. CASE Stat(s.path).kind = "none"
  <2>1. Now(c, a)
    BY <1>4 DEF MkcolStat
  <2>2. /\ a \in ChildRecord /\ a.pc = "mkdir" /\ a.req = s.req /\ a.path = s.path /\ a.kept = {} /\ a.net = s.net
        /\ a.at = s.at /\ a.moved = s.moved /\ a.stat = s.stat /\ a.fd = s.fd /\ a.code = s.code /\ a.got = s.got
    BY <1>1, <1>2 DEF ChildRecord, Stations
  <2> HIDE DEF a
  <2>3. Progress(a) /\ There(a, ino) /\ ~Looked(a) /\ ~Saving(a)
    BY <1>1, <1>2, <2>2 DEF Progress, StationsOf, There, Looked, Sending, Saving
  <2>4. ChildOK(a, ino) /\ NetOf(a) = NetOf(s)
    BY <1>1, <2>2, <2>3, QuietOK DEF NetOf
  <2>5. QED
    BY <2>1, <2>2, <2>4, NowSettled
<1>5. QED
  BY <1>3, <1>4

\* ...but a name more where nothing is.
LEMMA MkdirSettled ==
  ASSUME FilesAssumption, Known, NEW c \in Child, Mkdir(c)
  PROVE  Settled(c)
<1> DEFINE s == child[c]
           p == s.path
<1>1. /\ s \in ChildRecord /\ s.pc = "mkdir" /\ NetOf(s) = s.net /\ Progress(s) /\ There(s, ino)
      /\ s.path \in Seq(Name) /\ GoodTree(ino) /\ clock \in Nat /\ s.stat \in StatRecord /\ s.fd \in Ino \cup {0}
  BY ChildFields DEF Mkdir, At, Known
<1>2. s.req.op = "mkcol" /\ s.req \in Request /\ s.kept = {} /\ s.net = 0
  <2>1. s.req.op = "mkcol" /\ s.req \in Request
    BY <1>1, OpOf
  <2>2. s.kept = {} /\ s.net \in {-1, 0, 1}
    BY <2>1, ChildFields
  <2>3. QED
    BY <1>1, <2>1, <2>2 DEF Progress
<1>3. CASE Lookup(p) = 0 /\ IsDir(Parent(p))
  <2> DEFINE rec == [NoIno EXCEPT !.kind = "dir"]
             a == Answer(s, 201)
  <2>1. /\ Fresh # {} /\ ino' = Bind([ino EXCEPT ![NewIno] = rec], p, NewIno) /\ Change(c, 0, a)
        /\ clock' = clock /\ copy' = copy /\ used' = used
    BY <1>3 DEF Mkdir
  <2>2. rec \in InoRecord /\ rec.kind = "dir" /\ rec.names = NoIno.names
    BY NoInoRecord DEF InoRecord
  <2> HIDE DEF rec
  <2>3. /\ GoodTree(ino') /\ Loose(ino, ino') /\ Firm(ino, ino', 0) /\ Stays(ino, ino', 0) /\ Dated(ino, ino', clock)
        /\ Cardinality(Bindings(ino')) = Cardinality(Bindings(ino)) + 1
    BY <1>1, <1>3, <2>1, <2>2, BindNew
  <2>4. There(s, ino')
    BY <1>1, <2>3 DEF There, Stays, StatRecord
  <2>5. ChildOK(a, ino') /\ a.req = s.req /\ a.at = s.at /\ a.moved = s.moved
    BY <1>1, <1>2, <2>4, AnswerOK
  <2>6. a.pc = "answered" /\ a.code = 201 /\ a.req = s.req /\ a.net = 0
    BY <1>1, <1>2 DEF Answer, ChildRecord
  <2>7. NetOf(a) = 1
    BY <1>2, <2>6 DEF NetOf, Told
  <2>8. Cardinality(Bindings(ino')) - Cardinality(Bindings(ino)) = NetOf(a) - NetOf(s)
    BY <1>1, <1>2, <2>3, <2>7, BindingsFinite
  <2> HIDE DEF a
  <2>9. QED
    BY <1>2, <2>1, <2>3, <2>5, <2>8, ChangeSettled
<1>4. CASE ~(Lookup(p) = 0 /\ IsDir(Parent(p)))
  <2>1. Now(c, Answer(s, 500))
    BY <1>4 DEF Mkdir
  <2>2. /\ ChildOK(Answer(s, 500), ino) /\ NetOf(Answer(s, 500)) = NetOf(s)
        /\ Answer(s, 500).req = s.req /\ Answer(s, 500).at = s.at /\ Answer(s, 500).moved = s.moved
    BY <1>1, <1>2, AnswerOK
  <2>3. QED
    BY <2>1, <2>2, NowSettled
<1>5. QED
  BY <1>3, <1>4

\* What rename does.
LEMMA RenamedTree ==
  ASSUME FilesAssumption, GoodTree(ino), NEW old \in Seq(Name), NEW new \in Seq(Name), old # <<>>, new # <<>>,
         MayRename(old, new), Lookup(old) # Lookup(new), ino' = Renamed(old, new)
  PROVE  /\ GoodTree(ino') /\ Loose(ino, ino') /\ Stays(ino, ino', 0)
         /\ Cardinality(Bindings(ino')) = Cardinality(Bindings(ino)) - (IF Lookup(new) = 0 THEN 0 ELSE 1)
<1> DEFINE d == Parent(old)
           n == Last(old)
           e == Parent(new)
           m == Last(new)
           o == Lookup(old)
           k == Lookup(new)
           f == [i \in Ino |-> [x \in Name |-> IF i = e /\ x = m THEN o ELSE IF i = d /\ x = n THEN 0
                                               ELSE ino[i].names[x]]]
<1>1. /\ d \in Ino \cup {0} /\ n \in Name /\ o \in Ino \cup {0} /\ o = Follow(ino, d, n)
      /\ e \in Ino \cup {0} /\ m \in Name /\ k \in Ino \cup {0} /\ k = Follow(ino, e, m)
  BY ParentOf
<1>2. o # 0 /\ IsDir(e) /\ (k # 0 => EmptyIn(ino, k))
  BY DEF MayRename, IsEmpty, EmptyIn
<1>3. /\ o \in Ino /\ d \in Ino /\ ino[d].names[n] = o
      /\ e \in Ino /\ ino[e].kind = "dir" /\ ino[e].names[m] = k
  BY <1>1, <1>2 DEF Follow, IsDir
<1>4. ino' = [i \in Ino |-> [ino[i] EXCEPT !.names = f[i]]]
  BY DEF Renamed
<1> HIDE DEF d, n, e, m, o, k
<1>5. \A i \in Ino, x \in Name :
        f[i][x] = IF i = e /\ x = m THEN o ELSE IF i = d /\ x = n THEN 0 ELSE ino[i].names[x]
  OBVIOUS
<1>6. \A i \in Ino : f[i] \in [Name -> Ino \cup {0}] /\ ino[i] \in InoRecord
  <2>1. \A i \in Ino : ino[i] \in InoRecord
    BY DEF GoodTree
  <2>2. \A i \in Ino, x \in Name : f[i][x] \in Ino \cup {0}
    BY <1>3, <1>5, <2>1 DEF InoRecord
  <2>3. \A i \in Ino : f[i] = [x \in Name |-> f[i][x]]
    OBVIOUS
  <2> HIDE DEF f
  <2>4. QED
    BY <2>1, <2>2, <2>3
<1> HIDE DEF f
<1>7. \A i \in Ino : /\ ino'[i] \in InoRecord /\ ino'[i].names = f[i]
                     /\ ino'[i].kind = ino[i].kind /\ ino'[i].data = ino[i].data /\ ino'[i].mtime = ino[i].mtime
                     /\ ino'[i] = [ino[i] EXCEPT !.names = f[i]]
  BY <1>4, <1>6 DEF InoRecord
<1>8. ino' \in [Ino -> InoRecord]
  BY <1>4, <1>7
<1>9. \A i \in Ino \ {d, e} : ino'[i] = ino[i]
  <2>1. SUFFICES ASSUME NEW i \in Ino \ {d, e}
                 PROVE  ino'[i] = ino[i]
    OBVIOUS
  <2>2. ino[i].names \in [Name -> Ino \cup {0}] /\ \A x \in Name : f[i][x] = ino[i].names[x]
    BY <1>5, <1>6 DEF InoRecord
  <2>3. f[i] = ino[i].names
    BY <1>6, <2>2
  <2>4. QED
    BY <1>6, <1>7, <2>3 DEF InoRecord
<1>10. \A i \in Ino, x \in Name :
        ino'[i].names[x] = IF i = e /\ x = m THEN o ELSE IF i = d /\ x = n THEN 0 ELSE ino[i].names[x]
  <2>1. \A i \in Ino, x \in Name : ino'[i].names[x] = f[i][x]
    BY <1>7
  <2>2. SUFFICES ASSUME NEW i \in Ino, NEW x \in Name
                 PROVE  ino'[i].names[x] = IF i = e /\ x = m THEN o ELSE IF i = d /\ x = n THEN 0 ELSE ino[i].names[x]
    OBVIOUS
  <2>3. f[i][x] = IF i = e /\ x = m THEN o ELSE IF i = d /\ x = n THEN 0 ELSE ino[i].names[x]
    BY <1>5
  <2>4. ino'[i].names[x] = f[i][x]
    BY <2>1
  <2>5. QED
    BY <2>3, <2>4, Zenon
<1>11. k # o
  BY DEF k, o
<1>a. Moves(ino, ino', d, n, e, m, o)
  BY <1>7, <1>9, <1>10 DEF Moves
<1>12. /\ GoodTree(ino') /\ Loose(ino, ino') /\ Stays(ino, ino', 0)
       /\ Cardinality(Bindings(ino')) = Cardinality(Bindings(ino)) - (IF k = 0 THEN 0 ELSE 1)
  BY <1>1, <1>2, <1>3, <1>8, <1>11, <1>a, TreeMoved
<1>13. QED
  BY <1>12 DEF k

\* A MOVE leaves as many names, or one less when it replaces.
LEMMA MoveSettled ==
  ASSUME FilesAssumption, Known, NEW c \in Child, Move(c)
  PROVE  Settled(c)
<1> DEFINE s == child[c]
           old == s.path
           new == s.req.to
           net == IF Lookup(new) \in {0, Lookup(old)} THEN 0 ELSE -1
           b == Answer(s, 201)
           a == [b EXCEPT !.net = net]
<1>1. /\ s \in ChildRecord /\ s.pc = "move" /\ NetOf(s) = s.net /\ Progress(s) /\ There(s, ino)
      /\ s.path \in Seq(Name) /\ GoodTree(ino) /\ s.stat \in StatRecord /\ s.fd \in Ino \cup {0}
  BY ChildFields DEF Move, At, Known
<1>2. s.req.op = "move" /\ s.req \in Request /\ s.kept = {} /\ s.net = 0
  <2>1. s.req.op = "move" /\ s.req \in Request
    BY <1>1, OpOf
  <2>2. s.kept = {} /\ s.net \in {-1, 0, 1}
    BY <2>1, ChildFields
  <2>3. QED
    BY <1>1, <2>1, <2>2 DEF Progress
<1>3. old # <<>> /\ new # <<>> /\ new \in Seq(Name)
  BY <1>1, <1>2 DEF Progress, FilesAssumption
<1>4. CASE MayRename(old, new)
  <2>1. /\ ino' = Renamed(old, new) /\ Change(c, Lookup(new), a)
        /\ copy' = [copy EXCEPT !.moved = TRUE] /\ clock' = clock /\ used' = used
    BY <1>4 DEF Move
  <2>2. /\ GoodTree(ino') /\ Loose(ino, ino') /\ Stays(ino, ino', 0)
        /\ Cardinality(Bindings(ino')) - Cardinality(Bindings(ino)) = net
    <3>1. CASE Lookup(old) = Lookup(new)
      <4>1. ino' = ino
        BY <2>1, <3>1 DEF Renamed
      <4>2. QED
        BY <1>1, <3>1, <4>1, SameTree, BindingsFinite
    <3>2. CASE Lookup(old) # Lookup(new)
      <4>1. /\ GoodTree(ino') /\ Loose(ino, ino') /\ Stays(ino, ino', 0)
            /\ Cardinality(Bindings(ino')) = Cardinality(Bindings(ino)) - (IF Lookup(new) = 0 THEN 0 ELSE 1)
        BY <1>1, <1>3, <1>4, <2>1, <3>2, RenamedTree
      <4>2. QED
        BY <3>2, <4>1, BindingsFinite
    <3>3. QED
      BY <3>1, <3>2
  <2>3. net \in {-1, 0, 1}
    OBVIOUS
  <2> HIDE DEF net
  <2>4. Lookup(new) \in Ino \cup {0} /\ Stays(ino, ino', Lookup(new))
    <3>1. Lookup(new) \in Ino \cup {0}
      BY <1>1, <1>3, LookupThere DEF Lookup
    <3>2. \A j \in Ino : j # 0
      BY SMT DEF Ino
    <3>3. QED
      BY <2>2, <3>1, <3>2 DEF Stays
  <2>5. There(s, ino')
    BY <1>1, <2>2 DEF There, Stays, StatRecord
  <2>6. ChildOK(b, ino') /\ b.req = s.req /\ b.at = s.at /\ b.moved = s.moved
    BY <1>1, <1>2, <2>5, AnswerOK
  <2>7. b.pc = "answered" /\ b.code = 201 /\ b.kept = s.kept /\ b \in ChildRecord /\ Progress(b) /\ There(b, ino')
    BY <1>1, <2>6 DEF Answer, ChildRecord, ChildOK
  <2> HIDE DEF b
  <2>8. /\ a \in ChildRecord /\ a.pc = "answered" /\ a.req = s.req /\ a.path = b.path /\ a.kept = {} /\ a.net = net
        /\ a.at = s.at /\ a.moved = s.moved /\ a.stat = b.stat /\ a.fd = b.fd /\ a.code = 201 /\ a.got = b.got
    BY <1>2, <2>3, <2>6, <2>7 DEF ChildRecord
  <2> HIDE DEF a
  <2>9. Progress(a)
    <3>1. net # 1
      BY SMT DEF net
    <3>2. QED
      BY <1>2, <2>6, <2>7, <2>8, <3>1 DEF Progress
  <2>10. There(a, ino') /\ ~Looked(a) /\ ~Saving(a)
    BY <1>2, <2>7, <2>8 DEF There, Looked, Sending, Saving
  <2>11. ChildOK(a, ino')
    BY <2>8, <2>9, <2>10, QuietOK
  <2>12. NetOf(a) = net
    BY <1>2, <2>3, <2>8 DEF NetOf, Told
  <2>13. Cardinality(Bindings(ino')) - Cardinality(Bindings(ino)) = NetOf(a) - NetOf(s)
    BY <1>1, <1>2, <2>2, <2>3, <2>12
  <2>14. QED
    BY <1>2, <2>1, <2>2, <2>4, <2>8, <2>11, <2>13, ChangeSettled
<1>5. CASE ~MayRename(old, new)
  <2>1. Now(c, Answer(s, 500))
    BY <1>5 DEF Move
  <2>2. /\ ChildOK(Answer(s, 500), ino) /\ NetOf(Answer(s, 500)) = NetOf(s)
        /\ Answer(s, 500).req = s.req /\ Answer(s, 500).at = s.at /\ Answer(s, 500).moved = s.moved
    BY <1>1, <1>2, AnswerOK
  <2>3. QED
    BY <2>1, <2>2, NowSettled
<1>6. QED
  BY <1>4, <1>5

\* A DELETE takes a look,
LEMMA DeleteStatSettled ==
  ASSUME FilesAssumption, Known, NEW c \in Child, DeleteStat(c)
  PROVE  Settled(c)
<1> DEFINE s == child[c]
           r == [s EXCEPT !.stat = Stat(s.path)]
           a == [r EXCEPT !.pc = "remove"]
<1>1. /\ s \in ChildRecord /\ s.pc = "delete" /\ NetOf(s) = s.net /\ Progress(s)
  BY ChildFields DEF DeleteStat, At
<1>2. s.req.op = "delete" /\ s.req \in Request /\ s.kept = {} /\ s.code = 0 /\ s.got = <<>>
  BY <1>1, OpOf, ChildFields DEF Progress
<1>3. /\ r \in ChildRecord /\ Progress(r) /\ There(r, ino) /\ r.pc = "delete" /\ r.req = s.req
      /\ r.kept = {} /\ r.net = s.net /\ r.at = s.at /\ r.moved = s.moved /\ r.code = 0 /\ r.got = <<>>
  BY <1>1, <1>2, StatTaken
<1>4. Now(c, IF r.stat.kind = "none" THEN Answer(r, 404) ELSE a)
  BY DEF DeleteStat
<1> HIDE DEF r
<1>5. CASE r.stat.kind = "none"
  <2>1. Now(c, Answer(r, 404))
    BY <1>4, <1>5
  <2>2. /\ ChildOK(Answer(r, 404), ino) /\ NetOf(Answer(r, 404)) = NetOf(s)
        /\ Answer(r, 404).req = s.req /\ Answer(r, 404).at = s.at /\ Answer(r, 404).moved = s.moved
    BY <1>1, <1>2, <1>3, AnswerOK
  <2>3. QED
    BY <2>1, <2>2, NowSettled
<1>6. CASE r.stat.kind # "none"
  <2>1. Now(c, a)
    BY <1>4, <1>6
  <2>2. /\ a \in ChildRecord /\ a.pc = "remove" /\ a.req = s.req /\ a.path = r.path /\ a.kept = {} /\ a.net = s.net
        /\ a.at = s.at /\ a.moved = s.moved /\ a.stat = r.stat /\ a.fd = r.fd /\ a.code = 0 /\ a.got = <<>>
    BY <1>2, <1>3 DEF ChildRecord, Stations
  <2> HIDE DEF a
  <2>3. Progress(a) /\ There(a, ino) /\ ~Looked(a) /\ ~Saving(a)
    BY <1>2, <1>3, <2>2 DEF Progress, StationsOf, There, Looked, Sending, Saving
  <2>4. ChildOK(a, ino) /\ NetOf(a) = NetOf(s)
    BY <1>1, <2>2, <2>3, QuietOK DEF NetOf
  <2>5. QED
    BY <2>1, <2>2, <2>4, NowSettled
<1>7. QED
  BY <1>5, <1>6

\* ...and removes one name.
LEMMA UnlinkSettled ==
  ASSUME FilesAssumption, Known, NEW c \in Child, Unlink(c)
  PROVE  Settled(c)
<1> DEFINE s == child[c]
           p == s.path
           i == Lookup(p)
           may == i # 0 /\ ino[i].kind = s.stat.kind /\ IsEmpty(i)
<1>1. /\ s \in ChildRecord /\ s.pc = "remove" /\ NetOf(s) = s.net /\ Progress(s) /\ There(s, ino)
      /\ s.path \in Seq(Name) /\ GoodTree(ino) /\ clock \in Nat /\ s.stat \in StatRecord /\ s.fd \in Ino \cup {0}
  BY ChildFields DEF Unlink, At, Known
<1>2. s.req.op = "delete" /\ s.req \in Request /\ s.kept = {} /\ s.net = 0
  <2>1. s.req.op = "delete" /\ s.req \in Request
    BY <1>1, OpOf
  <2>2. s.kept = {} /\ s.net \in {-1, 0, 1}
    BY <2>1, ChildFields
  <2>3. QED
    BY <1>1, <2>1, <2>2 DEF Progress
<1>3. p # <<>>
  BY <1>1, <1>2 DEF Progress, FilesAssumption
<1>4. CASE may
  <2> DEFINE a == Answer(s, 204)
  <2>1. /\ ino' = Bind(ino, p, 0) /\ Change(c, i, a)
        /\ clock' = clock /\ copy' = copy /\ used' = used
    BY <1>4 DEF Unlink
  <2>2. /\ Parent(p) \in Ino \cup {0} /\ Last(p) \in Name /\ i \in Ino \cup {0}
        /\ i = Follow(ino, Parent(p), Last(p))
    BY <1>1, <1>3, ParentOf
  <2>3. i \in Ino /\ Parent(p) \in Ino /\ ino[Parent(p)].names[Last(p)] = i /\ EmptyIn(ino, i)
    BY <1>4, <2>2 DEF Follow, IsEmpty, EmptyIn
  <2> HIDE DEF i
  <2>4. /\ GoodTree(ino') /\ Loose(ino, ino') /\ Firm(ino, ino', i) /\ Stays(ino, ino', 0) /\ Dated(ino, ino', clock)
        /\ Cardinality(Bindings(ino')) = Cardinality(Bindings(ino)) - 1
    <3>1. Cuts(ino, ino', Parent(p), Last(p))
      BY <2>1 DEF Bind, Cuts
    <3>2. QED
      BY <1>1, <2>2, <2>3, <3>1, TreeCut
  <2>5. There(s, ino')
    BY <1>1, <2>4 DEF There, Stays, StatRecord
  <2>6. ChildOK(a, ino') /\ a.req = s.req /\ a.at = s.at /\ a.moved = s.moved
    BY <1>1, <1>2, <2>5, AnswerOK
  <2>7. a.pc = "answered" /\ a.code = 204 /\ a.req = s.req /\ a.net = 0
    BY <1>1, <1>2 DEF Answer, ChildRecord
  <2>8. NetOf(a) = -1
    BY <1>2, <2>7 DEF NetOf, Told
  <2>9. Cardinality(Bindings(ino')) - Cardinality(Bindings(ino)) = NetOf(a) - NetOf(s)
    BY <1>1, <1>2, <2>4, <2>8, BindingsFinite
  <2>10. Stays(ino, ino', i)
    <3>1. \A j \in Ino : j # 0
      BY SMT DEF Ino
    <3>2. QED
      BY <2>4, <3>1 DEF Stays
  <2> HIDE DEF a
  <2>11. QED
    BY <1>2, <2>1, <2>3, <2>4, <2>6, <2>9, <2>10, ChangeSettled
<1>5. CASE ~may
  <2>1. Now(c, Answer(s, 403))
    BY <1>5 DEF Unlink
  <2>2. /\ ChildOK(Answer(s, 403), ino) /\ NetOf(Answer(s, 403)) = NetOf(s)
        /\ Answer(s, 403).req = s.req /\ Answer(s, 403).at = s.at /\ Answer(s, 403).moved = s.moved
    BY <1>1, <1>2, AnswerOK
  <2>3. QED
    BY <2>1, <2>2, NowSettled
<1>6. QED
  BY <1>4, <1>5

-----------------------------------------------------------------------------
(* The steps of PROPFIND *)

\* A PROPFIND has listed nothing yet,
LEMMA PropfindSettled ==
  ASSUME FilesAssumption, Known, NEW c \in Child, Propfind(c)
  PROVE  Settled(c)
<1> DEFINE s == child[c]
           r == [s EXCEPT !.stat = Stat(s.path)]
           a == [r EXCEPT !.pc = "opendir"]
<1>1. /\ s \in ChildRecord /\ s.pc = "propfind" /\ NetOf(s) = s.net /\ Progress(s)
  BY ChildFields DEF Propfind, At
<1>2. s.req.op = "propfind" /\ s.req \in Request /\ s.kept = {} /\ s.code = 0 /\ s.got = <<>> /\ s.next = 1
  BY <1>1, OpOf, ChildFields DEF Progress
<1>3. /\ r \in ChildRecord /\ Progress(r) /\ There(r, ino) /\ r.pc = "propfind" /\ r.req = s.req
      /\ r.kept = {} /\ r.net = s.net /\ r.at = s.at /\ r.moved = s.moved /\ r.code = 0 /\ r.got = <<>> /\ r.next = 1
  BY <1>1, <1>2, StatTaken
<1>4. Now(c, IF r.stat.kind = "none" THEN Answer(r, 404)
             ELSE IF r.req.size = 0 THEN Answer(r, 207)
             ELSE IF r.req.size > 1 THEN Answer(r, 501)
             ELSE IF r.stat.kind = "file" THEN Answer(r, 404)
             ELSE a)
  BY DEF Propfind
<1> HIDE DEF r
<1>5. ASSUME NEW code \in {404, 207, 501}, Now(c, Answer(r, code))
      PROVE  Settled(c)
  <2>1. code \in Nat
    BY <1>5, SMT
  <2>2. /\ ChildOK(Answer(r, code), ino) /\ NetOf(Answer(r, code)) = NetOf(s)
        /\ Answer(r, code).req = s.req /\ Answer(r, code).at = s.at /\ Answer(r, code).moved = s.moved
    BY <1>1, <1>2, <1>3, <2>1, AnswerOK
  <2>3. QED
    BY <1>5, <2>2, NowSettled
<1>6. ASSUME Now(c, a)
      PROVE  Settled(c)
  <2>1. /\ a \in ChildRecord /\ a.pc = "opendir" /\ a.req = s.req /\ a.path = r.path /\ a.kept = {} /\ a.net = s.net
        /\ a.at = s.at /\ a.moved = s.moved /\ a.stat = r.stat /\ a.fd = r.fd /\ a.code = 0 /\ a.got = <<>>
        /\ a.next = 1
    BY <1>2, <1>3 DEF ChildRecord, Stations
  <2> HIDE DEF a
  <2>2. Progress(a) /\ There(a, ino) /\ ~Looked(a) /\ ~Saving(a)
    BY <1>2, <1>3, <2>1 DEF Progress, StationsOf, There, Looked, Sending, Saving
  <2>3. ChildOK(a, ino) /\ NetOf(a) = NetOf(s)
    BY <1>1, <2>1, <2>2, QuietOK DEF NetOf
  <2>4. QED
    BY <1>6, <2>1, <2>3, NowSettled
<1>7. QED
  BY <1>4, <1>5, <1>6

\* Where the list is right, the child is.
LEMMA ListsOK ==
  ASSUME NEW t, NEW r \in ChildRecord, Progress(r), There(r, t), r.req.op = "propfind",
         r.pc \in {"readdir", "entry", "answered"}, Lists(r, t)
  PROVE  ChildOK(r, t)
BY DEF ChildOK, Seen, SentSo, Finds, Stores, Looked, Sending, Saving

\* ...opens the directory, with the names that are in it,
LEMMA OpendirSettled ==
  ASSUME FilesAssumption, Known, NEW c \in Child, Opendir(c)
  PROVE  Settled(c)
<1> DEFINE s == child[c]
           i == Lookup(s.path)
           kept == {n \in Name : ino[i].names[n] # 0}
           a == [s EXCEPT !.pc = "readdir", !.fd = i, !.kept = kept]
<1>1. /\ s \in ChildRecord /\ s.pc = "opendir" /\ NetOf(s) = s.net /\ Progress(s) /\ There(s, ino)
      /\ s.path \in Seq(Name) /\ GoodTree(ino)
  BY ChildFields DEF Opendir, At, Known
<1>2. s.req.op = "propfind" /\ s.req \in Request /\ s.kept = {} /\ s.code = 0 /\ s.got = <<>> /\ s.next = 1
  BY <1>1, OpOf, ChildFields DEF Progress
<1>3. i \in Ino \cup {0}
  BY <1>1, LookupThere DEF Lookup
<1>4. CASE IsDir(i)
  <2>1. Now(c, a)
    BY <1>4 DEF Opendir
  <2>2. kept \in SUBSET Name /\ kept = Entries(ino, s.path) /\ i # 0 /\ ino[i].kind # "none"
    BY <1>4 DEF Entries, IsDir, Lookup
  <2>3. LookupIn(ino, s.path) = i
    BY DEF Lookup
  <2> HIDE DEF kept, i
  <2>4. /\ a \in ChildRecord /\ a.pc = "readdir" /\ a.req = s.req /\ a.path = s.path /\ a.kept = kept /\ a.net = s.net
        /\ a.at = s.at /\ a.moved = s.moved /\ a.stat = s.stat /\ a.fd = i /\ a.code = 0 /\ a.got = <<>>
        /\ a.next = 1
    <3>1. a \in ChildRecord
      BY <1>1, <1>3, <2>2 DEF ChildRecord, Stations
    <3>2. s \in ChildRecord
      BY <1>1
    <3>3. /\ a.pc = "readdir" /\ a.req = s.req /\ a.path = s.path /\ a.kept = kept /\ a.net = s.net
          /\ a.at = s.at /\ a.moved = s.moved /\ a.stat = s.stat /\ a.fd = i /\ a.code = s.code /\ a.got = s.got
          /\ a.next = s.next
      BY <3>2 DEF ChildRecord
    <3>4. QED
      BY <1>2, <3>1, <3>3
  <2> HIDE DEF a
  <2>5. Progress(a) /\ There(a, ino)
    BY <1>1, <1>2, <2>2, <2>4 DEF Progress, StationsOf, There
  <2>6. \A n \in kept : ~(n < a.next)
    <3>1. Cardinality(Name) \in Nat /\ Name = 1 .. Cardinality(Name)
      BY FS_CardinalityType DEF FilesAssumption
    <3>2. QED
      BY <2>2, <2>4, <3>1
  <2>7. Lists(a, ino)
    BY <1>2, <2>2, <2>3, <2>4, <2>6 DEF Lists
  <2>8. ChildOK(a, ino) /\ NetOf(a) = NetOf(s)
    BY <1>1, <1>2, <2>4, <2>5, <2>7, ListsOK DEF NetOf
  <2>9. QED
    BY <2>1, <2>4, <2>8, NowSettled
<1>5. CASE ~IsDir(i)
  <2>1. Now(c, Answer(s, 207))
    BY <1>5 DEF Opendir
  <2>2. /\ ChildOK(Answer(s, 207), ino) /\ NetOf(Answer(s, 207)) = NetOf(s)
        /\ Answer(s, 207).req = s.req /\ Answer(s, 207).at = s.at /\ Answer(s, 207).moved = s.moved
    BY <1>1, <1>2, AnswerOK
  <2>3. QED
    BY <2>1, <2>2, NowSettled
<1>6. QED
  BY <1>4, <1>5

\* The list that a child has, up to the next name.
LEMMA ListFields ==
  ASSUME FilesAssumption, Known, NEW c \in Child, child[c].pc \in {"readdir", "entry"}
  PROVE  /\ child[c].req.op = "propfind" /\ child[c].req \in Request
         /\ child[c].kept \subseteq Entries(ino, child[c].path) /\ child[c].kept \subseteq Name
         /\ child[c].fd # 0 /\ (child[c].kept # {} => LookupIn(ino, child[c].path) = child[c].fd)
         /\ \A n \in child[c].kept : n < child[c].next => n \in child[c].list
         /\ child[c].next \in Nat \ {0} /\ child[c].list \subseteq Name
         /\ child[c].code = 0 /\ child[c].got = <<>>
         /\ Name \subseteq Nat /\ \A n \in Name, k \in Nat \ {0} : k \notin Name => n < k
<1>1. child[c] \in ChildRecord /\ ChildOK(child[c], ino) /\ Progress(child[c])
  BY ChildFields
<1>2. child[c].req.op = "propfind" /\ child[c].req \in Request /\ child[c].code = 0 /\ child[c].got = <<>>
  BY <1>1, OpOf DEF Progress
<1>3. child[c].next \in Nat \ {0} /\ child[c].list \subseteq Name /\ child[c].kept \subseteq Name
  BY <1>1 DEF ChildRecord
<1>4. Cardinality(Name) \in Nat /\ Name = 1 .. Cardinality(Name)
  BY FS_CardinalityType DEF FilesAssumption
<1>5. Name \subseteq Nat /\ \A n \in Name, k \in Nat \ {0} : k \notin Name => n < k
  BY <1>4, SMT
<1>6. QED
  BY <1>1, <1>2, <1>3, <1>5 DEF ChildOK, Lists

\* ...passes a name only if it is not there,
LEMMA ReaddirSettled ==
  ASSUME FilesAssumption, Known, NEW c \in Child, Readdir(c)
  PROVE  Settled(c)
<1> DEFINE s == child[c]
<1>1. /\ s \in ChildRecord /\ s.pc = "readdir" /\ NetOf(s) = s.net /\ Progress(s) /\ There(s, ino)
      /\ s.path \in Seq(Name) /\ GoodTree(ino)
  BY ChildFields DEF Readdir, At, Known
<1>2. /\ s.req.op = "propfind" /\ s.req \in Request
      /\ s.kept \subseteq Entries(ino, s.path) /\ s.kept \subseteq Name
      /\ s.fd # 0 /\ (s.kept # {} => LookupIn(ino, s.path) = s.fd)
      /\ \A n \in s.kept : n < s.next => n \in s.list
      /\ s.next \in Nat \ {0} /\ s.list \subseteq Name /\ s.code = 0 /\ s.got = <<>>
      /\ Name \subseteq Nat /\ \A n \in Name, k \in Nat \ {0} : k \notin Name => n < k
  BY <1>1, ListFields
<1>3. CASE s.next \notin Name
  <2> DEFINE a == Answer(s, 207)
  <2>1. Now(c, a)
    BY <1>3 DEF Readdir
  <2>2. a \in ChildRecord
    BY <1>1 DEF Answer, ChildRecord, Stations
  <2>3. /\ a.pc = "answered" /\ a.req = s.req /\ a.path = s.path /\ a.kept = s.kept /\ a.net = s.net
        /\ a.at = s.at /\ a.moved = s.moved /\ a.stat = s.stat /\ a.fd = s.fd /\ a.code = 207 /\ a.got = s.got
        /\ a.next = s.next /\ a.list = s.list
    <3>1. s \in ChildRecord
      BY <1>1
    <3>2. QED
      BY <3>1 DEF Answer, ChildRecord
  <2> HIDE DEF a
  <2>4. Progress(a) /\ There(a, ino)
    BY <1>1, <1>2, <2>3 DEF Progress, StationsOf, There
  <2>5. s.kept \subseteq s.list
    BY <1>2, <1>3
  <2>6. Lists(a, ino)
    BY <1>2, <2>3, <2>5 DEF Lists
  <2>7. ChildOK(a, ino) /\ NetOf(a) = NetOf(s)
    BY <1>1, <1>2, <2>2, <2>3, <2>4, <2>6, ListsOK DEF NetOf, Told, ChildRecord
  <2>8. QED
    BY <2>1, <2>3, <2>7, NowSettled
<1>4. CASE s.next \in Name /\ ino[s.fd].names[s.next] = 0
  <2> DEFINE a == [s EXCEPT !.next = @ + 1]
  <2>1. Now(c, a)
    BY <1>4 DEF Readdir
  <2>2. a \in ChildRecord
    <3>1. s.next + 1 \in Nat \ {0}
      BY <1>2
    <3>2. QED
      BY <1>1, <3>1 DEF ChildRecord
  <2>3. /\ a.pc = s.pc /\ a.req = s.req /\ a.path = s.path /\ a.kept = s.kept /\ a.net = s.net
        /\ a.at = s.at /\ a.moved = s.moved /\ a.stat = s.stat /\ a.fd = s.fd /\ a.code = s.code /\ a.got = s.got
        /\ a.next = s.next + 1 /\ a.list = s.list
    <3>1. s \in ChildRecord
      BY <1>1
    <3>2. QED
      BY <3>1 DEF ChildRecord
  <2> HIDE DEF a
  <2>4. Progress(a) /\ There(a, ino)
    BY <1>1, <1>2, <2>3 DEF Progress, StationsOf, There
  <2>5. s.next \notin s.kept
    BY <1>2, <1>4 DEF Entries
  <2>6. \A n \in s.kept : n < s.next + 1 => n \in s.list
    <3>1. \A n, k \in Nat : n < k + 1 => n < k \/ n = k
      BY SMT
    <3>2. s.next \in Nat /\ \A n \in s.kept : n \in Nat
      BY <1>2
    <3>3. QED
      BY <1>2, <2>5, <3>1, <3>2
  <2>7. Lists(a, ino)
    BY <1>1, <1>2, <2>3, <2>6 DEF Lists
  <2>8. ChildOK(a, ino) /\ NetOf(a) = NetOf(s)
    BY <1>1, <1>2, <2>2, <2>3, <2>4, <2>7, ListsOK DEF NetOf
  <2>9. QED
    BY <2>1, <2>3, <2>8, NowSettled
<1>5. CASE s.next \in Name /\ ino[s.fd].names[s.next] # 0
  <2> DEFINE a == [s EXCEPT !.pc = "entry"]
  <2>1. Now(c, a)
    BY <1>5 DEF Readdir
  <2>2. a \in ChildRecord
    BY <1>1 DEF ChildRecord, Stations
  <2>3. /\ a.pc = "entry" /\ a.req = s.req /\ a.path = s.path /\ a.kept = s.kept /\ a.net = s.net
        /\ a.at = s.at /\ a.moved = s.moved /\ a.stat = s.stat /\ a.fd = s.fd /\ a.code = s.code /\ a.got = s.got
        /\ a.next = s.next /\ a.list = s.list
    <3>1. s \in ChildRecord
      BY <1>1
    <3>2. QED
      BY <3>1 DEF ChildRecord
  <2> HIDE DEF a
  <2>4. Progress(a) /\ There(a, ino)
    BY <1>1, <1>2, <2>3 DEF Progress, StationsOf, There
  <2>5. Lists(a, ino)
    BY <1>2, <1>5, <2>3 DEF Lists
  <2>6. ChildOK(a, ino) /\ NetOf(a) = NetOf(s)
    BY <1>1, <1>2, <2>2, <2>3, <2>4, <2>5, ListsOK DEF NetOf
  <2>7. QED
    BY <2>1, <2>3, <2>6, NowSettled
<1>6. QED
  BY <1>3, <1>4, <1>5

\* ...and lists each that still is.
LEMMA EntrySettled ==
  ASSUME FilesAssumption, Known, NEW c \in Child, Entry(c)
  PROVE  Settled(c)
<1> DEFINE s == child[c]
           there == Stat(Append(s.path, s.next)).kind # "none"
           list == IF there THEN s.list \cup {s.next} ELSE s.list
           a == [s EXCEPT !.pc = "readdir", !.next = @ + 1, !.list = list]
<1>1. /\ s \in ChildRecord /\ s.pc = "entry" /\ NetOf(s) = s.net /\ Progress(s) /\ There(s, ino)
      /\ s.path \in Seq(Name) /\ GoodTree(ino) /\ ChildOK(s, ino)
  BY ChildFields DEF Entry, At, Known
<1>2. /\ s.req.op = "propfind" /\ s.req \in Request
      /\ s.kept \subseteq Entries(ino, s.path) /\ s.kept \subseteq Name
      /\ s.fd # 0 /\ (s.kept # {} => LookupIn(ino, s.path) = s.fd)
      /\ \A n \in s.kept : n < s.next => n \in s.list
      /\ s.next \in Nat \ {0} /\ s.list \subseteq Name /\ s.code = 0 /\ s.got = <<>>
      /\ Name \subseteq Nat
  BY <1>1, ListFields
<1>3. s.next \in Name
  BY <1>1 DEF ChildOK, Lists
<1>4. Now(c, a)
  <2>1. Now(c, [s EXCEPT !.pc = "readdir", !.next = @ + 1, !.list = IF ~there THEN @ ELSE @ \cup {s.next}])
    BY DEF Entry
  <2>2. QED
    BY <2>1
<1>5. s.next \in s.kept => there
  <2>1. SUFFICES ASSUME s.next \in s.kept
                 PROVE  there
    OBVIOUS
  <2>2. /\ LookupIn(ino, Append(s.path, s.next)) = Follow(ino, LookupIn(ino, s.path), s.next)
        /\ Append(s.path, s.next) \in Seq(Name)
    BY <1>1, <1>3, LookupEntry
  <2>3. Follow(ino, LookupIn(ino, s.path), s.next) # 0
    BY <1>2, <2>1 DEF Entries, Follow
  <2>4. QED
    BY <1>1, <2>2, <2>3, StatThere DEF Lookup
<1> HIDE DEF there
<1>6. list \subseteq Name /\ s.list \subseteq list /\ (s.next \in s.kept => s.next \in list)
  BY <1>2, <1>3, <1>5
<1> HIDE DEF list
<1>7. a \in ChildRecord
  <2>1. s.next + 1 \in Nat \ {0} /\ list \in SUBSET Name
    BY <1>2, <1>6
  <2>2. QED
    BY <1>1, <2>1 DEF ChildRecord, Stations
<1>8. /\ a.pc = "readdir" /\ a.req = s.req /\ a.path = s.path /\ a.kept = s.kept /\ a.net = s.net
      /\ a.at = s.at /\ a.moved = s.moved /\ a.stat = s.stat /\ a.fd = s.fd /\ a.code = s.code /\ a.got = s.got
      /\ a.next = s.next + 1 /\ a.list = list
  <2>1. s \in ChildRecord
    BY <1>1
  <2>2. QED
    BY <2>1 DEF ChildRecord
<1> HIDE DEF a
<1>9. Progress(a) /\ There(a, ino)
  BY <1>1, <1>2, <1>8 DEF Progress, StationsOf, There
<1>10. \A n \in s.kept : n < s.next + 1 => n \in list
  <2>1. \A n, k \in Nat : n < k + 1 => n < k \/ n = k
    BY SMT
  <2>2. s.next \in Nat /\ \A n \in s.kept : n \in Nat
    BY <1>2
  <2>3. QED
    BY <1>2, <1>6, <2>1, <2>2
<1>11. Lists(a, ino)
  BY <1>2, <1>8, <1>10 DEF Lists
<1>12. ChildOK(a, ino) /\ NetOf(a) = NetOf(s)
  BY <1>1, <1>2, <1>7, <1>8, <1>9, <1>11, ListsOK DEF NetOf
<1>13. QED
  BY <1>4, <1>8, <1>12, NowSettled

-----------------------------------------------------------------------------
(* The copy of the client *)

\* The file there, if any, has the contents of the copy or was changed since.
CopyOf(k, tree, path) ==
  LET i == LookupIn(tree, path) IN
  i # 0 /\ tree[i].kind = "file" => tree[i].data = k.data \/ tree[i].mtime >= k.at

Copied ==
  /\ copy.at <= clock /\ \A c \in Child : child[c].at <= clock
  /\ \A c \in Child : child[c].req.cond # "" =>
       copy.path = child[c].req.path /\ (child[c].moved => copy.moved)
  /\ copy.path # <<0>> /\ ~copy.moved =>
       CopyOf(copy, ino, copy.path) /\ (Index # 0 => CopyOf(copy, ino, Append(copy.path, Index)))

\* A copy is still good, or older than the file, after a change that is no MOVE.
LEMMA CopyKept ==
  ASSUME NEW k, NEW t, GoodTree(t), NEW u, GoodTree(u), NEW time, k.at <= time, Gone(t, u), Dated(t, u, time),
         NEW path \in Seq(Name), CopyOf(k, t, path)
  PROVE  CopyOf(k, u, path)
<1> DEFINE a == LookupIn(t, path)
           b == LookupIn(u, path)
<1>1. a \in Ino \cup {0} /\ b \in Ino \cup {0}
  BY LookupEntry
<1>2. PICK i \in Ino \cup {0} : Firm(t, u, i)
  BY DEF Gone
<1>3. b = a \/ b = 0 \/ t[b].kind = "none"
  BY <1>2 DEF Firm
<1>4. a # 0 /\ t[a].kind = "file" => t[a].data = k.data \/ t[a].mtime >= k.at
  BY DEF CopyOf
<1> HIDE DEF a, b
<1>5. SUFFICES ASSUME b # 0, u[b].kind = "file"
               PROVE  u[b].data = k.data \/ u[b].mtime >= k.at
  BY DEF CopyOf, b
<1>6. CASE t[b].kind = "file" /\ u[b].data = t[b].data /\ u[b].mtime = t[b].mtime
  BY <1>3, <1>4, <1>5, <1>6
<1>7. CASE u[b].mtime = time
  BY <1>7, SMT
<1>8. QED
  BY <1>1, <1>5, <1>6, <1>7 DEF Dated

\* What was sent as a whole is the file.
LEMMA WholeSent ==
  ASSUME FilesAssumption, Known, NEW c \in Child, Answered(c, "get", {200}), ~child[c].disturbed
  PROVE  /\ child[c].fd \in Ino /\ ino[child[c].fd].kind = "file" /\ child[c].got = ino[child[c].fd].data
         /\ Len(child[c].got) = child[c].want
         /\ ~child[c].moved => LookupIn(ino, child[c].path) = child[c].fd
<1> DEFINE s == child[c]
           data == ino[s.fd].data
<1>1. /\ s \in ChildRecord /\ ChildOK(s, ino) /\ s.pc = "answered" /\ s.req.op = "get" /\ s.code = 200
      /\ s.fd \in Ino \cup {0} /\ s.got \in Seq(Nat) /\ Progress(s)
  BY ChildFields DEF Answered, At
<1>2. Sending(s) /\ Looked(s)
  BY <1>1 DEF Sending, Looked
<1>3. /\ s.fd = s.stat.ino /\ s.fd \in Ino /\ ino[s.fd].kind = "file" /\ s.stat.size = Len(data)
      /\ Piece(s, data) /\ (~s.moved => LookupIn(ino, s.path) = s.fd)
  BY <1>1, <1>2 DEF ChildOK, Seen, SentSo, Finds
<1>4. data \in Seq(Nat)
  BY <1>3 DEF Known, GoodTree, InoRecord
<1>5. Portion(s).code = 200
  BY <1>1, <1>3 DEF Piece
<1>6. Portion(s).from = 0 /\ Portion(s).size = Len(data)
  BY <1>3, <1>5 DEF Portion
<1> HIDE DEF data
<1>7. Len(s.got) = Len(data) /\ s.want = Len(data)
  <2>1. s.want = Len(data) /\ s.off = 0 + Len(s.got) /\ Len(s.got) <= s.want /\ (Len(s.got) = s.want \/ s.off >= Len(data))
    BY <1>1, <1>3, <1>6 DEF Piece
  <2>2. Len(s.got) \in Nat /\ Len(data) \in Nat
    BY <1>1, <1>4
  <2>3. QED
    BY <2>1, <2>2
<1>8. \A i \in 1 .. Len(s.got) : s.got[i] = data[i]
  <2>1. \A i \in 1 .. Len(s.got) : s.got[i] = data[0 + i]
    BY <1>3, <1>6 DEF Piece
  <2>2. QED
    BY <2>1, SMT
<1>9. s.got = data
  BY <1>1, <1>4, <1>7, <1>8, SameSeq
<1>10. QED
  BY <1>3, <1>7, <1>9 DEF data

-----------------------------------------------------------------------------
(* What holds in every state *)

FilesInv == Known /\ Copied /\ Accounted

\* A child without a request knows nothing.
LEMMA FreeOK ==
  ASSUME NEW t
  PROVE  ChildOK(Free, t) /\ NetOf(Free) = 0 /\ Free.pc = "free" /\ Free.net = 0
<1>1. <<>> \in Seq(Name) /\ <<>> \in Seq(Nat)
  BY SMT
<1>2. NoStat \in StatRecord /\ NoStat.ino = 0
  BY SMT DEF NoStat, StatRecord
<1>3. /\ Free.pc = "free" /\ Free.req.op = "none" /\ Free.path = <<>> /\ Free.stat = NoStat /\ Free.fd = 0
      /\ Free.off = 0 /\ Free.want = 0 /\ Free.got = <<>> /\ Free.list = {} /\ Free.next = 1 /\ Free.at = 0
      /\ Free.code = 0 /\ Free.disturbed = FALSE /\ Free.moved = FALSE /\ Free.kept = {} /\ Free.net = 0
  BY DEF Free
<1>4. Free \in ChildRecord
  <2>1. PICK path \in Seq(Name), got \in Seq(Nat), stat \in StatRecord, req \in Request \cup {Free.req} :
          path = <<>> /\ got = <<>> /\ stat = NoStat /\ req = Free.req
    BY <1>1, <1>2, Zenon
  <2>2. Free = [pc |-> "free", req |-> req, path |-> path, stat |-> stat,
         fd |-> 0, off |-> 0, want |-> 0, got |-> got, list |-> {}, next |-> 1,
         at |-> 0, code |-> 0, disturbed |-> FALSE, moved |-> FALSE, kept |-> {}, net |-> 0]
    BY <2>1, Zenon DEF Free
  <2>3. "free" \in Stations
    BY DEF Stations
  <2>4. QED
    BY <2>2, <2>3, SMT DEF ChildRecord, StatRecord
<1>5. Progress(Free)
  BY <1>3 DEF Progress, StationsOf
<1>6. There(Free, t) /\ ~Looked(Free) /\ ~Saving(Free)
  BY <1>2, <1>3 DEF There, Looked, Sending, Saving
<1>7. QED
  BY <1>3, <1>4, <1>5, <1>6, QuietOK DEF NetOf

\* A request makes or removes one name at most.
LEMMA NetType ==
  ASSUME NEW t, NEW r, ChildOK(r, t)
  PROVE  NetOf(r) \in {-1, 0, 1}
<1>1. r.net \in {-1, 0, 1} /\ Progress(r)
  BY DEF ChildOK, ChildRecord
<1>2. (r.net = 1 => r.req.op = "put") /\ (r.net = -1 => r.req.op = "move")
  BY <1>1 DEF Progress
<1>3. QED
  BY <1>1, <1>2, SMT DEF NetOf, Told

Count(f, n) == Cardinality({c \in Child : f[c] = n})

\* The children of a value are counted apart from one of them.
LEMMA CountOne ==
  ASSUME FilesAssumption, NEW c \in Child, NEW f, NEW n
  PROVE  LET rest == {x \in Child \ {c} : f[x] = n} IN
         Cardinality(rest) \in Nat /\ Count(f, n) = Cardinality(rest) + (IF f[c] = n THEN 1 ELSE 0)
<1> DEFINE rest == {x \in Child \ {c} : f[x] = n}
           all == {x \in Child : f[x] = n}
<1>1. IsFiniteSet(Child) /\ rest \in SUBSET Child
  BY DEF FilesAssumption
<1>2. IsFiniteSet(rest) /\ Cardinality(rest) \in Nat
  BY <1>1, FS_Subset, FS_CardinalityType
<1>3. c \notin rest /\ all = IF f[c] = n THEN rest \cup {c} ELSE rest
  OBVIOUS
<1> HIDE DEF rest
<1>4. CASE f[c] = n
  <2>1. all = rest \cup {c}
    BY <1>3, <1>4
  <2>2. Cardinality(rest \cup {c}) = Cardinality(rest) + 1
    BY <1>2, <1>3, FS_AddElement
  <2>3. QED
    BY <1>2, <1>4, <2>1, <2>2 DEF Count, rest
<1>5. CASE f[c] # n
  <2>1. all = rest
    BY <1>3, <1>5
  <2>2. QED
    BY <1>2, <1>5, <2>1 DEF Count, rest
<1>6. QED
  BY <1>4, <1>5

\* One child makes, or tells of, one name more or less.
LEMMA CountStep ==
  ASSUME FilesAssumption, NEW c \in Child, NEW f, NEW g, f[c] \in {-1, 0, 1}, g[c] \in {-1, 0, 1},
         \A x \in Child \ {c} : g[x] = f[x]
  PROVE  Count(g, 1) - Count(g, -1) = Count(f, 1) - Count(f, -1) + g[c] - f[c]
<1> DEFINE rest(h, n) == {x \in Child \ {c} : h[x] = n}
<1>1. \A n : rest(f, n) = rest(g, n)
  OBVIOUS
<1>2. \A n : /\ Cardinality(rest(f, n)) \in Nat
             /\ Count(f, n) = Cardinality(rest(f, n)) + (IF f[c] = n THEN 1 ELSE 0)
             /\ Count(g, n) = Cardinality(rest(g, n)) + (IF g[c] = n THEN 1 ELSE 0)
  BY CountOne
<1>3. /\ Count(f, 1) = Cardinality(rest(f, 1)) + (IF f[c] = 1 THEN 1 ELSE 0)
      /\ Count(f, -1) = Cardinality(rest(f, -1)) + (IF f[c] = -1 THEN 1 ELSE 0)
      /\ Count(g, 1) = Cardinality(rest(f, 1)) + (IF g[c] = 1 THEN 1 ELSE 0)
      /\ Count(g, -1) = Cardinality(rest(f, -1)) + (IF g[c] = -1 THEN 1 ELSE 0)
      /\ Cardinality(rest(f, 1)) \in Nat /\ Cardinality(rest(f, -1)) \in Nat
  <2>1. Cardinality(rest(g, 1)) = Cardinality(rest(f, 1)) /\ Cardinality(rest(g, -1)) = Cardinality(rest(f, -1))
    BY <1>1
  <2> HIDE DEF rest
  <2>2. QED
    BY <1>2, <2>1
<1> HIDE DEF rest
<1>4. QED
  BY <1>3, SMT

Nets == [c \in Child |-> NetOf(child[c])]

\* What is accounted for, in terms of what each child makes.
LEMMA AccountedNets ==
  ASSUME Known
  PROVE  Accounted <=> Cardinality(Bindings(ino))
                         = Cardinality(Bindings(FirstTree)) + used.net + Count(Nets, 1) - Count(Nets, -1)
<1>1. \A c \in Child : Net(c) = NetOf(child[c])
  BY DEF Net, NetOf, At
<1>2. \A n : {c \in Child : Net(c) = n} = {c \in Child : Nets[c] = n}
  BY <1>1 DEF Nets
<1>3. QED
  BY <1>2 DEF Accounted, Count

\* What a step of a request adds to the tree, the request is told, or has been.
LEMMA AccountedStep ==
  ASSUME FilesAssumption, Known, Accounted, Known', NEW c \in Child,
         \A x \in Child \ {c} : NetOf(child'[x]) = NetOf(child[x]),
         Cardinality(Bindings(ino')) - Cardinality(Bindings(ino))
           = used'.net + NetOf(child'[c]) - (used.net + NetOf(child[c]))
  PROVE  Accounted'
<1>1. NetOf(child[c]) \in {-1, 0, 1} /\ NetOf(child'[c]) \in {-1, 0, 1}
  BY NetType DEF Known
<1>2. /\ Nets[c] = NetOf(child[c]) /\ Nets'[c] = NetOf(child'[c])
      /\ \A x \in Child \ {c} : Nets'[x] = Nets[x]
  BY DEF Nets
<1>3. Count(Nets', 1) - Count(Nets', -1) = Count(Nets, 1) - Count(Nets, -1) + NetOf(child'[c]) - NetOf(child[c])
  BY <1>1, <1>2, CountStep
<1>4. Cardinality(Bindings(ino)) = Cardinality(Bindings(FirstTree)) + used.net + Count(Nets, 1) - Count(Nets, -1)
  BY AccountedNets
<1>5. used.net \in Int /\ used'.net \in Int
  BY DEF Known
<1>6. /\ Cardinality(Bindings(ino)) \in Nat /\ Cardinality(Bindings(ino')) \in Nat
      /\ Cardinality(Bindings(FirstTree)) \in Nat
  BY BindingsFinite
<1>7. \A n : Count(Nets, n) \in Nat /\ Count(Nets', n) \in Nat
  <2>1. \A n : {x \in Child : Nets[x] = n} \in SUBSET Child /\ {x \in Child : Nets'[x] = n} \in SUBSET Child
    OBVIOUS
  <2>2. QED
    BY <2>1, FS_Subset, FS_CardinalityType DEF Count, FilesAssumption
<1>8. Cardinality(Bindings(ino'))
        = Cardinality(Bindings(FirstTree)) + used'.net + Count(Nets', 1) - Count(Nets', -1)
  <2>1. Count(Nets, 1) \in Nat /\ Count(Nets, -1) \in Nat /\ Count(Nets', 1) \in Nat /\ Count(Nets', -1) \in Nat
    BY <1>7
  <2>2. NetOf(child'[c]) \in Int /\ NetOf(child[c]) \in Int
    BY <1>1
  <2>3. QED
    BY <1>3, <1>4, <1>5, <1>6, <2>1, <2>2, SMT
<1>9. (Accounted <=> Cardinality(Bindings(ino))
                         = Cardinality(Bindings(FirstTree)) + used.net + Count(Nets, 1) - Count(Nets, -1))'
  BY AccountedNets, PTL
<1>10. QED
  BY <1>8, <1>9

\* At first all are idle.
LEMMA InitInv ==
  ASSUME FilesAssumption, FilesInit
  PROVE  FilesInv
<1>1. ino = FirstTree /\ clock = 1 /\ copy = NoCopy /\ child = [c \in Child |-> Free] /\ used = [req |-> 0, net |-> 0]
  BY DEF FilesInit
<1>2. GoodTree(ino)
  <2>1. NoIno \in InoRecord
    BY NoInoRecord
  <2>2. QED
    BY <1>1 DEF FilesAssumption, GoodTree, InoRecord
<1>3. Free \in ChildRecord /\ ChildOK(Free, ino) /\ NetOf(Free) = 0
  BY FreeOK DEF ChildOK
<1>4. NoCopy \in CopyRecord
  <2>1. PICK data \in Seq(Nat) : data = <<>>
    <3>1. <<>> \in Seq(Nat)
      BY SMT
    <3>2. QED
      BY <3>1, Zenon
  <2>2. NoCopy = [path |-> <<0>>, data |-> data, size |-> 0, mtime |-> 0, at |-> 0, moved |-> FALSE]
    BY <2>1, Zenon DEF NoCopy
  <2>3. PICK path \in Seq(Name) \cup {<<0>>} : path = <<0>>
    BY Zenon
  <2>4. NoCopy = [path |-> path, data |-> data, size |-> 0, mtime |-> 0, at |-> 0, moved |-> FALSE]
    BY <2>2, <2>3, Zenon
  <2>5. QED
    BY <2>4, SMT DEF CopyRecord
<1>5. Known
  <2>1. used \in [req : Nat, net : Int]
    BY <1>1, SMT
  <2>2. child \in [Child -> ChildRecord] /\ \A c \in Child : child[c] = Free
    BY <1>1, <1>3
  <2>3. QED
    BY <1>1, <1>2, <1>3, <1>4, <2>1, <2>2 DEF Known
<1>6. Copied
  <2>1. copy.at = 0 /\ copy.path = <<0>> /\ \A c \in Child : child[c].at = 0 /\ child[c].req.cond = ""
    BY <1>1 DEF NoCopy, Free
  <2>2. 0 <= clock
    BY <1>1, SMT
  <2>3. QED
    BY <2>1, <2>2, Zenon DEF Copied
<1>7. Accounted
  <2>1. \A c \in Child : Nets[c] = 0
    BY <1>1, <1>3 DEF Nets
  <2>2. {c \in Child : Nets[c] = 1} = {} /\ {c \in Child : Nets[c] = -1} = {}
    BY <2>1
  <2>3. Count(Nets, 1) = 0 /\ Count(Nets, -1) = 0
    BY <2>2, FS_EmptySet DEF Count
  <2>4. Cardinality(Bindings(FirstTree)) \in Nat /\ used.net = 0
    BY <1>1, BindingsFinite
  <2>5. Cardinality(Bindings(ino)) = Cardinality(Bindings(FirstTree)) + used.net + Count(Nets, 1) - Count(Nets, -1)
    BY <1>1, <2>3, <2>4
  <2>6. QED
    BY <1>5, <2>5, AccountedNets
<1>8. QED
  BY <1>5, <1>6, <1>7 DEF FilesInv

-----------------------------------------------------------------------------
(* The steps keep it so *)

\* After a step of a request each child knows what it thinks it does,
LEMMA KnownSettled ==
  ASSUME Known, NEW c \in Child, Settled(c)
  PROVE  Known'
<1>1. copy \in CopyRecord /\ copy' \in CopyRecord
  BY DEF Known, Settled, CopyRecord
<1>2. QED
  BY <1>1 DEF Known, Settled

\* ...the copy is as good as it was,
LEMMA CopiedSettled ==
  ASSUME FilesAssumption, Known, Copied, Known', NEW c \in Child, Settled(c)
  PROVE  Copied'
<1>1. /\ copy \in CopyRecord /\ copy'.at = copy.at /\ copy'.path = copy.path /\ clock' = clock
      /\ (copy.moved => copy'.moved)
  BY DEF Known, Settled, CopyRecord
<1>2. copy'.at <= clock' /\ \A x \in Child : child'[x].at <= clock'
  <2>1. clock <= clock
    BY SMT DEF Known
  <2>2. \A x \in Child : child'[x].at = child[x].at \/ child'[x].at = clock
    BY DEF Settled
  <2>3. QED
    BY <1>1, <2>1, <2>2 DEF Copied
<1>3. \A x \in Child : child'[x].req.cond # "" =>
        copy'.path = child'[x].req.path /\ (child'[x].moved => copy'.moved)
  <2>1. \A x \in Child : child'[x].req = child[x].req
    BY DEF Settled
  <2>2. copy'.moved \/ \A x \in Child : child'[x].moved = child[x].moved
    BY DEF Settled, Known, CopyRecord
  <2>3. QED
    BY <1>1, <2>1, <2>2 DEF Copied
<1> DEFINE holds == copy'.path # <<0>> /\ ~copy'.moved
<1>4. holds =>
        /\ CopyOf(copy', ino', copy'.path)
        /\ Index # 0 => CopyOf(copy', ino', Append(copy'.path, Index))
  <2> SUFFICES ASSUME holds
               PROVE  /\ CopyOf(copy', ino', copy'.path)
                      /\ Index # 0 => CopyOf(copy', ino', Append(copy'.path, Index))
    OBVIOUS
  <2>1. copy' = copy /\ Gone(ino, ino') /\ Dated(ino, ino', clock)
    BY DEF Settled, Known, CopyRecord
  <2>2. copy.path \in Seq(Name) /\ (Index # 0 => Append(copy.path, Index) \in Seq(Name))
    <3>1. copy.path \in Seq(Name)
      BY <1>1 DEF CopyRecord
    <3>2. Index # 0 => Index \in Name
      BY DEF FilesAssumption
    <3>3. QED
      BY <3>1, <3>2
  <2>3. CopyOf(copy, ino, copy.path) /\ (Index # 0 => CopyOf(copy, ino, Append(copy.path, Index)))
    BY <1>1 DEF Copied
  <2>4. GoodTree(ino) /\ GoodTree(ino') /\ copy.at <= clock
    BY DEF Known, Settled, Copied
  <2>5. QED
    BY <2>1, <2>2, <2>3, <2>4, CopyKept
<1>5. QED
  BY <1>2, <1>3, <1>4 DEF Copied

\* ...and so all is well.
LEMMA InvSettled ==
  ASSUME FilesAssumption, FilesInv, NEW c \in Child, Settled(c)
  PROVE  FilesInv'
<1>1. Known' /\ Known /\ Copied /\ Accounted
  BY KnownSettled DEF FilesInv
<1>2. Copied'
  BY <1>1, CopiedSettled
<1>3. Accounted'
  <2>1. used' = used /\ \A x \in Child \ {c} : NetOf(child'[x]) = NetOf(child[x])
    BY DEF Settled
  <2>2. NetOf(child[c]) \in {-1, 0, 1} /\ NetOf(child'[c]) \in {-1, 0, 1}
    BY <1>1, NetType DEF Known
  <2>3. used.net \in Int
    BY <1>1 DEF Known
  <2>4. Cardinality(Bindings(ino')) - Cardinality(Bindings(ino))
          = used'.net + NetOf(child'[c]) - (used.net + NetOf(child[c]))
    <3>1. Cardinality(Bindings(ino')) - Cardinality(Bindings(ino)) = NetOf(child'[c]) - NetOf(child[c])
      BY DEF Settled
    <3>2. QED
      BY <2>1, <2>2, <2>3, <3>1
  <2>5. QED
    BY <1>1, <2>1, <2>4, AccountedStep
<1>4. QED
  BY <1>1, <1>2, <1>3 DEF FilesInv

\* A second passes.
LEMMA InvTick ==
  ASSUME FilesAssumption, FilesInv, Tick
  PROVE  FilesInv'
<1>1. /\ clock' = clock + 1 /\ ino' = ino /\ child' = child /\ copy' = copy /\ used' = used
      /\ Known /\ Copied /\ Accounted /\ clock \in Nat
  BY DEF Tick, FilesInv, Known
<1>2. Known'
  BY <1>1 DEF Known
<1>3. Copied'
  <2>1. copy.at \in Nat /\ \A x \in Child : child[x].at \in Nat
    BY <1>1 DEF Known, CopyRecord, ChildRecord
  <2>2. \A n \in Nat : n <= clock => n <= clock'
    BY <1>1
  <2>3. QED
    BY <1>1, <2>1, <2>2 DEF Copied
<1>4. Accounted'
  BY <1>1 DEF Accounted, Net, At, Told
<1>5. QED
  BY <1>2, <1>3, <1>4 DEF FilesInv

\* A request begins.
LEMMA InvAccept ==
  ASSUME FilesAssumption, FilesInv, NEW c \in Child, Accept(c)
  PROVE  FilesInv'
<1>1. PICK r \in Request :
        /\ r.cond # "" => copy.path = r.path
        /\ child' = [child EXCEPT ![c] = [Free EXCEPT !.pc = r.op, !.req = r, !.path = r.path]]
  BY DEF Accept
<1>2. /\ child[c].pc = "free" /\ used' = [used EXCEPT !.req = @ + 1] /\ ino' = ino /\ clock' = clock /\ copy' = copy
      /\ Known /\ Copied /\ Accounted
  BY DEF Accept, FilesInv
<1> DEFINE a == [Free EXCEPT !.pc = r.op, !.req = r, !.path = r.path]
<1>3. /\ r.op \in {"get", "stat", "put", "mkcol", "move", "delete", "propfind"} /\ r.path \in Seq(Name)
  BY DEF FilesAssumption
<1>4. Free \in ChildRecord
  BY FreeOK DEF ChildOK
<1>5. a \in ChildRecord
  <2>1. r.op \in Stations /\ r \in Request \cup {Free.req}
    BY <1>3 DEF Stations
  <2>2. QED
    BY <1>3, <1>4, <2>1 DEF ChildRecord
<1>6. /\ a.pc = r.op /\ a.req = r /\ a.path = r.path /\ a.stat = NoStat /\ a.fd = 0
      /\ a.off = 0 /\ a.got = <<>> /\ a.next = 1 /\ a.at = 0
      /\ a.code = 0 /\ a.moved = FALSE /\ a.kept = {} /\ a.net = 0
  BY DEF Free
<1>7. child' = [child EXCEPT ![c] = a] /\ child \in [Child -> ChildRecord]
  BY <1>1, <1>2 DEF Known
<1> HIDE DEF a
<1>8. Progress(a)
  BY <1>3, <1>6 DEF Progress, StationsOf
<1>9. There(a, ino) /\ ~Looked(a) /\ ~Saving(a)
  BY <1>3, <1>6 DEF There, Looked, Sending, Saving, NoStat
<1>10. ChildOK(a, ino)
  BY <1>3, <1>5, <1>6, <1>8, <1>9, QuietOK
<1>11. child' \in [Child -> ChildRecord] /\ child'[c] = a /\ \A x \in Child \ {c} : child'[x] = child[x]
  BY <1>5, <1>7
<1>12. used' \in [req : Nat, net : Int] /\ used'.net = used.net /\ used.net \in Int
  BY <1>2 DEF Known
<1>13. Known'
  BY <1>2, <1>10, <1>11, <1>12 DEF Known
<1>14. Copied'
  <2>1. 0 <= clock
    BY <1>2 DEF Known
  <2>2. \A x \in Child : child'[x].at <= clock'
    BY <1>2, <1>6, <1>11, <2>1 DEF Copied
  <2>3. \A x \in Child : child'[x].req.cond # "" =>
          copy'.path = child'[x].req.path /\ (child'[x].moved => copy'.moved)
    BY <1>1, <1>2, <1>6, <1>11 DEF Copied
  <2>4. QED
    BY <1>2, <2>2, <2>3 DEF Copied
<1>15. Accounted'
  <2>1. NetOf(child[c]) = 0 /\ NetOf(child'[c]) = 0
    <3>1. child[c].net \in {-1, 0, 1} /\ Progress(child[c]) /\ child[c].req.op = "none"
      BY <1>2, ChildFields, OpOf
    <3>2. child[c].net = 0
      BY <3>1 DEF Progress
    <3>3. a.pc # "answered"
      BY <1>3, <1>6
    <3>4. QED
      BY <1>2, <1>6, <1>11, <3>2, <3>3 DEF NetOf
  <2>2. Cardinality(Bindings(ino)) \in Nat
    BY BindingsFinite
  <2>3. Cardinality(Bindings(ino')) - Cardinality(Bindings(ino))
          = used'.net + NetOf(child'[c]) - (used.net + NetOf(child[c]))
    BY <1>2, <1>12, <2>1, <2>2
  <2>4. \A x \in Child \ {c} : NetOf(child'[x]) = NetOf(child[x])
    BY <1>11
  <2>5. QED
    BY <1>2, <1>13, <2>3, <2>4, AccountedStep
<1>16. QED
  BY <1>13, <1>14, <1>15 DEF FilesInv

\* An answer is given; the client may keep what it got.
LEMMA InvFinish ==
  ASSUME FilesAssumption, FilesInv, NEW c \in Child, Finish(c)
  PROVE  FilesInv'
<1> DEFINE s == child[c]
           whole == /\ s.code = 200 /\ s.req.op = "get" /\ Len(s.got) = s.want
                    /\ \A x \in Child : child[x].req.cond = ""
           k == [path |-> s.req.path, data |-> s.got, at |-> s.at, size |-> s.stat.size, mtime |-> s.stat.mtime,
                 moved |-> s.disturbed \/ s.moved]
<1>1. /\ s.pc = "answered" /\ child' = [child EXCEPT ![c] = Free] /\ ino' = ino /\ clock' = clock
      /\ used' = [used EXCEPT !.net = @ + Told(s)] /\ copy' = (IF whole THEN k ELSE copy)
      /\ Known /\ Copied /\ Accounted
  BY DEF Finish, FilesInv, At
<1>2. /\ s \in ChildRecord /\ ChildOK(s, ino) /\ Progress(s) /\ NetOf(s) \in {-1, 0, 1} /\ NetOf(s) = Told(s)
      /\ s.path \in Seq(Name) /\ s.got \in Seq(Nat) /\ s.stat \in StatRecord /\ GoodTree(ino)
  <2>1. ChildOK(s, ino) /\ GoodTree(ino)
    BY <1>1 DEF Known
  <2>2. NetOf(s) = Told(s)
    BY <1>1 DEF NetOf
  <2>3. QED
    BY <1>1, <2>1, <2>2, ChildFields, NetType
<1>3. /\ child' \in [Child -> ChildRecord] /\ child'[c] = Free /\ \A x \in Child \ {c} : child'[x] = child[x]
      /\ \A x \in Child : ChildOK(child'[x], ino')
  <2>1. ChildOK(Free, ino) /\ Free \in ChildRecord
    BY FreeOK DEF ChildOK
  <2>2. child \in [Child -> ChildRecord] /\ \A x \in Child : ChildOK(child[x], ino)
    BY <1>1 DEF Known
  <2>3. child' \in [Child -> ChildRecord] /\ child'[c] = Free /\ \A x \in Child \ {c} : child'[x] = child[x]
    BY <1>1, <2>1, <2>2
  <2>4. QED
    BY <1>1, <2>1, <2>2, <2>3
<1>4. used \in [req : Nat, net : Int] /\ used' \in [req : Nat, net : Int] /\ used'.net = used.net + Told(s)
  <2> DEFINE told == Told(s)
  <2>a. told \in {-1, 0, 1}
    BY <1>2
  <2> HIDE DEF told
  <2>0. told \in Int
    BY <2>a, SMT
  <2>1. used \in [req : Nat, net : Int]
    BY <1>1 DEF Known
  <2>2. used' = [used EXCEPT !.net = @ + told]
    BY <1>1 DEF told
  <2>3. used' \in [req : Nat, net : Int] /\ used'.net = used.net + told
    BY <2>0, <2>1, <2>2
  <2>4. QED
    BY <2>1, <2>3 DEF told
<1>5. whole => s.req \in Request /\ s.req.path \in Seq(Name) /\ s.req.cond = ""
  BY <1>2, OpOf, <1>1 DEF FilesAssumption
<1>6. whole => k \in CopyRecord /\ k.path = s.req.path /\ k.data = s.got /\ k.at = s.at
  <2>1. (s.disturbed \/ s.moved) \in BOOLEAN
    BY <1>2 DEF ChildRecord
  <2>2. s.at \in Nat /\ s.stat.size \in Nat /\ s.stat.mtime \in Nat
    BY <1>2 DEF ChildRecord, StatRecord
  <2> DEFINE moved == s.disturbed \/ s.moved
  <2>3. moved \in BOOLEAN
    BY <2>1
  <2> HIDE DEF moved
  <2>4. k = [path |-> s.req.path, data |-> s.got, at |-> s.at, size |-> s.stat.size, mtime |-> s.stat.mtime, moved |-> moved]
    BY DEF moved
  <2> HIDE DEF k
  <2>5. QED
    BY <1>2, <1>5, <2>2, <2>3, <2>4 DEF CopyRecord
<1>7. Known'
  <2>1. copy' \in CopyRecord
    BY <1>1, <1>6 DEF Known
  <2>2. QED
    BY <1>1, <1>2, <1>3, <1>4, <2>1 DEF Known
<1>8. \A x \in Child : child'[x].at <= clock
  <2>1. clock \in Nat
    BY <1>1 DEF Known
  <2>2. Free.at = 0
    BY DEF Free
  <2>3. \A x \in Child : child[x].at <= clock
    BY <1>1 DEF Copied
  <2>4. child'[c].at <= clock
    <3>1. child'[c].at = 0
      BY <1>3, <2>2
    <3>2. QED
      BY <2>1, <3>1
  <2>5. \A x \in Child \ {c} : child'[x].at <= clock
    BY <1>3, <2>3
  <2>6. QED
    BY <2>4, <2>5
<1>9. Free.req.cond = ""
  BY DEF Free
<1>10. Accounted'
  <2>1. NetOf(child'[c]) = 0 /\ \A x \in Child \ {c} : NetOf(child'[x]) = NetOf(child[x])
    BY <1>3, FreeOK
  <2>2. Cardinality(Bindings(ino)) \in Nat /\ used.net \in Int /\ NetOf(s) \in Int
    <3>1. NetOf(s) \in Int
      BY <1>2
    <3>2. used.net \in Int
      BY <1>4
    <3>3. QED
      BY <3>1, <3>2, BindingsFinite
  <2>3. Cardinality(Bindings(ino')) - Cardinality(Bindings(ino))
          = used'.net + NetOf(child'[c]) - (used.net + NetOf(child[c]))
    <3>1. used'.net = used.net + NetOf(s)
      BY <1>2, <1>4
    <3> DEFINE d == NetOf(s)
               e == Cardinality(Bindings(ino))
               n0 == used.net
    <3>2. d \in Int /\ e \in Nat /\ n0 \in Int
      BY <2>2
    <3>3. Cardinality(Bindings(ino')) = e /\ used'.net = n0 + d /\ NetOf(child'[c]) = 0
      BY <1>1, <2>1, <3>1
    <3> HIDE DEF d, e, n0
    <3>4. Cardinality(Bindings(ino')) - e = used'.net + NetOf(child'[c]) - (n0 + d)
      BY <3>2, <3>3
    <3>5. QED
      BY <3>4 DEF d, e, n0
  <2>4. QED
    BY <1>1, <1>7, <2>1, <2>3, AccountedStep
<1>11. CASE ~whole
  <2>1. copy' = copy
    BY <1>1, <1>11
  <2>2. \A x \in Child : child'[x].req.cond # "" =>
          copy'.path = child'[x].req.path /\ (child'[x].moved => copy'.moved)
    BY <1>1, <1>3, <1>9, <2>1 DEF Copied
  <2> HIDE DEF whole, k
  <2>3. Copied'
    BY <1>1, <1>8, <2>1, <2>2 DEF Copied
  <2>4. QED
    BY <1>7, <1>10, <2>3 DEF FilesInv
<1>12. CASE whole
  <2>1. copy' = k /\ k \in CopyRecord /\ k.path = s.req.path /\ k.data = s.got /\ k.at = s.at
    BY <1>1, <1>6, <1>12
  <2>2. k.moved = (s.disturbed \/ s.moved)
    OBVIOUS
  <2>3. \A x \in Child : child'[x].req.cond = ""
    <3>1. \A x \in Child : child[x].req.cond = ""
      BY <1>12
    <3>2. \A x \in Child : child'[x] = child[x] \/ child'[x] = Free
      BY <1>3
    <3>3. QED
      BY <1>9, <3>1, <3>2, Zenon
  <2>4. ASSUME ~k.moved
        PROVE  CopyOf(k, ino, s.req.path) /\ (Index # 0 => CopyOf(k, ino, Append(s.req.path, Index)))
    <3>1. ~s.disturbed /\ ~s.moved
      BY <2>2, <2>4
    <3>2. Answered(c, "get", {200})
      BY <1>1, <1>12 DEF Answered, At
    <3>3. s.fd \in Ino /\ ino[s.fd].kind = "file" /\ s.got = ino[s.fd].data /\ LookupIn(ino, s.path) = s.fd
      BY <1>1, <3>1, <3>2, WholeSent
    <3>4. s.path = s.req.path \/ (Index # 0 /\ s.path = Append(s.req.path, Index))
      BY <1>2, <1>12 DEF Progress
    <3>5. \A n \in Name : ino[s.fd].names[n] = 0
      BY <1>2, <3>3 DEF GoodTree
    <3>6. /\ s.req.path \in Seq(Name) /\ (Index # 0 => Index \in Name)
          /\ LookupIn(ino, s.req.path) \in Ino \cup {0}
          /\ Index # 0 => LookupIn(ino, Append(s.req.path, Index)) = Follow(ino, LookupIn(ino, s.req.path), Index)
      <4>1. s.req.path \in Seq(Name)
        BY <1>5, <1>12
      <4>2. Index # 0 => Index \in Name
        BY DEF FilesAssumption
      <4> HIDE DEF whole, k
      <4>3. QED
        BY <1>2, <4>1, <4>2, LookupEntry
    <3> HIDE DEF k, whole
    <3>7. CASE s.path = s.req.path
      <4>1. Index # 0 => LookupIn(ino, Append(s.req.path, Index)) = 0
        BY <3>3, <3>5, <3>6, <3>7 DEF Follow
      <4>2. QED
        BY <2>1, <3>3, <3>7, <4>1 DEF CopyOf
    <3>8. CASE Index # 0 /\ s.path = Append(s.req.path, Index)
      <4>1. s.fd # 0
        BY <3>3, SMT DEF Ino
      <4>2. LookupIn(ino, s.req.path) # 0 => ino[LookupIn(ino, s.req.path)].kind = "dir"
        BY <1>2, <3>3, <3>6, <3>8, <4>1 DEF Follow, GoodTree
      <4>3. QED
        BY <2>1, <3>3, <3>8, <4>2 DEF CopyOf
    <3>9. QED
      BY <3>4, <3>7, <3>8
  <2>5. k.at <= clock
    BY <1>1, <2>1 DEF Copied
  <2> HIDE DEF whole, k
  <2>6. Copied'
    BY <1>1, <1>8, <2>1, <2>3, <2>4, <2>5 DEF Copied
  <2>7. QED
    BY <1>7, <1>10, <2>6 DEF FilesInv
<1>13. QED
  BY <1>11, <1>12

\* Each step of a request is as it should be.
LEMMA StepSettled ==
  ASSUME FilesAssumption, Known, NEW c \in Child,
         \/ GetStat(c) \/ GetOpen(c) \/ GetHead(c) \/ GetSend(c) \/ Look(c)
         \/ PutOpen(c) \/ PutSave(c)
         \/ MkcolStat(c) \/ Mkdir(c) \/ Move(c) \/ DeleteStat(c) \/ Unlink(c)
         \/ Propfind(c) \/ Opendir(c) \/ Readdir(c) \/ Entry(c)
  PROVE  Settled(c)
<1>1. CASE GetStat(c)
  BY <1>1, GetStatSettled
<1>2. CASE GetOpen(c)
  BY <1>2, GetOpenSettled
<1>3. CASE GetHead(c)
  BY <1>3, GetHeadSettled
<1>4. CASE GetSend(c)
  BY <1>4, GetSendSettled
<1>5. CASE Look(c)
  BY <1>5, LookSettled
<1>6. CASE PutOpen(c)
  BY <1>6, PutOpenSettled
<1>7. CASE PutSave(c)
  BY <1>7, PutSaveSettled
<1>8. CASE MkcolStat(c)
  BY <1>8, MkcolStatSettled
<1>9. CASE Mkdir(c)
  BY <1>9, MkdirSettled
<1>10. CASE Move(c)
  BY <1>10, MoveSettled
<1>11. CASE DeleteStat(c)
  BY <1>11, DeleteStatSettled
<1>12. CASE Unlink(c)
  BY <1>12, UnlinkSettled
<1>13. CASE Propfind(c)
  BY <1>13, PropfindSettled
<1>14. CASE Opendir(c)
  BY <1>14, OpendirSettled
<1>15. CASE Readdir(c)
  BY <1>15, ReaddirSettled
<1>16. CASE Entry(c)
  BY <1>16, EntrySettled
<1>17. QED
  BY <1>1, <1>2, <1>3, <1>4, <1>5, <1>6, <1>7, <1>8, <1>9, <1>10, <1>11, <1>12, <1>13, <1>14, <1>15, <1>16

\* The invariant is inductive.
LEMMA InvNext ==
  ASSUME FilesAssumption, FilesInv, [FilesNext]_filesVars
  PROVE  FilesInv'
<1>1. CASE UNCHANGED filesVars
  BY <1>1 DEF filesVars, FilesInv, Known, Copied, Accounted, Net, At, Told
<1>2. CASE Tick
  BY <1>2, InvTick
<1>3. ASSUME NEW c \in Child, Accept(c)
      PROVE  FilesInv'
  BY <1>3, InvAccept
<1>4. ASSUME NEW c \in Child, Finish(c)
      PROVE  FilesInv'
  BY <1>4, InvFinish
<1>5. ASSUME NEW c \in Child,
             \/ GetStat(c) \/ GetOpen(c) \/ GetHead(c) \/ GetSend(c) \/ Look(c)
             \/ PutOpen(c) \/ PutSave(c)
             \/ MkcolStat(c) \/ Mkdir(c) \/ Move(c) \/ DeleteStat(c) \/ Unlink(c)
             \/ Propfind(c) \/ Opendir(c) \/ Readdir(c) \/ Entry(c)
      PROVE  FilesInv'
  <2>1. Known
    BY DEF FilesInv
  <2>2. Settled(c)
    BY <1>5, <2>1, StepSettled
  <2>3. QED
    BY <2>2, InvSettled
<1>6. QED
  BY <1>1, <1>2, <1>3, <1>4, <1>5 DEF FilesNext

\* The tree is always one, and each child knows what it thinks it does.
THEOREM FilesInvariant == FilesAssumption => (FilesSpec => []FilesInv)
<1> SUFFICES ASSUME FilesAssumption
             PROVE  FilesSpec => []FilesInv
  OBVIOUS
<1>1. FilesInit => FilesInv
  BY InitInv
<1>2. FilesInv /\ [FilesNext]_filesVars => FilesInv'
  BY InvNext
<1>3. QED
  BY <1>1, <1>2, PTL DEF FilesSpec

-----------------------------------------------------------------------------
(* The properties *)

\* The last byte that was asked for, and what was sent of a range.
LEMMA RangeSent ==
  ASSUME FilesAssumption, Known, NEW c \in Child, Answered(c, "get", {206}), ~child[c].disturbed
  PROVE  LET r == child[c]
             data == ino[r.fd].data
             first == IF r.req.range[1] = -1 THEN 0 ELSE r.req.range[1]
             last == IF r.req.range[2] = -1 THEN Len(data) - 1 ELSE r.req.range[2]
         IN /\ r.req.range # <<>>
            /\ r.got = SubSeq(data, first + 1, IF last < Len(data) THEN last + 1 ELSE Len(data))
            /\ last < Len(data) => Len(r.got) = r.want
<1> DEFINE s == child[c]
           data == ino[s.fd].data
           N == Len(data)
           G == Len(s.got)
           first == IF s.req.range[1] = -1 THEN 0 ELSE s.req.range[1]
           last == IF s.req.range[2] = -1 THEN N - 1 ELSE s.req.range[2]
           upto == IF last < N THEN last + 1 ELSE N
<1>1. /\ s \in ChildRecord /\ ChildOK(s, ino) /\ s.pc = "answered" /\ s.req.op = "get" /\ s.code = 206
      /\ s.fd \in Ino \cup {0} /\ s.got \in Seq(Nat) /\ Progress(s)
  BY ChildFields DEF Answered, At
<1>2. Sending(s) /\ Looked(s)
  BY <1>1 DEF Sending, Looked
<1>3. s.fd = s.stat.ino /\ s.fd \in Ino /\ s.stat.size = N /\ Piece(s, data)
  BY <1>1, <1>2 DEF ChildOK, Seen, SentSo
<1>4. data \in Seq(Nat) /\ N \in Nat /\ G \in Nat
  <2>1. data \in Seq(Nat)
    BY <1>3 DEF Known, GoodTree, InoRecord
  <2>2. QED
    BY <1>1, <2>1
<1>5. s.req.range # <<>> /\ s.req \in Request /\ Portion(s).code = 206
  <2>1. Portion(s).code = 206
    BY <1>1, <1>3 DEF Piece
  <2>2. QED
    BY <1>1, <2>1, OpOf DEF Portion
<1>6. s.req.range \in (Nat \cup {-1}) \X (Nat \cup {-1})
  BY <1>5 DEF FilesAssumption
<1>7. s.req.range[1] \in Nat \cup {-1} /\ s.req.range[2] \in Nat \cup {-1}
  BY <1>6
<1>8. first \in Nat /\ last \in Int
  BY <1>4, <1>7
<1>9. first <= last /\ Portion(s).from = first /\ Portion(s).size = last - first + 1
  <2> DEFINE p == ParseRange(s.req.range, s.stat.size)
  <2>1. p = [ok |-> first <= last, from |-> first, size |-> last - first + 1]
    BY <1>3 DEF ParseRange
  <2>2. p.ok /\ Portion(s).from = p.from /\ Portion(s).size = p.size
    BY <1>5 DEF Portion
  <2> HIDE DEF p, first, last
  <2>3. QED
    BY <2>1, <2>2
<1> HIDE DEF first, last
<1>10. /\ s.want = last - first + 1 /\ s.off = first + G /\ G <= s.want
       /\ \A i \in 1 .. G : first + i <= N /\ s.got[i] = data[first + i]
       /\ G = s.want \/ s.off >= N
  BY <1>1, <1>3, <1>9 DEF Piece
<1> HIDE DEF data, N
<1>11. G > 0 => first + G <= N
  <2>1. G > 0 => G \in 1 .. G
    BY <1>4
  <2>2. QED
    BY <1>10, <2>1
<1> HIDE DEF G
<1>12. last < N => G = last - first + 1
  BY <1>4, <1>8, <1>9, <1>10, <1>11
<1>13. last >= N => (G = 0 /\ first >= N) \/ G = N - first
  BY <1>4, <1>8, <1>9, <1>10, <1>11
<1>14. upto \in Nat
  BY <1>4, <1>8, <1>9
<1> DEFINE sub == SubSeq(data, first + 1, upto)
<1>15. /\ sub \in Seq(Nat) /\ Len(sub) = IF first + 1 <= upto THEN upto - (first + 1) + 1 ELSE 0
       /\ \A i \in 1 .. upto - (first + 1) + 1 : sub[i] = data[first + 1 + i - 1]
  <2>1. upto <= N
    BY <1>4, <1>8 DEF upto
  <2> HIDE DEF upto
  <2>2. \A i \in first + 1 .. upto : data[i] \in Nat
    <3>1. \A i \in first + 1 .. upto : i \in 1 .. N
      BY <1>4, <1>8, <1>14, <2>1
    <3>2. \A i \in 1 .. N : data[i] \in Nat
      BY <1>4 DEF N
    <3>3. QED
      BY <3>1, <3>2
  <2>3. first + 1 \in Int /\ upto \in Int
    BY <1>8, <1>14
  <2>4. QED
    BY <2>2, <2>3, SubSeqProperties
<1>16. Len(sub) = G
  <2>1. CASE last < N
    BY <1>4, <1>8, <1>9, <1>12, <1>15, <2>1
  <2>2. CASE last >= N /\ G = N - first
    BY <1>4, <1>8, <1>15, <2>2
  <2>3. CASE last >= N /\ G = 0 /\ first >= N
    BY <1>4, <1>8, <1>15, <2>3
  <2>4. QED
    BY <1>4, <1>8, <1>13, <2>1, <2>2, <2>3
<1> HIDE DEF upto, sub
<1>17. \A i \in 1 .. G : sub[i] = s.got[i]
  <2> SUFFICES ASSUME NEW i \in 1 .. G
               PROVE  sub[i] = s.got[i]
    OBVIOUS
  <2>1. i \in 1 .. upto - (first + 1) + 1 /\ first + 1 + i - 1 = first + i
    BY <1>4, <1>8, <1>14, <1>15, <1>16
  <2>2. QED
    BY <1>10, <1>15, <2>1
<1>18. s.got \in Seq(Nat) /\ Len(s.got) = G
  BY <1>1 DEF G
<1>19. s.got = sub
  BY <1>15, <1>16, <1>17, <1>18, SameSeq
<1>20. last < N => Len(s.got) = s.want
  BY <1>10, <1>12 DEF G
<1>21. QED
  BY <1>5, <1>19, <1>20 DEF first, last, upto, N, data, sub


\* A GET announces what it sends, and that is what is there.
LEMMA HonestHolds ==
  ASSUME FilesAssumption, Known
  PROVE  GetHonest
<1> SUFFICES ASSUME NEW c \in Child, Answered(c, "get", {200, 206}), ~child[c].disturbed
             PROVE  LET r == child[c]
                        data == ino[r.fd].data
                        last == IF r.req.range = <<>> \/ r.req.range[2] = -1 THEN Len(data) - 1 ELSE r.req.range[2]
                    IN /\ r.code = 200 => r.got = data
                       /\ r.code = 206 =>
                            LET first == IF r.req.range[1] = -1 THEN 0 ELSE r.req.range[1] IN
                            r.got = SubSeq(data, first + 1, IF last < Len(data) THEN last + 1 ELSE Len(data))
                       /\ last < Len(data) => Len(r.got) = r.want
  BY DEF GetHonest
<1>1. CASE child[c].code = 200
  <2>1. Answered(c, "get", {200})
    BY <1>1 DEF Answered
  <2>2. child[c].got = ino[child[c].fd].data /\ Len(child[c].got) = child[c].want
    BY <2>1, WholeSent
  <2>3. QED
    BY <1>1, <2>2
<1>2. CASE child[c].code = 206
  <2>1. Answered(c, "get", {206})
    BY <1>2 DEF Answered
  <2>2. QED
    BY <1>2, <2>1, RangeSent
<1>3. QED
  BY <1>1, <1>2 DEF Answered

\* What is in the list, when it is complete.
LEMMA ListsHolds ==
  ASSUME Known
  PROVE  ListsAll
BY DEF ListsAll, Known, ChildOK, Lists, Answered, At

\* What is in the file, when it is saved.
LEMMA WholeHolds ==
  ASSUME Known
  PROVE  PutWhole
<1> SUFFICES ASSUME NEW c \in Child, Answered(c, "put", {201}), ~child[c].disturbed
             PROVE  ino[child[c].fd].data = [i \in 1 .. child[c].req.size |-> child[c].req.body]
  BY DEF PutWhole
<1> DEFINE s == child[c]
<1>1. Stores(s, ino) /\ Saving(s) /\ s.pc = "answered"
  BY DEF Known, ChildOK, Saving, Answered, At
<1>2. s.off = s.req.size /\ ino[s.fd].data = [i \in 1 .. s.off |-> s.req.body]
  BY <1>1 DEF Stores
<1>3. QED
  BY <1>2

\* SendsWhatIsThere: what an answer sends or lists is what is there.
THEOREM SendsWhatIsThereCorrect == FilesAssumption => (FilesSpec => []SendsWhatIsThere)
<1> SUFFICES ASSUME FilesAssumption
             PROVE  FilesSpec => []SendsWhatIsThere
  OBVIOUS
<1>1. FilesSpec => []FilesInv
  BY FilesInvariant
<1>2. FilesInv => SendsWhatIsThere
  BY HonestHolds, ListsHolds DEF FilesInv, SendsWhatIsThere
<1>3. QED
  BY <1>1, <1>2, PTL

\* DidWhatItSays: a file that was stored is what was sent, and what was made or
\* removed is accounted for.
THEOREM DidWhatItSaysCorrect == FilesAssumption => (FilesSpec => []DidWhatItSays)
<1> SUFFICES ASSUME FilesAssumption
             PROVE  FilesSpec => []DidWhatItSays
  OBVIOUS
<1>1. FilesSpec => []FilesInv
  BY FilesInvariant
<1>2. FilesInv => DidWhatItSays
  BY WholeHolds DEF FilesInv, DidWhatItSays
<1>3. QED
  BY <1>1, <1>2, PTL

\* Only the conditional GET itself can be told that its copy is good.
LEMMA ToldGood ==
  ASSUME FilesAssumption, FilesInv, [FilesNext]_filesVars, NEW c \in Child, At(c, "head"), child'[c].code = 304
  PROVE  NotModified(child[c].req.cond, child[c].stat)
<1> DEFINE s == child[c]
<1>1. Known /\ s \in ChildRecord /\ s.pc = "head" /\ s.code = 0 /\ child \in [Child -> ChildRecord]
  BY ChildFields DEF FilesInv, At, Progress, Known
<1>2. CASE UNCHANGED filesVars \/ Tick
  BY <1>1, <1>2 DEF filesVars, Tick
<1>3. ASSUME NEW d \in Child, Accept(d) \/ Finish(d)
      PROVE  NotModified(child[c].req.cond, child[c].stat)
  <2>1. d # c
    BY <1>1, <1>3 DEF Accept, Finish, At
  <2>2. \E r : child' = [child EXCEPT ![d] = r]
    BY <1>3 DEF Accept, Finish
  <2>3. child'[c] = s
    BY <1>1, <2>1, <2>2
  <2>4. QED
    BY <1>1, <2>3
<1>4. ASSUME NEW d \in Child,
             \/ GetStat(d) \/ GetOpen(d) \/ GetHead(d) \/ GetSend(d) \/ Look(d)
             \/ PutOpen(d) \/ PutSave(d)
             \/ MkcolStat(d) \/ Mkdir(d) \/ Move(d) \/ DeleteStat(d) \/ Unlink(d)
             \/ Propfind(d) \/ Opendir(d) \/ Readdir(d) \/ Entry(d)
      PROVE  NotModified(child[c].req.cond, child[c].stat)
  <2>1. CASE d # c
    <3>1. Settled(d)
      BY <1>1, <1>4, StepSettled
    <3>2. child'[c].code = s.code
      BY <2>1, <3>1 DEF Settled
    <3>3. QED
      BY <1>1, <3>2
  <2>2. CASE d = c
    <3>1. GetHead(c)
      BY <1>1, <1>4, <2>2 DEF GetStat, GetOpen, GetSend, Look, PutOpen, PutSave, MkcolStat, Mkdir, Move, DeleteStat,
         Unlink, Propfind, Opendir, Readdir, Entry, At
    <3>2. s.req \in Request /\ s.stat.size \in Nat
      BY <1>1, ChildFields DEF Progress, StatRecord
    <3> DEFINE p == Portion(s)
               next == IF s.stat.size > 0 THEN "send" ELSE "answered"
    <3>3. p.code \in {200, 206}
      BY <3>2, PortionType
    <3>4. ~NotModified(s.req.cond, s.stat) =>
            child' = [child EXCEPT ![c] =
                       [s EXCEPT !.pc = next, !.off = p.from, !.want = p.size, !.code = p.code, !.at = clock]]
      BY <3>1 DEF GetHead, Now
    <3> HIDE DEF p, next
    <3> DEFINE a == [s EXCEPT !.pc = next, !.off = p.from, !.want = p.size, !.code = p.code, !.at = clock]
    <3>a. a.code = p.code
      BY <1>1 DEF ChildRecord
    <3> HIDE DEF a
    <3>5. ~NotModified(s.req.cond, s.stat) => child'[c].code = p.code
      <4>1. ~NotModified(s.req.cond, s.stat) => child' = [child EXCEPT ![c] = a]
        BY <3>4 DEF a
      <4>2. QED
        BY <1>1, <3>a, <4>1
    <3>6. QED
      BY <3>3, <3>5
  <2>3. QED
    BY <2>1, <2>2
<1>5. QED
  BY <1>2, <1>3, <1>4 DEF FilesNext

\* What the client has, when it is told that its copy is good.
LEMMA GoodStep ==
  ASSUME FilesAssumption, FilesInv, [FilesNext]_filesVars
  PROVE  CopyIsGoodStep
<1> SUFFICES ASSUME NEW c \in Child, At(c, "head"), child'[c].code = 304, ~child[c].disturbed, ~copy.moved
             PROVE  \/ copy.data = ino[child[c].fd].data
                    \/ child[c].req.cond = "match" /\ copy.mtime >= copy.at
  BY DEF CopyIsGoodStep
<1> DEFINE s == child[c]
<1>1. NotModified(s.req.cond, s.stat)
  BY ToldGood
<1>2. Known /\ Copied /\ s \in ChildRecord /\ ChildOK(s, ino) /\ s.pc = "head" /\ Progress(s)
  BY ChildFields DEF FilesInv, At, Known
<1>3. s.req.op = "get" /\ s.req \in Request /\ s.req.path \in Seq(Name)
  BY <1>2, OpOf DEF FilesAssumption
<1>4. copy.path = s.req.path /\ ~s.moved
  BY <1>1, <1>2 DEF Copied, NotModified
<1>5. copy.path # <<0>>
  <2>1. 0 \notin Name
    <3>1. Name = 1 .. Cardinality(Name)
      BY DEF FilesAssumption
    <3>2. 0 \notin 1 .. Cardinality(Name)
      BY SMT
    <3>3. QED
      BY <3>1, <3>2, Zenon
  <2>2. <<0>> \notin Seq(Name)
    BY <2>1, SMT
  <2>3. QED
    BY <1>3, <1>4, <2>2
<1>6. Looked(s)
  BY <1>2 DEF Looked
<1>7. /\ s.fd = s.stat.ino /\ s.fd # 0 /\ ino[s.fd].kind = "file" /\ s.stat.mtime = ino[s.fd].mtime
      /\ LookupIn(ino, s.path) = s.fd
  BY <1>2, <1>4, <1>6 DEF ChildOK, Seen, Finds
<1>8. s.path = copy.path \/ (Index # 0 /\ s.path = Append(copy.path, Index))
  BY <1>2, <1>3, <1>4 DEF Progress
<1>9. CopyOf(copy, ino, s.path)
  BY <1>2, <1>5, <1>8 DEF Copied
<1>10. copy.data = ino[s.fd].data \/ ino[s.fd].mtime >= copy.at
  BY <1>7, <1>9 DEF CopyOf
<1>11. copy.at \in Nat /\ s.stat.mtime \in Nat
  BY <1>2 DEF Known, CopyRecord, ChildRecord
<1>12. QED
  BY <1>1, <1>7, <1>10, <1>11 DEF NotModified

\* CopyIsGood: a client that is told its copy is good has the file as it is.
THEOREM CopyIsGoodCorrect == FilesAssumption => (FilesSpec => CopyIsGood)
<1> SUFFICES ASSUME FilesAssumption
             PROVE  FilesSpec => CopyIsGood
  OBVIOUS
<1>1. FilesSpec => []FilesInv
  BY FilesInvariant
<1>2. FilesInv /\ [FilesNext]_filesVars => CopyIsGoodStep
  BY GoodStep
<1>3. QED
  BY <1>1, <1>2, PTL DEF FilesSpec, CopyIsGood
=============================================================================
