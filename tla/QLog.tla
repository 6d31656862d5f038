-------------------------------- MODULE QLog --------------------------------
(***************************************************************************)
(* qlog: a log file whose name is made of the time, and changes when the   *)
(* time to rotate has come.  The processes of the server inherit the log   *)
(* of the daemon, write to the same file and rotate each for itself.       *)
(***************************************************************************)
EXTENDS Integers, Sequences

CONSTANTS
  Proc, Daemon,    \* the processes, and the one that opens the log
  rotateinterval,  \* 0: never; the file names change at the same interval
  Interval,
  Zone, Shift,     \* local time is ahead of UTC by Zone, in summer by Zone + Shift
  MaxClock,        \* bound: units of time
  MaxLines         \* bound: lines that are written

LogAssumption ==
  /\ Daemon \in Proc
  /\ Interval \in Nat \ {0} /\ rotateinterval \in {0, Interval}
  /\ {Zone, Shift, MaxClock, MaxLines} \subseteq Nat

VARIABLES
  now,
  file,    \* what is in the file of each name
  screen,  \* what was written to the duplicate stream
  log,     \* of each process: where it is in a call, and its qlog_t
  mode,    \* logflush, and the duplicate: "off", "flush" or "buffer"
  written  \* history: how many lines were begun; which were reported as written,
           \* which shown, and which were lost with a buffer, of the file or the
           \* duplicate: its process was killed, or it could not be written

logVars == <<now, file, screen, log, mode, written>>

\* strftime of local time: one name for each interval.
NameAt(t) == (t + Zone + Shift) \div Interval
LogName == 0 .. NameAt(MaxClock)

\* buf and outbuf are the buffers of fp and outfp.  History: at is when the call
\* last looked at the clock, behind how old the name was when nextrotate was set.
NoLog == [pc |-> "none", fp |-> -1, buf |-> <<>>, outbuf |-> <<>>, nextrotate |-> 0,
          id |-> 0, at |-> 0, behind |-> 0]
Dead == [NoLog EXCEPT !.pc = "dead"]

LogInit ==
  /\ now = 0 /\ file = [n \in LogName |-> <<>>] /\ screen = <<>>
  /\ log = [p \in Proc |-> IF p = Daemon THEN [NoLog EXCEPT !.pc = "new"] ELSE NoLog]
  /\ mode \in [logflush : BOOLEAN, out : {"off", "flush", "buffer"}]
  /\ written = [n |-> 0, said |-> {}, shown |-> {},
                lost |-> {}, unseen |-> {}]

Ids(s) == {s[i].id : i \in 1 .. Len(s)}
Added(files, name, s) == [files EXCEPT ![name] = @ \o s]

\* A buffer that cannot be written, as on a full disk, is dropped by stdio.  (It
\* may have written a part of it: here it has not.)
Lost(s, ok) == IF ok THEN {} ELSE Ids(s)
Alive(p) == log[p].pc \notin {"none", "new", "dead"}

-----------------------------------------------------------------------------
(* _real_open: the name is made of one look at the clock... *)

\* fclose of the old file writes what is left in the buffer, or not.
Reopen(p, name) ==
  /\ log' = [log EXCEPT ![p].fp = name, ![p].buf = <<>>, ![p].at = now, ![p].pc = "next"]
  /\ \E ok \in BOOLEAN :
       /\ file' = IF ok /\ log[p].fp # -1 THEN Added(file, log[p].fp, log[p].buf) ELSE file
       /\ written' = [written EXCEPT !.lost = @ \cup Lost(log[p].buf, ok)]

\* fopen may fail; qlog() then gives up, a rotation goes on with the old file.
Open(p) ==
  /\ log[p].pc \in {"new", "open"}
  /\ \/ log[p].fp # NameAt(now) /\ Reopen(p, NameAt(now))
     \/ /\ log' = [log EXCEPT ![p].pc = IF @ = "new" THEN "dead" ELSE "next", ![p].at = now]
        /\ UNCHANGED <<file, written>>
  /\ UNCHANGED <<now, screen, mode>>

\* Mutant of NextRotate: the interval is counted from now on.
NextRotateRelative(t) == t + rotateinterval

\* The end of the interval, in standard time: mktime takes what gmtime made
\* for a local time that is not summer time.
NextRotate(t) == ((t + Zone) \div rotateinterval + 1) * rotateinterval - Zone

\* ...and the time of the next rotation of another.
SetNext(p) ==
  /\ log[p].pc = "next"
  /\ log' = [log EXCEPT
       ![p].nextrotate = IF rotateinterval = 0 THEN 0 ELSE NextRotate(now),
       ![p].at = now, ![p].behind = NameAt(now) - log[p].fp,
       ![p].pc = IF log[p].id = 0 THEN "ready" ELSE "print"]
  /\ UNCHANGED <<now, file, screen, mode, written>>

-----------------------------------------------------------------------------
(* write_ *)

\* The duplicate, and the look at the clock.  What becomes of the duplicate is not
\* looked at.
Begin(p) ==
  /\ log[p].pc = "ready" /\ written.n < MaxLines
  /\ LET line == [id |-> written.n + 1, at |-> now, behind |-> 0]
         due == log[p].nextrotate > 0 /\ now >= log[p].nextrotate
     IN /\ log' = [log EXCEPT ![p].id = line.id, ![p].at = now,
                     ![p].pc = IF due THEN "open" ELSE "print",
                     ![p].outbuf = IF mode.out = "buffer" THEN Append(@, line) ELSE @]
        /\ \E ok \in BOOLEAN :
             /\ screen' = IF ok /\ mode.out = "flush" THEN Append(screen, line) ELSE screen
             /\ written' = [written EXCEPT !.n = @ + 1,
                  !.shown = IF mode.out = "off" THEN @ ELSE @ \cup {line.id},
                  !.unseen = IF mode.out = "flush" THEN @ \cup Lost(<<line>>, ok) ELSE @]
  /\ UNCHANGED <<now, file, mode>>

Printed(p, left, files, said, lost) ==
  /\ log' = [log EXCEPT ![p].pc = "ready", ![p].id = 0, ![p].at = 0, ![p].buf = left]
  /\ file' = files
  /\ written' = [written EXCEPT !.said = @ \cup said, !.lost = @ \cup lost]

PrintLine(p) ==
  /\ log[p].pc = "print"
  /\ LET l == log[p]
         all == Append(l.buf, [id |-> l.id, at |-> l.at, behind |-> l.behind])
     IN \/ ~mode.logflush /\ Printed(p, all, file, {l.id}, {})
        \/ mode.logflush /\ Printed(p, <<>>, Added(file, l.fp, all), {l.id}, {})
        \* fflush fails, which nobody looks at,
        \/ mode.logflush /\ Printed(p, <<>>, file, {l.id}, Ids(all))
        \* or fprintf does: it had to write the buffer, and could not.
        \/ Printed(p, <<>>, file, {}, Ids(l.buf))
  /\ UNCHANGED <<now, screen, mode>>

-----------------------------------------------------------------------------
(* flush, free, and what becomes of the processes *)

Flushed(p) ==
  /\ \E ok, shown \in BOOLEAN :
       /\ file' = IF ok THEN Added(file, log[p].fp, log[p].buf) ELSE file
       /\ screen' = IF shown THEN screen \o log[p].outbuf ELSE screen
       /\ written' = [written EXCEPT !.lost = @ \cup Lost(log[p].buf, ok),
                                      !.unseen = @ \cup Lost(log[p].outbuf, shown)]
  /\ UNCHANGED <<now, mode>>

\* Or stdio does it, when a buffer is full.
Flush(p) ==
  /\ log[p].pc = "ready" /\ log[p].buf \o log[p].outbuf # <<>>
  /\ Flushed(p) /\ log' = [log EXCEPT ![p].buf = <<>>, ![p].outbuf = <<>>]

\* childEnd, which a signal may start in the middle of a call; daemonEnd.
FreeLog(p) ==
  /\ Alive(p) /\ (p = Daemon => log[p].pc = "ready")
  /\ Flushed(p) /\ log' = [log EXCEPT ![p] = Dead]

\* The daemon keeps nothing in its buffers when it forks: its logs are flushed,
\* and only children write to the access log.
Fork(q) ==
  /\ log[Daemon].pc = "ready" /\ log[q].pc = "none"
  /\ log[Daemon].buf = <<>> /\ log[Daemon].outbuf = <<>>
  /\ log' = [log EXCEPT ![q] = log[Daemon]]
  /\ UNCHANGED <<now, file, screen, mode, written>>

Kill(p) ==
  /\ Alive(p)
  /\ log' = [log EXCEPT ![p] = Dead]
  /\ written' = [written EXCEPT !.lost = @ \cup Ids(log[p].buf),
                                 !.unseen = @ \cup Ids(log[p].outbuf)]
  /\ UNCHANGED <<now, file, screen, mode>>

LogTick == now < MaxClock /\ now' = now + 1 /\ UNCHANGED <<file, screen, log, mode, written>>

LogNext ==
  \/ \E p \in Proc : Open(p) \/ SetNext(p) \/ Begin(p) \/ PrintLine(p)
  \/ \E p \in Proc : Flush(p) \/ FreeLog(p) \/ Fork(p) \/ Kill(p)
  \/ LogTick

LogSpec == LogInit /\ [][LogNext]_logVars

-----------------------------------------------------------------------------
(* Properties *)

\* What was written, by its place, and what is in the buffers on the way to it.
Texts(out, buf) ==
  [s \in ({"out"} \X DOMAIN out) \cup ({"buf"} \X DOMAIN buf) |->
     IF s[1] = "out" THEN out[s[2]] ELSE buf[s[2]]]

InLog == Texts(file, [p \in Proc |-> log[p].buf])
OnScreen == Texts([s \in {0} |-> screen], [p \in Proc |-> log[p].outbuf])

Once(ids, texts) ==
  \A i \in ids :
    \E s \in DOMAIN texts : \E k \in 1 .. Len(texts[s]) :
      /\ texts[s][k].id = i
      /\ \A t \in DOMAIN texts : \A l \in 1 .. Len(texts[t]) :
           texts[t][l].id = i => t = s /\ l = k

\* A line that was reported as written is in one file, once, whoever rotates, ends
\* or is killed, unless it was in a buffer that was lost: its process was killed or it
\* could not be written.
LinesOnce ==
  /\ Once(written.said \ written.lost, InLog)
  /\ Once(written.shown \ written.unseen, OnScreen)

\* A line goes to the file of its time.  If the clock passed a boundary while the
\* file was opened, or it could not be opened, then it goes to one that is just as
\* old as it was at that time, until the next rotation.
InPlace ==
  rotateinterval > 0 =>
    \A n \in LogName : \A i \in 1 .. Len(file[n]) :
      n = NameAt(file[n][i].at) - file[n][i].behind

\* What a log is for.
LogKept == LinesOnce /\ InPlace
=============================================================================
