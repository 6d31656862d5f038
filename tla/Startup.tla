------------------------------ MODULE Startup ------------------------------
(***************************************************************************)
(* Servers of one configuration that start, end and die: main and the      *)
(* first half of daemonStart, daemonEnd without its wait for the children. *)
(* They share the pid file, the port, and semaphores and memory whose key  *)
(* is made of the pid file's inode (ftok).                                 *)
(***************************************************************************)
EXTENDS Integers, Sequences, FiniteSets

CONSTANTS
  Inst,  \* the instances, each started once
  Inode  \* the inode numbers a pid file may get

StartupAssumption == 0 \notin Inst \cup Inode /\ Inode # {}

VARIABLES
  inst,   \* what each instance is doing, and how it ended
  pid,    \* the pid file: its inode, 0 if there is none, and who is in it
  ipc,    \* which instance made the semaphores and the memory of each key
  port,   \* who listens; an instance that died may have left children
  raced   \* history: an instance found no pid file while another lived

startVars == <<inst, pid, ipc, port, raced>>

None == 0
Kinds == {"sem", "shm"}

\* of: the kind it is making or removing, and key the key it computed for that;
\* path: "other" if a reload has given the pid file another name; why: the reason
\* it ended, "" if it was told to.
New == [pc |-> "new", of |-> "sem", key |-> None, path |-> "same", why |-> ""]

StartInit ==
  /\ inst = [i \in Inst |-> New]
  /\ pid = [ino |-> None, by |-> None]
  /\ ipc = [k \in Kinds |-> [n \in Inode |-> None]]
  /\ port = None /\ raced = FALSE

Go(i, r) == inst' = [inst EXCEPT ![i] = r]

IsAt(i, pc) == inst[i].pc = pc
Lives(i) == inst[i].pc \notin {"new", "dead", "ended"}

\* daemonEnd, for a reason.
End(r, why) == [r EXCEPT !.pc = "close", !.key = None, !.why = why]

-----------------------------------------------------------------------------
(* Start *)

\* There is an instance that lives, although there is no pid file.
Another == pid.ino = None /\ \E j \in Inst : Lives(j)

\* main; then the logs are opened, which may fail.
CheckPid(i) ==
  /\ IsAt(i, "new")
  /\ IF pid.ino # None
     THEN Go(i, [inst[i] EXCEPT !.pc = "dead", !.why = "pid"]) /\ UNCHANGED raced
     ELSE /\ Go(i, [inst[i] EXCEPT !.pc = "save"])
          /\ raced' = (raced \/ Another)
  /\ UNCHANGED <<pid, ipc, port>>

\* A full disk, or a directory that is not there.
SaveFails(i) ==
  /\ IsAt(i, "save")
  /\ Go(i, End(inst[i], "disk"))
  /\ UNCHANGED <<pid, ipc, port, raced>>

SavePid(i) ==
  /\ IsAt(i, "save")
  /\ \E n \in Inode : pid' = [ino |-> IF pid.ino = None THEN n ELSE pid.ino, by |-> i]
  /\ Go(i, [inst[i] EXCEPT !.pc = "init"])
  /\ UNCHANGED <<ipc, port, raced>>

\* The semaphores come first, then the memory; or the kernel gives none, for a
\* limit of its own.  Memory that is there may not get attached (qshm_get):
\* poolInit fails then, and has not kept its identifier.
Made(i, kind, n) ==
  \/ /\ ipc' = [ipc EXCEPT ![kind][n] = i]
     /\ \/ Go(i, [inst[i] EXCEPT !.pc = IF kind = "sem" THEN "init" ELSE "bind", !.of = "shm",
                                 !.key = None])
        \/ kind = "shm" /\ Go(i, End(inst[i], "attach"))
  \/ Go(i, End(inst[i], "limit")) /\ UNCHANGED ipc

\* What an instance has made and does not know of.
Unknown(i) == IF inst[i].why = "attach" THEN {"shm"} ELSE {}

\* qsem_init and qshm_init (through poolInit): the key must be free...
InitIpc(i, kind) ==
  /\ IsAt(i, "init") /\ inst[i].of = kind
  /\ LET n == pid.ino IN
     IF n = None THEN Go(i, End(inst[i], kind)) /\ UNCHANGED ipc
     ELSE IF ipc[kind][n] = None THEN Made(i, kind, n)
     ELSE Go(i, [inst[i] EXCEPT !.pc = "free", !.key = n]) /\ UNCHANGED ipc
  /\ UNCHANGED <<pid, port, raced>>

\* Mutant of FreeStale: what an earlier instance left is respected.
FreeStaleNot(i, kind) ==
  /\ IsAt(i, "free") /\ inst[i].of = kind
  /\ Go(i, [inst[i] EXCEPT !.pc = "again"])
  /\ UNCHANGED <<ipc, pid, port, raced>>

\* ...or what is there is removed, by the key that the pid file has now...
FreeStale(i, kind) ==
  /\ IsAt(i, "free") /\ inst[i].of = kind
  /\ ipc' = [ipc EXCEPT ![kind] = [n \in Inode |-> IF n = pid.ino THEN None ELSE @[n]]]
  /\ Go(i, [inst[i] EXCEPT !.pc = "again"])
  /\ UNCHANGED <<pid, port, raced>>

\* ...and made again, by the key that was computed before.
InitAgain(i, kind) ==
  /\ IsAt(i, "again") /\ inst[i].of = kind
  /\ LET n == inst[i].key IN
     IF ipc[kind][n] = None THEN Made(i, kind, n)
     ELSE Go(i, End(inst[i], kind)) /\ UNCHANGED ipc
  /\ UNCHANGED <<pid, port, raced>>

BindPort(i) ==
  /\ IsAt(i, "bind")
  /\ IF port = None
     THEN port' = i /\ Go(i, [inst[i] EXCEPT !.pc = "run"])
     ELSE UNCHANGED port /\ Go(i, End(inst[i], "port"))
  /\ UNCHANGED <<pid, ipc, raced>>

-----------------------------------------------------------------------------
(* Run, end and die *)

\* SIGHUP, with another PidFile in the configuration.
Reload(i) ==
  /\ IsAt(i, "run") /\ Go(i, [inst[i] EXCEPT !.path = "other"])
  /\ UNCHANGED <<pid, ipc, port, raced>>

ToldToEnd(i) == IsAt(i, "run") /\ Go(i, End(inst[i], "")) /\ UNCHANGED <<pid, ipc, port, raced>>

Close(i) ==
  /\ IsAt(i, "close") /\ Go(i, [inst[i] EXCEPT !.pc = "rm", !.of = "shm"])
  /\ port' = IF port = i THEN None ELSE port
  /\ UNCHANGED <<pid, ipc, raced>>

\* poolFree and qsem_free, by the identifiers: only what this instance made, and
\* no more than it knows of.
Release(i, kind) ==
  /\ IsAt(i, "rm") /\ inst[i].of = kind
  /\ Go(i, [inst[i] EXCEPT !.pc = IF kind = "shm" THEN "rm" ELSE "unlink", !.of = "sem"])
  /\ ipc' = IF kind \in Unknown(i) THEN ipc
            ELSE [ipc EXCEPT ![kind] = [n \in Inode |-> IF @[n] = i THEN None ELSE @[n]]]
  /\ UNCHANGED <<pid, port, raced>>

\* Whoever is in it.
UnlinkPid(i) ==
  /\ IsAt(i, "unlink") /\ Go(i, [inst[i] EXCEPT !.pc = "ended"])
  /\ pid' = IF inst[i].path = "same" THEN [ino |-> None, by |-> None] ELSE pid
  /\ UNCHANGED <<ipc, port, raced>>

\* SIGKILL: its children go on listening.
Dies(i) ==
  /\ Lives(i)
  /\ Go(i, [End(inst[i], "killed") EXCEPT !.pc = "dead"])
  /\ UNCHANGED <<pid, ipc, port, raced>>

ChildrenEnd ==
  /\ \E i \in Inst : IsAt(i, "dead") /\ port = i
  /\ port' = None /\ UNCHANGED <<inst, pid, ipc, raced>>

\* The administrator removes the pid file of a server that is no more.
Repair ==
  /\ \A i \in Inst : ~Lives(i)
  /\ pid.ino # None /\ pid' = [ino |-> None, by |-> None]
  /\ UNCHANGED <<inst, ipc, port, raced>>

StartNext ==
  \/ \E i \in Inst :
       \/ CheckPid(i) \/ SaveFails(i) \/ SavePid(i) \/ BindPort(i)
       \/ \E kind \in Kinds :
            InitIpc(i, kind) \/ FreeStale(i, kind) \/ InitAgain(i, kind) \/ Release(i, kind)
       \/ Reload(i) \/ ToldToEnd(i) \/ Close(i) \/ UnlinkPid(i) \/ Dies(i)
  \/ ChildrenEnd \/ Repair

StartSpec == StartInit /\ [][StartNext]_startVars

-----------------------------------------------------------------------------
(* Properties *)

Has(i) == {k \in Kinds : \E n \in Inode : ipc[k][n] = i}

\* A server that runs has its semaphores and its memory, and the pid file is
\* its own, unless one was started before another had its pid file (or after the
\* other, failing, has removed one that was not its own).
RunningOwns ==
  \A i \in Inst : IsAt(i, "run") /\ ~raced => Has(i) = Kinds /\ pid.by = i

\* A server that was ended leaves nothing behind, whatever was there before, but
\* the memory it could not attach, and the pid file if a reload has given it
\* another name.
LeavesNothing ==
  \A i \in Inst : IsAt(i, "ended") =>
    Has(i) \subseteq Unknown(i) /\ (inst[i].path = "same" => pid.by # i)

\* A start fails because there is a pid file, the port is taken, the disk is full or
\* the kernel refuses; what a server that was killed has left, or one that could
\* not attach its memory, is no reason.
FailsForReason ==
  \A i \in Inst : inst[i].why \in Kinds => raced

\* What a server must be able to count on from start to end.
StartsAndEnds == RunningOwns /\ FailsForReason /\ LeavesNothing
=============================================================================
