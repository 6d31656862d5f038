------------------------------- MODULE Server -------------------------------
(***************************************************************************)
(* The daemon and its children with their signals: the loop of daemonStart *)
(* that handles one signal in each round, the reload of the configuration, *)
(* the rounds of daemonEnd, and the children from fork to exit.  The lock  *)
(* is not modelled (QSem, Pool), except that nobody gets it once the       *)
(* daemon has removed it; how many children are wanted is (Prefork), in so *)
(* far as missing ones are forked.                                         *)
(***************************************************************************)
EXTENDS Integers, FiniteSets

CONSTANTS
  Child,      \* process ids of children
  Slots,      \* m_nMaxChild
  Versions,   \* the configurations: 1, then the one of each reload
  Servers,    \* StartServers of each
  SoftRounds, HardRounds,  \* the rounds of daemonEnd: 10 and 5
  MaxFaults, MaxReloads  \* bounds, not in the code

ASSUME ServerAssumption ==
  /\ Versions \in Nat \ {0}
  /\ Servers \in [1 .. Versions -> Nat]
  /\ {Slots, SoftRounds, HardRounds, MaxFaults, MaxReloads} \subseteq Nat

VARIABLES
  dpc,      \* where the daemon is
  conf,     \* g_conf of the daemon, by its number
  dsig,     \* g_sigflags of the daemon
  nWait,    \* rounds of daemonEnd left
  moved,    \* a child was launched since the head of the daemon's loop
  newest,   \* the children forked last: the one the daemon waits for
  pc,       \* what a child is doing
  sig,      \* g_sigflags of a child
  cconf,    \* g_conf of a child: a copy of the daemon's
  slot,     \* children that are in the pool
  counted,  \* children that nRunningChilds counts
  skew,     \* what nRunningChilds counts besides, or misses: children that were
            \* killed while they wrote to the pool
  bExit,    \* children that are asked to exit
  kills, hups, reloads, \* bounds: children killed, SIGHUPs sent to children
            \* and to the daemon
  late      \* history: children the daemon did not wait for

daemonVars == <<dpc, conf, dsig, nWait, moved, newest>>
childVars  == <<pc, sig, cconf, slot, counted, skew, bExit>>
history    == <<kills, hups, reloads, late>>
vars == <<daemonVars, childVars, history>>

\* Before and after childSignalInit; in poolChildReg, with a slot; the head of the
\* loop; waiting for a connection; with one; in childEnd; there without knowing its
\* slot; waiting for a lock that is removed.
PCs == {"none", "early", "boot", "count", "head", "poll", "busy", "ending", "quit",
        "stuck", "zombie"}

Unborn(c) == pc[c] \in {"early", "boot"}
Leaving(c) == pc[c] \in {"ending", "quit", "stuck", "zombie", "none"}
Alive(c) == pc[c] \notin {"zombie", "none"}

nRunningChilds == Cardinality(counted) + skew

TypeOK ==
  /\ dpc \in {"top", "reap", "scale", "wait", "end", "sleep", "gone"}
  /\ conf \in 1 .. Versions
  /\ dsig \subseteq {"CHLD", "HUP", "TERM"}
  /\ nWait \in -1 .. SoftRounds + HardRounds
  /\ moved \in BOOLEAN /\ newest \subseteq Child
  /\ pc \in [Child -> PCs]
  /\ sig \in [Child -> SUBSET {"HUP", "TERM"}]
  /\ cconf \in [Child -> 1 .. Versions]
  /\ slot \subseteq Child /\ Cardinality(slot) <= Slots
  /\ counted \subseteq slot /\ skew \in Int
  /\ bExit \subseteq Child
  /\ kills \in Nat /\ hups \in Nat /\ kills + hups <= MaxFaults
  /\ reloads \in 0 .. MaxReloads
  /\ late \subseteq Child

Init ==
  /\ dpc = "top" /\ conf = 1 /\ dsig = {} /\ moved = FALSE /\ newest = {}
  /\ nWait = SoftRounds + HardRounds
  /\ pc = [c \in Child |-> "none"]
  /\ sig = [c \in Child |-> {}]
  /\ cconf = [c \in Child |-> 1]
  /\ slot = {} /\ counted = {} /\ skew = 0 /\ bExit = {}
  /\ kills = 0 /\ hups = 0 /\ reloads = 0 /\ late = {}

Goto(c, l) == pc' = [pc EXCEPT ![c] = l]

Pool == <<slot, counted, skew>>

-----------------------------------------------------------------------------
(* Signals of a child *)

\* childSignalInit empties the flags.
InstallHandlers(c) ==
  /\ pc[c] = "early"
  /\ Goto(c, "boot")
  /\ sig' = [sig EXCEPT ![c] = {}]
  /\ UNCHANGED <<cconf, Pool, bExit, daemonVars, history>>

\* SIGTERM takes p at once to childEnd, unless a SIGHUP is pending: the handler
\* then handles that one only, and the child is asked to exit.  Before
\* childSignalInit the flag is set, as in the daemon.
Struck(c) == Alive(c) /\ ~Leaving(c) /\ pc[c] # "early"

\* m_nMySlotId is set
HasSlotId(c) == pc[c] \in {"head", "poll", "busy"}

Deferred(c) == Struck(c) /\ "HUP" \in sig[c] /\ HasSlotId(c)

Terminated(c, W) ==
  CASE Deferred(c) -> IF c \in W THEN "ending" ELSE pc[c]
    [] Struck(c) /\ ~Deferred(c) -> IF pc[c] = "count" THEN "quit" ELSE "ending"
    [] OTHER -> pc[c]

FlagsAfterTerm(c) ==
  CASE Deferred(c)     -> (sig[c] \ {"HUP"}) \cup {"TERM"}
    [] pc[c] = "early" -> sig[c] \cup {"TERM"}
    [] OTHER           -> sig[c]

\* kill(0, SIGTERM).  A child that was deferred in poll() is interrupted by the
\* signal and leaves; one that has not called it yet goes on.
TermAll ==
  \E W \in SUBSET {c \in Child : pc[c] = "poll"} :
    /\ pc' = [c \in Child |-> Terminated(c, W)]
    /\ sig' = [c \in Child |-> FlagsAfterTerm(c)]
    /\ bExit' = bExit \cup {c \in Child : Deferred(c)}
    /\ UNCHANGED <<cconf, slot>>

\* SIGHUP is recorded; it interrupts poll(), too.
HupChild(c) ==
  /\ Alive(c) /\ kills + hups < MaxFaults
  /\ hups' = hups + 1
  /\ \/ sig' = [sig EXCEPT ![c] = @ \cup {"HUP"}] /\ UNCHANGED pc
     \/ pc[c] = "poll" /\ Goto(c, "ending") /\ UNCHANGED sig
  /\ UNCHANGED <<cconf, Pool, bExit, daemonVars, kills, reloads, late>>

-----------------------------------------------------------------------------
(* Children *)

Locked == dpc # "gone"  \* the lock exists

\* poolChildReg; a child that finds no slot ends.
Register(c) ==
  /\ pc[c] = "boot" /\ Locked
  /\ moved' = TRUE
  /\ IF Cardinality(slot) < Slots
     THEN Goto(c, "count") /\ slot' = slot \cup {c} /\ bExit' = bExit \ {c}
     ELSE Goto(c, "ending") /\ UNCHANGED <<slot, bExit>>
  /\ UNCHANGED <<sig, cconf, counted, skew, dpc, conf, dsig, nWait, newest, history>>

\* Its last assignments, which come after the one to nTotalLaunched.
Count(c) ==
  /\ pc[c] = "count" /\ Goto(c, "head")
  /\ counted' = counted \cup {c}
  /\ UNCHANGED <<sig, cconf, slot, skew, bExit, daemonVars, history>>

\* childSignalHandler and the checks that follow: a SIGHUP sets the exit
\* request that is then found, a SIGTERM ends the child.
Head(c) ==
  /\ pc[c] = "head"
  /\ IF sig[c] # {} \/ c \in bExit
     THEN Goto(c, "ending") /\ sig' = [sig EXCEPT ![c] = {}]
     ELSE Goto(c, "poll") /\ UNCHANGED sig
  /\ UNCHANGED <<cconf, Pool, bExit, daemonVars, history>>

Timeout(c) ==
  /\ pc[c] = "poll"
  /\ Goto(c, "head")
  /\ UNCHANGED <<sig, cconf, Pool, bExit, daemonVars, history>>

\* accept, and poolSetConnInfo under the lock.
Accept(c) ==
  /\ pc[c] = "poll"
  /\ Goto(c, IF Locked THEN "busy" ELSE "stuck")
  /\ UNCHANGED <<sig, cconf, Pool, bExit, daemonVars, history>>

\* httpMain returns, and poolClearConnInfo.
Finish(c) ==
  /\ pc[c] = "busy"
  /\ Goto(c, IF Locked THEN "head" ELSE "stuck")
  /\ UNCHANGED <<sig, cconf, Pool, bExit, daemonVars, history>>

\* childEnd: poolChildDel and exit.
End(c) ==
  /\ pc[c] \in {"ending", "quit", "boot"}
  /\ IF Locked
     THEN /\ pc[c] # "boot"
          /\ Goto(c, "zombie")
          /\ LET del == IF pc[c] = "ending" THEN {c} ELSE {}
             IN slot' = slot \ del /\ counted' = counted \ del
          /\ dsig' = dsig \cup {"CHLD"}
     ELSE Goto(c, "stuck") /\ UNCHANGED <<slot, counted, dsig>>
  /\ UNCHANGED <<sig, cconf, skew, bExit, dpc, conf, nWait, moved, newest, history>>

\* A child is killed or crashes: its slot stays, unless that happens between the two
\* assignments of poolChildDel.
Kill(c) ==
  /\ Alive(c) /\ Locked
  /\ kills + hups < MaxFaults /\ kills' = kills + 1
  /\ Goto(c, "zombie")
  /\ dsig' = dsig \cup {"CHLD"}
  /\ \/ UNCHANGED Pool
     \/ /\ pc[c] = "ending" /\ c \in counted
        /\ slot' = slot \ {c} /\ counted' = counted \ {c} /\ skew' = skew + 1
  /\ UNCHANGED <<sig, cconf, bExit, dpc, conf, nWait, moved, newest>>
  /\ UNCHANGED <<hups, reloads, late>>

-----------------------------------------------------------------------------
(* The daemon: its loop *)

\* SIGHUP or SIGTERM reaches the daemon.
Request(s) ==
  /\ Locked /\ s \notin dsig
  /\ dsig' = dsig \cup {s}
  /\ IF s = "HUP" THEN reloads < MaxReloads /\ reloads' = reloads + 1
     ELSE UNCHANGED reloads
  /\ UNCHANGED <<dpc, conf, nWait, moved, newest, childVars, kills, hups, late>>

\* daemonSignalHandler handles one signal: SIGCHLD, or else SIGHUP, or else
\* SIGTERM (or SIGINT).
Flagged(s) ==
  /\ s \in dsig
  /\ s = "HUP" => "CHLD" \notin dsig
  /\ s = "TERM" => dsig = {"TERM"}

Top(l) ==
  /\ dpc = "top" /\ dpc' = l
  /\ moved' = FALSE
  /\ UNCHANGED <<nWait, newest>>

NoSignal ==
  /\ dsig = {} /\ Top("scale")
  /\ UNCHANGED <<conf, dsig, childVars, history>>

ChildSignal ==
  /\ Flagged("CHLD") /\ Top("reap")
  /\ dsig' = dsig \ {"CHLD"}
  /\ UNCHANGED <<conf, childVars, history>>

\* waitpid, and poolChildDel in case the child could not do it itself, whether
\* it was counted or not.
Reap(c) ==
  /\ dpc = "reap" /\ pc[c] = "zombie"
  /\ Goto(c, "none")
  /\ slot' = slot \ {c} /\ counted' = counted \ {c}
  /\ skew' = IF c \in slot \ counted THEN skew - 1 ELSE skew
  /\ UNCHANGED <<sig, cconf, bExit, daemonVars, history>>

\* Mutant of ReapDone: a SIGCHLD that came in the meantime is forgotten.
ReapDoneForgets ==
  /\ dpc = "reap"
  /\ dpc' = "scale" /\ dsig' = dsig \ {"CHLD"}
  /\ UNCHANGED <<conf, nWait, moved, newest, childVars, history>>

ReapDone ==
  /\ dpc = "reap" /\ \A c \in Child : pc[c] # "zombie"
  /\ dpc' = "scale"
  /\ UNCHANGED <<conf, dsig, nWait, moved, newest, childVars, history>>

\* Mutant of AskedAll: only the waiting children are asked.
AskedWaiting == {c \in slot : pc[c] # "busy"}

\* poolSetExitReqeustAll
AskedAll == slot

\* The configuration is read again; if that fails, nothing happens.
Reload ==
  /\ Flagged("HUP") /\ Top("scale")
  /\ dsig' = dsig \ {"HUP"}
  /\ \/ conf < Versions /\ conf' = conf + 1 /\ bExit' = bExit \cup AskedAll
     \/ UNCHANGED <<conf, bExit>>
  /\ UNCHANGED <<pc, sig, cconf, Pool, history>>

Terminate ==
  /\ Flagged("TERM") /\ Top("end")
  /\ dsig' = dsig \ {"TERM"}
  /\ UNCHANGED <<conf, childVars, history>>

\* A child is missing: fork.  It has a copy of the configuration and the flags.
Fork(c) ==
  /\ dpc = "scale" /\ nRunningChilds < Servers[conf]
  /\ pc[c] = "none" /\ c \notin slot
  /\ Goto(c, "early")
  /\ sig' = [sig EXCEPT ![c] = dsig \ {"CHLD"}]
  /\ cconf' = [cconf EXCEPT ![c] = conf]
  /\ dpc' = "wait" /\ newest' = {c}
  /\ late' = late \ {c}
  /\ UNCHANGED <<Pool, bExit, conf, dsig, nWait, moved, kills, hups, reloads>>

\* poolCheck may have set nRunningChilds right, unless somebody has the lock: every
\* few seconds, or as it contradicts the other counter.
Checked ==
  \/ UNCHANGED <<counted, skew>>
  \/ /\ \A c \in Child : pc[c] # "count"
     /\ counted' = slot /\ skew' = 0

\* Nothing to do, or fork failed; the periodic job.
Scaled ==
  /\ dpc = "scale"
  /\ dpc' = "top" /\ Checked
  /\ UNCHANGED <<conf, dsig, nWait, moved, newest, pc, sig, cconf, slot, bExit, history>>

\* The wait ends when any child was launched since the head of the loop, or
\* after a second.
WaitOver ==
  /\ dpc = "wait"
  /\ dpc' = "top" /\ newest' = {}
  /\ late' = late \cup {c \in newest : Unborn(c)}
  /\ UNCHANGED <<conf, dsig, nWait, moved, childVars, kills, hups, reloads>>

-----------------------------------------------------------------------------
(* daemonEnd *)

Idle == {c \in slot : pc[c] # "busy"}

\* poolSetIdleExitReqeust(nRunningChilds): the slots of idle children, in their
\* order, up to that number less that of those asked before.
Ask ==
  \E S \in SUBSET Idle :
    /\ LET room == nRunningChilds' - Cardinality(Idle \cap bExit)
       IN \/ room > Cardinality(Idle) /\ S = Idle
          \/ room \in 0 .. Cardinality(Idle) /\ Cardinality(S) = room
          \/ room < 0 /\ S = {}
    /\ bExit' = bExit \cup S
    /\ UNCHANGED <<pc, sig, cconf, slot>>

\* poolGetNumChilds
WaitsOn == nWait >= 0 /\ nRunningChilds' > 0

Round ==
  /\ dpc = "end" /\ Checked /\ WaitsOn
  /\ \/ nWait > HardRounds /\ Ask
     \/ nWait \in 1 .. HardRounds /\ TermAll
     \/ nWait = 0 /\ UNCHANGED <<pc, sig, cconf, slot, bExit>>
  /\ dpc' = "sleep"
  /\ UNCHANGED <<conf, dsig, nWait, moved, newest, history>>

\* Mutant of Slept: the rounds are not counted.
SleptNoCount ==
  /\ dpc = "sleep" /\ dpc' = "end"
  /\ pc' = [c \in Child |-> IF pc[c] = "zombie" THEN "none" ELSE pc[c]]
  /\ UNCHANGED <<nWait, sig, cconf, Pool, bExit, conf, dsig, moved, newest, history>>

\* The second has passed; children that ended are reaped, not deleted.
Slept ==
  /\ dpc = "sleep"
  /\ dpc' = "end" /\ nWait' = nWait - 1
  /\ pc' = [c \in Child |-> IF pc[c] = "zombie" THEN "none" ELSE pc[c]]
  /\ UNCHANGED <<sig, cconf, Pool, bExit, conf, dsig, moved, newest, history>>

\* Mutant of EndDaemon: the rounds are not waited for.
EndDaemonAtOnce ==
  /\ dpc = "end"
  /\ dpc' = "gone"
  /\ UNCHANGED <<conf, dsig, nWait, moved, newest, childVars, history>>

\* The pool and the lock are removed, and the daemon exits.  A child that is in
\* poolChildReg and not counted yet is not waited for.
EndDaemon ==
  /\ dpc = "end" /\ Checked /\ ~WaitsOn
  /\ dpc' = "gone"
  /\ late' = late \cup {c \in Child : pc[c] = "count"}
  /\ UNCHANGED <<conf, dsig, nWait, moved, newest, pc, sig, cconf, slot, bExit>>
  /\ UNCHANGED <<kills, hups, reloads>>

-----------------------------------------------------------------------------
Works(c) ==
  \/ InstallHandlers(c) \/ Register(c) \/ Count(c) \/ Head(c) \/ Timeout(c)
  \/ Finish(c) \/ End(c)

Daemon ==
  \/ NoSignal \/ ChildSignal \/ ReapDone \/ Reload \/ Terminate
  \/ (\E c \in Child : Reap(c)) \/ Scaled \/ WaitOver
  \/ Round \/ Slept \/ EndDaemon

Next ==
  \/ \E c \in Child : Works(c) \/ Accept(c) \/ HupChild(c) \/ Kill(c) \/ Fork(c)
  \/ Request("HUP") \/ Request("TERM")
  \/ Daemon

Spec == Init /\ [][Next]_vars

\* The daemon and the children run, also when it goes on serving (a connection
\* ends, at the latest by its timeouts).  Nobody need connect.
FairSpec ==
  /\ Spec
  /\ WF_vars(Daemon)
  /\ \A c \in Child : WF_vars(Works(c))

-----------------------------------------------------------------------------
(* Properties *)

\* When the daemon has ended no child goes on serving: at most it is in
\* childEnd.  Left are children that the daemon did not wait for, those that had a
\* SIGHUP pending at each of the SIGTERMs of daemonEnd (hups), and any if the daemon
\* counted wrong: a child was killed while it wrote to the pool, and poolCheck has
\* not been there since.
NoneServes ==
  /\ TypeOK
  /\ dpc = "gone" /\ hups < HardRounds /\ skew = 0 =>
       \A c \in Child \ late : Leaving(c)

\* SIGTERM ends the daemon, as long as there is not always another child that
\* ends (SIGCHLD is handled before SIGTERM, one signal in a round).
TermEnds == "TERM" \in dsig /\ dpc = "top" ~> dpc = "gone"

\* Every child that ends is reaped, although one SIGCHLD may stand for several,
\* and the slot of one that was killed is freed, if it is not too late:
\* daemonEnd reaps, but does not delete.
Reaped ==
  \A c \in Child :
    /\ pc[c] = "zombie" ~> pc[c] # "zombie" \/ dpc = "gone"
    /\ c \in slot /\ ~Alive(c) ~> c \notin slot \/ dpc \in {"end", "sleep", "gone"}

\* After a reload no child goes on with an old configuration, except one that
\* the daemon did not wait for: it is not asked to exit, as it has no slot yet.
ReloadReaches ==
  \A c \in Child :
    cconf[c] < conf /\ Alive(c) ~>
      ~Alive(c) \/ cconf[c] = conf \/ c \in late \/ dpc \in {"end", "sleep", "gone"}

=============================================================================
