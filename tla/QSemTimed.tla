----------------------------- MODULE QSemTimed -----------------------------
(***************************************************************************)
(* QSem with time, for processes that are not killed.  A tick is the       *)
(* interval between two polls.  It answers who can be blamed when an       *)
(* unlock is forced: a holder that is stuck, or so many sections of others *)
(* that a waiter finds the semaphore taken at each of its polls; and for   *)
(* how long a stuck section stays exclusive.                               *)
(***************************************************************************)
EXTENDS QSem

CONSTANTS
  MaxHold,   \* a section lasts at most MaxHold ticks,
  MaxStuck,  \* and one of a process that is stuck in it at most MaxStuck
  MinPeriod, \* ticks between two samples of the watchdog, at least:
  Period     \* PERIODIC_JOB_INTERVAL, which cuts off fractions of seconds

ASSUME TimedAssumption ==
  /\ MaxHold \in Nat /\ MaxStuck \in Nat
  /\ Period \in Nat /\ MinPeriod \in 1 .. Period

VARIABLES
  stuck,    \* the children that get stuck in their sections
  hold,     \* ticks since p entered
  due,      \* waiters that poll before the next tick
  alarm,    \* ticks until the next sample of the watchdog is due
  busy,     \* the daemon does not come to its periodic job in this tick
  skipped,  \* history: ticks a due sample was put off for in this section
  overtook, \* history: sections of others begun while p waits
  runs      \* history: sections begun since the last sample that was not locked

history == <<overtook, runs>>
tvars == <<vars, stuck, hold, due, alarm, busy, skipped, history>>

Limit(p) == IF p \in stuck THEN MaxStuck ELSE MaxHold

TTypeOK ==
  /\ TypeOK
  /\ stuck \subseteq Children
  /\ hold \in [Proc -> Nat] /\ \A p \in Proc : hold[p] <= Limit(p)
  /\ due \subseteq Proc
  /\ alarm \in 0 .. Period
  /\ busy \in BOOLEAN /\ skipped \in Nat
  /\ overtook \in [Proc -> 0 .. MaxWait] /\ runs \in 0 .. MaxLocked

\* nLastSec is 0: the first sample is due at once.
TInit ==
  /\ Init
  /\ stuck \in SUBSET Children
  /\ hold = [p \in Proc |-> 0]
  /\ due = {}
  /\ alarm = 0
  /\ busy = FALSE /\ skipped = 0
  /\ overtook = [p \in Proc |-> 0] /\ runs = 0

\* The first poll of qsem_enter_force comes at once.
TBegin(p) ==
  /\ Begin(p)
  /\ due' = due \cup {p}
  /\ overtook' = [overtook EXCEPT ![p] = 0]
  /\ UNCHANGED <<hold, alarm, busy, skipped, runs>>

\* A section of p begins, if it does; counting stops at what it is compared to.
Entered(p) ==
  IF pc'[p] = "in"
  THEN /\ overtook' = [q \in Proc |->
            CASE q = p \/ pc[q] # "poll" -> 0
              [] q # p /\ pc[q] = "poll" /\ overtook[q] < MaxWait -> overtook[q] + 1
              [] OTHER -> overtook[q]]
       /\ runs' = IF runs < MaxLocked THEN runs + 1 ELSE runs
       /\ skipped' = 0
  ELSE UNCHANGED <<history, skipped>>

\* One poll of p in this tick; the next one is a tick (usleep) later.
TPoll(p) ==
  /\ p \in due
  /\ PollEnter(p) \/ PollFail(p)
  /\ due' = due \ {p}
  /\ hold' = [hold EXCEPT ![p] = 0]
  /\ Entered(p)
  /\ UNCHANGED <<alarm, busy>>

\* After the last sleep the unlock is forced, and retried without sleeping.
TForce(p) ==
  /\ pc[p] = "poll" => p \in due
  /\ ForceLeave(p) \/ Retry(p)
  /\ due' = due \ {p}
  /\ hold' = [hold EXCEPT ![p] = 0]
  /\ Entered(p)
  /\ UNCHANGED <<alarm, busy>>

TLeave(p) ==
  /\ Leave(p)
  /\ hold' = [hold EXCEPT ![p] = 0]
  /\ skipped' = 0
  /\ UNCHANGED <<due, alarm, busy, history>>

\* The periodic job of the daemon, when its time has come and the daemon comes
\* to it.
TWatchdog ==
  /\ alarm <= Period - MinPeriod /\ ~busy
  /\ Watchdog
  /\ alarm' = Period
  /\ runs' = IF lockCnt' = 0 THEN 0 ELSE runs
  /\ UNCHANGED <<hold, due, busy, skipped, overtook>>

\* Time passes when every poll of this tick was made, and no section has
\* reached its limit.  A sample that is due waits while the daemon waits for
\* the semaphore itself, or is busy: each of its rounds launches children
\* (nChildFlag > 0), for which it also waits, and goes on with the next one.
Tick ==
  /\ due = {}
  /\ alarm = 0 => pc[Daemon] # "out" \/ busy
  /\ \A p \in Proc : /\ pc[p] \notin {"force", "retry"}
                     /\ pc[p] = "in" => hold[p] < Limit(p)
  /\ hold' = [p \in Proc |-> IF pc[p] = "in" THEN hold[p] + 1 ELSE 0]
  /\ due' = {p \in Proc : pc[p] = "poll"}
  /\ alarm' = IF alarm > 0 THEN alarm - 1 ELSE 0
  /\ busy' \in BOOLEAN
  /\ skipped' = IF alarm = 0 /\ pc[Daemon] = "out" /\ \E p \in Proc : pc[p] = "in"
                THEN skipped + 1 ELSE skipped
  /\ UNCHANGED <<vars, history>>

TNext ==
  /\ \/ \E p \in Proc : TBegin(p) \/ TPoll(p) \/ TForce(p) \/ TLeave(p)
     \/ TWatchdog
     \/ Tick
  /\ UNCHANGED stuck

TSpec == TInit /\ [][TNext]_tvars

-----------------------------------------------------------------------------
(* Properties *)

\* While nobody is stuck it takes a crowd to force an unlock.  Each section that
\* ends in time makes no more than MaxHold + 1 polls of a waiter fail, so a waiter
\* whose polls run out was overtaken by MaxWait of them, nearly; and if sections
\* are shorter than the time between samples, each is seen by one sample of the
\* watchdog at most, so the samples it finds locked in a row are of as many.
ForcedByCrowd ==
  ~forced /\ stuck = {} =>
    /\ \A p \in Proc :
         pc[p] = "poll" => wait[p] <= (MaxHold + 1) * (overtook[p] + 1)
    /\ MaxHold < MinPeriod => lockCnt <= runs + 1

\* What the watchdog does guarantee: a section of a child, stuck or not, is no
\* longer exclusive when the time for MaxLocked + 1 samples has passed, not
\* counting the time for which the daemon put off a due sample.  If the daemon
\* was waiting for the semaphore then, it forces the unlock itself.
OverrunBounded ==
  ~forced => \A p \in Children : pc[p] = "in" =>
                hold[p] <= Period * (MaxLocked + 1) + MaxWait + skipped

=============================================================================
