# A TLA+ model of qhttpd

qhttpd is a small HTTP server. One daemon process forks children that accept
connections and serve them; daemon and children share a memory segment (the
*child management pool*) protected by a System V semaphore. The library qlibc,
which it brings along, has the semaphore, the descriptor I/O, the log, an HTTP
client and containers. This directory holds TLA+ modules of them, TLC
configurations that check the modules on small instances, and TLAPS proofs of
the properties that matter most.

All paths below are relative to the repository. `qsem.c`, `qshm.c`, `qio.c`,
`qlog.c`, `qhttpclient.c`, `qlist.c` and so on are in `src/lib/qlibc/src/`, the
other sources in `src/src/`.

## Inventory

| part | state | operations | talks to |
|------|-------|------------|----------|
| semaphore (`qsem.c`) | value, SEM_UNDO adjustments | `qsem_init`, `qsem_enter_nowait`, `qsem_enter_force`, `qsem_leave`, `qsem_check`, `qsem_free` | every process |
| pool (`pool.c`) | `struct SharedData`: counters and one slot per child | `poolChildReg`, `poolChildDel`, `poolSetConn*`, `poolClearConnInfo`, `poolSetIdleExitReqeust`, `poolSetExitReqeustAll`, `poolCheck`, unlocked getters | children and daemon, under the semaphore |
| child (`child.c`) | `m_nMySlotId`, idle count, signal flags | `childStart`, `childEnd`, signal handler | pool; listening socket; `httpMain` |
| daemon (`daemon.c`) | `nChildFlag`, `nSemLockCnt`, signal flags, configuration | prefork control, periodic job, signal handling, reload, `daemonEnd` | fork, waitpid, pool, semaphore |
| start and end (`main.c`, `daemon.c`, `qsem.c`, `qshm.c`) | pid file, port, semaphores and memory by key | pid check, `qsem_init`, `qshm_init`, bind, their release | other instances on the host |
| keep-alive loop, output (`http_main.c`, `http_response.c`) | keep-alive, `bOut` | `httpMain`, `httpResponseOut` | pool, exit flag, connection |
| request (`http_request.c`) | read buffer | `_readRequest`, `httpRequestParse` | connection |
| methods (`http_method.c`, `http_method_dav.c`, `http_header.c`) | files | GET, PUT, HEAD, OPTIONS, WebDAV, `httpHeaderParseRange` | file system shared with the other children; connection |
| I/O (`qio.c`, `stream.c`) | errno of the process | `qio_read`, `qio_write`, `qio_send`, `qio_gets`, the stream functions, `closeSocket` | descriptors |
| log (`qlog.c`) | stream buffers, file name, time of the next rotation | `qlog`, `write_`, `flush_`, `free_`, rotation | the log file shared by all processes |
| HTTP client (`qhttpclient.c`) | connection, keep-alive | `open`, `head`, `get`, `put`, `cmd`, `close` | a server |
| containers (`qlist.c`, `qstack.c`, `qqueue.c`, `qvector.c`, `qlisttbl.c`, `qhashtbl.c`, `qhasharr.c`) | links, slots, counters, cursors of walks | put, get, remove, walk, ... | the server uses the list table; the others are library code |
| configuration, status page, access log, authentication, mime types, hooks, Lua, the rest of qlibc | - | parsing, formatting, look-ups, extension points | - |

What is hard in this code, and what makes each part correct:

* **Semaphore.** It should be a mutex that survives the death of a process
  inside the section (SEM_UNDO) and for which nobody waits for ever. But
  `qsem_enter_force` unlocks a semaphore it does not hold when its polls run
  out, the watchdog of the daemon does the same, and a child interrupted by
  SIGTERM inside the section waits for itself. When is it still a mutex? Are
  permits lost, or do they accumulate?
* **Pool.** A slot belongs to one living child, is never lost and never given
  to two; exit requests reach the child they are meant for; the counters the
  daemon scales by agree with the slots. All that with children that are
  killed between two writes or terminated inside a section, and with readers
  that take no lock.
* **Daemon.** It keeps the number of children between the configured limits,
  reacts to every signal although it handles one per round, reaps children
  (deleting from the pool those that could not do it themselves), passes a
  reload on to all of them, and finally leaves none behind.
* **Start and end.** Two instances started at once, one that is killed, one
  whose start fails half way: none may take or leave what is not its own.
* **Requests.** A connection serves requests one after the other; each gets one
  response, and what is left of one request must not be read as the next.
* **Files.** Two children work on one tree, and every method is several system
  calls: what `stat` said need no longer be true when the file is opened.
* **I/O.** Partial transfers, timeouts, signals, resets and the end of a stream;
  what a call returns must be what it did.
* **Log.** Every process rotates the log it has inherited for itself.
* **HTTP client.** A late answer on a kept connection, a server that dies in the
  middle, a PUT that is refused.
* **Containers.** Long sequences of calls, and walks from which elements are
  removed.

## Plan

Order: what the rest stands on comes first.

| step | modules | question | state |
|------|---------|----------|-------|
| 1 | `Mutex`, `Semaphore`, `QSem`, `QSemTimed`, `QlibcProofs` | when is the lock a mutex, and what happens when it is not | checked, proved |
| 2 | `Registry`, `Pool`, `PoolProofs` | slots, counters and exit requests over the life of the children | checked, proved |
| 3 | `Prefork`, `PreforkProofs` | does the daemon keep the number of children within its limits | checked, proved |
| 4 | `Server`, `ServerProofs` | signals, reload and shutdown of the daemon and its children | checked, `NoneServes` proved |
| 5 | `Startup`, `HostProofs` | instances that start, end and are killed | checked, proved |
| 6 | `HttpSession`, `QIo`, side by side in `MCWire`; `WireProofs` | where does a request end and the next begin; partial transfers | checked, proved |
| 7 | `Files`, `QLog`, `HostProofs`, with `Startup` in `MCHost` | what is shared on the host: the tree, the log, the pid file | checked, proved |
| 8 | `HttpClient`, `HttpClientProofs` | answers belong to requests, and are whole | checked, proved |
| 9 | `QList`, `QListTbl`, `QHashTbl`, `QHashArr` over `Deque` and `Dictionary`, in `MCContainers`; `QListProofs`, `QlibcProofs` | do the containers keep what they are given | checked; all but `QHashArr` proved |

Worth doing next: proofs of what the hash array keeps.

## The modules and the code

```
 Mutex <---- QSem ---- QSemTimed     Registry <---- Pool      Prefork
 (abstract)   | EXTENDS  (time)      (abstract)              (numbers only)
           Semaphore
                                     Server: signals, reload, shutdown
 Startup    Files    QLog            HttpSession   QIo       HttpClient
 (pid file) (tree)   (log)           (messages)    (bytes)

 Deque <---- QList (stack, queue, vector)
 Dictionary <---- QHashTbl, QHashArr         QListTbl
```

An arrow is a refinement (`INSTANCE ... WITH`, the abstract step as a property).
The layers meet in what one assumes of the one below:

* `Pool` enters its critical sections through `Lock`, which excludes. That is
  what `QSem` shows of the semaphore until an unlock is forced
  (`RefinesMutex`), and `QSemTimed` shows what it takes to force one. With
  `MayOverrun = TRUE` processes enter whatever the others do, as they can after
  a forced unlock. `Pool`'s fairness (a waiting process gets in) is `QSem`'s
  `EntersEventually`, as long as the semaphore exists.
* `Prefork` uses the numbers of running and working children where the code reads
  `nRunningChilds` and `nWorkingChilds`. That is what `Pool` shows outside the
  sections (`CountersExact`). The daemon takes no lock: it reads each counter at its
  own moment, and may look while a registration is half done (`half`).
* `Server` takes a registration for two steps (the slot, the count), a deletion and
  a scan of the pool for one each, and forks when `Prefork` would find children
  missing. It decides by what the counter says (`nRunningChilds`), which a child that
  is killed between two writes puts wrong (`skew`), until `poolCheck` has been there.
* `HttpSession` reads parts of messages that come whole or not at all. That a
  read which is cut returns what it took, and that every call returns, is
  `QIo`'s (`SaysWhatItDid`, `Returns`). Which file a request is about, and the
  answer it gets, is left open there; `Files` has that.

### Semaphore and QSem (`qsem.c`)

`Semaphore` has the values of one System V semaphore of a set and the effects of
`semop`, SEM_UNDO (`adj`), `IPC_RMID` and `semctl(GETVAL)`. `qsem_leave` looks
at nothing, which is why a forced unlock can add a permit.

| in `QSem` | in the code |
|-----------|-------------|
| `sem` | the kernel's semaphore |
| `pc`, `wait` | where a process is in `qsem_enter_force`, and its count of polls |
| `Begin`, `PollEnter`, `PollFail` | the loop of `qsem_enter_nowait` and `usleep(10 ms)` |
| `ForceLeave`, `Retry` | the loop after it: `qsem_leave`, `qsem_enter_nowait` until it succeeds. Two steps, so another process may come between |
| `TryEnter` | `poolCheck`, that enters with `qsem_enter_nowait` only |
| `Leave` | `qsem_leave` |
| `nested`, `Interrupt`, `LeaveAndExit` | the signal handler of a child that runs `childEnd` inside a section: `poolChildDel` waits for its own process, forces the unlock, and `exit` ends the process without resuming the section |
| `Die`, `Respawn` | SIGKILL or a crash anywhere (SEM_UNDO); a new child |
| `Watchdog`, `lockCnt` | the periodic job: `qsem_check`, `nSemLockCnt`, `MAX_SEMAPHORES_LOCK_SECS` |
| `End` | the end of `daemonEnd`: `qsem_leave`, `qsem_free` |

`forced` is a history variable: some process unlocked what it does not hold. The
Linux rule that SEM_UNDO stops at 0 is in `SemUndo`.

`QSemTimed` adds time: a tick is the 10 ms between two polls. A process polls
once per tick (`due`), a section lasts at most `MaxHold` ticks, and the next one may
begin at once. The children in `stuck`, any of them, chosen at the start, may stay in
a section for `MaxStuck` ticks (`Limit`). The watchdog's sample is due `Period`
ticks after the last one, or `MinPeriod` since it compares whole seconds, and comes
when the daemon comes to it: not while it waits for the semaphore itself, nor while
it is `busy`, for as long as it launches children (`nChildFlag > 0`, the `continue`s of
`daemon.c:226-262`). `skipped` counts the ticks for which a sample was put off.
History: `overtook[p]`, the sections of others that began while `p` polled, and
`runs`, those since the last sample that found the semaphore free. It has no deaths.

### Pool (`pool.c`, and what `child.c`, `daemon.c`, `http_main.c` do to it)

One variable per field of `struct SharedData` that the properties tell apart
(the client's address, the times and the last request's line are left out), a
`pc` per child, one for the daemon, and the lock.

| in `Pool` | in the code |
|-----------|-------------|
| `Fork` | `fork` in the daemon |
| `RegEnter` ... `RegRunning`, `RegFull` | `poolChildReg`: find the slot, clear and take it, count the launch, count the child. One step per write, because a child may be killed between two |
| `LoopHead`, `NoConnection`, `LeaveIdle`, `WaitInterrupted`, `CheckIdle`, `Accept` | the loop of `childStart`, with the exit flag read without the lock, and `poolGetNumChilds`, which calls `poolCheck` when the counters are absurd |
| `SetExitRequest` | `poolSetExitRequest`, without the lock, by the child for itself: after SIGHUP, in the signal handler, from Lua |
| `PeerGone`, `ConnEnter`, `ConnSlot`, `ConnCount` | `poolSetConnInfo`, which may fail before it takes the lock |
| `RequestSlot`, `RequestCount` | `poolSetConnRequest`: no lock; the read and the write of `nTotalRequests++` |
| `Reply`, `Decide`, `NoRequest` | `poolSetConnResponse`; `httpResponseOut` and the loop of `httpMain`: whether the connection goes on |
| `ClearEnter`, `ClearSlot`, `ClearCount` | `poolClearConnInfo`, called also after a `poolSetConnInfo` that failed |
| `DelEnter`, `DelNothing`, `DelSlot`, `DelCount` | `childEnd`, `poolChildDel(0)` |
| `Kill`, `Term`, `ForceSelf` | SIGKILL or a crash; the signal handler; its wait for its own lock |
| `Reap`, `ReapEnter`, `ReapNothing`, `ReapSlot`, `ReapCount` | `waitpid`, then `poolChildDel(pid)`. The pid may be used by a fork again at once |
| `Check` | `poolCheck` of the periodic job |
| `SetIdleExit`, `SetExitAll` | `poolSetIdleExitReqeust` with its two passes, `poolSetExitReqeustAll` |

A section that writes once is one step (`LockedOnce`), and so are finding and
emptying a slot in `ReapSlot`, and the two counters that `LeaveIdle` reads: the
child only decides by them to leave. `faults`, `torn`, `leaked` and `overrun`
are history.

`Registry` is what the pool is for, without slots and locks: a child joins while
there is room, works as a member, retires, gives up its place once, and its pid
is used again only after that.

### Prefork (`daemonStart`)

Children are counted, not named: how many are forked and not registered
(`born`), whether one has a slot and is not counted yet (`half`), and how many
registered ones are at each place of their loop, asked to exit or not (`child`). The
daemon is a state machine of its own (`dpc`).

| in `Prefork` | in the code |
|--------------|-------------|
| `Sample`, `CountIdle`, `Decide` | `poolGetTotalLaunched`, `poolGetNumChilds` (unlocked: three reads at three moments, of which the difference may read its two in either order), the branches that compute `nChildFlag` |
| `Fork`, `ForkFails`, `Registered`, `GiveUp` | the loop that launches: at most `MAX_PREFORK_AT_ONCE` tries, then up to one second until `poolGetTotalLaunched` has changed; a success resets `nChildFlag` and so ends the loop |
| `Ask` | `poolSetIdleExitReqeust(1)` after `KILL_IDLE_INTERVAL` rounds over the maximum |
| `Launch`, `Register` | the two writes of `poolChildReg`: `nTotalLaunched` (`moved`), then `nRunningChilds`. The daemon's wait ends with the first, and its next count may come before the second (`early`) |
| `LoopHead`, `Timeout`, `Accept`, `Finish`, `LeaveIdle`, `Retire`, `Delete` | the children |

No branch of the code assigns `nChildFlag` when all clients are in use and some,
but too few, are idle; `NewFlag` keeps the old value there. Left out: children
that crash, signals, and the reload (`Server` has them). `PreforkAssumption` says
only that the constants are numbers, and no code checks more of a configuration:
`checkConfig` looks at the methods only, and `poolInit` cuts the slots at `MAX_CHILDS`
(`MaxChild`) without lowering `MaxClients`. What a sensible one has,
`StartServers <= MaxClients <= MAX_CHILDS`, is `Configured`, a condition of
`SlotForEach`.

### Server (`daemon.c`, `child.c`)

| in `Server` | in the code |
|-------------|-------------|
| `NoSignal`, `ChildSignal`, `Reload`, `Terminate` (`Flagged`) | `daemonSignalHandler`: SIGCHLD before SIGHUP before SIGTERM, one in each round |
| `Reap`, `ReapDone` | `waitpid` in a loop, and `poolChildDel(pid)` |
| `Fork`, `Scaled`, `WaitOver` | the scaling, in so far as children are missing; the wait for the new child, which any registration ends, or a second |
| `Round` (`Ask`, `TermAll`), `Slept`, `EndDaemon` | `daemonEnd`: rounds that ask idle children to exit, rounds of `kill(0, SIGTERM)`, and the end, as soon as `nRunningChilds` is 0 (`WaitsOn`), whatever the slots say |
| `counted`, `skew`, `Checked` | `nRunningChilds`: the children it counts, what it is wrong by, and `poolCheck` that may set it right |
| `InstallHandlers` | `childSignalInit`, which empties the flags the child inherited |
| `Register`, `Count` | `poolChildReg`: takes a slot and counts the launch, then counts the child and keeps the slot's number (`HasSlotId`) |
| `Head`, `Timeout`, `Accept`, `Finish`, `End` | `childStart`, `childEnd` |
| `HupChild`, `TermAll` (`Deferred`, `Terminated`) | `childSignal`, `childSignalHandler`: SIGTERM ends a child at once, unless a SIGHUP is pending, which is handled instead |
| `Kill`, `Request` | SIGKILL or a crash; a signal to the daemon |

A child that wants the lock when the daemon has removed it is `stuck` (`QSem`).
History: `late`, the children the daemon did not wait for (they were not
registered after a second, or not counted when it ended); `hups`, SIGHUPs that were
sent to children.

### Startup (`main.c`, `daemon.c`, `qsem.c`, `qshm.c`)

Several instances over one pid file, port and set of keys. `CheckPid` is `main`;
`SavePid`, `SaveFails` (`qcount_save`), `InitIpc`, `FreeStale`, `InitAgain`
(`qsem_init`, then `qshm_init` through `poolInit`: make, or remove what is there
and make again) and `BindPort` are the first half of `daemonStart`; `Close`,
`Release`, `UnlinkPid` are `daemonEnd`; `Reload` may give the pid file another
name. The key of the IPC objects is made of the pid file's inode (`ftok`), which
may be used again when the file is removed and made (`Inode`). `Made` has the ways
in which making them fails: the kernel gives none, or `qshm_get` cannot attach the
memory just made, and then `poolInit` returns without its identifier and `poolFree`
leaves it (`Unknown`). `Dies` is
SIGKILL, `Repair` an administrator who removes a stale pid file. `raced` is
history: an instance passed `CheckPid` while another lived without a pid file.

### HttpSession (`http_main.c`, `http_request.c`, `http_method.c`, `http_response.c`)

The bytes on the connection are parts of messages: the method, the rest of the
header, units of contents, the lines of a chunked body. `Ask`, `Send`, `Drop`
and `HangUp` are the client, which may send ahead and waits for "100 Continue"
if it said so. `Read` is `_readRequest` with its block reads, `ReadContents`
what `httpRequestParse` loads, `Put` ... `PutBroken` are `httpMethodPut` and
`httpRealPut` with both framings, `Stream`, `Streamed`, `Simple`, `Bad` the
other methods, `Out` and `Again` (`ResponseOut`, `GoesOn`) the loop of `httpMain`.
The accepted socket blocks (`child.c:288-292` is commented out), so a write to a client
that does not read need not return: `MayBlock` says where the child may be then.

### QIo (`qio.c`, `stream.c`, `util.c`)

A call is a record: its inner loop (`ReadSome`, `ReadEnd`, `TimesOut`,
`WriteSome`, ...) and what it does when that is done (`SimpleReturns`,
`SendReads`, `SendWrites`, `WritevWrites`, `GetsByte`, `DrainReads`). The
operations are `qio_read`, `qio_write`, `streamWritev`, `qio_send` in both
directions (`streamSend`, `streamSave`), `qio_gets` and the draining loop of
`closeSocket`. `errno` is a variable: `qio` looks at it after calls that need
not have set it. A write that polled, or did not (a timeout of -1), may block
(`WriteBlocks`).

### Files (`http_method.c`, `http_method_dav.c`, `http_header.c`)

A tree of inodes, and children that serve requests on it; a step is one system
call with what the code computes from it up to the next. `GetStat`, `GetOpen`,
`GetHead`, `GetSend` are GET (with `If-Modified-Since`, `If-None-Match` and
`httpHeaderParseRange`); `Look` HEAD, PROPPATCH, LOCK and UNLOCK; `PutOpen`,
`PutSave` PUT; `MkcolStat`, `Mkdir`, `Move`, `DeleteStat`, `Unlink`, `Propfind`,
`Opendir`, `Readdir`, `Entry` the rest. History, of each request: `disturbed`,
another changed, meanwhile, the file that this one has looked at or opened;
`moved`, another made a MOVE; `kept`, the names that have been in the directory
since it was opened; `net`, how many names it added to the tree, apart from what
its answer says. `copy.moved` is the same of the client's copy, and `used.net` adds
up what the answers said.

`FilesAssumption` has a tree in which what is no directory has no entries and
entries lead to what exists, and requests that neither move nor delete the document
root itself: with it gone every path leads nowhere, which the models leave out. In
the code `rename` refuses to move the root below itself (a target is always below
it), but a DELETE of an empty document root succeeds (`http_method_dav.c:278`).

### QLog (`qlog.c`)

`Open` and `SetNext` are `_real_open`, which looks at the clock twice, `Begin`
and `PrintLine` are `write_`, `Flush`, `FreeLog` the functions `flush_`
and `free_`, `Fork` the inheritance of the log, `Kill` a death with full buffers,
`LogTick` the clock. Every write to a file or the screen may fail: `fclose` of the old
file when it is rotated, `fflush` and `fprintf` in `write_`, the duplicate on the screen.
`write_` looks at `fprintf` only, so a line may be reported as written (`said`) and be
`lost`, or `unseen`.

### HttpClient (`qhttpclient.c`)

`Call` begins a HEAD, GET, PUT or `cmd`; `WaitsForContinue`, `ReadStatus`,
`ReadField`, `ReadContents`, `ThrowOut`, `Receive`, `ReadSize`, `ReadTail`,
`SendContents` are the client's steps over what is on the connection. Only `cmd` keeps
contents in memory (`ReadContents`). The others throw them out with `qio_read(fd,
NULL, n)`, whose `read` fails with EFAULT, and so close the connection (`ThrowOut`).
What the client writes has no timeout and the socket blocks (`MayBlock`). The server
(`Server...`) is not part of the code: it answers properly, with a length, in chunks
or until it closes, late, or dies anywhere, or stops reading.

### Containers

`QList` has the linked objects of `qlist.c` with its first, last, number and
size, the stack, the queue and the vector over it, and a walk (`getnext`) that
keeps its cursor while elements are removed. `QListTbl` has the table with its
options (case, sorting, ends, directions), sorting and loading of elements.
`QHashTbl` has the chains, `QHashArr` the slots with their counts, hashes and
links of a fixed memory area: keys that collide, values over several slots,
slots moved out of the way. `Deque` and `Dictionary` are what is promised.
`MCContainers` extends `QList` and has the tables as instances over the same variables.
qlibc is built without `--enable-threadsafe`: the containers are sequential.

## The runs

The properties are listed in `PROJECT.json`. TLC needs between seconds and about
three minutes for each.

| run | instance | shows |
|-----|----------|-------|
| `qsem` | daemon and 2 children, 2 polls, watchdog after 1 sample | the lock is the abstract mutex until an unlock is forced (`MutualExclusion`, `RefinesMutex`), with deaths and interruptions anywhere; whatever is forced, a permit is never lost and permits never add up beyond two per process (`PermitsKept`); whoever waits gets in while the semaphore exists (`EntersEventually`) |
| `qsem_timed` | daemon and 2 children, 5 polls, sections of 1 tick or, of stuck children, up to 13, one after the other without a rest, samples 2 or 3 ticks apart or put off, of which 1 may find the lock taken | what it takes to force an unlock while nobody is stuck (`ForcedByCrowd`), and how long a stuck section stays exclusive (`OverrunBounded`) |
| `pool` | 3 children on 2 slots, 1 fault, 1 connection, 1 request | `SlotOwned`, `CountersExact`, `ExitRequestKept`, `RefinesRegistry` |
| `pool_live` | 2 children on 2 slots, 1 fault; with the lock and 1 connection, or with sections that overlap and no connection | requests to exit are honoured, counters repaired and slots freed (`ExitHonoured`, `CountersRepaired`, `SlotFreed`), `OneSlot`, `NoGhost`: all with and without the lock |
| `prefork` | 3 slots, 2 servers at the start, 2 spares, 2 failed forks, 2 unborn children, 2 that retire | `SlotForEach`, `EnoughServers`, `SparesTrimmed` |
| `server` | 2 children on 2 slots, 2 servers wanted; the daemon is told to end, or to reload; 1 soft and 2 hard rounds, 1 fault | nobody goes on serving (`NoneServes`), SIGTERM ends the daemon (`TermEnds`), children are reaped and their slots freed (`Reaped`), a reload reaches them (`ReloadReaches`) |
| `wire` | 2 requests of 11 kinds on a connection; 2 calls on 3 bytes | `InStep`, `ClosesAsTold`, `Served`, `SaysWhatItDid`, `Returns` |
| `host` | 2 children, 3 requests on a tree of 2 names; 3 instances, 2 inode numbers; 2 processes, 2 lines, rotation every 2 of 4 times | `SendsWhatIsThere`, `DidWhatItSays`, `CopyIsGood`; `StartsAndEnds`; `LogKept` |
| `client` | 2 calls, answers of 0 or 2 units, kept or not, with a timeout or without | `AnswerIsOwn`, `ResultTrue`, `CallEnds` |
| `containers` | 3 objects; tables of 4 keys, 5 slots, values of 1 and 2 slots | `ListsWellLinked`, `ListsAreDeques`, `TablesAgree`, `HashesAreMaps`, `ListTblKeeps` |
| `hasharr` | as the hash array above | *violated:* `AlwaysMap`, see Disagreements |
| `io_errno` | 1 call on 1 byte | *violated:* `ReadReturns`, see Disagreements |

`wire`, `host` and `containers` check several modules one at a time (`kind`): they
share no state, and each property is one of the module it is about.

The bounds, and why they are enough:

* Two children and the daemon give the semaphore a holder, a waiter that forces
  and one that comes between; two polls make "used up" and "not yet" differ. In
  the timed run the numbers are small but keep their order: a waiter may be
  overtaken several times before its polls run out, a section that ends in time is
  shorter than the time between two samples, and one of a stuck child longer than
  all that the watchdog allows (`MaxStuck`). In the code a wait is 500 polls or more
  and a section some microseconds. What follows a forced unlock is `qsem`'s: the
  constraint `Unforced` of `qsem_timed` stops there.
* Three children on two slots make the pool full (`RegFull`) and let a slot
  change hands while a third child registers. One fault is enough to tear any
  section; the proofs below cover any number. `MaxLaunched`, `MaxConnected`,
  `MaxRequests` and `MaxFaults` bound counters and are in the guards of
  `Fork`, `Accept`, `RequestSlot` and of the faults. `pool` lets sections overlap and
  stops there (the constraint `Unforced`), so that a child which is terminated inside a
  section is in it up to the unlock it forces; `pool_live` goes on from there.
* `pool_live` has two children because liveness allows no symmetry; where sections
  overlap it leaves connections out, whose sections then interleave in too many
  ways. Symmetry (of the children) is used in `pool` and `qsem_timed` only, whose
  properties are invariants and action properties.
* `MaxBorn`, `MaxFailures` and `MaxRetired` bound the unborn children, the forks
  that fail and the children that reach their limit of requests.
  `KILL_IDLE_INTERVAL` is 2 instead of 1000: that rounds are added up, and
  reset, shows at 2.
* `server`: the daemon is told to end or to reload, not both in one behaviour, and
  both configurations want two servers; the signals its children send come in
  between. It has one soft round instead of 10 and two hard ones instead of 5: one
  SIGHUP (`MaxFaults`) puts one SIGTERM off, not two. A pid is used again, so
  two children are any number of them one after the other. The proof of
  `NoneServes` covers any rounds, children and slots.
* `wire`: the second request is what the first may be confused with. Contents of
  2 units are "too large" for the memory (`MaxMemory` 1); two chunks have a line
  between them. `Want` is less and more than a buffer (`Chunk` 2), and the
  second call meets the errno of the first.
* `host`: three requests of two children are one that is disturbed by another
  that is over, and one to come after them; of three instances two may race
  and the third finds what they left. The clock of the log passes two times to
  rotate; both processes rotate. Two lines are one in a buffer and one that is
  written when the buffer is flushed, lost or rotated; the proof covers any number.
* `client`: an answer that is late for the first call comes in the second; a
  `Piece` of 1 unit makes 2 pieces of what is sent and saved.
* `containers`: three objects have a first, a middle and a last one; in the hash
  array four keys, two of one hash, with up to two slots each fill five slots.
* `CHECK_DEADLOCK FALSE` is set where the system may stop: when all children are
  dead, the daemon has ended, the connection is closed, or the bounds on what
  the outside world does are used up. `qsem_timed` and `prefork` are checked for
  deadlock.

## Fairness

* `QSem`: only a process that waits for the semaphore keeps polling
  (`Waiting`): it is a loop that sleeps 10 ms and blocks on nothing. Nothing
  is assumed of the process inside, whose section may last for ever.
  `EntersEventually` is about a semaphore that exists.
* `Pool`: children run (`Advance`), the daemon finishes a deletion it began
  (`Reaping`), reaps each child that ended (`Reap`: SIGCHLD, `waitpid` in a
  loop) and does its periodic job (`Check`). Taking the lock is part of it, by
  `EntersEventually`. `NoRequest` is in `Advance`: a client that sends nothing
  meets the read timeout, so a connection ends or gets a request. A client that
  never reads its answer would keep the child in a write: `ExitHonoured` is about the
  others. `MaxRequests` bounds how often a client asks.
* `Prefork`: the daemon runs, children launch and register, poll the listening socket
  for at most a second (`Timeout`), look at their exit flag and end. Connections
  may last for ever, and nobody need connect.
* `Server`: the daemon runs (its waits last a second), and so does each child;
  a connection ends, at the latest by its timeouts, if its client reads. Nobody need
  connect, and no signal need come. Faults are finitely many: children that die again
  and again would keep SIGHUP and SIGTERM waiting behind SIGCHLD.
* `wire`: the child runs, since every read ends by its timeout, except where it writes
  to a client that does not read (`MayBlock`); the client sends what it began to send
  (or is `late`). A call of `QIo` runs, since its poll times out, except in a write that
  the peer does not take (`WriteBlocks`). No signal need come. `Served` and `Returns`
  name both exceptions. That a drain of `closeSocket` ends is only because `MaxBytes`
  bounds what the peer sends, and a connection with `MaxKeepAliveRequests` 0 because
  the client asks `MaxReq` times.
* `HttpClient`: the client runs, except where it sends contents that the server does not
  take (`MayBlock`); `CallEnds` is about calls with a timeout, whose request was
  written. The server need do nothing.

## Disagreements

`AlwaysMap` is violated (run `hasharr`): `qhasharr_t` loses what it was given. To
make room at the hash of a new key, `put` moves the slot that is there. Only for a
moved slot with count -2 (one that continues a value) does it correct its
neighbours (`qhasharr.c:331`); if the moved slot begins a value (count -1) that
goes on in another, that one keeps the old place in its link back. A later `put`
that moves this one writes its new place into whatever key is there by then.
`HashesAreMaps` shows that the array is a map until that happens (`astray`). The
server does not use this container.

`ReadReturns` is violated (run `io_errno`): `qio_read` is said to read, to time out or to
fail (`qio.c:118`), but looks at `errno` after a `read` that returned 0 (`qio.c:130`). If
an earlier call left `EAGAIN` there, as `semop` with `IPC_NOWAIT` does each time it
polls a taken semaphore, a read at the end of the stream goes round for ever.
`Returns` shows that nothing else keeps a call from returning but a write the peer does
not take.

What follows came up while the modules were written. The models behave as the
code does; the properties are stated so that they hold with it.

*Semaphore.*
* A waiter in `qsem_enter_force` spins for ever once the semaphore is removed: its
  last loop (`qsem.c:243`) does not look at why the call fails. The comment at 226
  says it waits for at most `maxwaitms`.
* Holders that are all prompt can make a waiter force the unlock, if each of its
  polls meets another of them (`qsem.c:234`). It takes a crowd: nearly as many sections
  that overtake the waiter as it has polls, or, for the watchdog, as many as it takes
  samples (`ForcedByCrowd`).
* `MAX_SEMAPHORES_LOCK_SECS` counts samples, which are two seconds or more apart:
  a stuck section is noticed after one more than that many (`OverrunBounded`). While
  the daemon launches children it takes none (`daemon.c:261`): a `fork` that keeps
  failing stops the watchdog for as long.

*Pool and daemon.*
* The daemon may fork one child too many, though no launch is slow and no `fork` fails:
  its wait ends with the first write of `poolChildReg` (`pool.c:273`, `daemon.c:248`), and
  if it counts before the second (274, `daemon.c:178-180`) it misses the child. At the
  limit (`MaxClients`, "maximum number of server processes allowed to start",
  `conf/qhttpd.conf.dist:28`) the extra one finds no slot and ends. `SlotForEach` says that
  it is one at most.
* `nChildFlag` survives failed forks (`daemon.c:210`): a later round still finds it
  positive and launches a child though more than `MaxSpareServers` are idle.
* `poolSetIdleExitReqeust` counts the idle children asked before in both of its
  passes (`pool.c:185`, 208), so it asks fewer and returns more than it should.
  The scaling loop asks for one and is not affected; the soft rounds of
  `daemonEnd` (`daemon.c:336`) are.
* `nTotalRequests++` is done without the lock (`pool.c:408`); two requests may be
  counted as one, against `qhttpd.h:226`.
* The status page loops to the `MaxClients` of the reloaded configuration
  (`http_status.c:124`), the pool has the slots it was created with.
* With fewer slots than `StartServers` (possible after a reload) the daemon forks a
  child that cannot register in every round; its SIGCHLD is handled first, and
  SIGTERM waits for ever: `TermEnds` does not hold with one slot and a reload to
  two servers. The run has slots for both.

*Start and end.*
* The pid file is looked for long before it is written. Of two servers started at
  once the second removes the semaphores of the first and takes over its pid
  file; the first then waits for ever for its lock. `RunningOwns` and
  `FailsForReason` are therefore about servers that were not `raced`.
* `poolInit` makes the shared memory before it attaches it (`pool.c:69-75`); if that fails,
  it has not kept the identifier, and the memory stays until the next start with the
  same key.
* A reload with another `PidFile` leaves the old file behind, and an instance that
  fails to start unlinks the pid file whoever made it.
* After `daemon()` has changed the directory a relative path of the configuration
  cannot be reloaded; the children of a killed daemon keep its port.

*Requests.*
* GET of an empty file and HEAD answered 200 send no `Content-Length` on a
  connection that is kept; HEAD answered 404 or 403 sends a body.
* PUT with length 0 truncates the file and answers 400. PUT refused with 403 leaves
  its body on a kept connection, and so do other methods with chunked contents
  or more than a megabyte of them: the body is read as the next request. `InStep`
  says when that can happen, and that nothing else makes it.
* `ignoreConnection` reads its request from the listening socket, so the 503 is
  never sent.

*I/O.*
* A read that inherits `ETIMEDOUT` (as an idle child does) reports a timeout at the end
  of the stream, against `qio.c:118`.
* Accepted sockets block: setting `O_NONBLOCK` is commented out (`child.c:288-292`). `poll`
  says that something can be written, not how much (`qio.c:164-165`), so a child may
  stay in a `write` for as long as its client reads nothing, whatever the timeout.
* `streamWritev` goes on with the next buffer after a short write; `streamPrintf`
  and `streamPuts` poll with a timeout of 0.
* Any signal during the poll makes an idle child leave its loop (`child.c:99`).

*Files.*
* The range `-n` is read as 0 to n, and the end of a range is not limited to the
  size (`http_header.c:110`).
* A copy is judged by whole seconds and size: two changes in one second with equal
  size have one ETag; after a MOVE of an older file onto the name,
  `If-Modified-Since` says 304 for a copy of another file.
* Two PUTs at once mix in one file; `Depth: infinity` is read as 0; LOCK keeps
  nobody out.

*Log.*
* The clock is read twice while a file is opened (`qlog.c:273`, 309): if the
  boundary passes between, or the new file cannot be opened, the process goes on
  in the old file for a whole interval (`behind`).
* The time of the next rotation is computed without regard to summer time: daily
  logs then rotate an hour late (a `Shift` of 1 violates `InPlace`).
* `write_` succeeds although `fflush` failed (`qlog.c:145`, 166-168); lines being written
  when `childEnd` runs from the signal handler are never written. `LinesOnce` is about
  lines that were not lost so.

*HTTP client.*
* A late answer to a request that timed out, on a kept connection, is taken for the
  answer of the next (`qhttpclient.c:718`, 582). `AnswerIsOwn` says that nothing else
  mixes answers up.
* Contents that nobody wants should be thrown out (`qhttpclient.c:1391`, "read & throw
  out content"), but the buffer is NULL there (587, 725, 956, 1018) and `read` fails with
  EFAULT (`qio.c:128`): each answer with unwanted contents closes the connection.
* The client writes without a timeout on a blocking socket (1465, 1492): a PUT to a
  server that stops reading does not return, whatever `settimeout` said.
* Headers cut by a timeout or the end pass as complete (1285); an answer "until
  close" saves nothing and succeeds; the size of a chunk may be used uninitialised
  (780); `cmd` leaves a chunked answer on the connection (1133); HEAD waits for
  contents that never come.
* PUT answered 201 without a 100 fails; its last callback is called twice;
  `qhttpclient()` tests a variable it has not set (249).

*Containers.*
* A sorted list table takes a new name at its end (the comment at
  `qlisttbl.c:304` says it is kept sorted), and `load` always returns 0.
* `qstack` pushes an integer as `sizeof(int)` bytes and pops it as an `int64_t`
  (`qstack.c:267`, 329); `qvector` refuses the empty string.
* `qhasharr` refuses to replace a key when it is full, and a replacement that does
  not fit loses the old value. A value of size 0 makes its counters wrong.

## Mutants

Each property of a passing run has a mutant: a definition next to the one of the
code that differs from it as a bug would, with which TLC finds the property
violated. `SemEnterNoUndo` has no SEM_UNDO, `NewFlagForgets` does not add up the
rounds over the maximum, `ReapDoneForgets` loses a SIGCHLD that came meanwhile.
They are marked "Mutant of" in the modules and listed in `PROJECT.json`.

## Proofs

All are checked by `tlapm`, for every value of the constants that satisfies the
named assumption of the module (`QSemAssumption`, `TimedAssumption`,
`PoolAssumption`, `PreforkAssumption`, `ServerAssumption`, `StartupAssumption`,
`LogAssumption`, `FilesAssumption`, `SessionAssumption`, `QIoAssumption`,
`HttpClientAssumption`, `ListAssumption`, `ListTblAssumption`, `HashTblAssumption`). The processes at the
semaphore (`Proc`) are finitely many, since permits are counted; `Pid` and the
processes of the log need not be: the sets counted in `Pool` are sets of slots.

**`QlibcProofs`, the semaphore.** `TypeCorrect`, `MutexCorrect` (`MutualExclusion`) and
`RefinementCorrect` (`RefinesMutex`). Mutual exclusion alone is not inductive:
a second process could enter if the value were 1 while one is inside. The
invariant `IInv` adds that, until an unlock is forced, the semaphore agrees with
the processes: it is 0 with somebody inside and 1 with nobody, and SEM_UNDO would
give back exactly what a process inside took. A death then frees the
semaphore if and only if it was inside.

`PermitsCorrect` (`PermitsKept`) is about what follows a forced unlock, with deaths
and interruptions at any point. Its invariant `PermitsInv` has three parts:

* `Shape`: the undo of a process gives back no more than the sections it is in,
  the one it runs and the one it was interrupted in (it may give less).
* `Heap`: every surplus permit was added by somebody whose polls ran out. The value,
  the interrupted children and those that are about to add one (`Loaded`) are
  fewer than two for each process.
* `Covered`: the value and what all undos would give back make at least one, so a
  semaphore with nobody inside can be entered. A sum over processes would need
  induction; `Debts` is a set with as many elements as the sum of `2 - adj[p]`, and
  one operation changes it by an interval.

In `QSemTimed`, `OverrunCorrect` (`OverrunBounded`, with the types) follows from
`TimedInv`: for as long as a child has been inside, the watchdog has counted samples
(`Watched`), the daemon has polled, or a sample that was due was put off (`HeldFor`).
`ForcedByCrowdCorrect` (`ForcedByCrowd`), for any number of processes that run
sections one after the other, needs somebody to blame for each failed poll and each
locked sample. `CrowdInv` has them: each section takes at most `MaxHold + 1` polls of
a waiter, and those that did are the ones that overtook it and the one inside, that
has taken as many as its ticks (`Overtaken`); and when sections are shorter than
the time between two samples each is seen by one of them at most (`Sampled`).

**`PoolProofs`.** `TypeCorrect`; `OneSlotCorrect` and `NoGhostCorrect`, which
hold whether or not sections overlap, as does `ExitRequestCorrect`
(`ExitRequestKept`, an action property); `SlotOwnedCorrect`, and `RegistryCorrect`
(`RefinesRegistry`), until an unlock is forced. The invariant has four parts:

* `TypeInv`: `TypeOK` is not inductive, since a child in the middle of its
  registration must also have found a slot.
* `SlotsInv`, for what needs no lock: an occupied slot's child is at a place
  where it can have one, or the daemon is deleting it; a child that knows a
  slot holds no other; the child being deleted does not exist. A child is
  born without a slot, so it never takes a second one.
* `LockInv`: until a section is entered while another runs, whoever is in a
  section holds the lock, and nobody else does.
* `OwnInv`: the slot that `poolChildReg` found is still free when it takes
  it, and a registered child is in the slot it knows.

`RegistryStep` maps each action to a step of `Registry` or to none. The one step
that needs the room is `RegSlot` (`RoomLeft`: a free slot means fewer members
than slots).

`RunningCorrect`, `WorkingCorrect` and `FlagCorrect` (`RunningExact`,
`WorkingExact`, `ConnectedIsServing`) make `CountersCorrect` (`CountersExact`).
Outside the sections the counters are exact; the invariants `RunInv`, `WorkInv`
and `FlagInv` say by how much they are off inside each, and that nobody else is
inside then.

**`PreforkProofs`.** `TypeCorrect` and `SlotForEachCorrect` (`SlotForEach`). The
property is about the moment of a fork, so `ForkInv` says what the daemon knows
when it comes there: it has at most one unborn child, and that only while it
waits for it (`OneBorn`); the children are not more than it counted, but for the one
that was half registered then (`early`); the count was below the number of slots, if
the configuration is sensible (`Configured`); and the flag asks for children only in
the round that computed it (`RoomCounted`), which is what a failed fork breaks.

**`ServerProofs`.** `TypeCorrect` and `NoneServesCorrect` (`NoneServes`). That a
child serves after the daemon's end can only be traced back through all the
rounds: `ServerInv` says that a serving child is in the pool and counted, at the latest
when it comes to its loop, and an unborn one is waited for, or known to be `late`
(`Known`); that a pending SIGHUP is one that was sent (`Sent`); and that a child which
still serves had another SIGHUP before each of the rounds with a SIGTERM so far, or
the counter is wrong (`Outlived`). With fewer SIGHUPs than rounds, and a counter that
is right, nobody is left.

**`HostProofs`, the instances.** `StartsAndEndsCorrect` (`StartsAndEnds`). Until two instances have
lived at once (`raced`), only one lives, the pid file is its own from when it has
written it to its end, it owns what it has made, and the key it frees is the
key it makes next (`Alone`). What an instance gave back stays away until another
makes it (`GivenBack`). What it leaves is what it made and does not know of
(`Unknown`), memory it could not attach.

**`HostProofs`, the log.** `LogKeptCorrect` (`LogKept`), of two parts.

* `InPlaceCorrect`, that each line is in the file of its time, if local time has no
  summer time (`Shift = 0`) or nothing is rotated by the clock; with summer time it
  is not so. Each process rotates by a time it made itself, so `Timed` says where
  that time lies: at the end of the interval whose number is that of the name plus
  how far the name was behind. While it has not come, the number of the interval
  is that sum (`Intervals`), which is what a line takes along. `Buffered` and
  `Filed` say that lines keep to the file they were written for, in the buffer and
  after it.
* `LinesOnceCorrect`, that no line is lost or doubled, in any time zone. Files and
  buffers are texts at places (`TextsAt`); a line is in at most one place and at
  most once there, and what was said to be written, and was not lost with a buffer
  (its process was killed, or a write of it failed), is in one (`Kept`). `Flushes`,
  `Begins` and `Loses` are the only ways in which texts move. `OwnLines` says that a line which is begun, and not yet in a buffer, is one
  process's and nowhere else; `Ready`, that who has no log has empty buffers.

**`HostProofs`, the files.** `SendsWhatIsThereCorrect` (`SendsWhatIsThere`),
`DidWhatItSaysCorrect` (`DidWhatItSays`) and `CopyIsGoodCorrect` (`CopyIsGood`, an action
property), for any tree, any number of children and any requests; `FilesInvariant` is
what they follow from. It has three parts:

* `Known`: the tree is one (`GoodTree`), and each child knows what it thinks it does
  (`ChildOK`). A GET that nobody disturbed has seen the file as it is (`Seen`), has
  sent a piece of it (`SentSo`) and finds it where it was (`Finds`); what a PUT has
  saved is what the file holds (`Stores`); and a PROPFIND has in its list all of
  `kept` that comes before the name it is at (`Lists`).
* `Copied`: where the client's copy is from there is a file with its contents, one
  that was changed in or after the second of its Date, or none (`CopyOf`), until a
  MOVE is made. A request that asks about a copy asks about this one.
* `Accounted`, which is inductive once `net` is known for each place of a request: a
  step that adds or removes a name changes `net` or the answer by the same.

Each change of the tree is somebody else's as well. What it does to every path is
said once, of trees: what existed still does (`Loose`), all but one inode is as it
was (`Stays`), a path leads where it led or to or from that one inode (`Firm`, which a
MOVE is not), and what is changed has the time of now (`Dated`). These are proved by
induction over the length of a path, with the set of the lengths for which they hold in
place of a predicate (`NatSetInduction`, from the well-foundedness of `<`). Then there is
one lemma per action (`GetStatSettled`, ..., `EntrySettled`) that the step is `Settled`:
each child still knows, and names and answers agree. `CopiedSettled` and
`AccountedStep` do the rest.

**`WireProofs`, the session.** `InStepCorrect` (`InStep`), for any number of requests and any
size of contents, and `DoesAsToldCorrect` (`DoesAsToldStep`, the action property that
is half of `ClosesAsTold`). That an answer is the one to its request depends on
where in the client's messages the server is, which no variable says. The
invariant has three parts:

* `Types`, with what is known at each place whatever was read (`Known`): an answer
  that is out has the `keep` by which the loop goes on.
* `SentAhead`: a request sent before its predecessor was answered is in `piped`.
* `Steps`, as long as the requests are `Orderly`, which once broken stays broken
  (`OrderlyBefore`). What is on the way and what the client still sends (`Coming`)
  is a walk through the parts of the requests asked (`Way`), to their end unless the
  client cut it off. `At(k, j)` says that it begins with part `j` of request `k`,
  `Has(k, j)` that it begins behind that part. There is a conjunct for each place of
  the server (`Reading`, `Loading`, ..., `Answering`) that says which part comes
  next and what is stored so far; `InPlace` is about the answers, `Waits` and
  `Refusals` about "100 Continue".

Two steps need more than the place. A PUT refused by its header leaves nothing
unread if it has no contents or its client waits with them (`RefusedWaits`), and
the block that is read for a GET has the rest of its header and nothing else,
since nothing is sent ahead of the answer to a GET (`ReadHeader`). Outside
`Orderly` both fail.

**`WireProofs`, the calls.** `SaysCorrect` (`SaysWhatItDid`) and `DrainsAllCorrect`
(`DrainsAllStep`, an action property), for any bytes, sizes of calls and chunks,
and any peer. The invariant `IoInv` says of a call that runs where the bytes are
between the inner loop and the outer one (`Running`): a read has taken what it has
got (`Reads`), a line is the text of the bytes before this one and has room
(`Gets`), a send that reads has given all that it took (`Sends`), what was given
are the first bytes of what was taken (`Gives`), and an inner loop that stopped
before its limit was slow or cut short (`Shape`). A return of 0 needs `Blamed`: that
time ran out is in `errno` because of this call, or was when it began. `TruthOf`
is what the property says, of any call that is done.

**`HttpClientProofs`.** `TypeCorrect`, `AnswerIsOwnCorrect` (`AnswerIsOwn`) and
`ResultTrueCorrect` (`ResultTrue`), for any sizes of contents and any piece that
is read at once, on a connection on which no earlier call has left its answer due.

* `Safe` relates the call to the connection and the server, which are in one of
  four phases: the request is on its way (`Asked`), the server waits for contents
  (`Waiting`) or takes them (`Taking`), or it has answered (`Answered`). What comes
  down is of this request and has at most one status line that is not `100`
  (`Coming`), so the one that is read is its own.
* `WholeInv` says how far the answer was read: what has been kept is the beginning of
  its contents, and what comes continues there (`Stream`, `Position`). A call that
  ended with TRUE has kept them all (`Whole`) and left nothing on the connection.

**`QListProofs`.** `WellLinkedCorrect` (`ListsWellLinked`) and `DequesCorrect`
(`ListsAreDeques`), for any number of objects, any data, limits and indexes. No variable
says in which order the objects are, so the invariant (`ListInv`) says that there is one:

* `Linked(list, q)`: the links forward and back lead through `q` from end to end, each
  object is in it once, the objects in use are those in it, and the counters are
  its length and the memory its objects take. `Hop` and `Chain` follow links: that
  they come along the places of `q` (`HopAlong`, `ChainAlong`) is proved by
  induction over the number of links, with a set of numbers in place of a predicate
  (`NumberInduction`), and that both halves of `_get_obj` find the same object is
  `GetObjIs`.
* `WalkOK(walk, list, q)`: an undisturbed walk is between two places of `q`. It is due to
  see what is there from the second one, and has just seen the first one, unless that
  was taken meanwhile; taking it leaves the walk between two places (`TakenOK`).
* `KeptAs(kind, Objects(list), log)`: a queue and a vector have in their places what was
  pushed, a stack has it the other way round.

`Link` inserts an object into the order (`LinkLinked`) and its data into the sequence
(`LinkInserts`), `RemoveObj` takes it out of both (`RemoveLinked`, `RemoveRemoves`), and
exchanging the links turns both round. From that each call is one of the abstract deque
(`AddIsAdd`, `TakeIsTake`, `ListIsDeque`). Without `RemoveObj`'s correction of the link
back, as in its mutant, `Linked` does not hold of any order.

**`QListProofs`, the list table.** `ListTblFinds` (`FindsAll` and
`SortsStably`, what `TablesAgree` says of it) and `ListTblKeepsCorrect` (`PutStep`
and `SeesAll`, the steps of `ListTblKeeps`), for any names in two cases, any elements,
options and calls. The invariant (`ListTblInv`) has two parts:

* `Grouped(tbl)`: in a sorted table the elements of a name, as the table compares
  names, are next to one another. That is weaker than being in order, which a put of a
  new name or a load breaks, and it is what a search that stops at the first
  other name needs (`GoesOn`). Each call keeps it: a put goes next to its like, or to an end
  if it has none (`PlaceForIs`, `InsertedGrouped`); taking elements out and
  turning the table round do not separate any (`KeptGrouped`, `TurnedGrouped`);
  sorting makes it so, whatever was there before (`SortedGrouped`).
* `CursorOK(tbl, cursor)`: what a walk has seen, and what is left from where it is
  (`Left`), are together what there was to see, and all of what is left is reached from there
  (`Onward`). Taking what it has just seen moves the rest by one place, or not,
  depending on the direction (`RemovedUnderWalk`).

Sorting is proved by the loop of `sort_`: up to a place of a pass, and beyond the place
where the pass before made its last exchange, what comes later is not less (`Settled`,
`BubbleStep`), each pass has less to do (`PassIs`), and an exchange of two
different names keeps the elements of each name in order (`SwapKeeps`). All of it is said of
sets of places and their ascending lists (`Ascending`, `ElementsMoved`); the functions
by which `Multi`, `Pass`, `Sorted` and `Loaded` are defined are given by `Recursive`, an
induction with a set in place of a predicate.

**`QlibcProofs`, the hash table.** `HashTblCounted` (`Counted`, what `TablesAgree` says
of it), `HashTblIsMap` (`MapStep` and `WalkStep`, its part of `HashesAreMaps`) and
`HashTblRefines` (`QHashTbl` implements `Dictionary`), for any keys, hashes and number
of chains. The invariant (`TableInv`) has two parts:

* `Sound(tbl)`: each object is in the chain of its hash, a name once in a chain, and
  `num` is the number of objects. `num` matters for `clear`, which stops when it has
  counted down to 0: only if it is right are all chains emptied (`ClearStep`).
* `WalkInv`: an undisturbed walk is at a key of the table, its link leads to the next
  one of the chain, and it has seen the keys up to there (`Passed`: those of
  earlier chains and of earlier places in this one), each once. Where the chain
  ends the next key is the first of the next chain in use (`NextKeyFirst`), so a walk
  that ends has seen them all.

What a chain answers is `Look`: putting an object in front (`PushChain`), changing
(`SetChain`) or taking one (`CutChain`) changes the answer for one key, and a
change of one chain leaves those of the others (`OtherChain`). `OneMore` counts: one
chain longer by one is one object more. From that each call is one of the
abstract dictionary (`TableSteps`).

The type invariants of all these modules are proved; that of `QHashTbl` is `Sound`, that
of `QList` is a part of `Linked` and `WalkOK`, that of `QListTbl` of `ListTblInv`, `Startup`
has none of its own, and that of `HttpSession` is a conjunct of `InStep`.

What the properties exempt, and the models show otherwise: `InStep` is about
`Orderly` requests, `StartsAndEnds` about servers that were not `raced`,
`HashesAreMaps` about a hash array that is not `astray` (`AlwaysMap` is the claim
without it), `AnswerIsOwn` about calls after which no answer was left due, `NoneServes`
about a counter that is right, `CopyIsGood` about changes that a whole second can tell
apart.

Checked by TLC only: everything about liveness and `ENABLED`, which is out of the
prover's reach (so `Served`, `Returns` and the other temporal halves of the
properties above); and the hash array. Of `TablesAgree` and `HashesAreMaps`, which
join the containers in one run, its part is the one not proved. `LogKept` where
there is summer time is not claimed.

## What is not modelled

* Parts without state that is shared or kept: the configuration parser, the status
  page, the access log, authentication, the mime table, the version, and the
  strings, encodings, times, parsers and database wrapper of qlibc. Hooks and Lua
  call user code.
* The pool's address and time fields, the signals that change the log level,
  socket options, TLS, the text of headers and answers.
* Of the daemon and the children: the instants between `poolChildDel` and `exit`, in which
  a SIGTERM that finds a SIGHUP pending would set `bExit` of a slot given away
  already (`child.c:232`, `pool.c:326`). `Pool` has counters torn by a death, and
  `Server` one that is wrong (`skew`); `Prefork`, which has no deaths, has neither, so
  its liveness is about counters that are right.
* Of the list table: `save` and reading a file back, which cut and trim what they store
  (`qlisttbl.c:1095`, 1140-1148); the server calls neither.
* Of the HTTP client over TLS, where unwanted contents are thrown out.
* Summer time in the run of the log: `InPlace` is proved without it and false with it.
* The order in which the kernel wakes processes (every order is allowed); memory
  reordering between processors of the unlocked reads (each is a read of one
  aligned word, taken at any moment by the interleavings).
* Failed allocations in the containers; `getnext` after the next object of the walk
  was freed, which is undefined; a SIGTERM between `fclose` and the assignment of
  the new stream in `qlog.c:296`, which would close the stream twice.

## Running

`tlc -config MCPool.cfg MCPool` and so on (`PROJECT.json` names module and
configuration of each run); `tlapm PoolProofs.tla`. The longest runs are `pool_live`
and `host` (6.3 million states; each under three minutes), `containers` and `prefork`;
the proofs take some minutes in all.
