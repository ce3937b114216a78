# tuxone in TLA+

tuxone is a transaction middleware with the ATMI interface: *servers* offer named services, *clients*
call them, and *gates* (`txgate`, one per machine) tell the clients which servers there are. This
directory models its coordination (the gate's shared memory and processes, the lock, the notification of
changes, the library an application is linked with, the network servers under it) and what becomes of data
on the way (messages, typed and fielded buffers, views, settings). TLC checks the models on small
instances; TLAPS proves the most important safety properties for all instances.

Paths below are under `src/code/src` unless they begin with `src/`; LWPR is the base library in
`src/code/ext/lwpr/src`.

## 1. The system

### Processes

```
                 shared memory: bulletin board, one semaphore
                  ^            ^             ^            ^
  txgate ---fork--+--> WSH ----+---> WSH ----+--> SYNC ---+--- TCP ---> WSHs of the other gates
  (main loop)          |  ^ UDP "N"   |            |
                       |  +-----------+------------+
                  TCP  |
       App: check thread, calling threads (client)  --TCP-->  App: network server (server)
```

| component | state | operations | talks to |
|---|---|---|---|
| bulletin board, services (`libtmb/BulletinBoard`) | table of slots (name, address, owner, state), sequence number | RegisterService, UnregisterService, SynBB, GetAllSVC, IsSvcUpdated | every process of the gate, through shared memory |
| bulletin board, WSHs | table of slots (pid, port, connections, state) | RegisterWSH, CleanupWSHByIndex/ByPID, UpdateWSHConnectionTotal, GetAllWSH, WakeupOtherWSH | txgate, WSHs, SYNC |
| lock of the board (LWPR `IPCSEM`, `Synchronized`) | a System V semaphore and the kernel's undo records | Lock, Unlock | all of the above |
| txgate (`txgate/txgate.cpp`) | its children, the pid of SYNC | fork, housekeeping round, stop | board; signals |
| WSH: network server (LWPR `MTNetServer`) | connections, worker threads, the pipe with orders | accept, serve, DestroySocket, WriteSocketPositive, Shutdown | GateNSHandlerImpl, AppNSHandlerImpl |
| WSH: requests (`GateNSHandlerImpl`, `AppDepot`) | applications by descriptor, with the time of their last heartbeat | RegisterApp, SubscibeService, FetchBB, DoClientAmountUpdate | board, HousekeepingThread |
| WSH: `HousekeepingThread`, `WaitNotifyThread` | the number seen last, the flag that this WSH was the cause | expire, BroadcastNotice, NotifyOtherWSH | AppDepot, board; datagrams |
| SYNC (`GateManager`, `GateProxy`) | a connection and two numbers per other gate | heartbeat, fetch, ClearBB | other gates' WSHs; board |
| App: `GateCheckThread` | connection to a gate, the numbers of the last registration and subscription, two mutexes, a pipe | heartbeat, subscribe, wait, DownloadService | a WSH; the calling threads |
| App: `AppContext::tpcall`, `LocalServiceStub`, `ServerProxy` | the servers of each service, a connection to each, references, a balance factor | pick, call, replace, Term | GateCheckThread, servers |
| App: `ServiceRepository`, `AppNSHandlerImpl` | services still to be registered, services registered | tpadvertise, RegisterSvcDone, MakeSvcRegister; run a service, tpreturn | GateCheckThread, user code |
| App: `ATMIBufferManager` | typed buffers, the cache of idle ones | tpalloc, tprealloc, tpfree, tptypes | user code, tpcall |
| `FML32API`, `View32*`, mkfldhdr32, viewc32 | a fielded buffer's body; tables of fields; descriptions of views | Fadd32, Fchg32, Fget32, byte order; parse, measure, adjust | user code, messages |
| App, txgate: configuration | options | environment, files, command line | everything |
| LWPR: `ThreadPool`, `TimerThread`, `Resource`, `EventNetDispatch`, `STNetServer` | queues of work, threads, selected descriptors | add, take; accept, serve | tests, WSH threads, servers |
| tmadmin, tmshutdown | what they read of the boards of a host | list, ask, kill, wait, ipcrm | boards, signals |
| build tools, txnotify | none | one pass each | files |

### What is hard

* **Several processes on one memory.** Every board operation runs under one semaphore, but decisions are
  taken between them: txgate condemns slots on a copy of the table; a WSH compares a number and
  then acts.
* **Ends of processes at any point.** A WSH has no orderly end as far as the board is concerned
  (`UnregisterWSH` is called by nobody). pids are used again. The lock is given back by the kernel.
* **News by number.** Nobody compares contents. WSHs compare the board's number with the one they saw
  last, clients compare the one a heartbeat returns with that of their subscription, SYNC does the same
  with other gates. The number wraps; it starts again with the gate; it belongs to one gate.
* **Lost wake-ups.** A notice can be read by `Invoke` while it waits for an answer, a datagram can be
  read after the wake-up it should cause, a flag can be taken by another round. Intervals make up for it.
* **Descriptors without owners.** The selecting thread, the workers and housekeeping hand descriptors to each
  other without a lock on them, and the kernel gives a closed one to the next connection.
* **Two mutexes and a pipe.** The check thread sleeps under `m_MutexGate`; calling threads must get it.
* **Proxies that are replaced while calls hold them**, and connections that break in the middle of a message.
* **Failover, late answers, retries.** An application goes round its gates; tpcall goes round the servers; `Invoke` repeats
  a request once; a timed-out request is repeated.
* **Data between hosts.** Byte order, widths of integers and offsets differ; buffers are reallocated while they are used.

### What makes each component correct

| component | property | where |
|---|---|---|
| board | no registration twice; exactly the right entries change; every change moves the number | `UniqueEntries`, `ImplementsDirectory` |
| board | equal numbers mean equal contents, up to the wrap | `EqualSeqMeansFreshView` |
| WSH table | the slot of a running WSH is its own; counts are not too high; dead slots go | `TableKept`, `DeadSlotReleased` |
| txgate | the gate serves again after any crash | `ServiceRestored` |
| lock | exclusion, never lost, no starvation | `LockKept`, `LockedAgain` |
| registration of servers | every service on the board is somebody's to withdraw; gone servers are unlisted, living ones listed | `SomeoneWithdraws`, `GoneIsUnlisted`, `EveryServerRegisters` |
| WSH: connections | a descriptor has one handler, and none when it is closed | `OneHandler` |
| notification | what is seen is told; every WSH tells | `SeenIsTold`, `EveryWshTells` |
| SYNC | copies do not outlive the connection they came by; they catch up | `CopyOfConnection`, `CopyCatchesUp` |
| application and gate | answers are not mixed up; no server offered that is gone; no thread shut out; lost notices are made up for; tpterm ends | `AnswerIsForRequest`, `NoStaleServer`, `DownloadEnds`, `CatchesUp`, `LifeKept` |
| tpcall | shared proxies, connections and mutexes are kept; own answers; every server is tried; at most once | `SharedKept`, `CallsKept`, `ImplementsRemoteCall` |
| serving | the client is told what its own service said; buffers are freed; the process ends only on demand | `ServedAsPromised` |
| network servers | a connection is in one hand; the count is right; nobody waits for ever | `SocketsKept`, `NobodyWaits`, `ClientsServed`, `ClientsKept` |
| pool and timer | no wake-up overslept; requests are taken, timers run in their time | `RequestsAreTaken`, `TimersKept` |
| exchange of messages | messages are never cut wrongly; answers belong; a retried request was not executed | `ExchangeKept` |
| data | buffers, fields, messages, views, headers, settings and lines are what was put in | `BuffersKept`, `FieldsKept`, `MessageArrives`, `ElementsArrive`, `HeadersRight`, `StrongestCounts`, `ReadAsWritten` |
| administration | no board is taken away beneath its gate, nothing is left of what was stopped, no removed board is shown | `ToolsSafe` |

## 2. The modules

Every module opens with what it models and what it leaves out; a definition carries the name of the function
or field it stands for wherever there is one. A definition introduced by "A mistake:" is not part of the
model: it is a plausible error in the definition that follows, and a run with it in place must find the property
violated.

### ServiceDirectory, BulletinBoard (`libtmb/BulletinBoard.cpp`)

`BulletinBoard` has the table as the code has it: slots with name, address, owner and state, searched from the
front; a slot that is released keeps its name, address and owner, which `UnregisterService` does not mind
(`SlotsAt`). One operation is one action, because each runs under the semaphore (`Synchronized syn(m_nSEMID)`).
`RegisterService` is the disjunction of finding the service (`ConfirmService`) and taking the first idle
slot (`PlaceService`); a full table changes nothing. `SynBB` is given by what it does to the table (`Same`, `Gone`,
`Diff`, `Fits`); the order of the stream is left open. `remembered` is what a client has from its last
subscription, `lag` a history variable that counts updates since.

`ServiceDirectory` is the promise: a set of entries of bounded size, and a version that changes when the set
does. `BulletinBoard` implements it by `directory <- {EntryOf(tblSVC[i]) : i \in Busy(tblSVC)}`.
The promise is looser in one place: which new entries of a copied gate stay out when the board is full.

### WshPool (`txgate/txgate.cpp`, `txgate/txwsh.cpp`, the WSH table, `MTNetServer`'s count)

`proc` says what runs under each pid, foreign programs included. txgate's round is split where other
processes can come between: copy the table (`Housekeep`), one `kill(pid, 0)` each (`Probe`), release (`CleanupWSHByIndex`), decide
(`Balance`). A connection's end is split the way `MTNetServer` splits it: `Expire` (counted, the order
written), `CloseExpired` (done by the selecting thread), `DisconnectExpired` (a worker was first, and
counts again), `CloseStray` (the order finds another connection on the descriptor, or none).

### IPCSem (LWPR `IPCSEM.cpp`, `Synchronized.cpp`)

The semaphore, the undo record of each process, and where each thread is. `Lock` adds to the record, `Unlock` does
not. `Exit` is the kernel's: it adds the record, up to the limit. BulletinBoard and WshPool take operations on the
board to be atomic; this module says what that rests on: it is right (`ExclusiveWhileIntact`, `NeverLost`) until a
process ends that had used the lock before, and not after (`MutualExclusion`).

### WshNotify (`HousekeepingThread.cpp`, `WaitNotifyThread.cpp`, `GateNSHandlerImpl.cpp`, `GateProxy.cpp`)

For each WSH: a handler that changes the board and then calls `Wakeup(true)` in two steps (flag, thread), the
housekeeping round (`Wait`, `Expire`, `IsSvcUpdated`, `BroadcastNotice`, `NotifyOtherWSH`), and the thread that waits
for datagrams (`Select`, `ClearUDPSocket`). SYNC changes the board and tells everyone. Contents are left out: `seq`
is all the threads look at.

### GateCheck (`GateCheckThread.cpp`, `AppContext.cpp`, `LocalServiceStub.cpp`, `Message.cpp`, and a gate's side)

One application, any number of gates and calling threads. A conversation is `request` (what is waited for),
`work` (what the WSH is doing) and `inbox` (written and not read), so notices come before or after an answer, a
connection dies with things in it, and an answer is late (`Fail`). The check thread's place is `check`; `mutexGate`,
`mutexResource` and `pipe` are the locks and the byte that gets it out of its wait. `call` is where each caller
is in `tpcall`. A gate's board is reduced to its number and to whether it has a server for the one service.

### AppRegistry (`GateNSHandlerImpl.cpp`, `AppDepot.cpp`, `HousekeepingThread.cpp`, `ServiceRepository.cpp`, `MTNetServer.cpp`)

Servers with their two lists (`will`, `already`) and their connection (`link`); WSHs with the depot, the set of selected
descriptors (`active`), the orders to the selecting thread (`pipe`) and the workers (`worker`: which descriptor, which
request, how far). `RegisterApp` of the code is `RegisterService` for each name and then `RegisterApp` of the depot; the end of a
connection is `UnRegisterApp`, `UnregisterService`, `CloseSocket`, because other threads come between; a round of housekeeping is `CheckApps` (the
copy), and for each application `Expire`, `ExpireServices`, `DestroySocket`, `UnRegisterExpired`. A descriptor that is closed may be
any server's next. Selecting a readable descriptor and taking it out of `m_ReadableSockets` are one step. A worker may serve any WSH:
the number of workers bounds all together.

`crossed` is a history variable. Housekeeping works on a copy, and `DestroySocket` does not ask who has the descriptor: when it
gives up an application that moves at this moment, it hits another connection, or one that is being served. What follows is
described in section 3; the model stops beginning anything new then, and the properties say nothing of it. Without an expiry they hold unconditionally.

### GateSync (`txgate/GateManager.cpp`, `GateProxy.cpp`, and the gates at the other ends)

SYNC's turn with each other gate: connect, register as a gate, beat, fetch when the number asks for it, wait for notices or the
interval. Of another gate there is what SYNC can see: whether it runs, its life (a gate that starts again is another), what it offers, its
number modulo `SyncSeq`. `copy` is what the own board has of it. A break is noticed in whichever call comes next, and each of them
takes the copy back (`ClearBB`). The number 0, also after a wrap, means "no news" (`SyncServiceOf`).

### AppLife (`libtux/ATMIAPI.cpp`, `AppContext.cpp`, `GateCheckThread.cpp`)

tpinit, tpterm, the start and end of a server, `InitGateCheckThread` with its pipes and mutexes, and the check thread as far as these
concern it. It shows what the second tpinit of a process does: the thread is started only once, the pipe is replaced beneath it.

### RemoteCall, ServerCall (`AppContext.cpp`, `LocalServiceStub.cpp`, `ServerProxy.cpp`)

`RemoteCall` is the promise of tpcall: executed at most once, an answer only after an execution, TPENOENT only for what is never
executed, TPESVCERR for what will not be executed any more; TPETIME leaves it open. `ServerCall` has the objects: a `ServerProxy` is
`<<address, n>>` with its reference count, its one connection, the mutex held during `CallServer`; `UpdateProxy` and `Term`
replace the maps while calls hold proxies; `g_nFDCount` bounds the cached connections. A server executes, answers, closes, falls silent
or ends at any point. `ServerCall` implements `RemoteCall` under a mapping of where each call is.

### Serving (`AppNSHandlerImpl.cpp`, `AppContext.cpp`, `ATMIAPI.cpp`)

Several workers that carry out requests: the buffer allocated for the request, the jump of tpreturn, `svcInfo` of the thread, the reply and the
freeing of buffers, services that are unknown, that never call tpreturn, that end the process.

### Exchange (`Message.cpp`, `TuxNSHandlerImpl.cpp`, LWPR `Socket.cpp`)

`Invoke` and `DoReceiveNormalData` with the loops of `ReadSocket` and `WriteSocket` under them: messages of several units over a connection that
holds a few, notices in between, and the one repetition on a new connection. After any unit either side may give up: on a timeout, because the other has closed, or because
a signal has interrupted select (`Socket.cpp:323`, `:360`) while the other is there and well: `WriteFails` and `ReadFails` ask nothing of the connection. So a body half written
may be given up, and the request sent to another server, while the first has a part of it and never gets the rest.

### NetServer, STNetServer, EventNetDispatch (LWPR `MTNetServer.cpp`, `STNetServer.cpp`, `EventNetDispatch.cpp`)

`NetServer`: a pool of threads that take turns to hold `m_MutexEvent` and to select; the lists of readable and writeable sockets they hand to each
other; the manager that makes and ends threads; the pipe with orders; Shutdown. A connection is in one of five places: selected, in the list of what can be read, in a hand, on its way
back, or on its way to its end.

Every write to the pipe can fail, on a signal. What follows differs: `EnableSocket` closes the connection and leaves it in the count (`leaked`); `DestroySocket` drains it, counts it out and
takes it out of the set, and it stands for good (`forgotten`); the others do not look (`Tried`), and a notice, the end of a thread, or of all threads, waits until the select ends for another
reason. `Shutdown` is two steps, the message and `StopRunning`: a thread that goes to select between them is woken by the manager's message at its end, if that is written (`unwoken`).
Left out: the pipe is closed a second after the manager's end and is still there in the model; `ClearSocket` does not end when the peer has closed just then; the manager's ten seconds may be cut
short by a thread (`Notify`), which here is any moment; and a notice for a high descriptor may wait as long as new ones for lower descriptors come in, which the bound on notices excludes.

`STNetServer` is the server of one thread (`threadMode=ST`), `EventNetDispatch` LWPR's first one, which its tests use.

### ThreadPool, TimerThread (LWPR)

A condition variable is the set of those asleep on it; `Resource` counts wake-ups that nobody has taken. The pool has a manager
that starts and stops workers; the timer sorts its requests and waits until the first is due.

### Shutdown (`tmshutdown.cpp`, `tmadmin.cpp`, `BulletinBoard.cpp`)

The gates of a host begin and end while tmshutdown goes over the boards it found (`kill`, wait, `ipcrm`) and tmadmin shows one of them. A board
comes into being in three steps (segment, header, semaphore), so that the tools can find it half made; a pid can be another process's.

### Data

* `FieldedBuffer` is the list of fields a program has made; `Fml32` is the body cell by cell with `Fadd32`, `Fchg32`, `Fget32`,
  `Foccur32` and the change of byte order, and implements it until `Fchg32` has torn the fields (`spoiled`): a text that is changed to one of another length, or a field deleted
  before a rest of another length. The actions of `Fchg32` do in any case what the code does; what its comment promises is `FchgAsCommented`. `Foccur32` walks by the width of the first field, and may
  then take bytes of a value for an identifier: it gives one of several numbers.
* `FieldTable` (mkfldhdr32): numbers, bases and types, and the identifiers in the header. A base given after fields changes those too when the header is written; that identifiers are unlike is said
  for tables with one base, in front (`OneBase`).
* `ViewFile` (viewc32): from the lines to the structures, the header and the description with offsets. `ViewAdjust`: the elements of
  a view on hosts with other byte orders, widths and offsets, there and back.
  Numbers are signed, in two's complement; a long that comes from a host where it is narrower is read without its sign, as the code does.
* `AtmiBuffers`: blocks, sizes, types and the cache of idle blocks under tpalloc, tprealloc, tpfree and tpcall. A block that was a view and is given out again as something else keeps the view's name
  (`wasView`). An entry that is copied after it was erased says of itself whatever it likes, sizes apart (`AfterErasure`), and its block is followed as such (`torn`): it may be given out
  twice, and what the properties say of a block they say of the others; the total of bytes is right with it.
* `ByteOrder` has integers in memory; `Messages` has Marshal and Unmarshal of every type of message over streams and buffers.
* `Settings`: which of five places counts and the limits. `Scanning`: the sscanf patterns that take lines, addresses and lists apart.

### The abstractions between modules

BulletinBoard takes an operation as atomic (IPCSem), and so does AppRegistry, which reduces the board to a bounded set of registrations. WshNotify, GateCheck and GateSync reduce the board to what
`ServiceDirectory` promises of it: a number that moves with every change. GateCheck takes it from WshNotify that changes are
broadcast in the end (`EveryWshTells`): its `Broadcast` is weakly fair. ServerCall takes a message as a whole, and that an answer is the one
to the request, from Exchange; Serving takes the pool of threads from NetServer. NetServer lets the selecting thread itself call `DestroySocket`; what housekeeping's call does is in AppRegistry.

## 3. The runs

An MC module puts components side by side that share no state: a variable that never changes (`part`, `which`, `side`, `tool`) chooses in the first state
which of them a behaviour is of, and the others stay as they are. A property of one of them is then checked in the behaviours of its own
part; fairness is stated for each part. So one run asks one group of questions. All runs finish within a few minutes with two workers. Deadlock is checked by
`gate_check`; the other runs have parts that may stop (txgate stopped, a bound spent, a tool that has finished).

| run | properties | instance, and why it is enough |
|---|---|---|
| `board` | UniqueEntries, EqualSeqMeansFreshView, ImplementsDirectory | 2 slots, another gate, 2 names, 2 addresses: 4 services for 2 owners on 2 slots, so the board is full, idle slots lie before busy ones, and SynBB drops services; a client with any set of names; numbers modulo 3, so they wrap and the condition `lag < SeqMod` matters |
| | ToolsSafe | 2 boards, 2 pids, one foreign process: a pid found in a header is a gate's, another gate's or a stranger's when it is used |
| `wsh_pool` | TableKept, DeadSlotReleased, ServiceRestored | 2 slots, 3 pids, a crash, a foreign process: enough for a slot to be condemned and released and for its pid to come back in any role; a connection per WSH and a drift of 1: a close is counted twice, and a slot gets a second owner with the first one's count in it |
| | RequestsAreTaken, TimersKept, ClientsKept | 3 workers of which the manager makes and ends some, 2 requests; delays of 0 and 2 in both orders; 2 threads and 2 clients for the dispatcher |
| `registry` | SomeoneWithdraws, OneHandler, GoneIsUnlisted, EveryServerRegisters | two servers with one service each for a board with one slot, two WSHs with a descriptor each, two workers, and one fault (late answer, end of a server, expiry) at any point: a server meets its own old connection on the other WSH, and the other server's on its descriptor |
| | LockKept, LockedAgain | a WSH and SYNC with a thread each, limit 4: several sections before an end, and the limit is reached |
| `wsh_notify` | SeenIsTold, EveryWshTells | one WSH and SYNC, three changes anywhere in a round; other WSHs only change the number and send datagrams, as SYNC does |
| | CopyOfConnection, CopyCatchesUp | 2 gates that take turns, numbers modulo 2, 3 changes, one end, break or timeout |
| | LifeKept, ClientsServed | the check thread is made ready up to three times; 2 clients for a limit of 1, 3 descriptors with the listening one between the others |
| `gate_check` | AnswerIsForRequest, NoStaleServer, DownloadEnds, CatchesUp | a gate that may end and start again, a caller who competes with the check thread, two changes, one failure of any kind at any point: the new number is above, equal to or below the remembered one. Several gates are the subject of the theorems and of `gate_check_new_gate` |
| `net` | SocketsKept, NobodyWaits | 2 threads (one made and ended by the manager), 2 descriptors, one notice or failed write to the pipe of `EnableSocket` or `DestroySocket`, one message in the pipe when another is begun; a message of a notice, of the manager or of Shutdown is written or not, whatever the bound |
| `data` | SharedKept, CallsKept, ImplementsRemoteCall | 2 threads, a service of 2 servers, one cached connection, 2 calls together, one tpterm: two calls compete for one proxy, turn to the second server, and hold a proxy that is replaced; the factor wraps at 3 |
| | ServedAsPromised | 2 workers, 2 buffers, 2 requests of a known and an unknown name, two types |
| | FieldsKept, HeadersRight, MessageArrives, StrongestCounts, ReadAsWritten | bodies of 8 cells, with fields of three lengths; tables and files of a few lines; every message type between hosts of either order; values outside a setting's limits on both sides; every mark with every blank |
| | BuffersKept | 2 blocks of up to 2 bytes, views of two names and one type that is none: a block is reused with and without a view, grows, moves, is misread and given out twice. Of the other types FML32 differs in its least size and the order of its header, which no property reads |
| | ElementsArrive | views of 2 items, every pair of hosts, longs of 2 and 3 bytes, and numbers of which one is negative and one does not fit into the narrower of two |
| | ExchangeKept | messages of 4 units over a pipe of 3, so neither end ever has a whole message at once |

Threads and addresses of `data` are symmetric: its properties are all safety properties, and none compares them.

The instances are small because the theorems of section 4 say the same of most safety properties for all sizes: what the
runs add is liveness, and the mutants, each of which is caught on the same instance.

Bounds, all named constants: `SeqMod`, `SyncSeq`, `FactorMax` (2^32 in the program), `ByteBase` (256), `SvcLen`, `GateLen`; `ConnMax`, `DriftMax`, `CrashMax`,
`ForeignMax`; `SemVMX` (32767 on Linux); `SeqMax`, `FailMax`; `ChangeMax`, `GateChanges`, `SyncFails`; `Capacity` (the table) and `FaultMax`; `CallMax`, `CallTotal`, `GenMax`, `TermMax`,
`RequestMax`; `PipeMax`, `EventMax`, `LifePipeMax`; `PoolRequestMax`, `TimerRequestMax`, `TimeMax`, `BrokenMax`; `OtherMax`; `BodySize`, `TableMax`, `ViewMax`,
`BufferMax`, `ItemMax`, `ItemsMax`, `LinesMax`, `CallerMax`, `NoticeMax`. `AccessMax`, `LowWater`, `WshMin`, `WshMax`, `Cached`, the sizes of pools and `WaitMax` are
the program's settings. Liveness is checked without symmetry.

Runs that show a disagreement of the code with its own documentation; each checks one property:

| run | property | what happens |
|---|---|---|
| `sem_exit` | MutualExclusion | SEM_UNDO on Lock only: the end of a process opens the lock |
| `gate_check_call` | NotFoundMeansNoServer | a pending notice makes the first call of a service fail |
| `gate_check_new_gate` | NewGateIsHeard | the number of the old gate is compared with that of the new one |
| `fml_change` | FchgAsCommented | Fchg32 answers OK to a new text for a field that it has not written, and to a deletion after which the field, or what came behind it, is not as it should be |
| `registry_listed` | AlreadyIsListed | an answer is late, the server connects again and is registered, and then the end of its old connection withdraws its services; it believes them registered and never sends them again |

Further differences, met while modelling, without a run of their own:

* `txgate.cpp:261`: with SIGCHLD ignored the kernel keeps no ended child, waitpid never reports SYNC, and the branch that
  creates it again (`txgate.cpp:104`, 回收子进程 at :94) is not reached.
* `HousekeepingThread.cpp:95`: the round that sees a change may come before `Wakeup(true)` has set the flag, and the next one finds no
  change: the other WSHs are not notified (:102), and tell their clients only after their own interval.
* `HousekeepingThread.cpp:86`: `DestroySocket` closes a descriptor whoever has it. When a worker is serving it, its `EnableSocket`
  puts the closed descriptor into `m_setActiveFd`, select fails with EBADF, and the WSH serves nobody any more until the descriptor is in
  use again (`CanSelect`). When it has become another server's, that server loses its connection, and if its depot entry was erased
  (:77) nobody withdraws its services when it ends.
* `IPCSEM.cpp:101`: the undo record of a process that lives on grows with every section too, and at the kernel's limit
  Lock fails (`LockRefused`); `LockedAgain` promises the lock only below it.
* `MTNetServer.cpp:283`: a connection that is given up while a thread serves it is counted as closed when the order is written
  and again by that thread (`Expire`, `DisconnectExpired`): the total of `BulletinBoard.h:70` (SOCKET连接总数) stays too low,
  as far as `DriftMax` lets it. `CountNeverTooHigh` is what does hold.
* `txgate.cpp:321`: a WSH between fork and registration is not among those txgate kills (`KillAll`), and goes on.
* `BulletinBoard.cpp:551`: UnregisterService with a list, which nobody calls, looks the owner up at the index of the list
  instead of the slot found; it is not modelled.
* `GateCheckThread.h:89` says a notice of the gate wakes the check thread (等待通知（其他线程通知、Gate下发通知、超时自动唤醒）);
  a notice sets `m_bGateNotified` and the wait goes on (`GateCheckThread.cpp:357`), as `ReadNotice` has it.

* `MTNetServer.cpp:161`: a descriptor whose order to come back cannot be written (a signal) is closed and stays in the count of connections (`leaked` in NetServer). `:279`: one whose order to be closed
  cannot be written stays open, is not counted and belongs to nobody (`forgotten`); `Socket.cpp:589`: when its peer has closed just then, ClearSocket never ends, because read returns 0 for ever.
* `MTNetServer.cpp:318`, `:354`, `:135`, `:269`: nobody looks whether the message was written: a notice waits for other traffic (txwsh selects without a timeout, `txwsh.cpp:116`), and when the manager's last message is
  lost a thread stays in select after Shutdown.
* `Socket.cpp:243`: the timeout of ReadSocket is that of each piece, so a peer that sends a byte now and then holds its reader for ever.
* `GateCheckThread.cpp:113`: tpterm sets `m_bTermed` (`:411`) and only Go clears it (`:426`); no gate is connected to meanwhile.
  `AppContext.cpp:153` takes a service for found when the download failed, with no servers.
* `ATMIAPI.cpp:537`, `:556`, `:575`, `:594`: tpregister, tprun and tpadvertise use the context only when there is none. `AppContext.cpp:75`, `:95`: a failed
  tpinit sets errno and not tperrno; `:85`: the check thread is started once, and the second tpinit replaces its pipe. tpsvrinit runs after the services are registered.
* `AppContext.cpp:202`, `FML32API.cpp:704`: the header of the caller's own FML32 buffer is brought into network order in place (`netOrder` in AtmiBuffers).
* `AppNSHandlerImpl.cpp:259`: a request without data leaves `vReqBuf` null; a service that ends with TPEXIT sends no reply.
* `Socket.h:36`, `BulletinBoard.h:46`: addresses are sent as they lie in memory, not in network order, as numbers are.
* `View32Manager.cpp:194`: a negative 32-bit long becomes positive on a host where a long has 64 bits (`ElementsArrive` says so); `:117` compares only the number of items.
* `FML32API.cpp:235`: NULL values are not added for missing occurrences, Fchg32 returns FNOTPRES; `:391`, `:422`: an update moves the end of the body before it is refused for want of space, in a variable only.
  `:636`: Foccur32 goes on by the width of the first field instead of each one's (`OccurrencesRead`).
* `ATMIBufferManager.cpp:231`: an entry is copied after it was erased (`torn`); `:147`: only a view sets the subtype of a buffer that is used again, any other type keeps the old one, so that tpcall refuses an
  answer without a name for it (TPEOTYPE, `AppContext.cpp:254`).
* `STNetServer`: at the end the listening socket is counted out as a client; what a handler keeps (SOCKET_RET_FREE) is not selected again; Shutdown is noticed when
  select returns.
* `EventNetDispatch.cpp:150`: the end of the connection to itself that is selected does not count for `m_fdMax`, so that it may not be looked at until a client has a
  higher descriptor (`seen`); `:266`: the loop goes on with an iterator that was erased.
* `tmshutdown.cpp:84`, `:102`: a pid may be another process's by the time it is signalled, and WSHs are left after SIGKILL (TODO at :104). `BulletinBoard.cpp:704`: a tool
  may copy a header whose semaphore is not yet there. `tmshutdown.cpp:55`, `tmadmin.cpp:145`, `:175`: endless loops at the end of the input.
* `GateProxy`: the number 0 is no news, also after a wrap; notices that `Invoke` passes over are made up for by heartbeats; a gate with much news
  postpones the round of the others; an expired connection registers again only at the next beat.
* Configuration (Scanning): "host:~5" leaves the ports uninitialized; `$` ends a value; a value that is only a comment is ignored; a leading delimiter gives an empty list.

### Fairness

* WshPool: txgate's loop goes on (`WF(TxGate)`): each of its steps is a call that returns, and the select in the loop has a
  timeout. A forked process gets to its registration. Connections and crashes are not fair.
* IPCSem: a section is left (no operation on the board blocks inside one), and the lock is strongly fair: Linux serves the
  processes that sleep on a semaphore in the order they came.
* WshNotify: the threads of a WSH take their steps; waits have timeouts. Nothing is assumed of applications or of SYNC:
  a WSH does not depend on datagrams.
* AppRegistry: the workers and the selecting thread go on. A readable descriptor is served with strong fairness: select is not
  called again before the workers have taken all it reported, so none is passed over. A server connects, beats, and notices that its
  connection is closed; its end, a timeout and an expiry need not happen.
* GateCheck: WSHs answer and broadcast; the threads take their steps, and the heartbeat interval ends. `Fail` is fair
  only on a dead connection (a timeout need not happen otherwise). `m_MutexResource` and `m_MutexGate` are pthread
  mutexes, for which only weak fairness is assumed: that is enough for `DownloadEnds`, because the holder of `m_MutexResource`
  keeps the check thread from taking `m_MutexGate` again.
* GateSync: SYNC takes its steps, and gates that run send notices, serve and answer; changes, ends and breaks need not happen.
* NetServer: each thread and the manager take their steps, and a Shutdown that has written its message goes on to StopRunning. Clients need not send or close, no select need time out (txwsh's has
  no timeout), and a write to the pipe may fail or not.
* STNetServer, EventNetDispatch: the threads take their steps (select has a timeout), the latter as long as it has not crashed.
* ThreadPool, TimerThread: workers, manager and timer go on, who has added a request also notifies, and time passes. Waits for a condition that nobody
  signals last.
* AppLife: the check thread and a tpterm that has begun go on; a program need not call anything.

## 4. The proofs

| module | about | theorem | statement |
|---|---|---|---|
| BulletinBoardProofs | BulletinBoard | TypeCorrect, EntriesAreUnique, EqualSeqIsFresh | Spec => []TypeOK, []UniqueEntries, []EqualSeqMeansFreshView |
| | | BoardIsDirectory | Spec => ImplementsDirectory |
| | Shutdown | ToolsTypeCorrect, ToolsAreSafe | ToolsSpec => []ToolsInv, []ToolsSafe |
| WshPoolProofs | WshPool | TypeCorrect, SlotsAreOwned, CountsAreSafe, TableIsKept | Spec => []TypeOK, []RunningWshOwnsSlot, []CountNeverTooHigh, []TableKept |
| | ThreadPool | WakeupsAreNotOverslept | PoolSpec => []NoWakeupOverslept |
| | TimerThread | TimerIsPunctual | TimerSpec => Punctual |
| | EventNetDispatch | ClientsAreInOnePlace | EvSpec => []InOnePlace |
| LwprProofs | IPCSem | TypeCorrect, ExclusiveUntilExit, LockIsNeverLost, LockIsKept | Spec => []TypeOK, []ExclusiveWhileIntact, []NeverLost, []LockKept |
| | NetServer | ConnectionsAreKept | NetSpec => []SocketsKept |
| | STNetServer | OneThreadServesReady | STSpec => [](TotalIsClients /\ NeverWaits) |
| | Scanning | TextsAreRead | ScanSpec => []ReadAsWritten |
| GateCheckProofs | GateCheck | TypeCorrect, AnswersBelong, ServersAreNotStale | Spec => []TypeOK, []AnswerIsForRequest, []NoStaleServer |
| WshProofs | WshNotify | TypeCorrect, SeenIsAlwaysTold | Spec => []TypeOK, []SeenIsTold |
| | GateSync | SyncTypeCorrect, CopiesFollow | SyncSpec => []SyncInv, []CopyOfConnection |
| | AppRegistry | RegistryTypeCorrect, ServicesAreOwed, DescriptorsAreHandledOnce | RegistrySpec => []RegistryTypeOK, []SomeoneWithdraws, []OneHandler |
| | AppLife | LifeTypeCorrect, ListedAndClosed | LifeSpec => []LifeInv, [](ClosedAfterTerm /\ AnnouncedListens) |
| ServerCallProofs | ServerCall | CallTypeCorrect, SharedIsKept, CallsAreKept | CallSpec => []CallInv, []SharedKept, []CallsKept |
| | | ImplementsPromise | CallSpec => ImplementsRemoteCall |
| | Serving | ServingTypeCorrect, RequestsAreServed | ServingSpec => []ServingInv, []ServedAsPromised |
| DataProofs | Exchange | ExchangeIsKept | ExchangeSpec => []ExchangeKept |
| | Settings | StrongestAlwaysCounts | SettingsSpec => []StrongestCounts |
| | FieldTable | IdentifiersAlwaysSayTypes | TableSpec => []IdentifiersSayTypes |
| | ViewFile | HeaderDescribed | ViewSpec => []DescribesHeader |
| | both | HeadersAlwaysRight | TableSpec /\ ViewSpec => []HeadersRight |
| | AtmiBuffers | AtmiBuffersKept | AtmiSpec => []BuffersKept |
| FormatProofs | Fml32 | FieldsAlwaysKept | Spec => FieldsKept |
| | ViewAdjust | ElementsAlwaysArrive | AdjustSpec => []ElementsArrive |
| | Messages | MessageAlwaysArrives | MessagesSpec => []MessageArrives |

They hold for all values of the constants that satisfy the modules' assumptions (sizes are natural numbers, sets of actors are finite where they are counted, ids that mean "none"
are not ids, a text value is a sequence, no message is longer than its header can say, what stands around a mark is a blank), bounds included. Each proof has an inductive invariant, a lemma that the initial states satisfy it, one lemma per action or per
kind of step, and the theorem by propositional temporal logic. Every invariant was checked by TLC on the run's instance before it was proved. A module of proofs that is about several components
has them one after the other, under a heading each.

* **Board.** The invariant is the property with the types: that no service is there twice is kept because both RegisterService and
  SynBB search the table first. For equal numbers, `lag` is at most the width, and a client whose `lag` is 0 has
  the present contents; a number comes back only after `SeqMod` steps, so the distance modulo `SeqMod` is part of the
  invariant. For the refinement each action is mapped to one of the directory's, with the sizes of sets from the
  library's theorems.
* **Tools.** `ToolsInv`: each board belongs to one gate (`OwnInv`), what stands of it follows from how far that gate is (`StageInv`), what tmshutdown has in hand it found and has not
  finished (`LeftInv`). Then nothing is removed before its gate has ended, although pids are used again: a removal is by id, and ids are not.
* **WSH table.** "Its slot is its own" is not inductive: housekeeping acts on a copy. What is added: the copy agrees with the table
  as far as slots still in use go (`CopyIsCurrent`), a condemned slot belongs to a process that is dead *or* is in use with the pid of
  no running WSH (`CondemnedIsDead`): a slot in use is given to nobody, so a condemned slot cannot have got a new owner
  before it is released. That is why the code is right although it acts on old news.
* **Counts.** Orders that are under way (`expired`) are already counted; the slot starts at 0 with each owner.
* **Lock.** Each thread inside is on its process's record (`InsideIsRecorded`); while all ended processes gave back what they held, the
  semaphore and the number of threads inside add up to 1.
* **Connections of the network server.** `NetInv`: nothing is twice in a list (`ReadOnce`, `PipeOnce`) nor in two hands (`HandOnce`), the five places are disjoint and together
  are the open descriptors that are not forgotten (`Apart`), and the count is their number. Without the second half of `Apart` an order to close could meet a descriptor that is nowhere.
* **Registration.** `RegistryInv`: the types; what a job, a round of housekeeping and an order must contain; and, until housekeeping has hit a descriptor that is another's, `Right`: every
  descriptor is handled in exactly one way, the depot and each job are about the peer of their descriptor, and every service listed is owed. The one-way handling is why
  a registration that is under way cannot be overtaken by the end of its own connection.
* **Application.** `Conversation`: no request without its answer being with the WSH, on the way, or lost with the
  connection; at most one answer is under way; with no request there is none. `Truthful`: everything said on this connection is
  at most as new as the board, and true if it is as new. Both survive because a failed request closes the
  connection, and because a gate that ends takes its connections with it before its numbers start again.
* **Notification.** A saved number is at most the board's, and the broadcast comes between saving it and the next wait.
* **Copies.** `Follows(g)` says for each place SYNC can be at what the copy, the descriptor and what is on the way have to do with each other: whatever is on the way comes from the life the
  descriptor leads to, and a copy without its connection exists only between the failure and `ClearBB` of the same turn.
* **Calls.** `CallInv`: references are counted by the places that hold a proxy (the map, a service's items, a call's list); connections by the proxies that have one; a
  mutex belongs to the call that is in `CallServer`. `OnceInv` and `StatusInv` tie the number of executions to where a call is, which gives "at most once" and the mapping to RemoteCall;
  `RequestInv` and `AnswerInv` say that on a connection there is at most the request of the call that holds the mutex; `TurnInv` that the servers tried are consecutive modulo their
  number from the balance factor on, so that as many turns as servers are all of them.
* **Serving.** `ServingInv`: a buffer is in one hand (a thread's request, its reply, or free); a reply has what the service of this very request has said (`SaidInv`, `Knows`).
* **Exchange.** `ExchangeInv` looks at a connection as two streams: what one side has taken, what is on its way and what the other has yet to write, joined. Reading and writing in pieces
  leave the streams as they are, so only a whole step of the protocol changes them. `DownInv`: the stream back is one message behind the other (`InMessages`), the last one whole as long as the
  server has not closed, and a reply in it is the only one, answers the call that is receiving, and was carried out once. `UpInv`: the stream to the server is (the beginning of) one request.
  `AskInv`: a request that can still be carried out has not been, is on one connection only, and, if `Invoke` has returned what makes tpcall go on to another server, is not whole and will never
  be. `HistoryInv` is the property with what it needs of the past. The lemmas about streams (`OneMore`, `FirstTaken`, `CutShort`, `FirstMessage`) say what may be put behind whole messages and what
  is left when one is taken off. That a failed call closes its connection is what makes the last reply in a stream the right one.
* **Pool of threads.** Who sleeps waits (`asleep` is part of those at the wait), and the wake-ups are at most those at the wait who do not sleep. A notification
  adds to both sides or finds nobody asleep; a worker takes all wake-ups when it looks, or goes to sleep when there are none.
* **Timer.** `Sorted` is an arrangement of the list by time and number: it exists because each request has a place, the count of those before it (`CanBeSorted`). Numbers are
  given once, so a request is not taken for another one.
* **Event dispatcher.** `EvInv`: nothing is twice in the list or in the server's connection to itself, the four places are disjoint and together are the open connections. The choice of the
  least descriptor and the rest of them in order (`InOrder`) give away each of the readable ones once.
* **One-thread server.** The active set is the server's own descriptor and those of open connections; what is readable and not yet looked at has something to be read, because a descriptor
  that is closed within a round is taken out of what is left of it; the count is the size of the set of connections.
* **Life of an application.** After tpterm, and before tpinit, there is no connection: the thread closes it before it says that it has ended, and who has no pipe never had a connection (`TermedOrNew`,
  `TermedIsClosed`). Who is listed is connected and has said so (`ListedIsConnected`), and what is said follows what the socket does (`SaidListens`).
* **Header of a field table.** Numbers and types are read back by division from the identifier (`FieldTableInv`, with what `\div` and `%` do to a sum of a multiple and a rest); the numbers of a
  table with one base are its own, so are the identifiers.
* **Header of a view.** `ViewInv` says what both passes have written after each line. Item i of structure n is the item at the place `FlatIndex` in the file of items, and that is injective: so what
  is written for one structure is not written over for another.
* **Buffers.** `AtmiInv`: the list, the blocks and what was granted belong together, and the total is a sum over blocks; that a sum changes with one of its terms is proved for any set of blocks.
* **Fielded buffer.** `Represents(L, s)`: the buffer holds the list of fields L, of which the j-th lies from `s[j - 1]` to `s[j]`. What lies there is read back as it was added (`ReadBack`), a walk from
  the beginning comes by all of them (`WalkFrom`), so what a program reads is L (`ContentsAre`), and an occurrence counted is an occurrence found (`OneOfEachRank`). Adding puts one behind (`Added`),
  changing writes over one (`Changed`), and a tpcall carries them to the other side (`Carried`). Until a text has been changed or a field deleted: from then on the code promises nothing, see `spoiled`.
* **View between hosts.** Integers are bytes by repeated division (`DigitsAre`) and numbers by multiplication (`ValueIs`), so what n bytes hold of a number is its rest, read back whole
  (`ReadAsStored`), and reading the bytes of another order and turning round is the same as reading them in that order (`ReadFromAnyHost`). The items lie one behind the other whatever the
  alignment (`BehindAll`), so no two elements share a byte (`ElementsApart`). `AdjustInv`: the structure of the host that has the data is what its own compiler would make of what has come
  (`Came`): what the client's elements held, then what the server's held of that. Sent back it is what it was (`HeldTwice`).
* **Messages.** What is written one after the other lies in the stream in pieces, each behind those before it (`FlattenedIs`, `PartsLie`). A field is read where it lies as it was written
  (`FieldIsRead`: a number has its most significant byte in front whatever the host, `NumberWritten`), so a tuple, a list and an entry are (`TupleRead`, `ListIsRead`, `EntryIsRead`), and the receiver
  asks for the same conditions as the sender, because what decides has come before (`SameConditions`). The entries of each type are in that order, and its records fit them (`BodyFits`). `MessageInv`
  says where the bytes are in every stage: the length in the header is a number that can be said (`LengthAssumption`), so the body is all that is taken, and it lies in front of what is left in the Buffer.
* **Texts.** A text is pieces joined, each without what comes after it (`Separated`); sscanf takes it apart there (`ScanTwo`), and the loop over a list takes one item after the other.
* **Settings.** By phase: the option is the last line of the strongest source read so far, and the value in force is that of the option, or of the environment, or the default, within the limits. That
  `SetProperty` makes the settings a second time from their own values does no harm because the option is there by then.

The proofs about data need induction over it. The induction theorems of the library have an operator as a parameter, which the provers cannot instantiate; instead a recursive function
is shown to exist, or a sum to be right, by the least number for which it is not (`LeastNumber`, which needs only that sets of natural numbers have one).

What is only model-checked, and why:

* All liveness properties (`DeadSlotReleased`, `ServiceRestored`, `LockedAgain`, `DownloadEnds`, `CatchesUp`, `EveryWshTells`, `GoneIsUnlisted`, `EveryServerRegisters`,
  `CopyCatchesUp`, `NobodyWaits`, and those within `RequestsAreTaken`, `TimersKept`, `ClientsKept`, `LifeKept`, `ClientsServed`): liveness under fairness and ENABLED are out of reach of the prover.

No module uses a RECURSIVE operator.

## 5. What is not modelled

* LWPR's wrappers of system calls for files, message queues and processes, and logging: no state a property could be about.
* The build tools, txnotify (which only reads its configuration so far), samples and tests.
* `EventMsqDispatch`, `SimpleProcessPool`, `Destroy` of the timer's pool, the read-write lock of `IPCSEM`: used by no program of the system.
* The body of services and transactions: user code. `Fldno32` and the like, `viewdis32` and what only prints: they change nothing.
* `UnregisterService` with a list, `ServiceRepository::Unregister`, `UpdateApp`: nobody calls them.
* Memory below the level of a board operation: a process killed inside one leaves what it had written so far; planned (`BoardCrash`).
* Time, except in TimerThread: intervals and timeouts are steps that may happen at any time.

## 6. Plan

Done: the modules above, with the theorems of section 4. Left, in this order:

1. `BoardCrash`: board operations split at the writes, with the ends of processes of `IPCSem`.
2. The end of a WSH in `AppRegistry`: its connections end and its depot is lost, while the services stay on the board.

## 7. How to run

`tlc -config MCBulletinBoard.cfg MCBulletinBoard` (and so on, see PROJECT.json for the pairs);
`tlapm BulletinBoardProofs.tla` (and so on).
