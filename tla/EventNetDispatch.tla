--------------------------- MODULE EventNetDispatch ---------------------------
(***************************************************************************)
(* LWPR's first network server, which its tests use: the threads take      *)
(* turns to hold m_MutexEvent and select; who finds connections that can   *)
(* be read serves the first and leaves the others in a list; and a thread  *)
(* that has served one sends it back through a connection of the server    *)
(* to itself, because the set that is selected belongs to the lock.        *)
(***************************************************************************)
EXTENDS Integers, Sequences, FiniteSets, SequencesExt

CONSTANTS EvWorker,              \* objects EventNetWorkThread
          EvFd,                  \* descriptors of clients
          nThreadPoolMin, nThreadPoolMax, nThreadPoolMaxIdle,
          EvIdleLow,             \* fewer idle threads are a busy service: 3 in the code
          BrokenMax              \* bound: writes to the own connection that fail

ASSUME EventAssumption ==
    /\ EvFd \subseteq Nat \ {0}
    /\ {nThreadPoolMin, nThreadPoolMax, nThreadPoolMaxIdle, EvIdleLow, BrokenMax} \subseteq Nat

VARIABLES evAt,          \* of each worker: "none", "created", "lock", "select", "serving", "served", "done"
          evStopped,     \* workers told to stop
          m_listThread,
          evHand,        \* the client each serves, or 0
          evOpen,        \* clients that are connected
          evSent,        \* those with something to be read
          m_setActiveFd, m_listReadableSocket,
          self,          \* the messages on the way from m_fdConnSelfClient to m_fdConnSelfServer
          seen,          \* m_fdMax is as great as m_fdConnSelfServer
          evState,       \* "up", "halting": the message is written; "halted"
          broken         \* writes that have failed

evVars == <<evAt, evStopped, m_listThread, evHand, evOpen, evSent, m_setActiveFd, m_listReadableSocket,
            self, seen, evState, broken>>
evPool == <<evStopped, m_listThread>>
EvExit == 0  \* SOCKET_SELF_MSG_EXIT_THREAD; ADD_FD is its descriptor
Nothing == 0

EvInit ==
    /\ m_listThread = SubSeq(SetToSeq(EvWorker), 1, nThreadPoolMin)
    /\ evAt = [w \in EvWorker |-> IF w \in Range(m_listThread) THEN "created" ELSE "none"]
    /\ evStopped = {} /\ evHand = [w \in EvWorker |-> Nothing]
    /\ evOpen = {} /\ evSent = {} /\ m_setActiveFd = {} /\ m_listReadableSocket = <<>>
    /\ self = <<>> /\ seen \in BOOLEAN /\ evState = "up" /\ broken = 0

EvGo(w, to) == evAt' = [evAt EXCEPT ![w] = to]
EvLoop(w) == EvGo(w, IF w \in evStopped THEN "done" ELSE "lock")
Held == \E w \in EvWorker : evAt[w] = "select"

-----------------------------------------------------------------------------
(* A thread.                                                               *)

EvBegin(w) ==
    /\ evAt[w] = "created" /\ EvLoop(w)
    /\ UNCHANGED <<evPool, evHand, evOpen, evSent, m_setActiveFd, m_listReadableSocket, self, seen, evState, broken>>

\* With the lock: the last of the list, or select while the server goes on.
EvLook(w) ==
    /\ evAt[w] = "lock" /\ ~Held
    /\ IF m_listReadableSocket # <<>>
       THEN /\ evHand' = [evHand EXCEPT ![w] = Last(m_listReadableSocket)]
            /\ m_listReadableSocket' = Front(m_listReadableSocket)
            /\ EvGo(w, "serving")
       ELSE /\ EvGo(w, IF evState = "halted" THEN "done" ELSE "select")
            /\ UNCHANGED <<evHand, m_listReadableSocket>>
    /\ UNCHANGED <<evPool, evOpen, evSent, m_setActiveFd, self, seen, evState, broken>>

\* The loop over the descriptors meets the smallest first.
InOrder(fds) == CHOOSE s \in [1 .. Cardinality(fds) -> fds] : \A i, j \in DOMAIN s : i < j => s[i] < s[j]

ReadyClients == m_setActiveFd \cap evSent
SelfReady == seen /\ self # <<>>
AddedFd == IF SelfReady /\ Head(self) # EvExit THEN {Head(self)} ELSE {}

(* A mistake: a new connection does not raise m_fdMax. *)
SeenAsBefore(new) == seen

SeenAfter(new) == seen \/ new # {}

\* select returns all that is ready: the listening socket, of which one connection
\* is accepted, the own connection, of which one message is read, and clients, the
\* first of which this thread takes.
EvSelected(w) ==
    /\ evAt[w] = "select"
    /\ \E new \in {{}} \cup {{fd} : fd \in IF evState = "up" THEN EvFd \ evOpen ELSE {}} :
          /\ new # {} \/ SelfReady \/ ReadyClients # {}
          /\ evOpen' = evOpen \cup new /\ seen' = SeenAfter(new)
          /\ LET clients == InOrder(ReadyClients)
             IN  /\ m_setActiveFd' = ((m_setActiveFd \ ReadyClients) \cup new) \cup AddedFd
                 /\ m_listReadableSocket' = m_listReadableSocket \o (IF clients = <<>> THEN <<>> ELSE Tail(clients))
                 /\ evHand' = [evHand EXCEPT ![w] = IF clients = <<>> THEN Nothing ELSE Head(clients)]
                 /\ EvGo(w, IF clients # <<>> THEN "serving" ELSE IF evState = "halted" THEN "done" ELSE "select")
    /\ self' = IF SelfReady THEN Tail(self) ELSE self
    /\ UNCHANGED <<evPool, evSent, evState, broken>>

\* bAllowDoHousekeep: select times out, and what has been silent is closed.
EvExpire(w) ==
    /\ evAt[w] = "select" /\ ReadyClients = {} /\ ~SelfReady
    /\ \E expired \in SUBSET m_setActiveFd \ {{}} :
          m_setActiveFd' = m_setActiveFd \ expired /\ evOpen' = evOpen \ expired
    /\ UNCHANGED <<evAt, evPool, evHand, evSent, m_listReadableSocket, self, seen, evState, broken>>

\* DoReceiveNormalData: a request is read, or the end of the connection.
EvReceive(w) ==
    /\ evAt[w] = "serving" /\ EvGo(w, "served") /\ evSent' = evSent \ {evHand[w]}
    /\ UNCHANGED <<evPool, evHand, evOpen, m_setActiveFd, m_listReadableSocket, self, seen, evState, broken>>

CloseSocket(fd) == evOpen' = evOpen \ {fd} /\ evSent' = evSent \ {fd} /\ UNCHANGED self

MakeSocketDispatching(fd) ==
    \/ self' = Append(self, fd) /\ UNCHANGED <<evOpen, evSent, broken>>
    \/ broken < BrokenMax /\ broken' = broken + 1 /\ CloseSocket(fd)

\* What the handler returns: SOCKET_RET_FAILED or OK.
EvServed(w) ==
    /\ evAt[w] = "served" /\ EvLoop(w)
    /\ evHand' = [evHand EXCEPT ![w] = Nothing]
    /\ \/ CloseSocket(evHand[w]) /\ UNCHANGED broken
       \/ MakeSocketDispatching(evHand[w])
    /\ UNCHANGED <<evPool, m_setActiveFd, m_listReadableSocket, seen, evState>>

-----------------------------------------------------------------------------
(* The clients, the thread that manages the others, and Halt.              *)

EvSend(fd) ==
    /\ fd \in evOpen \ evSent /\ evSent' = evSent \cup {fd}
    /\ UNCHANGED <<evAt, evPool, evHand, evOpen, m_setActiveFd, m_listReadableSocket, self, seen, evState, broken>>

nIdle == Cardinality({w \in EvWorker : evAt[w] \in {"lock", "select"}})
nTotal == Cardinality({w \in EvWorker : evAt[w] \in {"lock", "select", "serving", "served"}})
IsServiceBusy == nIdle < EvIdleLow

\* ClearDeadThread: erase leaves the iterator without an element, and the loop goes
\* on with it.  The process may end there.
Left == SelectSeq(m_listThread, LAMBDA w : evAt[w] # "done")
EvCrash ==
    /\ Left # m_listThread /\ evState' = "crashed"
    /\ UNCHANGED <<evAt, evPool, evHand, evOpen, evSent, m_setActiveFd, m_listReadableSocket, self, seen, broken>>

\* A thread more, or the first of the list is told to stop; all are in the end.
Fresh == {w \in EvWorker : evAt[w] = "none" \/ (evAt[w] = "done" /\ w \notin Range(m_listThread))}
Created == IF IsServiceBusy /\ nTotal < nThreadPoolMax /\ evState # "halted" /\ Fresh # {}
           THEN {CHOOSE w \in Fresh : TRUE} ELSE {}
ToldToStop == CASE evState = "halted" -> Range(Left)
                [] evState # "halted" /\ ~IsServiceBusy /\ nIdle > nThreadPoolMaxIdle /\ Left # <<>> -> {Head(Left)}
                [] OTHER -> {}
EvManage ==
    /\ m_listThread' = Left \o SetToSeq(Created)
    /\ evAt' = [w \in EvWorker |-> IF w \in Created THEN "created" ELSE evAt[w]]
    /\ evStopped' = (evStopped \ Created) \cup ToldToStop
    /\ UNCHANGED <<evHand, evOpen, evSent, m_setActiveFd, m_listReadableSocket, self, seen, evState, broken>>

\* The message, then CloseSocket of m_fdListen and StopRunning.
EvHalt ==
    /\ \/ evState = "up" /\ evState' = "halting" /\ self' = Append(self, EvExit)
       \/ evState = "halting" /\ evState' = "halted" /\ UNCHANGED self
    /\ UNCHANGED <<evAt, evPool, evHand, evOpen, evSent, m_setActiveFd, m_listReadableSocket, seen, broken>>

EvRuns(w) == EvBegin(w) \/ EvLook(w) \/ EvSelected(w) \/ EvReceive(w) \/ EvServed(w)
EvNext == /\ evState # "crashed"
          /\ \/ EvManage \/ EvCrash \/ EvHalt
             \/ \E fd \in EvFd : EvSend(fd)
             \/ \E w \in EvWorker : EvRuns(w) \/ EvExpire(w)
EvSpec == EvInit /\ [][EvNext]_evVars
\* The threads run, and handlers return; the manager goes round every three seconds.
EvFairness == WF_evVars(evState # "crashed" /\ EvManage)
              /\ \A w \in EvWorker : WF_evVars(evState # "crashed" /\ EvRuns(w))

-----------------------------------------------------------------------------
(* A connection is in one place: selected, in the list, in the hands of a  *)
(* thread, or on its way through the server's connection to itself.        *)
PlacesOf(fd) ==
    (IF fd \in m_setActiveFd THEN 1 ELSE 0)
        + Cardinality({i \in DOMAIN m_listReadableSocket : m_listReadableSocket[i] = fd})
        + Cardinality({w \in EvWorker : evHand[w] = fd})
        + Cardinality({i \in DOMAIN self : self[i] = fd})
InOnePlace == \A fd \in EvFd : PlacesOf(fd) = IF fd \in evOpen THEN 1 ELSE 0

(* What a client sends is read while the server is up: the list, of which  *)
(* the last is taken first, is not added to before it is empty.            *)
EachIsRead == \A fd \in EvFd : fd \in evSent ~> fd \notin evSent \/ evState # "up"

(* No client is lost, nor served by two: both of these. *)
ClientsKept == []InOnePlace /\ EachIsRead
=============================================================================
