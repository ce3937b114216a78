------------------------------ MODULE NetServer ------------------------------
(***************************************************************************)
(* LWPR's MTNetServer: a pool of threads of which one at a time selects,   *)
(* for all of them, and hands what can be read or has to be written to     *)
(* those that come after it; a thread that manages the pool; and a pipe by *)
(* which everybody tells the selecting thread what has changed.            *)
(*                                                                         *)
(* DestroySocket is called here by the selecting thread itself, on a       *)
(* connection that has expired.  What becomes of it when housekeeping of a *)
(* gate calls it on a connection in any state is AppRegistry's subject.    *)
(*                                                                         *)
(* A write to the pipe fails when a signal interrupts its select           *)
(* (Socket.cpp:360): EnableSocket then closes the connection, DestroySocket*)
(* drains it, and the others do not look at the result.                    *)
(***************************************************************************)
EXTENDS Integers, Sequences, FiniteSets

CONSTANTS Worker,         \* WorkThread objects
          Fd,             \* descriptors of connections
          PoolMin, PoolMax, MaxIdle,
          IdleLow,        \* fewer idle threads are too few: 3 in the code
          ConnectionMax,
          PipeMax,        \* bound: notices are sent, and a thread is destroyed,
                          \* only while the pipe is shorter
          EventMax        \* bound: calls of WriteSocketPositive, and connections
                          \* whose message to the pipe, to come back or to be
                          \* closed, is not written

NoFd == 0

ASSUME NetServerAssumption ==
    /\ Fd \subseteq Nat \ {NoFd} /\ IsFiniteSet(Fd)
    /\ PoolMin \in Nat \ {0} /\ PoolMax \in Nat /\ MaxIdle \in Nat \ {0} /\ IdleLow \in Nat
    /\ ConnectionMax \in Nat /\ PipeMax \in Nat /\ EventMax \in Nat

VARIABLES thread,     \* "none", "created", "waiting" for m_MutexEvent,
                      \* "holding" it, "select", "serving", "writing"
          goes,       \* m_bContinue of the threads
          listed,     \* m_WorkThreadList
          hand,       \* the descriptor a thread serves or writes to
          open,       \* descriptors of connections that stand
          data,       \* of these, those with something to be read
          active,     \* m_setActiveFd, without the pipe and the listening socket
          readable,   \* m_ReadableSockets
          writeable,  \* m_WriteableSockets: descriptors with a notice
          pipe,       \* messages to the selecting thread
          totalClient,    \* m_nTotalClient
          leaked,     \* history: connections closed that are still counted
          forgotten,  \* history: expired connections whose end was not ordered
          notices,    \* calls of WriteSocketPositive so far
            \* m_nResource of the manager
          server,     \* "up", "told" after the message of Shutdown, "down"
          manager,    \* "waiting", "ending", "ended"
          unwoken     \* history: the message of the manager's end was not written

pool == <<thread, goes, listed>>
socketVars == <<open, data, active, readable, writeable, totalClient, leaked, forgotten>>
netVars == <<pool, hand, socketVars, pipe, notices, server, manager, unwoken>>

Started == {w \in Worker : thread[w] \notin {"none", "created"}}
IdleThreads == {w \in Worker : thread[w] \in {"waiting", "holding", "select"}}

NetInit ==
    /\ listed = CHOOSE S \in SUBSET Worker : Cardinality(S) = PoolMin
    /\ thread = [w \in Worker |-> IF w \in listed THEN "created" ELSE "none"]
    /\ goes = [w \in Worker |-> TRUE]
    /\ hand = [w \in Worker |-> NoFd]
    /\ open = {} /\ data = {} /\ active = {} /\ readable = <<>> /\ writeable = {}
    /\ pipe = <<>>
    /\ totalClient = 0 /\ leaked = 0 /\ forgotten = {}
    /\ notices = 0
    /\ server = "up" /\ manager = "waiting" /\ unwoken = FALSE

IsNeededToCreateThread == Cardinality(IdleThreads) < IdleLow /\ Cardinality(Started) < PoolMax
IsNeededToDestroyThread == Cardinality(IdleThreads) > MaxIdle

Msg(type, fd) == [type |-> type, fd |-> fd]
Events == notices + leaked + Cardinality(forgotten)

MoveTo(w, to) == thread' = [thread EXCEPT ![w] = to]

\* What the pipe holds after a write nobody looks at the result of.
Tried(msg) == {pipe, Append(pipe, msg)}

-----------------------------------------------------------------------------
(* A thread, from its start to what it does with the lock.                 *)

\* The loop goes on, or the thread ends.
Loop(w) == MoveTo(w, IF goes[w] THEN "waiting" ELSE "none")

Begin(w) ==
    /\ thread[w] = "created"
    /\ Loop(w)
    /\ UNCHANGED <<goes, listed, hand, socketVars, pipe, notices, server, manager, unwoken>>

HasEvent(w) == \/ thread[w] = "holding"
               \/ thread[w] = "waiting" /\ \A v \in Worker : thread[v] \notin {"holding", "select"}

\* With the lock: what is there to be read, or written, or nothing yet.
DueNotices == writeable \cap active

TakeReadable(w) ==
    /\ hand' = [hand EXCEPT ![w] = readable[Len(readable)]]
    /\ readable' = SubSeq(readable, 1, Len(readable) - 1)
    /\ MoveTo(w, "serving")
    /\ UNCHANGED <<active, writeable>>

TakeWriteable(w) ==
    /\ \E fd \in DueNotices : /\ \A g \in DueNotices : fd <= g
                              /\ hand' = [hand EXCEPT ![w] = fd]
                              /\ active' = active \ {fd} /\ writeable' = writeable \ {fd}
    /\ MoveTo(w, "writing")
    /\ UNCHANGED readable

(* A mistake: a thread with the lock does not look whether to go on. *)
NeverStopped == FALSE

Stopped == server = "down"

\* When the server stops the thread ends, and says so (Thread.cpp:99).
Look(w) ==
    /\ HasEvent(w)
    /\ CASE Stopped -> MoveTo(w, "none") /\ UNCHANGED <<hand, active, readable, writeable>>
         [] ~Stopped /\ readable # <<>> -> TakeReadable(w)
         [] ~Stopped /\ readable = <<>> /\ DueNotices # {} -> TakeWriteable(w)
         [] OTHER -> MoveTo(w, "select") /\ UNCHANGED <<hand, active, readable, writeable>>
    /\ goes' = [goes EXCEPT ![w] = @ /\ ~Stopped]
    /\ UNCHANGED <<listed, open, data, totalClient, leaked, forgotten, pipe, notices, server, manager, unwoken>>

-----------------------------------------------------------------------------
(* What select returns: all that is ready at once, of the listening        *)
(* socket, the pipe and the connections.                                   *)

ReadyFds == active \cap data
\* The descriptors of S from the lowest on, as the loop over an fd_set finds them.
InOrder(S) == {fds \in [1 .. Cardinality(S) -> S] :
                  /\ \A i, j \in DOMAIN fds : i < j => fds[i] < fds[j]
                  /\ \A fd \in S : \E i \in DOMAIN fds : fds[i] = fd}
CloseFds(S) == open' = open \ S /\ data' = data \ S

\* The descriptor the first message of the pipe is about, when it is of type.
FirstOf(type) == IF pipe # <<>> /\ Head(pipe).type = type THEN {Head(pipe).fd} ELSE {}

\* A new connection, unless there are too many: then it is closed at once.
Accepted == IF server # "down" /\ totalClient < ConnectionMax
            THEN {{}} \cup {{fd} : fd \in Fd \ open} ELSE {{}}

Selected(w) ==
    /\ thread[w] = "select"
    /\ \E new \in Accepted :
          /\ new # {} \/ pipe # <<>> \/ ReadyFds # {}
          /\ totalClient' = totalClient + Cardinality(new)
          /\ open' = (open \cup new) \ FirstOf("REMOVE_FD")
          /\ active' = (((active \ ReadyFds) \cup new) \cup FirstOf("ADD_FD"))
                          \ FirstOf("REMOVE_FD")
    /\ data' = data \ FirstOf("REMOVE_FD")
    /\ \E fds \in InOrder(ReadyFds) : readable' = readable \o fds
    /\ writeable' = writeable \ FirstOf("REMOVE_FD")
    /\ pipe' = IF pipe = <<>> THEN pipe ELSE Tail(pipe)
    /\ goes' = [goes EXCEPT ![w] = @ /\ FirstOf("EXIT_THREAD") = {}]
    /\ MoveTo(w, "holding")
    /\ UNCHANGED <<listed, hand, leaked, forgotten, notices, server, manager, unwoken>>

(* A mistake: what expires is still selected. *)
StillActive(S) == active

ActiveWithout(S) == active \ S

\* select times out: DestroySocket of the connections that have expired.  One
\* whose message is not written is drained and counted out, and taken out of
\* the set like the others: it stands, and nobody knows of it any more.  (If its
\* peer has closed it just now, ClearSocket reads its end for ever.)
Expire(w) ==
    /\ thread[w] = "select" /\ pipe = <<>> /\ ReadyFds = {}
    /\ \E S \in SUBSET active :
       \E undone \in SUBSET S :
          /\ Events + Cardinality(undone) <= EventMax
          /\ active' = ActiveWithout(S)
          /\ \E fds \in InOrder(S \ undone) :
                pipe' = pipe \o [k \in DOMAIN fds |-> Msg("REMOVE_FD", fds[k])]
          /\ forgotten' = forgotten \cup undone
          /\ totalClient' = totalClient - Cardinality(S)
    /\ MoveTo(w, "holding")
    /\ UNCHANGED <<goes, listed, hand, open, data, readable, writeable, leaked, notices, server, manager, unwoken>>

-----------------------------------------------------------------------------
(* A thread with a descriptor, without the lock.                           *)

EnableSocket(fd) == Append(pipe, Msg("ADD_FD", fd))

Served(w) ==
    /\ thread[w] = "serving"
    /\ data' = data \ {hand[w]}
    /\ pipe' = EnableSocket(hand[w])
    /\ hand' = [hand EXCEPT ![w] = NoFd]
    /\ Loop(w)
    /\ UNCHANGED <<goes, listed, open, active, readable, writeable, totalClient, leaked, forgotten, notices, server, manager, unwoken>>

Written(w) ==
    /\ thread[w] = "writing"
    /\ pipe' = EnableSocket(hand[w])
    /\ hand' = [hand EXCEPT ![w] = NoFd]
    /\ Loop(w)
    /\ UNCHANGED <<goes, listed, socketVars, notices, server, manager, unwoken>>

\* EnableSocket, when a signal makes its write fail: the connection is
\* closed, and stays in the count.
NotEnabled(w) ==
    /\ thread[w] \in {"serving", "writing"} /\ Events < EventMax
    /\ leaked' = leaked + 1
    /\ CloseFds({hand[w]})
    /\ hand' = [hand EXCEPT ![w] = NoFd]
    /\ Loop(w)
    /\ UNCHANGED <<goes, listed, active, readable, writeable, totalClient, forgotten, pipe, notices, server, manager, unwoken>>

CountedOut == totalClient - 1

\* DestroySocketInternal: the peer has gone, or the handler has failed.  A
\* notice for the descriptor stays.
DestroySocketInternal(w) ==
    /\ thread[w] \in {"serving", "writing"}
    /\ CloseFds({hand[w]})
    /\ totalClient' = CountedOut
    /\ hand' = [hand EXCEPT ![w] = NoFd]
    /\ Loop(w)
    /\ UNCHANGED <<goes, listed, active, readable, writeable, leaked, forgotten, pipe, notices, server, manager, unwoken>>

-----------------------------------------------------------------------------
(* Everybody else.                                                         *)

\* A peer sends, or ends the connection.
Arrive(fd) ==
    /\ fd \in open \ data
    /\ data' = data \cup {fd}
    /\ UNCHANGED <<pool, hand, open, active, readable, writeable, totalClient, leaked, forgotten, pipe, notices, server, manager, unwoken>>

\* The notice waits in m_WriteableSockets, whether or not the thread is told.
WriteSocketPositive(fds) ==
    /\ server = "up" /\ Len(pipe) < PipeMax /\ Events < EventMax
    /\ fds # {}
    /\ notices' = notices + 1
    /\ writeable' = writeable \cup fds
    /\ pipe' \in Tried(Msg("WRITE_DATA_TO_CLIENT", NoFd))
    /\ UNCHANGED <<pool, hand, open, data, active, readable, totalClient, leaked, forgotten, server, manager, unwoken>>

ShutdownBegins ==
    /\ server = "up" /\ server' = "told"
    /\ pipe' \in Tried(Msg("EXIT_THREAD", NoFd))
    /\ UNCHANGED <<pool, hand, socketVars, notices, manager, unwoken>>

\* The listening socket is closed, and StopRunning.  Between these two a select
\* fails at once, or waits when the limit of connections keeps that socket out
\* of it: like one that a thread enters before them.
ShutdownEnds ==
    /\ server = "told" /\ server' = "down"
    /\ UNCHANGED <<pool, hand, socketVars, pipe, notices, manager, unwoken>>

-----------------------------------------------------------------------------
(* The manager of the pool.                                                *)

\* A round: after ten seconds, or sooner when a thread has notified it after
\* its work (NotifyIfNeeded).
Manage ==
    /\ manager = "waiting"
    /\ IsNeededToDestroyThread => Len(pipe) < PipeMax \/ server = "down"
    /\ LET left == {w \in listed : goes[w]} IN
       IF IsNeededToCreateThread
       THEN LET w == CHOOSE v \in Worker \ left : thread[v] = "none" IN
               /\ \E v \in Worker \ left : thread[v] = "none"
               /\ MoveTo(w, "created")
               /\ goes' = [goes EXCEPT ![w] = TRUE]
               /\ listed' = left \cup {w} /\ UNCHANGED pipe
       ELSE /\ listed' = left /\ UNCHANGED <<thread, goes>>
            /\ IF IsNeededToDestroyThread
               THEN pipe' \in Tried(Msg("EXIT_THREAD", NoFd)) ELSE UNCHANGED pipe
    /\ manager' = IF server = "down" THEN "ending" ELSE "waiting"
    /\ UNCHANGED <<hand, socketVars, notices, server, unwoken>>

\* StopRunning of all threads; a message for the one that selects, since that
\* of Shutdown may have been read, or not written, before its select began; and
\* ClearDeadThread, which takes all of them out of the list.  The pipe, closed a
\* second later, is left as it is.
StopWorkers ==
    /\ manager = "ending" /\ manager' = "ended"
    /\ goes' = [w \in Worker |-> goes[w] /\ w \notin listed]
    /\ listed' = {}
    /\ pipe' \in Tried(Msg("EXIT_THREAD", NoFd))
    /\ unwoken' = (pipe' = pipe)
    /\ UNCHANGED <<thread, hand, socketVars, notices, server>>

-----------------------------------------------------------------------------
Work(w) == \/ Begin(w) \/ Look(w)
           \/ Selected(w)
           \/ Served(w) \/ Written(w) \/ NotEnabled(w) \/ DestroySocketInternal(w)

ManagerStep == Manage \/ StopWorkers

NetNext == \/ \E w \in Worker : Work(w) \/ Expire(w)
           \/ \E fd \in Fd : Arrive(fd)
           \/ \E fds \in SUBSET Fd : WriteSocketPositive(fds)
           \/ ShutdownBegins \/ ShutdownEnds
           \/ ManagerStep

\* Threads are scheduled, handlers end, and Shutdown is not left half-way.
NetFairness == (\A w \in Worker : WF_netVars(Work(w))) /\ WF_netVars(ManagerStep)
               /\ WF_netVars(ShutdownEnds)

NetSpec == NetInit /\ [][NetNext]_netVars
NetLiveSpec == NetSpec /\ NetFairness

-----------------------------------------------------------------------------
Queued(type) == {fd \in Fd : \E k \in DOMAIN pipe : pipe[k] = Msg(type, fd)}
Queues(type, fd) == Cardinality({k \in DOMAIN pipe : pipe[k] = Msg(type, fd)})

\* Where a connection is held: to be selected, to be read, by a thread, or
\* in the pipe on its way back or to its end.
Places(fd) ==
    Cardinality({fd} \cap active) + Cardinality({k \in DOMAIN readable : readable[k] = fd})
    + Cardinality({w \in Worker : hand[w] = fd}) + Queues("ADD_FD", fd) + Queues("REMOVE_FD", fd)

\* The connections that stand, without those that are forgotten.
Known == open \ forgotten

(* A connection is always in one hand only, from the thread that selected  *)
(* it to the one that serves it and back through the pipe: no two threads  *)
(* read one connection, nothing is selected or served that has been        *)
(* closed, and none is forgotten but one that has expired without its end  *)
(* being ordered (279-283, 604).                                           *)
OnePlace == \A fd \in Fd : Places(fd) = IF fd \in Known THEN 1 ELSE 0

(* m_nTotalClient counts the connections that stand and are not about to   *)
(* be removed, without those that are forgotten, and those EnableSocket    *)
(* has closed by itself; it never passes the limit.                        *)
CountIsClients ==
    /\ totalClient = Cardinality(Known \ Queued("REMOVE_FD")) + leaked
    /\ totalClient \in 0 .. ConnectionMax

(* What a client sends is read in the end, however threads come and go,    *)
(* unless its connection is forgotten.                                     *)
DataIsServed ==
    \A fd \in Fd : (fd \in data) ~> (fd \notin data \/ fd \in forgotten \/ server = "down")

\* A thread is in select, with nothing there to end it.
Asleep == pipe = <<>> /\ ReadyFds = {} /\ \E w \in Worker : thread[w] = "select"

(* A notice for a connection that stands goes out, or the connection ends. *)
(* One whose message is not written waits as long as a thread sleeps in    *)
(* select with the connection in its set, which nothing but other traffic  *)
(* ends; for a connection that is elsewhere its coming back is enough.     *)
NoticeGoesOut ==
    \A fd \in Fd :
        (fd \in writeable \cap Known /\ ~(Asleep /\ fd \in active))
            ~> (fd \notin writeable \cap Known \/ server = "down")

(* After Shutdown every thread ends that had begun, those too that went to *)
(* select after its message was read; only when the manager's message is   *)
(* not written either does the one in select stay, and those behind it.    *)
WorkersEnd == (server = "down") ~> [](Started = {} \/ (unwoken /\ Asleep))

(* What the threads share of the connections is right: both of these.      *)
SocketsKept == OnePlace /\ CountIsClients

(* Nobody waits for ever, client, notice or thread: all of these.          *)
NobodyWaits == DataIsServed /\ NoticeGoesOut /\ WorkersEnd
=============================================================================
