----------------------------- MODULE STNetServer -----------------------------
(***************************************************************************)
(* LWPR's other network server, which an application's server has with     *)
(* tuxone.app.server.threadMode=ST: one thread that selects, accepts,      *)
(* serves each connection that can be read in turn, and closes, when       *)
(* select times out, what has long been silent.                            *)
(***************************************************************************)
EXTENDS Integers, FiniteSets, FiniteSetsExt

CONSTANTS StConn,         \* connections of clients
          StFd,           \* descriptors, numbers
          Listen,         \* m_fdListen, one of them
          nConnectionMax,
          bDropListenFD

ASSUME STAssumption == StFd \subseteq Nat /\ Listen \in StFd /\ nConnectionMax \in Nat /\ bDropListenFD \in BOOLEAN

VARIABLES stAt,      \* "select", "round", "serving", "ended"
          conn,      \* each: "new", "backlog", "open" or "closed" by the server
          fdOf,      \* the descriptor of an open connection, else None
          sent,      \* connections with a request to be read
          gone,      \* those whose client has closed
          setActive, setReadable, serving,
          nTotalClient,
          given,     \* descriptors a handler has kept: SOCKET_RET_FREE
          bStoped

stVars == <<stAt, conn, fdOf, sent, gone, setActive, setReadable, serving, nTotalClient, given, bStoped>>
None == -1

STInit ==
    /\ stAt = "select" /\ bStoped = FALSE
    /\ conn = [c \in StConn |-> "new"] /\ fdOf = [c \in StConn |-> None]
    /\ sent = {} /\ gone = {}
    /\ setActive = {Listen} /\ setReadable = {} /\ serving = None
    /\ nTotalClient = 0 /\ given = {}

ConnOf(fd) == CHOOSE c \in StConn : conn[c] = "open" /\ fdOf[c] = fd
Opened == {fdOf[c] : c \in {d \in StConn : conn[d] = "open"}}
Backlog == {c \in StConn : conn[c] = "backlog"}

-----------------------------------------------------------------------------
(* The clients, and who shuts the server down.                             *)

Connects(c) ==
    /\ conn[c] = "new" /\ stAt # "ended" /\ conn' = [conn EXCEPT ![c] = "backlog"]
    /\ UNCHANGED <<stAt, fdOf, sent, gone, setActive, setReadable, serving, nTotalClient, given, bStoped>>
SendRequest(c) ==
    /\ conn[c] \in {"backlog", "open"} /\ c \notin gone /\ sent' = sent \cup {c}
    /\ UNCHANGED <<stAt, conn, fdOf, gone, setActive, setReadable, serving, nTotalClient, given, bStoped>>
HangUp(c) ==
    /\ conn[c] = "open" /\ gone' = gone \cup {c}
    /\ UNCHANGED <<stAt, conn, fdOf, sent, setActive, setReadable, serving, nTotalClient, given, bStoped>>
Shutdown ==
    /\ ~bStoped /\ bStoped' = TRUE
    /\ UNCHANGED <<stAt, conn, fdOf, sent, gone, setActive, setReadable, serving, nTotalClient, given>>

-----------------------------------------------------------------------------
(* Go.                                                                     *)

Readable(fd) == IF fd = Listen THEN Backlog # {} ELSE ConnOf(fd) \in sent \cup gone

\* With as many clients as it may have it leaves new ones to other processes.
Selectable == setActive \ IF nTotalClient >= nConnectionMax /\ bDropListenFD THEN {Listen} ELSE {}

STReady == {fd \in Selectable : Readable(fd)}

STSelect ==
    /\ stAt = "select" /\ ~bStoped /\ STReady # {}
    /\ setReadable' = STReady /\ stAt' = "round"
    /\ UNCHANGED <<conn, fdOf, sent, gone, setActive, serving, nTotalClient, given, bStoped>>

CountWithout(fds) == nTotalClient - Cardinality(fds)

\* DestroySocket.
Destroy(fds) ==
    /\ conn' = [c \in StConn |-> IF conn[c] = "open" /\ fdOf[c] \in fds THEN "closed" ELSE conn[c]]
    /\ fdOf' = [c \in StConn |-> IF fdOf[c] \in fds THEN None ELSE fdOf[c]]
    /\ sent' = {c \in sent : fdOf[c] \notin fds \/ fdOf[c] = None}
    /\ nTotalClient' = CountWithout(fds)

ActiveAfter(expired) == setActive \ expired

\* Some connections have been silent for nSocketExpiredTime, or none.
SelectTimeout ==
    /\ stAt = "select" /\ ~bStoped /\ STReady = {}
    /\ \E expired \in SUBSET (setActive \ {Listen}) :
          Destroy(expired) /\ setActive' = ActiveAfter(expired)
    /\ UNCHANGED <<stAt, gone, setReadable, serving, given, bStoped>>

Next_fd == Min(setReadable)

\* DoClientAmountUpdate is told.  Over the limit a connection is closed at once.
Accept(c) ==
    /\ IF nTotalClient >= nConnectionMax \/ StFd \subseteq Opened \cup {Listen}
       THEN /\ conn' = [conn EXCEPT ![c] = "closed"] /\ sent' = sent \ {c}
            /\ UNCHANGED <<fdOf, setActive, nTotalClient>>
       ELSE LET fd == Min(StFd \ (Opened \cup {Listen})) IN
            /\ conn' = [conn EXCEPT ![c] = "open"] /\ fdOf' = [fdOf EXCEPT ![c] = fd]
            /\ setActive' = setActive \cup {fd} /\ nTotalClient' = nTotalClient + 1
            /\ UNCHANGED sent

\* The loop over the descriptors: all that wait are accepted ...
AcceptSocket ==
    /\ stAt = "round" /\ setReadable # {} /\ Next_fd = Listen
    /\ IF Backlog = {} THEN setReadable' = setReadable \ {Listen}
                            /\ UNCHANGED <<conn, fdOf, sent, setActive, nTotalClient>>
       ELSE (\E c \in Backlog : Accept(c)) /\ UNCHANGED setReadable
    /\ UNCHANGED <<stAt, gone, serving, given, bStoped>>

\* ... and a request is read from each of the others.
DoReceiveNormalData ==
    /\ stAt = "round" /\ setReadable # {} /\ Next_fd # Listen
    /\ stAt' = "serving" /\ serving' = Next_fd
    /\ setReadable' = setReadable \ {Next_fd} /\ setActive' = setActive \ {Next_fd}
    /\ sent' = sent \ {ConnOf(Next_fd)}
    /\ UNCHANGED <<conn, fdOf, gone, nTotalClient, given, bStoped>>

(* A mistake: a connection is not selected again. *)
NotAgain == setActive

Again == setActive \cup {serving}

\* What the handler returns, or throws.
HandlerReturns ==
    /\ stAt = "serving" /\ stAt' = "round" /\ serving' = None
    /\ \/ Destroy({serving}) /\ UNCHANGED <<setActive, given>>
       \/ /\ setActive' = Again
          /\ UNCHANGED <<conn, fdOf, sent, nTotalClient, given>>
       \/ /\ given' = given \cup {ConnOf(serving)}
          /\ UNCHANGED <<conn, fdOf, sent, nTotalClient, setActive>>
    /\ UNCHANGED <<gone, setReadable, bStoped>>

STRoundEnds ==
    /\ stAt = "round" /\ setReadable = {} /\ stAt' = "select"
    /\ UNCHANGED <<conn, fdOf, sent, gone, setActive, setReadable, serving, nTotalClient, given, bStoped>>

\* Everything that is selected is closed, the listening socket included.
GoReturns ==
    /\ stAt = "select" /\ bStoped /\ stAt' = "ended"
    /\ Destroy(setActive)
    /\ setActive' = {} /\ UNCHANGED <<gone, setReadable, serving, given, bStoped>>

Clients == \E c \in StConn : Connects(c) \/ SendRequest(c) \/ HangUp(c)
Go == STSelect \/ SelectTimeout \/ AcceptSocket \/ DoReceiveNormalData \/ HandlerReturns \/ STRoundEnds \/ GoReturns
\* The thread has returned from Go.
Returned == stAt = "ended" /\ UNCHANGED stVars

STNext == Clients \/ Shutdown \/ Go \/ Returned
STSpec == STInit /\ [][STNext]_stVars
\* The thread runs, services return; select is left every minute.
STFairness == WF_stVars(Go)

-----------------------------------------------------------------------------
(* The number of clients is that of the connections that stand, those that *)
(* a handler keeps included, until Go ends: then it is one too small, the  *)
(* listening socket having been destroyed as a client.                     *)
TotalIsClients ==
    nTotalClient = Cardinality(Opened) - IF stAt = "ended" THEN 1 ELSE 0

(* Whoever is looked at or served has something to be read, although       *)
(* descriptors are closed and used again within a round: the only thread   *)
(* never waits for a client that has sent nothing.                         *)
NeverWaits ==
    /\ \A fd \in setReadable \ {Listen} : fd \in Opened /\ ConnOf(fd) \in sent \cup gone
    /\ setActive \subseteq Opened \cup {Listen}

(* A request is read, or its connection closed, unless a handler has kept  *)
(* the connection: EnableSocket does nothing in this server.               *)
EachIsServed == \A c \in StConn : c \in sent /\ conn[c] = "open" /\ c \notin given ~> c \notin sent \/ c \in given

\* A client in the backlog is accepted, or turned away, while there is room.
BacklogMoves == \A c \in StConn :
    conn[c] = "backlog" /\ nTotalClient < nConnectionMax
        ~> (conn[c] # "backlog" \/ nTotalClient >= nConnectionMax \/ stAt = "ended")

(* What the server keeps of its clients is right, and none of them waits   *)
(* for ever: all of these.                                                 *)
ClientsServed == [](TotalIsClients /\ NeverWaits) /\ EachIsServed /\ BacklogMoves
=============================================================================
