------------------------------- MODULE Exchange -------------------------------
(***************************************************************************)
(* One request and its reply over a connection: Invoke in the application, *)
(* TuxNSHandlerImpl::DoReceiveNormalData in the server, and under both the *)
(* loops of ReadSocket and WriteSocket, which move what they are asked for *)
(* piece by piece and may stop half-way, on a timeout, on a signal or at   *)
(* the end of the connection.                                              *)
(*                                                                         *)
(* A message is a header and a body of a few units each.  An application   *)
(* that is told of a failure closes the connection (ServerProxy,           *)
(* GateCheckThread) and takes another one for its next request; a server   *)
(* whose handler fails closes it too (MTNetServer).                        *)
(***************************************************************************)
EXTENDS Integers, Sequences, FiniteSets

CONSTANTS HeaderLen, BodyLen,   \* units of a message
          PipeRoom,                 \* units a connection holds in one direction
          Conn,                 \* the connections, in the order they are made
          CallerMax,              \* bound: calls of Invoke
          NoticeMax             \* bound: notices of the server

ASSUME ExchangeAssumption ==
    /\ {HeaderLen, BodyLen, PipeRoom} \subseteq Nat \ {0}
    /\ Conn \subseteq Nat \ {0} /\ CallerMax \in Nat /\ NoticeMax \in Nat

VARIABLES up, down,     \* what is on its way on a connection, to the server and back
          closedBy,         \* the sides of a connection that have closed it
          caller,       \* Invoke
          wsh,       \* DoReceiveNormalData on each connection
          executions,     \* history: how often each request was carried out
          outcomes,       \* history: what each call of Invoke returned
          answer,       \* history: the request whose reply it returned
          notices       \* notices so far

exchangeVars == <<up, down, closedBy, caller, wsh, executions, outcomes, answer, notices>>

Calls == 1 .. CallerMax
NoConn == 0
Part(kind, n, part, len) == [i \in 1 .. len |-> <<kind, n, part, i>>]
Header(kind, n) == Part(kind, n, "header", HeaderLen)
Body(kind, n) == Part(kind, n, "body", BodyLen)
PartOf(unit) == unit[3]
InPart(units) == Cardinality({i \in DOMAIN units : PartOf(units[i]) = PartOf(units[1])})

ExchangeInit ==
    /\ up = [c \in Conn |-> <<>>] /\ down = [c \in Conn |-> <<>>]
    /\ closedBy = [c \in Conn |-> {}]
    /\ caller = [at |-> "idle", conn |-> NoConn, n |-> 0, units |-> <<>>]
    /\ wsh = [c \in Conn |-> [at |-> "waiting", n |-> 0, units |-> <<>>]]
    /\ executions = [n \in Calls |-> 0]
    /\ outcomes = [n \in Calls |-> "NONE"] /\ answer = [n \in Calls |-> 0]
    /\ notices = 0

-----------------------------------------------------------------------------
(* The application.                                                        *)

UnusedConn == {c \in Conn : closedBy[c] = {} /\ up[c] = <<>> /\ c > caller.conn
                          /\ wsh[c].at = "waiting" /\ wsh[c].n = 0}

(* A mistake: a request that has gone out is given up, its connection is   *)
(* kept for the next one.                                                  *)
KeptAfterTimeout(error) == error # "RECEIVE_TIMEOUT"

\* What Invoke returns without an answer ends the connection.
Disconnects(error) == TRUE

Fails(error) ==
    /\ outcomes' = [outcomes EXCEPT ![caller.n] = error]
    /\ caller' = [caller EXCEPT !.at = "idle", !.units = <<>>]
    /\ closedBy' = IF caller.conn # NoConn /\ Disconnects(error)
               THEN [closedBy EXCEPT ![caller.conn] = @ \cup {"client"}] ELSE closedBy
    /\ UNCHANGED <<up, down, wsh, executions, answer, notices>>

Connected == caller.conn # NoConn /\ "client" \notin closedBy[caller.conn]

\* The connection of the request before, or a new one.
Invoke ==
    /\ caller.at = "idle" /\ caller.n < CallerMax
    /\ \E c \in IF Connected THEN {caller.conn} ELSE UnusedConn :
          caller' = [at |-> "sending", conn |-> c, n |-> caller.n + 1,
                     units |-> Header("request", caller.n + 1) \o Body("request", caller.n + 1)]
    /\ UNCHANGED <<up, down, closedBy, wsh, executions, outcomes, answer, notices>>

Sending == caller.at = "sending"
Receiving == caller.at = "receiving"
ServerGone == "server" \in closedBy[caller.conn]

\* WriteSocket: the header, then the body.
ClientWrites ==
    /\ Sending /\ ~ServerGone
    /\ \E k \in 1 .. InPart(caller.units) :
          /\ Len(up[caller.conn]) + k <= PipeRoom
          /\ up' = [up EXCEPT ![caller.conn] = @ \o SubSeq(caller.units, 1, k)]
          /\ LET left == SubSeq(caller.units, k + 1, Len(caller.units)) IN
             caller' = [caller EXCEPT !.at = IF left = <<>> THEN "receiving" ELSE "sending",
                                      !.units = left]
    /\ UNCHANGED <<down, closedBy, wsh, executions, outcomes, answer, notices>>

\* The time is over, or select or write has returned an error: the server has
\* closed, or a signal has come while it is there and well (Socket.cpp, 360).
WriteFails ==
    /\ Sending
    /\ LET header == PartOf(caller.units[1]) = "header" IN
       \/ Fails(IF header THEN "SEND_HEADER_TIMEOUT" ELSE "SEND_BODY_TIMEOUT")
       \/ Fails(IF header THEN "SEND_HEADER_FAILED" ELSE "SEND_BODY_FAILED")

\* How much ReadSocket still asks for.
WantedUnits(units) == IF Len(units) < HeaderLen THEN HeaderLen ELSE HeaderLen + BodyLen

\* The header of a notice is read and forgotten.
Kept(units) == IF Len(units) = HeaderLen /\ units[1][1] = "notice" THEN <<>> ELSE units

\* ReadSocket: a header, the next one while it is a notice, and the body.
ClientReads ==
    /\ Receiving
    /\ LET c == caller.conn IN
       \E k \in 1 .. WantedUnits(caller.units) - Len(caller.units) :
          /\ k <= Len(down[c])
          /\ down' = [down EXCEPT ![c] = SubSeq(@, k + 1, Len(@))]
          /\ LET units == Kept(caller.units \o SubSeq(down[c], 1, k)) IN
             IF Len(units) = HeaderLen + BodyLen
             THEN /\ outcomes' = [outcomes EXCEPT ![caller.n] = "OK"]
                  /\ answer' = [answer EXCEPT ![caller.n] = units[1][2]]
                  /\ caller' = [caller EXCEPT !.at = "idle", !.units = <<>>]
             ELSE /\ caller' = [caller EXCEPT !.units = units]
                  /\ UNCHANGED <<outcomes, answer>>
    /\ UNCHANGED <<up, closedBy, wsh, executions, notices>>

\* The same for select and read (323), whatever is still on its way.
ReadFails == Receiving /\ \E error \in {"RECEIVE_TIMEOUT", "RECEIVE_FAILED"} : Fails(error)

-----------------------------------------------------------------------------
(* The server, on connection c.                                            *)

ServeConn(c, to) == wsh' = [wsh EXCEPT ![c] = to]
ClientGone(c) == "client" \in closedBy[c]
Serving(c) == "server" \notin closedBy[c]

\* Select: there is something to read, or the client has closed.
ServerReads(c) ==
    /\ Serving(c) /\ wsh[c].at \in {"waiting", "reading"}
    /\ \E k \in 1 .. WantedUnits(wsh[c].units) - Len(wsh[c].units) :
          /\ k <= Len(up[c])
          /\ up' = [up EXCEPT ![c] = SubSeq(@, k + 1, Len(@))]
          /\ LET units == wsh[c].units \o SubSeq(up[c], 1, k) IN
             ServeConn(c, [at |-> IF Len(units) = HeaderLen + BodyLen THEN "invoking" ELSE "reading",
                       n |-> units[1][2], units |-> units])
    /\ UNCHANGED <<down, closedBy, caller, executions, outcomes, answer, notices>>

\* InvokeImpl: a reply, or none for a message it does not know.
InvokeImpl(c) ==
    /\ wsh[c].at = "invoking"
    /\ executions' = [executions EXCEPT ![wsh[c].n] = @ + 1]
    /\ \/ /\ ServeConn(c, [wsh[c] EXCEPT !.at = "replying",
                          !.units = Header("reply", wsh[c].n) \o Body("reply", wsh[c].n)])
          /\ UNCHANGED closedBy
       \/ /\ ServeConn(c, [wsh[c] EXCEPT !.at = "closed", !.units = <<>>])
          /\ closedBy' = [closedBy EXCEPT ![c] = @ \cup {"server"}]
    /\ UNCHANGED <<up, down, caller, outcomes, answer, notices>>

\* WriteSocket, of a reply or of a notice.
ServerWrites(c) ==
    /\ wsh[c].at = "replying" /\ ~ClientGone(c)
    /\ \E k \in 1 .. InPart(wsh[c].units) :
          /\ Len(down[c]) + k <= PipeRoom
          /\ down' = [down EXCEPT ![c] = @ \o SubSeq(wsh[c].units, 1, k)]
          /\ LET left == SubSeq(wsh[c].units, k + 1, Len(wsh[c].units)) IN
             ServeConn(c, [wsh[c] EXCEPT !.at = IF left = <<>> THEN "waiting" ELSE "replying",
                                        !.units = left])
    /\ UNCHANGED <<up, closedBy, caller, executions, outcomes, answer, notices>>

\* A notice goes out only between two requests.
WriteSocketPositive(c) ==
    /\ Serving(c) /\ wsh[c].at = "waiting" /\ notices < NoticeMax
    /\ notices' = notices + 1
    /\ ServeConn(c, [wsh[c] EXCEPT !.at = "replying", !.units = Header("notice", 0)])
    /\ UNCHANGED <<up, down, closedBy, caller, executions, outcomes, answer>>

Destroyed(c) == [closedBy EXCEPT ![c] = @ \cup {"server"}]

\* A timeout or a signal in the middle of a message, or the client is gone.
ServerFails(c) ==
    /\ Serving(c)
    /\ \/ wsh[c].at \in {"reading", "replying"}
       \/ wsh[c].at = "waiting" /\ ClientGone(c) /\ up[c] = <<>>
    /\ closedBy' = Destroyed(c)
    /\ ServeConn(c, [wsh[c] EXCEPT !.at = IF "server" \in closedBy'[c] THEN "closed" ELSE "waiting",
                                  !.units = <<>>])
    /\ UNCHANGED <<up, down, caller, executions, outcomes, answer, notices>>

-----------------------------------------------------------------------------
ClientStep == ClientWrites \/ WriteFails \/ ClientReads \/ ReadFails
ServerStep(c) == ServerReads(c) \/ InvokeImpl(c) \/ ServerWrites(c) \/ ServerFails(c)

ExchangeNext == \/ Invoke \/ ClientStep
                \/ \E c \in Conn : ServerStep(c) \/ WriteSocketPositive(c)

ExchangeSpec == ExchangeInit /\ [][ExchangeNext]_exchangeVars

-----------------------------------------------------------------------------
(* Neither side ever takes the middle of a message for its beginning: a    *)
(* part that was read, or written, only in part is never gone on from.     *)
Framed ==
    /\ \A c \in Conn : \/ ~Serving(c) \/ wsh[c].units # <<>> \/ up[c] = <<>>
                       \/ up[c][1][3] = "header" /\ up[c][1][4] = 1
    /\ \/ ~Receiving \/ caller.units # <<>> \/ down[caller.conn] = <<>>
       \/ down[caller.conn][1][3] = "header" /\ down[caller.conn][1][4] = 1

(* Invoke returns OK only with the reply to its own request, whatever was  *)
(* left on the way by those before it, and never with a notice.            *)
AnswerIsOwnRequests == \A n \in Calls : outcomes[n] = "OK" => answer[n] = n /\ executions[n] = 1

\* What tpcall tries another server after: the request has not gone out.
Retried == {"SEND_HEADER_FAILED", "SEND_HEADER_TIMEOUT", "SEND_BODY_FAILED"}

(* A request is not carried out, then or later, when Invoke has returned   *)
(* what makes tpcall send it to another server; and never twice.           *)
RetriedIsNotExecuted ==
    \A n \in Calls : executions[n] <= IF outcomes[n] \in Retried THEN 0 ELSE 1

(* A request, its reply and its connection: all of these. *)
ExchangeKept == Framed /\ AnswerIsOwnRequests /\ RetriedIsNotExecuted
=============================================================================
