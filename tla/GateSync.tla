------------------------------- MODULE GateSync -------------------------------
(***************************************************************************)
(* SYNC's connections to the other gates (GateManager, GateProxy): rounds  *)
(* of heartbeats and fetches, woken by notices or by the interval, and     *)
(* what they keep of each gate on the own board.  Gates change, end and    *)
(* start again, connections break and answers come too late meanwhile.     *)
(* What SynBB does to the board is BulletinBoard, whom it wakes WshNotify. *)
(***************************************************************************)
EXTENDS Naturals, Sequences, FiniteSets

CONSTANTS OtherGate,   \* m_Gates
          SyncSeq,     \* nSVCUpdateSeq is a number below this: 2^32 in the code
          GateChanges, \* bound: changes of the boards of other gates
          SyncFails    \* bound: ends, breaks and timeouts

ASSUME SyncAssumption == SyncSeq \in Nat \ {0, 1} /\ GateChanges \in Nat /\ SyncFails \in Nat

VARIABLES up,          \* the gates that run
          life,        \* how often each has been started
          offered,     \* the version of a gate's own services, 0 for none
          number,      \* nSVCUpdateSeq of its board
          gateTold,        \* the number its clients have been told of
          fd,          \* m_nFDGate: 0, or the life of the gate it leads to
          cut,         \* connections that the gate has closed
          registered,  \* connections the gate has in its AppDepot
          request,     \* what the gate is working on for SYNC
          toSync,       \* what SYNC has not read of each connection
          heart,       \* m_nBBUpdateSeqHeart
          seqSync,     \* m_nBBUpdateSeqSync
          copy,        \* the gate's entries on the own board: [life, offered]
          step,        \* where SYNC is: "connect", "select", "turn", "beat", "sync", "fetch"
          todo,        \* gates left in this round
          at,          \* the gate whose turn it is
          failed,      \* ends, breaks and timeouts so far
          changed      \* changes so far

gateVars == <<up, life, offered, number, gateTold>>
lineVars == <<fd, cut, registered, request, toSync>>
ownVars == <<heart, seqSync, copy>>
runVars == <<step, todo, at>>
syncVars == <<gateVars, lineVars, ownVars, runVars, failed, changed>>

Nothing == [life |-> 0, offered |-> 0]
NoRequest == [kind |-> "none"]
Notice == [kind |-> "notice"]
Served == [life : 1 .. SyncFails + 1, offered : 0 .. GateChanges]

\* The connection stands: it leads to the gate as it runs now.
Open(g) == fd[g] # 0 /\ g \in up /\ fd[g] = life[g] /\ g \notin cut

SyncInit ==
  /\ up = OtherGate
  /\ life = [g \in OtherGate |-> 1]
  /\ offered = [g \in OtherGate |-> 0]
  /\ number = [g \in OtherGate |-> 0]
  /\ gateTold = [g \in OtherGate |-> 0]
  /\ fd = [g \in OtherGate |-> 0]
  /\ cut = {} /\ registered = {}
  /\ request = [g \in OtherGate |-> NoRequest]
  /\ toSync = [g \in OtherGate |-> <<>>]
  /\ heart = [g \in OtherGate |-> 0]
  /\ seqSync = [g \in OtherGate |-> 0]
  /\ copy = [g \in OtherGate |-> Nothing]
  /\ step = "connect" /\ todo = {} /\ at = CHOOSE g \in OtherGate : TRUE
  /\ failed = 0 /\ changed = 0

-----------------------------------------------------------------------------
(* The other gates.                                                        *)

GateChange(g) ==
  /\ g \in up /\ changed < GateChanges /\ changed' = changed + 1
  /\ offered' = [offered EXCEPT ![g] = @ + 1]
  /\ number' = [number EXCEPT ![g] = (@ + 1) % SyncSeq]
  /\ UNCHANGED <<up, life, gateTold, lineVars, ownVars, runVars, failed>>

\* A WSH of the gate sees the number and tells its clients.
GateNotice(g) ==
  /\ g \in up /\ gateTold[g] # number[g]
  /\ gateTold' = [gateTold EXCEPT ![g] = number[g]]
  /\ toSync' = IF g \in registered /\ Open(g)
              THEN [toSync EXCEPT ![g] = Append(@, Notice)] ELSE toSync
  /\ UNCHANGED <<up, life, offered, number, fd, cut, registered, request, ownVars, runVars, failed, changed>>

\* RegisterApp and FetchBB of the gate: what the answer says is read from the
\* board first, and written to the connection later.
GateServe(g) ==
  /\ Open(g) /\ request[g].kind \in {"register", "fetch"}
  /\ IF request[g].kind = "register"
     THEN /\ registered' = registered \cup {g}
          /\ request' = [request EXCEPT ![g] = [kind |-> "heart", number |-> number[g]]]
     ELSE /\ UNCHANGED registered
          /\ request' = [request EXCEPT ![g] =
                 [kind |-> "board", board |-> [life |-> life[g], offered |-> offered[g]]]]
  /\ UNCHANGED <<gateVars, fd, cut, toSync, ownVars, runVars, failed, changed>>

GateAnswer(g) ==
  /\ Open(g) /\ request[g].kind \in {"heart", "board"}
  /\ toSync' = [toSync EXCEPT ![g] = Append(@, request[g])]
  /\ request' = [request EXCEPT ![g] = NoRequest]
  /\ UNCHANGED <<gateVars, fd, cut, registered, ownVars, runVars, failed, changed>>

\* A gate ends, or it gives SYNC up as a client.
GateEnd(g) ==
  /\ g \in up /\ failed < SyncFails
  /\ up' = up \ {g} /\ failed' = failed + 1
  /\ UNCHANGED <<life, offered, number, gateTold, lineVars, ownVars, runVars, changed>>

GateStart(g) ==
  /\ g \notin up
  /\ up' = up \cup {g}
  /\ life' = [life EXCEPT ![g] = @ + 1]
  /\ offered' = [offered EXCEPT ![g] = 0]
  /\ number' = [number EXCEPT ![g] = 0]
  /\ gateTold' = [gateTold EXCEPT ![g] = 0]
  /\ UNCHANGED <<lineVars, ownVars, runVars, failed, changed>>

GateExpires(g) ==
  /\ Open(g) /\ failed < SyncFails
  /\ cut' = cut \cup {g} /\ failed' = failed + 1
  /\ registered' = registered \ {g}
  /\ UNCHANGED <<gateVars, fd, request, toSync, ownVars, runVars, changed>>

-----------------------------------------------------------------------------
(* The functions of GateProxy, on the connections as they become.          *)

\* Connect of the gates in G, those that have no connection.
Connected(G) == {g \in G : fd[g] # 0 \/ g \in up}
ConnectAll(G) ==
  LET new == {g \in G : fd[g] = 0 /\ g \in up}
  IN /\ fd' = [g \in OtherGate |-> IF g \in new THEN life[g] ELSE fd[g]]
     /\ cut' = cut \ new /\ registered' = registered \ new

(* A mistake: the entries stay until the gate is fetched again. *)
ClearedLater(g) == copy

\* ClearBB.
Cleared(g) == [copy EXCEPT ![g] = Nothing]

\* GateProxy::Disconnect: what is under way on the connection is lost with it.
DisconnectProxy(g) ==
  /\ fd' = [fd EXCEPT ![g] = 0]
  /\ cut' = cut \ {g} /\ registered' = registered \ {g}
  /\ toSync' = [toSync EXCEPT ![g] = <<>>]
  /\ request' = [request EXCEPT ![g] = NoRequest]
  /\ copy' = Cleared(g)

\* Invoke: the request is sent.
Send(g, kind) ==
  /\ request' = [request EXCEPT ![g] = IF Open(g) \/ fd[g] = 0 THEN [kind |-> kind] ELSE @]
  /\ UNCHANGED toSync

\* Invoke passes over a notice.
PassOver(g) ==
  /\ toSync[g] # <<>> /\ Head(toSync[g]) = Notice
  /\ toSync' = [toSync EXCEPT ![g] = Tail(@)]
  /\ UNCHANGED <<gateVars, fd, cut, registered, request, ownVars, runVars, failed, changed>>

\* Invoke has its answer.
Receive(g, kind) ==
  /\ toSync[g] # <<>> /\ Head(toSync[g]).kind = kind
  /\ toSync' = [toSync EXCEPT ![g] = Tail(@)]

\* Invoke fails: nothing more can come, or it takes too long.
Fails(g) ==
  \/ toSync[g] = <<>> /\ ~Open(g) /\ UNCHANGED failed
  \/ failed < SyncFails /\ failed' = failed + 1

-----------------------------------------------------------------------------
(* GateManager::Run.                                                       *)

ConnectGates ==
  /\ step = "connect" /\ step' = "select"
  /\ ConnectAll(OtherGate)
  /\ UNCHANGED <<gateVars, request, toSync, ownVars, todo, at, failed, changed>>

Ready == {g \in OtherGate : fd[g] # 0 /\ (toSync[g] # <<>> \/ ~Open(g))}

\* select: the gates to be read, or all of them after the interval.
SelectGates ==
  /\ step = "select" /\ step' = "turn"
  /\ todo' = IF Ready = {} THEN OtherGate ELSE Ready
  /\ UNCHANGED <<gateVars, lineVars, ownVars, at, failed, changed>>

RoundEnds ==
  /\ step = "turn" /\ todo = {}
  /\ step' = "connect"
  /\ UNCHANGED <<gateVars, lineVars, ownVars, todo, at, failed, changed>>

\* SendHeartBeat: connects and asks, or leaves it at that.
SendHeartBeat(g) ==
  /\ step = "turn" /\ g \in todo
  /\ todo' = todo \ {g} /\ at' = g
  /\ IF g \in Connected({g})
     THEN ConnectAll({g}) /\ Send(g, "register") /\ step' = "beat"
     ELSE UNCHANGED lineVars /\ step' = "sync"
  /\ UNCHANGED <<gateVars, ownVars, failed, changed>>

HeartBeatAnswered ==
  /\ step = "beat" /\ Receive(at, "heart")
  /\ heart' = [heart EXCEPT ![at] = Head(toSync[at]).number]
  /\ step' = "sync"
  /\ UNCHANGED <<gateVars, fd, cut, registered, request, seqSync, copy, todo, at, failed, changed>>

HeartBeatFails ==
  /\ step = "beat" /\ Fails(at)
  /\ DisconnectProxy(at)
  /\ step' = "sync"
  /\ UNCHANGED <<gateVars, heart, seqSync, todo, at, changed>>

\* SyncServiceOf: connects again if need be, and fetches.
SyncServiceOf ==
  /\ step = "sync"
  /\ IF at \in Connected({at})
     THEN /\ ConnectAll({at})
          /\ IF seqSync[at] # heart[at]
             THEN Send(at, "fetch") /\ step' = "fetch"
             ELSE UNCHANGED <<request, toSync>> /\ step' = "turn"
     ELSE UNCHANGED lineVars /\ step' = "turn"
  /\ UNCHANGED <<gateVars, ownVars, todo, at, failed, changed>>

(* A mistake: the number is remembered for ever, over the connection's end. *)
RememberedNumber(g) == [seqSync EXCEPT ![g] = heart[g]]

\* The number that has been fetched is not remembered.
FetchedNumber(g) == seqSync

\* SynBB takes the answer over.
Fetched ==
  /\ step = "fetch" /\ Receive(at, "board")
  /\ copy' = [copy EXCEPT ![at] = Head(toSync[at]).board]
  /\ seqSync' = FetchedNumber(at)
  /\ step' = "turn"
  /\ UNCHANGED <<gateVars, fd, cut, registered, request, heart, todo, at, failed, changed>>

FetchFails ==
  /\ step = "fetch" /\ Fails(at)
  /\ DisconnectProxy(at)
  /\ step' = "turn"
  /\ UNCHANGED <<gateVars, heart, seqSync, todo, at, changed>>

Invoking == step \in {"beat", "fetch"} /\ PassOver(at)

SyncRuns == \/ ConnectGates \/ SelectGates \/ RoundEnds
            \/ \E g \in OtherGate : SendHeartBeat(g)
            \/ Invoking \/ HeartBeatAnswered \/ SyncServiceOf \/ Fetched
            \/ (toSync[at] = <<>> /\ ~Open(at)) /\ (HeartBeatFails \/ FetchFails)

SyncNext ==
  \/ SyncRuns \/ HeartBeatFails \/ FetchFails
  \/ \E g \in OtherGate : \/ GateChange(g) \/ GateNotice(g) \/ GateServe(g) \/ GateAnswer(g)
                          \/ GateEnd(g) \/ GateStart(g) \/ GateExpires(g)

SyncSpec == SyncInit /\ [][SyncNext]_syncVars

-----------------------------------------------------------------------------
(* What SYNC has copied of a gate it has from the run of the gate that its *)
(* connection leads to: entries never outlive the connection they came by, *)
(* in whichever call its end is noticed, nor are they taken for those of   *)
(* a gate that has been started anew.                                      *)
CopyOfConnection ==
  \A g \in OtherGate : copy[g] # Nothing => copy[g].life = fd[g] /\ fd[g] # 0

(* When the boards stay as they are, the copy of each gate that runs       *)
(* becomes what the gate offers, although notices are passed over and lost *)
(* - unless its number is 0, which SyncServiceOf takes for no news: just     *)
(* started, when it offers nothing, or gone round.                         *)
CopyCatchesUp ==
  \A g \in OtherGate :
    <>[](g \in up /\ number[g] # 0 => copy[g] = [life |-> life[g], offered |-> offered[g]])
=============================================================================
