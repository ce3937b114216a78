------------------------------ MODULE WshProofs ------------------------------
(***************************************************************************)
(* Theorems about news: inside a gate (WshNotify), for any WSHs and any    *)
(* number of changes, between gates (GateSync), for any gates, changes and *)
(* breaks, and about the servers a WSH registers and withdraws services    *)
(* for (AppRegistry), for any servers, descriptors, workers and bounds;    *)
(* and about the life of an application with its gate (AppLife).           *)
(***************************************************************************)
EXTENDS WshNotify, GateSync, AppRegistry, AppLife, SequenceTheorems, FiniteSetTheorems, TLAPS

-----------------------------------------------------------------------------
(* The life of an application. *)

(* Where the main thread of a client or of a server can be; a server says  *)
(* that it is one from SetNetServer on.                                    *)
ClientPlaces == {"idle", "term", "disconnect"}
RegisteredPlaces == {"registered", "run", "running", "stopped", "term", "disconnect", "done"}
ServerPlaces == {"starting", "inited", "active"} \cup RegisteredPlaces

LifeTypes ==
    /\ role \in {"client", "server"}
    /\ role = "client" => main \in ClientPlaces
    /\ role = "server" => main \in ServerPlaces
    /\ appType \in BOOLEAN /\ gateLink \in BOOLEAN /\ announced \in BOOLEAN /\ termed \in BOOLEAN
    /\ pipes \in Nat

(* Before the first pipe, and after Term, there is no connection; a context *)
(* is only given up after Term, or when there has never been a check thread. *)
NeverConnected == pipes = 0 => ~gateLink /\ check = "none"
TermedIsClosed == termed => ~gateLink
TermedOrNew == main = "disconnect" \/ (main = "idle" /\ context = "none")
                 => termed \/ pipes = 0
ProcessEnds == main = "done" => termed \/ (~gateLink /\ check = "none")

(* A gate lists whom it is connected with and who has said it is a server; *)
(* it says so when its network server listens.                             *)
ListedIsConnected == announced => gateLink /\ appType
ServersSay == appType => main \in RegisteredPlaces /\ role = "server"
SaidListens == /\ main \in {"active", "registered", "run"} => netServer = "listening"
               /\ main = "running" => netServer = "running"

LifeInv ==
    /\ LifeTypes
    /\ NeverConnected
    /\ TermedIsClosed
    /\ TermedOrNew
    /\ ProcessEnds
    /\ ListedIsConnected
    /\ ServersSay
    /\ SaidListens

LEMMA LifeInit_Inv == LifeInit => LifeInv
<1> SUFFICES ASSUME LifeInit PROVE LifeInv
  OBVIOUS
<1>1. LifeTypes
  BY DEF LifeInit, LifeTypes, ClientPlaces, RegisteredPlaces, ServerPlaces
<1>2. SaidListens /\ ProcessEnds /\ TermedOrNew
  BY DEF LifeInit, SaidListens, ProcessEnds, TermedOrNew
<1> QED
  BY <1>1, <1>2 DEF LifeInit, LifeInv, LifeTypes, NeverConnected, TermedIsClosed, TermedOrNew, ProcessEnds, ListedIsConnected, ServersSay, SaidListens, ClientPlaces, RegisteredPlaces, ServerPlaces

(* The first tpinit of a context: a pipe more, and a connection if there    *)
(* may be one.                                                             *)
LEMMA FirstInit_Kept ==
  ASSUME LifeInv, FirstInit
  PROVE  /\ pipes' \in Nat /\ pipes' # 0 /\ context' = "inited"
         /\ gateLink' \in BOOLEAN /\ announced' \in BOOLEAN
         /\ UNCHANGED lifeGate \/ (~termed /\ announced' = FALSE)
<1>1. pipes \in Nat /\ gateLink \in BOOLEAN /\ announced \in BOOLEAN
  BY DEF LifeInv, LifeTypes
<1>2. pipes' \in Nat /\ pipes' # 0
  <2>1. pipes' = pipes + 1
    BY DEF FirstInit
  <2> QED
    BY <1>1, <2>1
<1>3. UNCHANGED lifeGate \/ (~termed /\ gateLink' \in BOOLEAN /\ announced' = FALSE)
  BY DEF FirstInit, ConnectGate, MayConnect
<1>4. gateLink' \in BOOLEAN /\ announced' \in BOOLEAN
  <2>1. CASE UNCHANGED lifeGate
    BY <1>1, <2>1 DEF lifeGate
  <2>2. CASE gateLink' \in BOOLEAN /\ announced' = FALSE
    BY <2>2
  <2> QED
    BY <1>3, <2>1, <2>2
<1> QED
  BY <1>2, <1>3, <1>4 DEF FirstInit

LEMMA LifeNext_Inv == LifeInv /\ [LifeNext]_lifeVars => LifeInv'
<1> SUFFICES ASSUME LifeInv, [LifeNext]_lifeVars PROVE LifeInv'
  OBVIOUS
<1> USE DEF LifeTypes, NeverConnected, TermedIsClosed, TermedOrNew, ProcessEnds, ListedIsConnected,
            ServersSay, SaidListens, ClientPlaces, RegisteredPlaces, ServerPlaces,
            lifeGate, api, wake, mutexes, NotMain
<1>1. CASE LockGate
  BY <1>1 DEF LifeInv, LockGate
<1>2. CASE LifeBeat
  BY <1>2 DEF LifeInv, LifeBeat, RegisterToGate, MayConnect, lifeGate, wake
<1>3. CASE Awoken
  BY <1>3 DEF LifeInv, Awoken
<1>4. CASE WaitEnds
  <2>1. CASE UNCHANGED lifeGate
    BY <1>4, <2>1 DEF LifeInv, WaitEnds
  <2>2. CASE gateLink' = FALSE /\ announced' = FALSE
    BY <1>4, <2>2 DEF LifeInv, WaitEnds
  <2> QED
    BY <1>4, <2>1, <2>2 DEF WaitEnds
<1>5. CASE LetOthersGo
  BY <1>5 DEF LifeInv, LetOthersGo
<1>6. CASE Tpinit
  <2>1. CASE context = "none"
    <3>1. FirstInit
      BY <1>6, <2>1 DEF Tpinit
    <3>2. UNCHANGED <<role, main, appType, netServer, termed>> /\ main = "idle"
      BY <1>6 DEF Tpinit
    <3>3. CASE UNCHANGED lifeGate
      BY <3>1, <3>2, <3>3, FirstInit_Kept DEF LifeInv
    <3>4. CASE ~termed /\ announced' = FALSE
      BY <3>1, <3>2, <3>4, FirstInit_Kept DEF LifeInv
    <3> QED
      BY <3>1, <3>3, <3>4, FirstInit_Kept
  <2>2. CASE context # "none"
    BY <1>6, <2>2 DEF LifeInv, Tpinit
  <2> QED
    BY <2>1, <2>2
<1>7. CASE TpinitFails
  BY <1>7 DEF LifeInv, TpinitFails
<1>8. CASE Tpcall
  BY <1>8 DEF LifeInv, Tpcall, Returns
<1>9. CASE NotImplemented
  BY <1>9 DEF LifeInv, NotImplemented, Returns
<1>10. CASE Tpadvertise
  BY <1>10 DEF LifeInv, Tpadvertise, Returns
<1>11. CASE TptermRefused
  BY <1>11 DEF LifeInv, TptermRefused, Returns
<1>12. CASE StartServer
  <2>1. FirstInit
    BY <1>12 DEF StartServer
  <2>2. UNCHANGED <<role, appType, netServer, termed>> /\ main = "starting" /\ main' = "inited"
    BY <1>12 DEF StartServer
  <2>3. CASE UNCHANGED lifeGate
    BY <2>1, <2>2, <2>3, FirstInit_Kept DEF LifeInv
  <2>4. CASE ~termed /\ announced' = FALSE
    BY <2>1, <2>2, <2>4, FirstInit_Kept DEF LifeInv
  <2> QED
    BY <2>1, <2>3, <2>4, FirstInit_Kept
<1>13. CASE ActivateService
  BY <1>13 DEF LifeInv, ActivateService
<1>14. CASE SetNetServer
  BY <1>14 DEF LifeInv, SetNetServer, IsActive, Wakeup
<1>15. CASE Tpsvrinit
  <2>1. CASE main' = "run" /\ UNCHANGED <<netServer, lifeGate, check>>
    BY <1>15, <2>1 DEF LifeInv, Tpsvrinit
  <2>2. CASE main' = "done" /\ check' = "none" /\ gateLink' = FALSE /\ announced' = FALSE
    BY <1>15, <2>2 DEF LifeInv, Tpsvrinit
  <2> QED
    BY <1>15, <2>1, <2>2 DEF Tpsvrinit
<1>16. CASE Tprun
  BY <1>16 DEF LifeInv, Tprun
<1>17. CASE Tpterm
  BY <1>17 DEF LifeInv, Tpterm, Wakeup
<1>18. CASE Term
  BY <1>18 DEF LifeInv, Term
<1>19. CASE Termed
  BY <1>19 DEF LifeInv, Termed
<1>20. CASE UNCHANGED lifeVars
  BY <1>20 DEF LifeInv, lifeVars
<1> QED
  BY <1>1, <1>2, <1>3, <1>4, <1>5, <1>6, <1>7, <1>8, <1>9, <1>10, <1>11, <1>12, <1>13, <1>14, <1>15, <1>16, <1>17, <1>18, <1>19, <1>20 DEF LifeNext, Check, Client, Server, Done

(* The places of the two threads, what they say of the gate and of the     *)
(* server, as the properties below need it (ATMIAPI.cpp, tuxapp.cpp and    *)
(* GateCheckThread.cpp).                                                   *)
THEOREM LifeTypeCorrect == LifeSpec => []LifeInv
<1>1. LifeInit => LifeInv
  BY LifeInit_Inv
<1>2. LifeInv /\ [LifeNext]_lifeVars => LifeInv'
  BY LifeNext_Inv
<1> QED
  BY <1>1, <1>2, PTL DEF LifeSpec

(* However beats, waits and tpterm of one application interleave: after    *)
(* tpterm it has no connection to a gate (GateCheckThread::Term), and a    *)
(* gate that lists it as a server has one that listens, or that is on its  *)
(* way out (GateCheckThread::SetNetServer).                                *)
THEOREM ListedAndClosed == LifeSpec => [](ClosedAfterTerm /\ AnnouncedListens)
<1>1. LifeInv => ClosedAfterTerm /\ AnnouncedListens
  BY DEF LifeInv, LifeTypes, NeverConnected, TermedIsClosed, TermedOrNew, ProcessEnds, ListedIsConnected, ServersSay, SaidListens, ClientPlaces, RegisteredPlaces, ServerPlaces, ClosedAfterTerm, AnnouncedListens
<1> QED
  BY <1>1, LifeTypeCorrect, PTL

-----------------------------------------------------------------------------
(* News inside a gate. *)

USE ChangeAssumption

(* No WSH has seen a number the board has not reached. *)
SavedIsPast == \A w \in Wsh : saved[w] <= seq

IInv == TypeOK /\ SavedIsPast /\ SeenIsTold

LEMMA InitIInv == Init => IInv
BY DEF Init, All, IInv, TypeOK, SavedIsPast, SeenIsTold

(* Steps that change neither what WSHs have seen nor what they have told,  *)
(* and take no housekeeping thread out of its round.                       *)
LEMMA OthersKeep ==
  ASSUME IInv, TypeOK', seq' >= seq, UNCHANGED <<saved, told>>,
         \A w \in Wsh : keeper[w] = "broadcast" => keeper'[w] = "broadcast"
  PROVE  IInv'
<1>1. SavedIsPast'
  BY DEF IInv, TypeOK, SavedIsPast
<1>2. SeenIsTold'
  BY DEF IInv, SeenIsTold
<1>3. QED BY <1>1, <1>2 DEF IInv

LEMMA ChangeKeeps ==
  ASSUME IInv, NEW w \in Wsh, Serve(w) \/ Expire(w)
  PROVE  IInv'
<1>1. seq' = seq + 1 /\ seq < ChangeMax
  BY DEF Serve, Expire, Changed
<1>2. CASE Serve(w)
  <2>1. /\ handler' = [handler EXCEPT ![w] = "changed"]
        /\ UNCHANGED <<saved, bySelf, resource, keeper, waiter, udp, sync, syncSaved, told>>
    BY <1>2 DEF Serve, housekeeping, syncing
  <2>2. TypeOK'
    BY <1>1, <2>1 DEF IInv, TypeOK
  <2>3. QED BY <1>1, <2>1, <2>2, OthersKeep DEF IInv, TypeOK
<1>3. CASE Expire(w)
  <2>1. /\ keeper[w] = "awake" /\ keeper' = [keeper EXCEPT ![w] = "awake"]
        /\ UNCHANGED <<handler, saved, bySelf, resource, waiter, udp, sync, syncSaved, told>>
    BY <1>3 DEF Expire, Keeper, syncing
  <2>2. TypeOK'
    BY <1>1, <2>1 DEF IInv, TypeOK
  <2>3. QED BY <1>1, <2>1, <2>2, OthersKeep DEF IInv, TypeOK
<1>4. QED BY <1>2, <1>3

LEMMA WakingKeeps ==
  ASSUME IInv, NEW w \in Wsh,
         MarkSelf(w) \/ Notify(w) \/ Wait(w) \/ Select(w) \/ ClearUDPSocket(w)
  PROVE  IInv'
<1>1. UNCHANGED <<seq, saved, told, sync, syncSaved>>
  BY DEF MarkSelf, Notify, Wait, Select, ClearUDPSocket, syncing
<1>2. TypeOK'
  <2>1. CASE MarkSelf(w) BY <1>1, <2>1 DEF MarkSelf, IInv, TypeOK
  <2>2. CASE Notify(w) BY <1>1, <2>2 DEF Notify, IInv, TypeOK
  <2>3. CASE Wait(w) BY <1>1, <2>3 DEF Wait, Keeper, IInv, TypeOK
  <2>4. CASE Select(w) BY <1>1, <2>4 DEF Select, IInv, TypeOK
  <2>5. CASE ClearUDPSocket(w) BY <1>1, <2>5 DEF ClearUDPSocket, IInv, TypeOK
  <2>6. QED BY <2>1, <2>2, <2>3, <2>4, <2>5
<1>3. \A v \in Wsh : keeper[v] = "broadcast" => keeper'[v] = "broadcast"
  BY DEF MarkSelf, Notify, Wait, Select, ClearUDPSocket, Keeper, IInv, TypeOK
<1>4. QED BY <1>1, <1>2, <1>3, OthersKeep DEF IInv, TypeOK

(* What a round compares is what it saves, in one step. *)
LEMMA IsSvcUpdatedKeeps ==
  ASSUME IInv, NEW w \in Wsh, IsSvcUpdated(w)
  PROVE  IInv'
<1>1. /\ keeper[w] = "awake"
      /\ keeper' = [keeper EXCEPT ![w] = IF seq # saved[w] THEN "broadcast" ELSE "wait"]
      /\ saved' = [saved EXCEPT ![w] = seq]
      /\ UNCHANGED <<seq, handler, bySelf, resource, waiter, udp, sync, syncSaved, told>>
  BY DEF IsSvcUpdated, Save, SavedAt, syncing
<1>2. TypeOK'
  BY <1>1 DEF IInv, TypeOK
<1>3. SavedIsPast'
  BY <1>1 DEF IInv, TypeOK, SavedIsPast
<1>4. SeenIsTold'
  BY <1>1 DEF IInv, TypeOK, SeenIsTold
<1>5. QED BY <1>2, <1>3, <1>4 DEF IInv

LEMMA BroadcastNoticeKeeps ==
  ASSUME IInv, NEW w \in Wsh, BroadcastNotice(w)
  PROVE  IInv'
<1>1. /\ keeper' = [keeper EXCEPT ![w] = "notify"]
      /\ told' = [told EXCEPT ![w] = seq]
      /\ UNCHANGED <<seq, handler, saved, bySelf, resource, waiter, udp, sync, syncSaved>>
  BY DEF BroadcastNotice, Keeper, syncing
<1>2. TypeOK'
  BY <1>1 DEF IInv, TypeOK
<1>3. SavedIsPast'
  BY <1>1 DEF IInv, SavedIsPast
<1>4. SeenIsTold'
  BY <1>1 DEF IInv, TypeOK, SavedIsPast, SeenIsTold
<1>5. QED BY <1>2, <1>3, <1>4 DEF IInv

LEMMA NotifyOtherKeeps ==
  ASSUME IInv, NEW w \in Wsh, NotifyOtherWSH(w)
  PROVE  IInv'
<1>1. /\ keeper[w] = "notify" /\ keeper' = [keeper EXCEPT ![w] = "wait"]
      /\ saved' = saved
      /\ bySelf' = [bySelf EXCEPT ![w] = FALSE]
      /\ udp' = IF bySelf[w] THEN [v \in Wsh |-> v # w \/ udp[v]] ELSE udp
      /\ UNCHANGED <<seq, handler, resource, waiter, sync, syncSaved, told>>
  BY DEF NotifyOtherWSH, Keeper, Save, SavedAt, syncing
<1>2. udp' \in [Wsh -> BOOLEAN]
  <2>1. CASE bySelf[w]
    <3>1. udp' = [v \in Wsh |-> v # w \/ udp[v]]
      BY <1>1, <2>1
    <3>2. \A v \in Wsh : (v # w \/ udp[v]) \in BOOLEAN
      OBVIOUS
    <3>3. QED BY <3>1, <3>2, Zenon
  <2>2. CASE ~bySelf[w]
    BY <1>1, <2>2 DEF IInv, TypeOK
  <2>3. QED BY <2>1, <2>2
<1>3. TypeOK'
  BY <1>1, <1>2 DEF IInv, TypeOK
<1>4. QED BY <1>1, <1>3, OthersKeep DEF IInv, TypeOK

LEMMA SyncKeeps ==
  ASSUME IInv, SyncClears \/ SyncService \/ SyncTells
  PROVE  IInv'
<1>1. UNCHANGED <<handler, saved, bySelf, resource, keeper, waiter, told>>
  BY DEF SyncClears, SyncService, SyncTells, housekeeping
<1>2. seq' \in 0 .. ChangeMax /\ seq' >= seq
  <2>1. seq' = seq \/ (seq < ChangeMax /\ seq' = seq + 1)
    BY DEF SyncClears, SyncService, SyncTells
  <2>2. seq \in 0 .. ChangeMax
    BY DEF IInv, TypeOK
  <2>3. QED BY <2>1, <2>2
<1>3. udp' \in [Wsh -> BOOLEAN]
  BY DEF SyncClears, SyncService, SyncTells, housekeeping, All, IInv, TypeOK
<1>4. sync' \in {"idle", "synced"} /\ syncSaved' \in 0 .. ChangeMax
  BY DEF SyncClears, SyncService, SyncTells, syncing, IInv, TypeOK
<1>5. TypeOK'
  BY <1>1, <1>2, <1>3, <1>4 DEF IInv, TypeOK
<1>6. QED BY <1>1, <1>2, <1>5, OthersKeep

LEMMA NextKeeps == IInv /\ [Next]_vars => IInv'
<1> SUFFICES ASSUME IInv, [Next]_vars PROVE IInv'
  OBVIOUS
<1>1. CASE \E w \in Wsh : Serve(w) \/ Expire(w) \/ Threads(w)
  <2>1. PICK w \in Wsh : Serve(w) \/ Expire(w) \/ Threads(w)
    BY <1>1
  <2>2. QED
    BY <2>1, ChangeKeeps, WakingKeeps, IsSvcUpdatedKeeps, BroadcastNoticeKeeps, NotifyOtherKeeps
       DEF Threads
<1>2. CASE SyncClears \/ SyncService \/ SyncTells
  BY <1>2, SyncKeeps
<1>3. CASE UNCHANGED vars
  BY <1>3 DEF vars, housekeeping, syncing, IInv, TypeOK, SavedIsPast, SeenIsTold
<1>4. QED BY <1>1, <1>2, <1>3 DEF Next

LEMMA Invariance == Spec => []IInv
BY InitIInv, NextKeeps, PTL DEF Spec

(* The variables of WshNotify keep their types. *)
THEOREM TypeCorrect == Spec => []TypeOK
<1>1. IInv => TypeOK BY DEF IInv
<1>2. QED BY <1>1, Invariance, PTL

(* However the handlers, the datagrams and SYNC fall between the steps of  *)
(* a housekeeping round (HousekeepingThread.cpp:59-104), a number a WSH    *)
(* has saved is one its clients have been told of, or are being told of.   *)
THEOREM SeenIsAlwaysTold == Spec => []SeenIsTold
<1>1. IInv => SeenIsTold BY DEF IInv
<1>2. QED BY <1>1, Invariance, PTL

-----------------------------------------------------------------------------
(* SYNC's connections to other gates (GateSync). *)

Answer == {Notice} \cup [kind : {"heart"}, number : Nat]
                  \cup [kind : {"board"}, board : [life : Nat, offered : Nat]]

(* What may come over a connection that leads to life f of a gate: a board *)
(* only of that life, and nothing when there is no connection.             *)
Line(f) == {m \in Answer : m.kind = "board" => m.board.life = f}

SyncTypeOK ==
  /\ life \in [OtherGate -> Nat \ {0}] /\ offered \in [OtherGate -> Nat] /\ number \in [OtherGate -> Nat]
  /\ fd \in [OtherGate -> Nat] /\ heart \in [OtherGate -> Nat]
  /\ request \in [OtherGate -> Answer \cup [kind : {"none", "register", "fetch"}]]
  /\ toSync = [g \in OtherGate |-> toSync[g]]
  /\ copy \in [OtherGate -> [life : Nat, offered : Nat]]

(* All that there is of a gate has come by the connection there is.        *)
Follows(g) ==
  /\ toSync[g] \in Seq(Line(fd[g]))
  /\ request[g].kind = "board" => request[g].board.life = fd[g]
  /\ copy[g] # Nothing => copy[g].life = fd[g]
  /\ fd[g] = 0 => toSync[g] = <<>> /\ request[g] = NoRequest /\ copy[g] = Nothing

SyncInv == SyncTypeOK /\ \A g \in OtherGate : Follows(g)

LEMMA SyncInitInv == SyncInit => SyncInv
BY SyncAssumption, EmptySeq DEF SyncInit, SyncInv, SyncTypeOK, Follows, NoRequest, Nothing

(* What is left of a connection is what there was of it.                   *)
LEMMA HeadTaken ==
  ASSUME NEW S, NEW s \in Seq(S), s # <<>>
  PROVE  Head(s) \in S /\ Tail(s) \in Seq(S)
BY HeadTailProperties

(* The steps of the other gates. *)
LEMMA GatesKeep ==
  ASSUME SyncInv, NEW g \in OtherGate,
         \/ GateChange(g) \/ GateNotice(g) \/ GateServe(g) \/ GateAnswer(g)
         \/ GateEnd(g) \/ GateStart(g) \/ GateExpires(g)
  PROVE  SyncInv'
<1>t. SyncTypeOK /\ \A h \in OtherGate : Follows(h)
  BY DEF SyncInv
<1>1. CASE GateChange(g)
  <2>1. (number[g] + 1) % SyncSeq \in Nat
    BY <1>t, SyncAssumption DEF SyncTypeOK
  <2>2. UNCHANGED <<life, fd, heart, request, toSync, copy>> /\ offered' = [offered EXCEPT ![g] = @ + 1]
        /\ number' = [number EXCEPT ![g] = (@ + 1) % SyncSeq]
    BY <1>1 DEF GateChange, lineVars, ownVars
  <2>3. SyncTypeOK'
    BY <1>t, <2>1, <2>2 DEF SyncTypeOK
  <2>4. \A h \in OtherGate : Follows(h)'
    BY <1>t, <2>2 DEF Follows
  <2>5. QED BY <2>3, <2>4 DEF SyncInv
<1>2. CASE GateNotice(g)
  <2>1. UNCHANGED <<life, offered, number, fd, heart, request, copy>>
        /\ (toSync' = toSync \/ (toSync' = [toSync EXCEPT ![g] = Append(@, Notice)] /\ Open(g)))
    BY <1>2 DEF GateNotice, lineVars, ownVars
  <2>2. SyncTypeOK'
    BY <1>t, <2>1 DEF SyncTypeOK
  <2>3. Open(g) => fd[g] # 0 /\ Append(toSync[g], Notice) \in Seq(Line(fd[g]))
    <3>1. Notice \in Line(fd[g])
      BY DEF Line, Answer, Notice
    <3>2. QED BY <1>t, <3>1, AppendProperties DEF Open, Follows
  <2>4. \A h \in OtherGate : Follows(h)'
    BY <1>t, <2>1, <2>3 DEF Follows, SyncTypeOK
  <2>5. QED BY <2>2, <2>4 DEF SyncInv
<1>3. CASE GateServe(g)
  <2>1. UNCHANGED <<life, offered, number, fd, heart, toSync, copy>> /\ Open(g)
    BY <1>3 DEF GateServe, gateVars, ownVars
  <2>2. PICK r \in Answer : request' = [request EXCEPT ![g] = r] /\ (r.kind = "board" => r.board.life = life[g])
    <3>1. CASE request[g].kind = "register"
      BY <1>3, <1>t, <3>1 DEF GateServe, Answer, SyncTypeOK
    <3>2. CASE request[g].kind # "register"
      BY <1>3, <1>t, <3>2 DEF GateServe, Answer, SyncTypeOK
    <3>3. QED BY <3>1, <3>2
  <2>3. fd[g] = life[g] /\ fd[g] # 0
    BY <2>1 DEF Open
  <2>4. SyncTypeOK'
    BY <1>t, <2>1, <2>2 DEF SyncTypeOK
  <2>5. \A h \in OtherGate : Follows(h)'
    BY <1>t, <2>1, <2>2, <2>3 DEF Follows, SyncTypeOK
  <2>6. QED BY <2>4, <2>5 DEF SyncInv
<1>4. CASE GateAnswer(g)
  <2>1. /\ UNCHANGED <<life, offered, number, fd, heart, copy>> /\ Open(g) /\ request[g].kind \in {"heart", "board"}
        /\ toSync' = [toSync EXCEPT ![g] = Append(@, request[g])] /\ request' = [request EXCEPT ![g] = NoRequest]
    BY <1>4 DEF GateAnswer, gateVars, ownVars
  <2>2. fd[g] # 0
    BY <2>1 DEF Open
  <2>3. request[g] \in Line(fd[g])
    BY <1>t, <2>1 DEF Follows, SyncTypeOK, Line
  <2>4. Append(toSync[g], request[g]) \in Seq(Line(fd[g]))
    BY <1>t, <2>3, AppendProperties DEF Follows
  <2>5. SyncTypeOK'
    BY <1>t, <2>1 DEF SyncTypeOK, NoRequest
  <2>6. \A h \in OtherGate : Follows(h)'
    BY <1>t, <2>1, <2>2, <2>4 DEF Follows, SyncTypeOK, NoRequest
  <2>7. QED BY <2>5, <2>6 DEF SyncInv
<1>5. CASE GateEnd(g) \/ GateStart(g) \/ GateExpires(g)
  <2>1. UNCHANGED <<fd, heart, request, toSync, copy>>
    BY <1>5 DEF GateEnd, GateStart, GateExpires, lineVars, ownVars
  <2>2. SyncTypeOK'
    <3>1. CASE GateStart(g)
      BY <1>t, <2>1, <3>1 DEF SyncTypeOK, GateStart
    <3>2. CASE GateEnd(g) \/ GateExpires(g)
      BY <1>t, <2>1, <3>2 DEF SyncTypeOK, GateEnd, GateExpires, gateVars
    <3>3. QED BY <1>5, <3>1, <3>2
  <2>3. \A h \in OtherGate : Follows(h)'
    BY <1>t, <2>1 DEF Follows
  <2>4. QED BY <2>2, <2>3 DEF SyncInv
<1>6. QED BY <1>1, <1>2, <1>3, <1>4, <1>5

(* Connections that are made lead to the gate as it runs now.              *)
LEMMA ConnectKeeps ==
  ASSUME SyncInv, NEW G, ConnectAll(G)
  PROVE  /\ fd' \in [OtherGate -> Nat]
         /\ \A g \in OtherGate : fd[g] # 0 => fd'[g] = fd[g]
         /\ \A g \in OtherGate : g \in G \cap Connected(G) => fd'[g] # 0
BY DEF ConnectAll, Connected, SyncInv, SyncTypeOK

(* ConnectAll and Send: what is asked is not a board.                      *)
LEMMA AskingKeeps ==
  ASSUME SyncInv, fd' \in [OtherGate -> Nat],
         \A g \in OtherGate : fd[g] # 0 => fd'[g] = fd[g],
         UNCHANGED <<gateVars, ownVars, toSync>>,
         NEW h, NEW kind \in {"register", "fetch"},
         \/ request' = request
         \/ (h \in OtherGate => fd'[h] # 0) /\ request' = [request EXCEPT ![h] = [kind |-> kind]]
  PROVE  SyncInv'
<1>t. SyncTypeOK /\ \A g \in OtherGate : Follows(g)
  BY DEF SyncInv
<1>1. SyncTypeOK'
  BY SMTT(30), <1>t DEF SyncTypeOK, gateVars, ownVars
<1>2. ASSUME NEW g \in OtherGate PROVE Follows(g)'
  <2>r. request'[g] = request[g] \/ (fd'[g] # 0 /\ request'[g].kind # "board")
    <3>1. CASE request' = request
      BY <3>1
    <3>2. CASE request' # request
      <4>1. (h \in OtherGate => fd'[h] # 0) /\ request' = [request EXCEPT ![h] = [kind |-> kind]]
        BY <3>2
      <4>2. DOMAIN request = OtherGate
        BY <1>t DEF SyncTypeOK
      <4>3. CASE g = h
        BY <4>1, <4>2, <4>3
      <4>4. CASE g # h
        BY <4>1, <4>2, <4>4
      <4>5. QED BY <4>3, <4>4
    <3>3. QED BY <3>1, <3>2
  <2>1. CASE fd[g] # 0
    BY <1>t, <2>1, <2>r DEF Follows, ownVars
  <2>2. CASE fd[g] = 0
    <3>1. toSync'[g] = <<>> /\ copy'[g] = Nothing
      BY <1>t, <2>2 DEF Follows, ownVars
    <3>2. request'[g].kind # "board" /\ (fd'[g] = 0 => request'[g] = NoRequest)
      BY <1>t, <2>2, <2>r DEF Follows, NoRequest
    <3>3. QED BY <3>1, <3>2, EmptySeq DEF Follows
  <2>3. QED BY <2>1, <2>2
<1>3. QED BY <1>1, <1>2 DEF SyncInv

(* Disconnect leaves nothing of the connection, the entries included.      *)
LEMMA DisconnectKeeps ==
  ASSUME SyncInv, NEW h \in OtherGate, DisconnectProxy(h), UNCHANGED <<gateVars, heart, seqSync>>
  PROVE  SyncInv'
<1>t. SyncTypeOK /\ \A g \in OtherGate : Follows(g)
  BY DEF SyncInv
<1>1. SyncTypeOK'
  BY <1>t DEF SyncTypeOK, DisconnectProxy, Cleared, gateVars, Nothing, NoRequest
<1>2. ASSUME NEW g \in OtherGate PROVE Follows(g)'
  BY <1>t, EmptySeq DEF Follows, SyncTypeOK, DisconnectProxy, Cleared, NoRequest
<1>3. QED BY <1>1, <1>2 DEF SyncInv

(* A piece of news that has been read is not read again.                   *)
LEMMA ReadingKeeps ==
  ASSUME SyncInv, NEW h \in OtherGate, toSync[h] # <<>>, toSync' = [toSync EXCEPT ![h] = Tail(@)],
         UNCHANGED <<gateVars, fd, request>>, heart' \in [OtherGate -> Nat],
         copy' \in [OtherGate -> [life : Nat, offered : Nat]],
         \A g \in OtherGate : copy'[g] = copy[g] \/ (g = h /\ copy'[g].life = fd[g])
  PROVE  SyncInv'
<1>t. SyncTypeOK /\ \A g \in OtherGate : Follows(g)
  BY DEF SyncInv
<1>1. SyncTypeOK'
  BY <1>t DEF SyncTypeOK, gateVars
<1>2. Tail(toSync[h]) \in Seq(Line(fd[h])) /\ fd[h] # 0
  BY <1>t, HeadTaken DEF Follows
<1>3. ASSUME NEW g \in OtherGate PROVE Follows(g)'
  <2>1. CASE g = h
    BY <1>t, <1>2, <2>1 DEF Follows, SyncTypeOK
  <2>2. CASE g # h
    BY <1>t, <2>2 DEF Follows, SyncTypeOK
  <2>3. QED BY <2>1, <2>2
<1>4. QED BY <1>1, <1>3 DEF SyncInv

LEMMA SyncStepInv == SyncInv /\ [SyncNext]_syncVars => SyncInv'
<1> SUFFICES ASSUME SyncInv, [SyncNext]_syncVars PROVE SyncInv'
  OBVIOUS
<1>t. SyncTypeOK /\ \A g \in OtherGate : Follows(g)
  BY DEF SyncInv
<1>n. ASSUME at \notin OtherGate PROVE
          /\ \A x : [fd EXCEPT ![at] = x] = fd /\ [request EXCEPT ![at] = x] = request
          /\ \A x : [toSync EXCEPT ![at] = x] = toSync /\ [copy EXCEPT ![at] = x] = copy /\ [heart EXCEPT ![at] = x] = heart
  BY <1>n, <1>t DEF SyncTypeOK
<1>1. CASE \E g \in OtherGate : \/ GateChange(g) \/ GateNotice(g) \/ GateServe(g) \/ GateAnswer(g)
                                \/ GateEnd(g) \/ GateStart(g) \/ GateExpires(g)
  BY <1>1, GatesKeep
<1>2. CASE SelectGates \/ RoundEnds \/ UNCHANGED syncVars
  <2>1. UNCHANGED <<gateVars, lineVars, ownVars>>
    BY <1>2 DEF SelectGates, RoundEnds, syncVars
  <2>2. QED BY <2>1 DEF SyncInv, SyncTypeOK, Follows, gateVars, lineVars, ownVars
<1>3. CASE ConnectGates
  BY <1>3, ConnectKeeps, AskingKeeps DEF ConnectGates
<1>4. CASE \E g \in OtherGate : SendHeartBeat(g)
  <2>1. PICK g \in OtherGate : SendHeartBeat(g)
    BY <1>4
  <2>2. CASE g \in Connected({g})
    <3>1. ConnectAll({g}) /\ Send(g, "register") /\ UNCHANGED <<gateVars, ownVars>>
      BY <2>1, <2>2 DEF SendHeartBeat
    <3>2. /\ fd' \in [OtherGate -> Nat] /\ fd'[g] # 0
          /\ \A h \in OtherGate : fd[h] # 0 => fd'[h] = fd[h]
      BY <2>2, <3>1, ConnectKeeps
    <3>3. /\ toSync' = toSync
          /\ request' = request \/ request' = [request EXCEPT ![g] = [kind |-> "register"]]
      BY <1>t, <3>1 DEF Send, SyncTypeOK
    <3>4. QED BY <3>1, <3>2, <3>3, AskingKeeps
  <2>3. CASE g \notin Connected({g})
    <3>1. UNCHANGED <<gateVars, lineVars, ownVars>>
      BY <2>1, <2>3 DEF SendHeartBeat
    <3>2. QED BY <3>1 DEF SyncInv, SyncTypeOK, Follows, gateVars, lineVars, ownVars
  <2>4. QED BY <2>2, <2>3
<1>5. CASE SyncServiceOf
  <2>1. CASE at \in Connected({at})
    <3>1. ConnectAll({at}) /\ (Send(at, "fetch") \/ UNCHANGED <<request, toSync>>) /\ UNCHANGED <<gateVars, ownVars>>
      BY <1>5, <2>1 DEF SyncServiceOf
    <3>2. /\ fd' \in [OtherGate -> Nat] /\ (at \in OtherGate => fd'[at] # 0)
          /\ \A h \in OtherGate : fd[h] # 0 => fd'[h] = fd[h]
      BY <2>1, <3>1, ConnectKeeps
    <3>3. /\ toSync' = toSync
          /\ request' = request \/ request' = [request EXCEPT ![at] = [kind |-> "fetch"]]
      BY <1>t, <3>1 DEF Send, SyncTypeOK
    <3>4. QED BY <3>1, <3>2, <3>3, AskingKeeps
  <2>2. CASE at \notin Connected({at})
    <3>1. UNCHANGED <<gateVars, lineVars, ownVars>>
      BY <1>5, <2>2 DEF SyncServiceOf
    <3>2. QED BY <3>1 DEF SyncInv, SyncTypeOK, Follows, gateVars, lineVars, ownVars
  <2>3. QED BY <2>1, <2>2
<1>6. CASE HeartBeatFails \/ FetchFails
  <2>1. DisconnectProxy(at) /\ UNCHANGED <<gateVars, heart, seqSync>>
    BY <1>6 DEF HeartBeatFails, FetchFails
  <2>2. CASE at \in OtherGate
    BY <2>1, <2>2, DisconnectKeeps
  <2>3. CASE at \notin OtherGate
    BY <1>n, <2>1, <2>3 DEF DisconnectProxy, Cleared, SyncInv, SyncTypeOK, Follows, gateVars
  <2>4. QED BY <2>2, <2>3
<1>7. CASE HeartBeatAnswered
  <2>1. /\ toSync[at] # <<>> /\ toSync' = [toSync EXCEPT ![at] = Tail(@)] /\ Head(toSync[at]).kind = "heart"
        /\ heart' = [heart EXCEPT ![at] = Head(toSync[at]).number]
        /\ UNCHANGED <<gateVars, fd, request, copy>>
    BY <1>7 DEF HeartBeatAnswered, Receive
  <2>2. CASE at \in OtherGate
    <3>1. Head(toSync[at]) \in Answer
      BY <1>t, <2>1, <2>2, HeadTaken DEF Follows, Line
    <3>2. Head(toSync[at]).number \in Nat
      BY <2>1, <3>1 DEF Answer, Notice
    <3>3. heart' \in [OtherGate -> Nat] /\ copy' \in [OtherGate -> [life : Nat, offered : Nat]]
      BY <1>t, <2>1, <3>2 DEF SyncTypeOK
    <3>4. QED BY <2>1, <2>2, <3>3, ReadingKeeps
  <2>3. CASE at \notin OtherGate
    BY <1>n, <2>1, <2>3 DEF SyncInv, SyncTypeOK, Follows, gateVars
  <2>4. QED BY <2>2, <2>3
<1>8. CASE Fetched
  <2>1. /\ toSync[at] # <<>> /\ toSync' = [toSync EXCEPT ![at] = Tail(@)] /\ Head(toSync[at]).kind = "board"
        /\ copy' = [copy EXCEPT ![at] = Head(toSync[at]).board]
        /\ UNCHANGED <<gateVars, fd, request, heart>>
    BY <1>8 DEF Fetched, Receive
  <2>2. CASE at \in OtherGate
    <3>1. Head(toSync[at]) \in Line(fd[at])
      BY <1>t, <2>1, <2>2, HeadTaken DEF Follows
    <3>2. Head(toSync[at]).board \in [life : Nat, offered : Nat] /\ Head(toSync[at]).board.life = fd[at]
      BY <2>1, <3>1 DEF Line, Answer, Notice
    <3>3. heart' \in [OtherGate -> Nat] /\ copy' \in [OtherGate -> [life : Nat, offered : Nat]]
      BY <1>t, <2>1, <3>2 DEF SyncTypeOK
    <3>4. \A g \in OtherGate : copy'[g] = copy[g] \/ (g = at /\ copy'[g].life = fd[g])
      BY <1>t, <2>1, <3>2 DEF SyncTypeOK
    <3>5. QED BY <2>1, <2>2, <3>3, <3>4, ReadingKeeps
  <2>3. CASE at \notin OtherGate
    BY <1>n, <2>1, <2>3 DEF SyncInv, SyncTypeOK, Follows, gateVars
  <2>4. QED BY <2>2, <2>3
<1>9. CASE Invoking
  <2>1. /\ toSync[at] # <<>> /\ toSync' = [toSync EXCEPT ![at] = Tail(@)] /\ UNCHANGED <<gateVars, fd, request, ownVars>>
    BY <1>9 DEF Invoking, PassOver
  <2>2. CASE at \in OtherGate
    BY <1>t, <2>1, <2>2, ReadingKeeps DEF SyncTypeOK, ownVars
  <2>3. CASE at \notin OtherGate
    BY <1>n, <2>1, <2>3 DEF SyncInv, SyncTypeOK, Follows, gateVars, ownVars
  <2>4. QED BY <2>2, <2>3
<1>10. QED
  BY <1>1, <1>2, <1>3, <1>4, <1>5, <1>6, <1>7, <1>8, <1>9 DEF SyncNext, SyncRuns

(* What SYNC keeps of its connections and gates keeps its types, and comes *)
(* from the life of the gate that its connection leads to.                 *)
THEOREM SyncTypeCorrect == SyncSpec => []SyncInv
BY SyncInitInv, SyncStepInv, PTL DEF SyncSpec

(* In whichever call the end of a connection is noticed, a gate's entries  *)
(* never outlive the connection they came by (GateProxy::Disconnect), nor  *)
(* does an answer of one run of a gate pass for that of the next.          *)
THEOREM CopiesFollow == SyncSpec => []CopyOfConnection
<1>1. SyncInv => CopyOfConnection
  BY DEF SyncInv, Follows, CopyOfConnection
<1>2. QED BY <1>1, SyncTypeCorrect, PTL

-----------------------------------------------------------------------------
(* The services of the servers at a WSH (AppRegistry). *)

USE RegistryAssumption

(* The inductive invariant. *)

(* A job beyond "idle" has a descriptor, and services are registered for a *)
(* server; housekeeping has a descriptor from the moment it takes an       *)
(* application out of its copy, and an application only while that one's   *)
(* services are still on the board.                                        *)
JobsAreFilled ==
  \A t \in Worker :
    /\ worker[t].at # "idle" => worker[t].desc # NoDesc
    /\ worker[t].at = "register" => worker[t].app # NoApp
RoundsHaveDesc ==
  \A w \in WshProcess :
    /\ housekeeper[w].at \in {"withdraw", "order", "drop"} => housekeeper[w].desc # NoDesc
    /\ housekeeper[w].at \in {"wait", "order", "drop"} => housekeeper[w].app = NoApp

(* A descriptor is given back to the WSH that it belongs to.               *)
ReturnedHome ==
  \A w \in WshProcess : \A k \in 1 .. Len(pipe[w]) :
    pipe[w][k][1] = "add" => WshOf[pipe[w][k][2]] = w

Shapes == JobsAreFilled /\ RoundsHaveDesc /\ ReturnedHome

(* Where a descriptor is: the workers that have it, and the places in the  *)
(* pipe of its WSH where it is given back.                                 *)
ServedBy(d) == {t \in Worker : worker[t].desc = d}
Returned(d) == {k \in 1 .. Len(pipe[WshOf[d]]) : pipe[WshOf[d]][k] = <<"add", d>>}

Nowhere(d) == d \notin active /\ ServedBy(d) = {} /\ Returned(d) = {}
Selected(d) == d \in active /\ ServedBy(d) = {} /\ Returned(d) = {}
Busy(d) == d \notin active /\ Returned(d) = {} /\ \E t \in ServedBy(d) : ServedBy(d) = {t}
UnderWay(d) == d \notin active /\ ServedBy(d) = {} /\ \E k \in Returned(d) : Returned(d) = {k}

Handled(d) == IF peer[d] = NoApp THEN Nowhere(d)
                                 ELSE Selected(d) \/ Busy(d) \/ UnderWay(d)

(* A descriptor's entry in the depot is the server whose connection it is, *)
(* and a worker registers that server; when the end of a connection has    *)
(* taken the entry away, nobody puts it back.                              *)
DepotIsPeer == \A d \in Desc : depot[d] \in {NoApp, peer[d]}
JobIsPeer ==
  \A t \in Worker :
    /\ worker[t].at = "register" => worker[t].app = peer[worker[t].desc]
    /\ worker[t].at \in {"withdraw", "close"} => depot[worker[t].desc] = NoApp

Right == /\ \A d \in Desc : Handled(d)
         /\ DepotIsPeer /\ JobIsPeer
         /\ \A svc \in listed : Owed(svc[1])

RegistryInv == RegistryTypeOK /\ Shapes /\ (~crossed => Right)

-----------------------------------------------------------------------------
(* Lemmas about the operators. *)

LEMMA OrdersAppended ==
  ASSUME NEW q \in Seq(Order), NEW o \in Order
  PROVE  /\ Append(q, o) \in Seq(Order)
         /\ Len(Append(q, o)) = Len(q) + 1
         /\ \A k \in 1 .. Len(q) : Append(q, o)[k] = q[k]
         /\ Append(q, o)[Len(q) + 1] = o
OBVIOUS

LEMMA OrdersTaken ==
  ASSUME NEW q \in Seq(Order), q # <<>>
  PROVE  /\ Tail(q) \in Seq(Order)
         /\ Len(q) \in Nat \ {0} /\ Len(Tail(q)) = Len(q) - 1
         /\ \A k \in 1 .. Len(Tail(q)) : Tail(q)[k] = q[k + 1]
         /\ Head(q) = q[1] /\ q[1] \in Order
OBVIOUS

(* What a descriptor's places in the pipe become when an order is written  *)
(* for it, or for another, or another kind of order.                       *)
LEMMA ReturnedAppended ==
  ASSUME RegistryTypeOK, NEW w \in WshProcess, NEW o \in Order,
         pipe' = [pipe EXCEPT ![w] = Append(@, o)], NEW d \in Desc
  PROVE  Returned(d)' = IF WshOf[d] = w /\ o = <<"add", d>>
                        THEN Returned(d) \cup {Len(pipe[w]) + 1} ELSE Returned(d)
<1>1. pipe[w] \in Seq(Order) /\ Len(pipe[w]) \in Nat /\ WshOf[d] \in WshProcess
  BY DEF RegistryTypeOK
<1>2. CASE WshOf[d] = w
  <2>1. pipe'[w] = Append(pipe[w], o)
    BY DEF RegistryTypeOK
  <2>2. /\ Len(pipe'[w]) = Len(pipe[w]) + 1
        /\ \A k \in 1 .. Len(pipe[w]) : pipe'[w][k] = pipe[w][k]
        /\ pipe'[w][Len(pipe[w]) + 1] = o
    BY <1>1, <2>1, OrdersAppended
  <2>3. \A k : k \in Returned(d)' <=> k \in 1 .. Len(pipe[w]) + 1 /\ pipe'[w][k] = <<"add", d>>
    BY <1>2, <2>2 DEF Returned
  <2>4. \A k : k \in Returned(d) <=> k \in 1 .. Len(pipe[w]) /\ pipe[w][k] = <<"add", d>>
    BY <1>2 DEF Returned
  <2>5. \A k : k \in 1 .. Len(pipe[w]) + 1 <=> k \in 1 .. Len(pipe[w]) \/ k = Len(pipe[w]) + 1
    BY <1>1
  <2>6. Len(pipe[w]) + 1 \notin 1 .. Len(pipe[w])
    BY <1>1
  <2>7. CASE o = <<"add", d>>
    BY <1>2, <2>2, <2>3, <2>4, <2>5, <2>7
  <2>8. CASE o # <<"add", d>>
    <3>1. ASSUME NEW k PROVE k \in Returned(d)' <=> k \in Returned(d)
      <4>1. CASE k = Len(pipe[w]) + 1
        BY <2>2, <2>3, <2>4, <2>6, <2>8, <4>1
      <4>2. CASE k \in 1 .. Len(pipe[w])
        BY <2>2, <2>3, <2>4, <2>5, <4>2
      <4>3. CASE k # Len(pipe[w]) + 1 /\ k \notin 1 .. Len(pipe[w])
        BY <2>3, <2>4, <2>5, <4>3
      <4>4. QED BY <4>1, <4>2, <4>3
    <3>2. Returned(d)' = Returned(d)
      BY <3>1
    <3>3. QED BY <1>2, <2>8, <3>2
  <2>9. QED BY <2>7, <2>8
<1>3. CASE WshOf[d] # w
  BY <1>1, <1>3 DEF Returned, RegistryTypeOK
<1>4. QED BY <1>2, <1>3

(* ... and when the first order is taken.                                  *)
LEMMA ReturnedTaken ==
  ASSUME RegistryTypeOK, NEW w \in WshProcess, pipe[w] # <<>>,
         pipe' = [pipe EXCEPT ![w] = Tail(@)], NEW d \in Desc
  PROVE  Returned(d)' = IF WshOf[d] = w THEN {k - 1 : k \in Returned(d) \ {1}} ELSE Returned(d)
<1>1. pipe[w] \in Seq(Order) /\ WshOf[d] \in WshProcess
  BY DEF RegistryTypeOK
<1>2. CASE WshOf[d] = w
  <2>1. pipe'[w] = Tail(pipe[w])
    BY DEF RegistryTypeOK
  <2>2. /\ Len(pipe[w]) \in Nat /\ Len(pipe'[w]) = Len(pipe[w]) - 1
        /\ \A k \in 1 .. Len(pipe'[w]) : pipe'[w][k] = pipe[w][k + 1]
    BY <1>1, <2>1, OrdersTaken
  <2>3. ASSUME NEW k \in Returned(d)'
        PROVE  k \in {j - 1 : j \in Returned(d) \ {1}}
    <3>1. k + 1 \in Returned(d) \ {1} /\ k = (k + 1) - 1
      BY <1>2, <2>2, <2>3 DEF Returned
    <3>2. QED BY <3>1
  <2>4. ASSUME NEW j \in Returned(d) \ {1}
        PROVE  j - 1 \in Returned(d)'
    BY <1>2, <2>2, <2>4 DEF Returned
  <2>5. QED BY <1>2, <2>3, <2>4
<1>3. CASE WshOf[d] # w
  BY <1>1, <1>3 DEF Returned, RegistryTypeOK
<1>4. QED BY <1>2, <1>3

LEMMA ServedAfter ==
  ASSUME NEW t \in Worker, \A u \in Worker : u # t => worker'[u].desc = worker[u].desc, NEW d
  PROVE  ServedBy(d)' = IF worker'[t].desc = d THEN ServedBy(d) \cup {t} ELSE ServedBy(d) \ {t}
BY DEF ServedBy

(* Nothing that says where a descriptor is has changed.                    *)
LEMMA HandledStays ==
  ASSUME NEW d \in Desc, Handled(d), peer'[d] = peer[d], d \in active' <=> d \in active,
         ServedBy(d)' = ServedBy(d), Returned(d)' = Returned(d)
  PROVE  Handled(d)'
BY DEF Handled, Nowhere, Selected, Busy, UnderWay

-----------------------------------------------------------------------------
(* Types. *)

LEMMA InitInv == RegistryInit => RegistryInv
<1> SUFFICES ASSUME RegistryInit PROVE RegistryInv
  OBVIOUS
<1>1. RegistryTypeOK
  <2>1. Idle \in Job /\ Waiting \in Round /\ <<>> \in Seq(Order)
    BY DEF Idle, Job, Waiting, Round
  <2>2. /\ listed \subseteq Registration /\ active \subseteq Desc /\ alive \subseteq App /\ asked \subseteq App
        /\ faults \in 0 .. FaultMax
    BY DEF RegistryInit, RegistryAssumption
  <2>3. /\ pipe \in [WshProcess -> Seq(Order)] /\ worker \in [Worker -> Job]
        /\ housekeeper \in [WshProcess -> Round]
    BY <2>1 DEF RegistryInit
  <2>4. /\ depot \in [Desc -> App \cup {NoApp}] /\ peer \in [Desc -> App \cup {NoApp}]
        /\ inbox \in [Desc -> Lists] /\ link \in [App -> Desc \cup {NoDesc}]
        /\ will \in [App -> SUBSET Name] /\ already \in [App -> SUBSET Name]
        /\ answer \in [App -> Lists]
    BY DEF RegistryInit, Lists
  <2>5. crossed \in BOOLEAN
    BY DEF RegistryInit
  <2>6. QED BY <2>2, <2>3, <2>4, <2>5 DEF RegistryTypeOK
<1>2. Shapes
  BY DEF RegistryInit, Shapes, JobsAreFilled, RoundsHaveDesc, ReturnedHome, Idle, Waiting
<1>3. Right
  <2>1. \A d \in Desc : Handled(d)
    BY DEF RegistryInit, Handled, Nowhere, ServedBy, Returned, Idle
  <2>2. QED BY <2>1 DEF RegistryInit, Right, DepotIsPeer, JobIsPeer, Idle
<1>4. QED BY <1>1, <1>2, <1>3 DEF RegistryInv

(* Of a worker's job registering a service changes the names only.         *)
LEMMA JobsAfter ==
  ASSUME RegistryTypeOK, NEW t \in Worker, RegisterService(t)
  PROVE  /\ worker' \in [Worker -> Job]
         /\ \A u \in Worker : /\ worker'[u].desc = worker[u].desc /\ worker'[u].at = worker[u].at
                               /\ worker'[u].app = worker[u].app
<1>1. PICK n \in worker[t].todo :
        \/ worker' = [worker EXCEPT ![t].todo = @ \ {n}, ![t].done = @ \cup {n}]
        \/ worker' = [worker EXCEPT ![t].todo = {}]
  BY DEF RegisterService
<1>2. worker[t] \in Job /\ worker \in [Worker -> Job] /\ n \in Name
  BY <1>1 DEF RegistryTypeOK, Job
<1>3. PICK more \in SUBSET Name, rest \in SUBSET Name :
        worker' = [worker EXCEPT ![t] = [@ EXCEPT !.todo = rest, !.done = more]]
  <2>1. CASE worker' = [worker EXCEPT ![t].todo = @ \ {n}, ![t].done = @ \cup {n}]
    <3>1. worker[t].done \cup {n} \in SUBSET Name /\ worker[t].todo \ {n} \in SUBSET Name
      BY <1>2 DEF Job
    <3>2. worker' = [worker EXCEPT ![t] = [@ EXCEPT !.todo = worker[t].todo \ {n},
                                                   !.done = worker[t].done \cup {n}]]
      BY <1>2, <2>1 DEF Job
    <3>3. QED BY <3>1, <3>2
  <2>2. CASE worker' = [worker EXCEPT ![t].todo = {}]
    <3>1. worker[t].done \in SUBSET Name
      BY <1>2 DEF Job
    <3>2. worker' = [worker EXCEPT ![t] = [@ EXCEPT !.todo = {}, !.done = worker[t].done]]
      BY <1>2, <2>2 DEF Job
    <3>3. QED BY <3>1, <3>2
  <2>3. QED BY <1>1, <2>1, <2>2
<1>4. [worker[t] EXCEPT !.todo = rest, !.done = more] \in Job
  BY <1>2, <1>3 DEF Job
<1>5. QED BY <1>2, <1>3, <1>4 DEF Job

LEMMA WorkerTypes ==
  ASSUME RegistryTypeOK, Shapes, NEW t \in Worker,
         WorkerStep(t) \/ \E d \in Desc : ServeRequest(t, d) \/ ServeEnd(t, d)
  PROVE  RegistryTypeOK'
<1>0. /\ worker[t] \in Job
      /\ worker[t].at # "idle" => worker[t].desc \in Desc
      /\ worker[t].at = "register" => worker[t].app \in App
  BY DEF RegistryTypeOK, Job, Shapes, JobsAreFilled
<1>1. ASSUME NEW d \in Desc, ServeRequest(t, d) PROVE RegistryTypeOK'
  BY <1>1 DEF ServeRequest, RegistryTypeOK, Job, Lists, Taken, server
<1>2. ASSUME NEW d \in Desc, ServeEnd(t, d) PROVE RegistryTypeOK'
  BY <1>2 DEF ServeEnd, RegistryTypeOK, Job, Idle, Taken, server
<1>3. ASSUME RegisterService(t) PROVE RegistryTypeOK'
  <2>1. PICK n \in worker[t].todo : listed' = listed \cup {<<worker[t].app, n>>} \/ UNCHANGED listed
    BY <1>3 DEF RegisterService
  <2>2. worker[t].app \in App /\ n \in Name
    BY <1>0, <1>3 DEF RegisterService, Job
  <2>3. listed' \subseteq Registration
    BY <2>1, <2>2 DEF RegistryTypeOK, Registration
  <2>4. worker' \in [Worker -> Job]
    BY <1>3, JobsAfter
  <2>5. QED BY <1>3, <2>3, <2>4 DEF RegisterService, RegistryTypeOK, server
<1>4. ASSUME RegisterApp(t) PROVE RegistryTypeOK'
  BY <1>0, <1>4 DEF RegisterApp, RegistryTypeOK, Job, server
<1>5. ASSUME Reply(t) PROVE RegistryTypeOK'
  BY <1>0, <1>5 DEF Reply, RegistryTypeOK, Job, Idle, Lists, Order
<1>6. ASSUME ReplyFails(t) PROVE RegistryTypeOK'
  BY <1>0, <1>6 DEF ReplyFails, RegistryTypeOK, Job, Idle, server
<1>7. ASSUME UnRegisterApp(t) PROVE RegistryTypeOK'
  BY <1>0, <1>7 DEF UnRegisterApp, Erased, RegistryTypeOK, Job, server
<1>8. ASSUME UnregisterService(t) PROVE RegistryTypeOK'
  BY <1>0, <1>8 DEF UnregisterService, RegistryTypeOK, Job, server
<1>9. ASSUME CloseSocket(t) PROVE RegistryTypeOK'
  BY <1>0, <1>9 DEF CloseSocket, RegistryTypeOK, Job, Idle, Lists, server
<1>10. QED
  BY <1>1, <1>2, <1>3, <1>4, <1>5, <1>6, <1>7, <1>8, <1>9 DEF WorkerStep

LEMMA WshTypes ==
  ASSUME RegistryTypeOK, Shapes, NEW w \in WshProcess, WshStep(w) \/ CheckApps(w)
  PROVE  RegistryTypeOK'
<1>0. /\ housekeeper[w] \in Round
      /\ housekeeper[w].at \in {"withdraw", "order", "drop"} => housekeeper[w].desc \in Desc
  BY DEF RegistryTypeOK, Round, Shapes, RoundsHaveDesc
<1>1. ASSUME AddFd(w) PROVE RegistryTypeOK'
  BY <1>1, OrdersTaken DEF AddFd, RegistryTypeOK, Order, server
<1>2. ASSUME RemoveFd(w) PROVE RegistryTypeOK'
  BY <1>2, OrdersTaken DEF RemoveFd, RegistryTypeOK, Order, Lists, server
<1>3. ASSUME ExpireApp(w) PROVE RegistryTypeOK'
  BY <1>3 DEF ExpireApp, RegistryTypeOK, Round, gate, server
<1>4. ASSUME ExpireServices(w) PROVE RegistryTypeOK'
  <2>1. Withdrawn(housekeeper[w]) \in Round
    BY <1>0 DEF Withdrawn, Waiting, Round
  <2>2. QED BY <1>4, <2>1 DEF ExpireServices, RegistryTypeOK, gate, server
<1>5. ASSUME DestroySocket(w) PROVE RegistryTypeOK'
  <2>1. <<"remove", housekeeper[w].desc>> \in Order
    BY <1>0, <1>5 DEF DestroySocket, Order
  <2>2. Append(pipe[w], <<"remove", housekeeper[w].desc>>) \in Seq(Order)
    BY <2>1 DEF RegistryTypeOK
  <2>3. [housekeeper[w] EXCEPT !.at = "drop"] \in Round
    BY <1>0 DEF Round
  <2>4. QED BY <1>5, <2>2, <2>3 DEF DestroySocket, RegistryTypeOK, server
<1>6. ASSUME UnRegisterExpired(w) PROVE RegistryTypeOK'
  <2>1. depot[housekeeper[w].desc] \in App \cup {NoApp}
    BY <1>0, <1>6 DEF UnRegisterExpired, RegistryTypeOK
  <2>2. housekeeper' \in [WshProcess -> Round]
    BY <1>0, <1>6, <2>1 DEF UnRegisterExpired, RegistryTypeOK, Round
  <2>3. depot' \in [Desc -> App \cup {NoApp}]
    BY <1>6 DEF UnRegisterExpired, RegistryTypeOK
  <2>4. QED BY <1>6, <2>2, <2>3 DEF UnRegisterExpired, RegistryTypeOK, gate, server
<1>7. ASSUME CheckApps(w) PROVE RegistryTypeOK'
  <2>1. PICK found \in SUBSET {<<d, depot[d]>> : d \in {e \in Desc : WshOf[e] = w /\ depot[e] # NoApp}} :
          /\ faults + Cardinality(found) <= FaultMax /\ faults' = faults + Cardinality(found)
          /\ housekeeper' = [housekeeper EXCEPT ![w].copy = found]
    BY <1>7 DEF CheckApps
  <2>2. found \subseteq Desc \X App
    BY DEF RegistryTypeOK
  <2>3. Cardinality(found) \in Nat
    <3> DEFINE open == {e \in Desc : WshOf[e] = w /\ depot[e] # NoApp}
               pairs == {<<d, depot[d]>> : d \in open}
    <3>1. IsFiniteSet(open)
      BY FS_Subset
    <3>2. [d \in open |-> <<d, depot[d]>>] \in Surjection(open, pairs)
      BY DEF Surjection
    <3>3. IsFiniteSet(pairs)
      BY <3>1, <3>2, FS_Surjection
    <3>4. QED BY <3>3, FS_Subset, FS_CardinalityType
  <2>4. faults' \in 0 .. FaultMax
    BY <2>1, <2>3 DEF RegistryTypeOK
  <2>5. housekeeper' \in [WshProcess -> Round]
    BY <1>0, <2>1, <2>2 DEF RegistryTypeOK, Round
  <2>6. QED BY <1>7, <2>4, <2>5 DEF CheckApps, RegistryTypeOK, gate, server
<1>8. QED
  BY <1>1, <1>2, <1>3, <1>4, <1>5, <1>6, <1>7 DEF WshStep

LEMMA ServerTypes ==
  ASSUME RegistryTypeOK, NEW a \in App,
         \/ \E d \in Desc : Connect(a, d)
         \/ Beat(a) \/ RegisterSvcDone(a) \/ Disconnect(a) \/ Timeout(a) \/ Stop(a) \/ Start(a)
  PROVE  RegistryTypeOK'
<1>1. ASSUME NEW d \in Desc, Connect(a, d) PROVE RegistryTypeOK'
  BY <1>1 DEF Connect, RegistryTypeOK
<1>2. ASSUME Beat(a) PROVE RegistryTypeOK'
  BY <1>2 DEF Beat, RegistryTypeOK, Lists
<1>3. ASSUME RegisterSvcDone(a) PROVE RegistryTypeOK'
  BY <1>3 DEF RegisterSvcDone, RegistryTypeOK, Lists, gate
<1>4. ASSUME Leave(a), alive' \subseteq App, faults' \in 0 .. FaultMax, UNCHANGED crossed
      PROVE  RegistryTypeOK'
  BY <1>4 DEF Leave, ToRegister, RegistryTypeOK, Lists, gate
<1>5. ASSUME Disconnect(a) PROVE RegistryTypeOK'
  BY <1>4, <1>5 DEF Disconnect, RegistryTypeOK
<1>6. ASSUME Timeout(a) PROVE RegistryTypeOK'
  BY <1>4, <1>6 DEF Timeout, RegistryTypeOK
<1>7. ASSUME Stop(a) PROVE RegistryTypeOK'
  BY <1>4, <1>7 DEF Stop, RegistryTypeOK
<1>8. ASSUME Start(a) PROVE RegistryTypeOK'
  BY <1>8 DEF Start, RegistryTypeOK, gate
<1>9. QED
  BY <1>1, <1>2, <1>3, <1>5, <1>6, <1>7, <1>8

-----------------------------------------------------------------------------
(* Shapes. *)

LEMMA ShapesStay ==
  ASSUME Shapes, UNCHANGED <<worker, housekeeper, pipe>>
  PROVE  Shapes'
BY DEF Shapes, JobsAreFilled, RoundsHaveDesc, ReturnedHome

LEMMA WorkerShapes ==
  ASSUME RegistryTypeOK, Shapes, NEW t \in Worker,
         WorkerStep(t) \/ \E d \in Desc : ServeRequest(t, d) \/ ServeEnd(t, d)
  PROVE  Shapes'
<1>1. JobsAreFilled'
  <2>1. ASSUME NEW j, worker' = [worker EXCEPT ![t] = j], j.at # "idle" => j.desc # NoDesc,
               j.at = "register" => j.app # NoApp
        PROVE  JobsAreFilled'
    BY <2>1 DEF Shapes, JobsAreFilled, RegistryTypeOK
  <2>2. ASSUME NEW d \in Desc, ServeRequest(t, d) PROVE JobsAreFilled'
    BY <2>1, <2>2 DEF ServeRequest, CanSelect
  <2>3. ASSUME NEW d \in Desc, ServeEnd(t, d) PROVE JobsAreFilled'
    BY <2>1, <2>3 DEF ServeEnd, Idle
  <2>4. CASE RegisterService(t)
    BY <2>4, JobsAfter DEF Shapes, JobsAreFilled
  <2>5. CASE RegisterApp(t) \/ UnRegisterApp(t) \/ UnregisterService(t)
    <3>1. /\ worker[t].at # "idle" /\ worker'[t].desc = worker[t].desc /\ worker'[t].at # "register"
          /\ \A u \in Worker : u # t => worker'[u] = worker[u]
      BY <2>5 DEF RegisterApp, UnRegisterApp, Erased, UnregisterService, RegistryTypeOK, Job
    <3>2. QED BY <3>1 DEF Shapes, JobsAreFilled
  <2>6. CASE Reply(t) \/ CloseSocket(t)
    BY <2>1, <2>6 DEF Reply, CloseSocket, Idle
  <2>7. CASE ReplyFails(t)
    BY <2>1, <2>7 DEF ReplyFails, Idle, Shapes, JobsAreFilled
  <2>8. QED BY <2>2, <2>3, <2>4, <2>5, <2>6, <2>7 DEF WorkerStep
<1>2. RoundsHaveDesc'
  <2>1. UNCHANGED housekeeper
    BY DEF WorkerStep, ServeRequest, ServeEnd, RegisterService, RegisterApp, Reply, ReplyFails,
           UnRegisterApp, UnregisterService, CloseSocket
  <2>2. QED BY <2>1 DEF Shapes, RoundsHaveDesc
<1>3. ReturnedHome'
  <2>1. CASE UNCHANGED pipe
    BY <2>1 DEF Shapes, ReturnedHome
  <2>2. CASE Reply(t)
    <3>1. worker[t].desc \in Desc
      BY <2>2 DEF Reply, Shapes, JobsAreFilled, RegistryTypeOK, Job
    <3> DEFINE d == worker[t].desc
               w == WshOf[d]
               o == <<"add", d>>
    <3>2. w \in WshProcess /\ o \in Order /\ \A v \in WshProcess : pipe[v] \in Seq(Order)
      BY <3>1 DEF Order, RegistryTypeOK
    <3>3. pipe'[w] = Append(pipe[w], o) /\ \A v \in WshProcess \ {w} : pipe'[v] = pipe[v]
      BY <2>2, <3>2 DEF Reply, RegistryTypeOK
    <3>4. o[2] = d
      OBVIOUS
    <3> HIDE DEF o, w, d
    <3>5. Len(pipe'[w]) = Len(pipe[w]) + 1 /\ pipe'[w][Len(pipe[w]) + 1] = o
          /\ \A k \in 1 .. Len(pipe[w]) : pipe'[w][k] = pipe[w][k]
      BY <3>2, <3>3, OrdersAppended
    <3>6. \A k \in 1 .. Len(pipe'[w]) : k \in 1 .. Len(pipe[w]) \/ k = Len(pipe[w]) + 1
      BY <3>2, <3>5
    <3>7. ASSUME NEW v \in WshProcess, NEW k \in 1 .. Len(pipe'[v]), pipe'[v][k][1] = "add"
          PROVE  WshOf[pipe'[v][k][2]] = v
      <4>1. CASE v = w /\ k = Len(pipe[w]) + 1
        BY <3>4, <3>5, <4>1 DEF w
      <4>2. CASE v = w /\ k \in 1 .. Len(pipe[w])
        BY <3>2, <3>5, <3>7, <4>2 DEF Shapes, ReturnedHome
      <4>3. CASE v # w
        BY <3>3, <3>7, <4>3 DEF Shapes, ReturnedHome
      <4>4. QED BY <3>6, <4>1, <4>2, <4>3
    <3>8. QED BY <3>7 DEF ReturnedHome
  <2>3. QED
    BY <2>1, <2>2
    DEF WorkerStep, ServeRequest, ServeEnd, RegisterService, RegisterApp, ReplyFails,
        UnRegisterApp, UnregisterService, CloseSocket
<1>4. QED BY <1>1, <1>2, <1>3 DEF Shapes

LEMMA WshShapes ==
  ASSUME RegistryTypeOK, Shapes, NEW w \in WshProcess, WshStep(w) \/ CheckApps(w)
  PROVE  Shapes'
<1>1. JobsAreFilled'
  <2>1. UNCHANGED worker
    BY DEF WshStep, AddFd, RemoveFd, ExpireApp, ExpireServices, DestroySocket, UnRegisterExpired,
           CheckApps, gate
  <2>2. QED BY <2>1 DEF Shapes, JobsAreFilled
<1>2. RoundsHaveDesc'
  <2>1. ASSUME NEW r \in Round, housekeeper' = [housekeeper EXCEPT ![w] = r],
               r.at \in {"withdraw", "order", "drop"} => r.desc # NoDesc,
               r.at \in {"wait", "order", "drop"} => r.app = NoApp
        PROVE  RoundsHaveDesc'
    BY <2>1 DEF Shapes, RoundsHaveDesc, RegistryTypeOK
  <2>2. housekeeper[w] \in Round
    BY DEF RegistryTypeOK
  <2>3. CASE AddFd(w) \/ RemoveFd(w)
    BY <2>3 DEF AddFd, RemoveFd, Shapes, RoundsHaveDesc
  <2>4. CASE ExpireApp(w)
    <3>1. PICK item \in housekeeper[w].copy :
             housekeeper' = [housekeeper EXCEPT ![w] = [at |-> "withdraw", copy |-> housekeeper[w].copy \ {item},
                                                        desc |-> item[1], app |-> item[2]]]
      BY <2>4 DEF ExpireApp
    <3> DEFINE r == [at |-> "withdraw", copy |-> housekeeper[w].copy \ {item}, desc |-> item[1], app |-> item[2]]
    <3>2. item \in Desc \X App /\ housekeeper[w].copy \ {item} \in SUBSET (Desc \X App)
      BY <2>2, <3>1 DEF Round
    <3>3. r \in Round /\ r.desc # NoDesc
      BY <3>2, RegistryAssumption DEF Round
    <3>4. QED BY <2>1, <3>1, <3>3
  <2>5. CASE ExpireServices(w)
    BY <2>1, <2>2, <2>5 DEF ExpireServices, Withdrawn, Waiting, Round, Shapes, RoundsHaveDesc
  <2>6. CASE DestroySocket(w)
    BY <2>1, <2>2, <2>6 DEF DestroySocket, Round, Shapes, RoundsHaveDesc
  <2>7. CASE UnRegisterExpired(w)
    BY <2>7 DEF UnRegisterExpired, Shapes, RoundsHaveDesc, RegistryTypeOK, Round
  <2>8. CASE CheckApps(w)
    BY <2>8 DEF CheckApps, Shapes, RoundsHaveDesc, RegistryTypeOK, Waiting
  <2>9. QED BY <2>3, <2>4, <2>5, <2>6, <2>7, <2>8 DEF WshStep
<1>3. ReturnedHome'
  <2>1. CASE UNCHANGED pipe
    BY <2>1 DEF Shapes, ReturnedHome
  <2>2. CASE AddFd(w) \/ RemoveFd(w)
    <3>1. pipe[w] # <<>> /\ pipe' = [pipe EXCEPT ![w] = Tail(@)] /\ pipe[w] \in Seq(Order)
      BY <2>2 DEF AddFd, RemoveFd, RegistryTypeOK
    <3>2. /\ Len(Tail(pipe[w])) = Len(pipe[w]) - 1 /\ Len(pipe[w]) \in Nat
          /\ \A k \in 1 .. Len(Tail(pipe[w])) : Tail(pipe[w])[k] = pipe[w][k + 1]
      BY <3>1, OrdersTaken
    <3>3. ASSUME NEW k \in 1 .. Len(Tail(pipe[w])), Tail(pipe[w])[k][1] = "add"
          PROVE  WshOf[Tail(pipe[w])[k][2]] = w
      BY <3>2, <3>3 DEF Shapes, ReturnedHome
    <3>4. QED BY <3>1, <3>3 DEF Shapes, ReturnedHome, RegistryTypeOK
  <2>3. CASE DestroySocket(w)
    <3>1. housekeeper[w].desc \in Desc
      BY <2>3 DEF DestroySocket, Shapes, RoundsHaveDesc, RegistryTypeOK, Round
    <3> DEFINE o == <<"remove", housekeeper[w].desc>>
    <3>2. o \in Order /\ pipe[w] \in Seq(Order) /\ pipe' = [pipe EXCEPT ![w] = Append(@, o)]
      BY <2>3, <3>1 DEF DestroySocket, Order, RegistryTypeOK
    <3>3. ASSUME NEW k \in 1 .. Len(Append(pipe[w], o)), Append(pipe[w], o)[k][1] = "add"
          PROVE  WshOf[Append(pipe[w], o)[k][2]] = w
      <4>1. k \in 1 .. Len(pipe[w]) \/ k = Len(pipe[w]) + 1
        BY <3>2, OrdersAppended
      <4>2. QED BY <3>2, <3>3, <4>1, OrdersAppended DEF Shapes, ReturnedHome
    <3>4. QED BY <3>2, <3>3 DEF Shapes, ReturnedHome, RegistryTypeOK
  <2>4. QED
    BY <2>1, <2>2, <2>3
    DEF WshStep, ExpireApp, ExpireServices, UnRegisterExpired, CheckApps, gate
<1>4. QED BY <1>1, <1>2, <1>3 DEF Shapes

-----------------------------------------------------------------------------
(* What is right stays right. *)

LEMMA HandledAsBefore ==
  ASSUME Right, UNCHANGED <<peer, active, pipe>>,
         \A u \in Worker : worker'[u].desc = worker[u].desc
  PROVE  \A d \in Desc : Handled(d)'
<1>1. \A d \in Desc : ServedBy(d)' = ServedBy(d) /\ Returned(d)' = Returned(d)
  BY DEF ServedBy, Returned
<1>2. QED BY <1>1, HandledStays DEF Right

LEMMA RightStays ==
  ASSUME Right, UNCHANGED <<listed, depot, peer, active, pipe, worker, housekeeper>>
  PROVE  Right'
<1>1. \A d \in Desc : Handled(d)'
  BY HandledAsBefore
<1>2. QED BY <1>1 DEF Right, DepotIsPeer, JobIsPeer, Owed

(* The worker that serves a descriptor has it for itself.                  *)
LEMMA ServedAlone ==
  ASSUME RegistryTypeOK, Shapes, Right, NEW t \in Worker, worker[t].at # "idle"
  PROVE  /\ worker[t].desc \in Desc /\ Busy(worker[t].desc)
         /\ ServedBy(worker[t].desc) = {t} /\ peer[worker[t].desc] # NoApp
<1>1. worker[t].desc \in Desc
  BY DEF RegistryTypeOK, Job, Shapes, JobsAreFilled
<1>2. t \in ServedBy(worker[t].desc)
  BY DEF ServedBy
<1>3. QED BY <1>1, <1>2 DEF Right, Handled, Nowhere, Selected, Busy, UnderWay

(* An idle worker takes a descriptor that is selected.                     *)
LEMMA TakingKeeps ==
  ASSUME RegistryTypeOK, Right, NEW t \in Worker, NEW d \in Desc, d \in active,
         worker[t] = Idle, worker'[t].desc = d,
         \A u \in Worker : u # t => worker'[u] = worker[u],
         active' = active \ {d}, UNCHANGED <<peer, pipe>>
  PROVE  peer[d] # NoApp /\ \A e \in Desc : Handled(e)'
<1>1. peer[d] # NoApp /\ Selected(d)
  BY DEF Right, Handled, Nowhere, Selected, Busy, UnderWay
<1>2. ASSUME NEW e \in Desc PROVE Handled(e)'
  <2>1. t \notin ServedBy(e) /\ Returned(e)' = Returned(e)
    BY DEF ServedBy, Idle, Returned
  <2>2. ServedBy(e)' = IF e = d THEN ServedBy(e) \cup {t} ELSE ServedBy(e)
    <3>1. ServedBy(e)' = IF worker'[t].desc = e THEN ServedBy(e) \cup {t} ELSE ServedBy(e) \ {t}
      BY ServedAfter
    <3>2. QED BY <2>1, <3>1
  <2>3. CASE e = d
    BY <1>1, <2>1, <2>2, <2>3 DEF Handled, Selected, Busy
  <2>4. CASE e # d
    BY <2>1, <2>2, <2>4, HandledStays DEF Right
  <2>5. QED BY <2>3, <2>4
<1>3. QED BY <1>1, <1>2

(* A worker is through with its descriptor, which is closed ...            *)
LEMMA ClosingKeeps ==
  ASSUME RegistryTypeOK, Shapes, Right, NEW t \in Worker, worker[t].at # "idle",
         worker' = [worker EXCEPT ![t] = Idle],
         peer' = [peer EXCEPT ![worker[t].desc] = NoApp], UNCHANGED <<active, pipe>>
  PROVE  \A e \in Desc : Handled(e)'
<1> SUFFICES ASSUME NEW e \in Desc PROVE Handled(e)'
  OBVIOUS
<1>0. worker'[t].desc = NoDesc /\ \A u \in Worker : u # t => worker'[u] = worker[u]
  BY DEF RegistryTypeOK, Idle
<1>1. ServedBy(e)' = ServedBy(e) \ {t} /\ Returned(e)' = Returned(e)
  BY <1>0, ServedAfter DEF Returned
<1>2. CASE e = worker[t].desc
  BY <1>1, <1>2, ServedAlone DEF RegistryTypeOK, Handled, Busy, Nowhere
<1>3. CASE e # worker[t].desc
  <2>1. t \notin ServedBy(e) /\ peer'[e] = peer[e]
    BY <1>3 DEF ServedBy, RegistryTypeOK
  <2>2. QED BY <1>1, <2>1, HandledStays DEF Right
<1>4. QED BY <1>2, <1>3

(* ... or goes back to the selecting thread.                               *)
LEMMA ReturningKeeps ==
  ASSUME RegistryTypeOK, Shapes, Right, NEW t \in Worker, Reply(t)
  PROVE  \A e \in Desc : Handled(e)'
<1> DEFINE d == worker[t].desc
<1>1. /\ d \in Desc /\ Busy(d) /\ ServedBy(d) = {t} /\ peer[d] # NoApp
      /\ WshOf[d] \in WshProcess /\ <<"add", d>> \in Order
  BY ServedAlone DEF Reply, Order
<1>2. /\ worker' = [worker EXCEPT ![t] = Idle]
      /\ pipe' = [pipe EXCEPT ![WshOf[d]] = Append(@, <<"add", d>>)]
      /\ UNCHANGED <<peer, active>>
  BY DEF Reply
<1>3. ASSUME NEW e \in Desc PROVE Handled(e)'
  <2>0. worker'[t].desc = NoDesc /\ \A u \in Worker : u # t => worker'[u] = worker[u]
    BY <1>2 DEF RegistryTypeOK, Idle
  <2>1. ServedBy(e)' = ServedBy(e) \ {t}
    BY <2>0, ServedAfter
  <2>2. Returned(e)' = IF WshOf[e] = WshOf[d] /\ <<"add", d>> = <<"add", e>>
                       THEN Returned(e) \cup {Len(pipe[WshOf[d]]) + 1} ELSE Returned(e)
    BY <1>1, <1>2, ReturnedAppended
  <2>3. CASE e = d
    BY SMTT(30), <1>1, <1>2, <2>1, <2>2, <2>3 DEF Handled, Busy, UnderWay
  <2>4. CASE e # d
    <3>1. t \notin ServedBy(e)
      BY <2>4 DEF ServedBy
    <3>2. QED BY <1>2, <2>1, <2>2, <2>4, <3>1, HandledStays DEF Right
  <2>5. QED BY <2>3, <2>4
<1>4. QED BY <1>3

LEMMA WorkerRight ==
  ASSUME RegistryInv, NEW t \in Worker, ~crossed',
         WorkerStep(t) \/ \E d \in Desc : ServeRequest(t, d) \/ ServeEnd(t, d)
  PROVE  Right'
<1>0. \A u \in Worker : worker[u].at # "idle" => worker[u].desc \in Desc
  BY DEF RegistryInv, Shapes, JobsAreFilled, RegistryTypeOK, Job
<1>1. RegistryTypeOK /\ Shapes /\ Right /\ worker[t] \in Job
  <2>1. ~crossed
    BY DEF WorkerStep, ServeRequest, ServeEnd, RegisterService, RegisterApp, Reply, ReplyFails,
           UnRegisterApp, UnregisterService, CloseSocket
  <2>2. QED BY <2>1 DEF RegistryInv, RegistryTypeOK
<1>2. \A svc \in listed : svc[1] \in App
  BY <1>1 DEF RegistryTypeOK, Registration
<1>3. ASSUME NEW d \in Desc, ServeRequest(t, d) PROVE Right'
  <2>1. /\ worker[t] = Idle /\ d \in active /\ active' = active \ {d}
        /\ UNCHANGED <<listed, depot, peer, pipe, housekeeper>>
    BY <1>3 DEF ServeRequest, Taken
  <2>2. /\ worker'[t].desc = d /\ worker'[t].at = "register" /\ worker'[t].app = peer[d]
        /\ \A u \in Worker : u # t => worker'[u] = worker[u]
    BY <1>1, <1>3 DEF ServeRequest, RegistryTypeOK
  <2>3. \A e \in Desc : Handled(e)'
    BY <1>1, <2>1, <2>2, TakingKeeps
  <2>4. JobIsPeer'
    BY <1>1, <2>1, <2>2 DEF Right, JobIsPeer, RegistryTypeOK
  <2>5. \A svc \in listed' : Owed(svc[1])'
    <3>1. \A u \in Worker : worker[u].at \in {"register", "withdraw"} => worker'[u] = worker[u]
      BY <2>1, <2>2 DEF Idle
    <3>2. QED BY <1>1, <2>1, <3>1 DEF Right, Owed
  <2>6. QED BY <1>1, <2>1, <2>3, <2>4, <2>5 DEF Right, DepotIsPeer
<1>4. ASSUME NEW d \in Desc, ServeEnd(t, d) PROVE Right'
  <2>1. /\ worker[t] = Idle /\ d \in active /\ active' = active \ {d}
        /\ UNCHANGED <<listed, depot, peer, pipe, housekeeper>>
    BY <1>4 DEF ServeEnd, Taken
  <2>2. /\ worker'[t].desc = d /\ worker'[t].at = "end"
        /\ \A u \in Worker : u # t => worker'[u] = worker[u]
    BY <1>1, <1>4 DEF ServeEnd, Idle, RegistryTypeOK
  <2>3. \A e \in Desc : Handled(e)'
    BY <1>1, <2>1, <2>2, TakingKeeps
  <2>4. JobIsPeer'
    BY <1>1, <2>1, <2>2 DEF Right, JobIsPeer, RegistryTypeOK
  <2>5. \A svc \in listed' : Owed(svc[1])'
    <3>1. \A u \in Worker : worker[u].at \in {"register", "withdraw"} => worker'[u] = worker[u]
      BY <2>1, <2>2 DEF Idle
    <3>2. QED BY <1>1, <2>1, <3>1 DEF Right, Owed
  <2>6. QED BY <1>1, <2>1, <2>3, <2>4, <2>5 DEF Right, DepotIsPeer
<1>5. ASSUME RegisterService(t) PROVE Right'
  <2>1. /\ worker[t].at = "register" /\ UNCHANGED <<depot, peer, active, pipe, housekeeper>>
        /\ \A svc \in listed' : svc \in listed \/ svc[1] = worker[t].app
    BY <1>5 DEF RegisterService
  <2>2. \A u \in Worker : /\ worker'[u].desc = worker[u].desc /\ worker'[u].at = worker[u].at
                          /\ worker'[u].app = worker[u].app
    BY <1>1, <1>5, JobsAfter
  <2>3. \A svc \in listed' : Owed(svc[1])'
    BY <1>1, <2>1, <2>2 DEF Right, Owed
  <2>4. JobIsPeer'
    BY <1>1, <2>1, <2>2 DEF Right, JobIsPeer
  <2>5. QED BY <1>1, <2>1, <2>2, <2>3, <2>4, HandledAsBefore DEF Right, DepotIsPeer
<1>6. ASSUME RegisterApp(t) PROVE Right'
  <2> DEFINE d == worker[t].desc
  <2>1. /\ worker[t].at = "register" /\ depot' = [depot EXCEPT ![d] = worker[t].app]
        /\ UNCHANGED <<listed, peer, active, pipe, housekeeper>>
    BY <1>6 DEF RegisterApp
  <2>2. /\ worker'[t].at = "reply"
        /\ \A u \in Worker : /\ worker'[u].desc = worker[u].desc
                             /\ u # t => worker'[u] = worker[u]
    BY <1>1, <1>6 DEF RegisterApp, RegistryTypeOK, Job
  <2>3. d \in Desc /\ ServedBy(d) = {t} /\ worker[t].app = peer[d]
    BY <1>1, <2>1, ServedAlone DEF Right, JobIsPeer
  <2>4. \A e \in Desc : Handled(e)'
    BY <1>1, <2>1, <2>2, HandledAsBefore
  <2>5. DepotIsPeer'
    BY <1>1, <2>1, <2>3 DEF Right, DepotIsPeer, RegistryTypeOK
  <2>6. JobIsPeer'
    <3>1. \A u \in Worker : u # t => worker[u].desc # d
      BY <2>3 DEF ServedBy
    <3>2. \A e \in Desc : e # d => depot'[e] = depot[e]
      BY <1>1, <2>1 DEF RegistryTypeOK
    <3>3. QED BY <1>0, <1>1, <2>1, <2>2, <3>1, <3>2 DEF Right, JobIsPeer
  <2>7. ASSUME NEW svc \in listed' PROVE Owed(svc[1])'
    <3>1. svc[1] \in App /\ Owed(svc[1]) /\ depot'[d] = worker[t].app
      BY <1>1, <1>2, <2>1, <2>3 DEF Right, RegistryTypeOK
    <3>2. \A e \in Desc : depot[e] = svc[1] => depot'[e] = svc[1]
      BY <1>1, <2>1, <2>3, <3>1 DEF Right, DepotIsPeer, RegistryTypeOK
    <3>3. QED BY <2>1, <2>2, <2>3, <3>1, <3>2 DEF Owed
  <2>8. QED BY <2>4, <2>5, <2>6, <2>7 DEF Right
<1>7. ASSUME Reply(t) PROVE Right'
  <2>1. /\ worker[t].at = "reply" /\ worker' = [worker EXCEPT ![t] = Idle]
        /\ UNCHANGED <<listed, depot, peer, active, housekeeper>>
    BY <1>7 DEF Reply
  <2>2. \A e \in Desc : Handled(e)'
    BY <1>1, <1>7, ReturningKeeps
  <2>3. JobIsPeer'
    BY <1>1, <2>1 DEF Right, JobIsPeer, Idle, RegistryTypeOK
  <2>4. \A svc \in listed' : Owed(svc[1])'
    BY <1>1, <2>1 DEF Right, Owed, Idle, RegistryTypeOK
  <2>5. QED BY <1>1, <2>1, <2>2, <2>3, <2>4 DEF Right, DepotIsPeer
<1>8. ASSUME ReplyFails(t) PROVE Right'
  <2>1. /\ worker[t].at = "reply" /\ UNCHANGED <<listed, depot, peer, active, pipe, housekeeper>>
    BY <1>8 DEF ReplyFails
  <2>2. /\ worker'[t].at = "end"
        /\ \A u \in Worker : /\ worker'[u].desc = worker[u].desc
                             /\ u # t => worker'[u] = worker[u]
    BY <1>1, <1>8 DEF ReplyFails, Idle, RegistryTypeOK
  <2>3. JobIsPeer'
    BY <1>1, <2>1, <2>2 DEF Right, JobIsPeer
  <2>4. \A svc \in listed' : Owed(svc[1])'
    BY <1>1, <2>1, <2>2 DEF Right, Owed
  <2>5. QED BY <1>1, <2>1, <2>2, <2>3, <2>4, HandledAsBefore DEF Right, DepotIsPeer
<1>9. ASSUME UnRegisterApp(t) PROVE Right'
  <2> DEFINE d == worker[t].desc
  <2>1. /\ worker[t].at = "end" /\ depot' = [depot EXCEPT ![d] = NoApp]
        /\ UNCHANGED <<listed, peer, active, pipe, housekeeper>>
    BY <1>9 DEF UnRegisterApp
  <2>2. /\ worker'[t].at = (IF depot[d] = NoApp THEN "close" ELSE "withdraw")
        /\ worker'[t].app = depot[d]
        /\ \A u \in Worker : /\ worker'[u].desc = worker[u].desc
                             /\ u # t => worker'[u] = worker[u]
    BY <1>1, <1>9 DEF UnRegisterApp, Erased, RegistryTypeOK, Job
  <2>3. d \in Desc
    BY <1>1, <2>1, ServedAlone
  <2>4. DepotIsPeer' /\ JobIsPeer'
    <3>1. \A e \in Desc : depot'[e] = IF e = d THEN NoApp ELSE depot[e]
      BY <1>1, <2>1 DEF RegistryTypeOK
    <3>2. QED BY <1>0, <1>1, <2>1, <2>2, <2>3, <3>1 DEF Right, DepotIsPeer, JobIsPeer
  <2>5. ASSUME NEW svc \in listed' PROVE Owed(svc[1])'
    <3>1. svc[1] # NoApp /\ Owed(svc[1])
      BY <1>1, <1>2, <2>1 DEF Right
    <3>2. \A e \in Desc : depot[e] = svc[1] => depot'[e] = svc[1] \/ worker'[t].app = svc[1]
      BY <1>1, <2>1, <2>2 DEF RegistryTypeOK
    <3>3. worker'[t].app = svc[1] => worker'[t].at = "withdraw"
      BY <2>2, <3>1
    <3>4. QED BY <2>1, <2>2, <3>1, <3>2, <3>3 DEF Owed
  <2>6. QED BY <1>1, <2>1, <2>2, <2>4, <2>5, HandledAsBefore DEF Right
<1>10. ASSUME UnregisterService(t) PROVE Right'
  <2>1. /\ worker[t].at = "withdraw" /\ listed' = listed \ Of(worker[t].app)
        /\ UNCHANGED <<depot, peer, active, pipe, housekeeper>>
    BY <1>10 DEF UnregisterService
  <2>2. /\ worker'[t].at = "close"
        /\ \A u \in Worker : /\ worker'[u].desc = worker[u].desc
                             /\ u # t => worker'[u] = worker[u]
    BY <1>1, <1>10 DEF UnregisterService, RegistryTypeOK, Job
  <2>3. JobIsPeer'
    BY <1>1, <2>1, <2>2 DEF Right, JobIsPeer
  <2>4. \A svc \in listed' : svc \in listed /\ svc[1] # worker[t].app
    BY <1>1, <2>1 DEF Of, RegistryTypeOK, Registration
  <2>5. \A svc \in listed' : Owed(svc[1])'
    BY <1>1, <2>1, <2>2, <2>4 DEF Right, Owed
  <2>6. QED BY <1>1, <2>1, <2>2, <2>3, <2>5, HandledAsBefore DEF Right, DepotIsPeer
<1>11. ASSUME CloseSocket(t) PROVE Right'
  <2> DEFINE d == worker[t].desc
  <2>1. /\ worker[t].at = "close" /\ worker' = [worker EXCEPT ![t] = Idle]
        /\ peer' = [peer EXCEPT ![d] = NoApp]
        /\ UNCHANGED <<listed, depot, active, pipe, housekeeper>>
    BY <1>11 DEF CloseSocket
  <2>2. \A e \in Desc : Handled(e)'
    BY <1>1, <2>1, ClosingKeeps
  <2>3. d \in Desc /\ ServedBy(d) = {t} /\ depot[d] = NoApp
    BY <1>1, <2>1, ServedAlone DEF Right, JobIsPeer
  <2>4. DepotIsPeer'
    BY <1>1, <2>1, <2>3 DEF Right, DepotIsPeer, RegistryTypeOK
  <2>5. JobIsPeer'
    <3>1. \A u \in Worker : u # t => worker[u].desc # d
      BY <2>3 DEF ServedBy
    <3>2. QED BY <1>1, <2>1, <3>1 DEF Right, JobIsPeer, Idle, RegistryTypeOK
  <2>6. \A svc \in listed' : Owed(svc[1])'
    BY <1>1, <2>1 DEF Right, Owed, Idle, RegistryTypeOK
  <2>7. QED BY <2>2, <2>4, <2>5, <2>6 DEF Right
<1>12. QED
  BY <1>3, <1>4, <1>5, <1>6, <1>7, <1>8, <1>9, <1>10, <1>11 DEF WorkerStep

(* When an order of another descriptor is taken from the pipe, the places  *)
(* of this one move up.                                                    *)
LEMMA TakingOrderKeeps ==
  ASSUME RegistryTypeOK, Right, NEW w \in WshProcess, pipe[w] # <<>>,
         pipe' = [pipe EXCEPT ![w] = Tail(@)], UNCHANGED worker,
         NEW e \in Desc, peer'[e] = peer[e], e \in active' <=> e \in active,
         pipe[w][1] # <<"add", e>>
  PROVE  Handled(e)'
<1>1. ServedBy(e)' = ServedBy(e)
  BY DEF ServedBy
<1>2. CASE WshOf[e] = w
  <2>0. 1 \notin Returned(e) /\ Returned(e) \subseteq Int
    BY <1>2 DEF Returned
  <2>1. Returned(e)' = {k - 1 : k \in Returned(e)} /\ Returned(e) \subseteq Int
    BY <1>2, <2>0, ReturnedTaken
  <2>2. Returned(e) = {} => Returned(e)' = {}
    BY <2>1
  <2>3. ASSUME NEW k \in Returned(e), Returned(e) = {k}
        PROVE  k - 1 \in Returned(e)' /\ Returned(e)' = {k - 1}
    BY <2>1, <2>3
  <2>4. QED BY <1>1, <2>2, <2>3 DEF Right, Handled, Nowhere, Selected, Busy, UnderWay
<1>3. CASE WshOf[e] # w
  BY <1>1, <1>3, ReturnedTaken, HandledStays DEF Right
<1>4. QED BY <1>2, <1>3

LEMMA WshRight ==
  ASSUME RegistryInv, NEW w \in WshProcess, ~crossed', WshStep(w) \/ CheckApps(w)
  PROVE  Right'
<1>1. RegistryTypeOK /\ Shapes /\ Right /\ housekeeper[w] \in Round
  <2>1. ~crossed
    BY DEF WshStep, AddFd, RemoveFd, ExpireApp, ExpireServices, DestroySocket, UnRegisterExpired,
           CheckApps
  <2>2. QED BY <2>1 DEF RegistryInv, RegistryTypeOK
<1>2. \A svc \in listed : svc[1] \in App
  BY <1>1 DEF RegistryTypeOK, Registration
<1>3. ASSUME pipe[w] # <<>>
      PROVE  pipe[w] \in Seq(Order) /\ Head(pipe[w]) = pipe[w][1] /\ pipe[w][1] \in Order /\ 1 \in 1 .. Len(pipe[w])
  BY <1>1, <1>3, OrdersTaken DEF RegistryTypeOK
<1>4. ASSUME AddFd(w) PROVE Right'
  <2>0. pipe[w] # <<>> /\ Head(pipe[w])[1] = "add" /\ pipe[w][1] \in Order
    BY <1>3, <1>4 DEF AddFd
  <2>2. PICK d \in Desc : pipe[w][1] = <<"add", d>>
    BY <1>3, <2>0 DEF Order
  <2>1. /\ pipe[w] # <<>> /\ active' = active \cup {d} /\ pipe' = [pipe EXCEPT ![w] = Tail(@)]
        /\ UNCHANGED <<listed, depot, peer, worker, housekeeper>>
    BY <1>3, <1>4, <2>2 DEF AddFd
  <2>3. WshOf[d] = w
    <3>1. 1 \in 1 .. Len(pipe[w]) /\ pipe[w][1][1] = "add" /\ pipe[w][1][2] = d
      BY <1>3, <2>1, <2>2
    <3>2. QED BY <1>1, <3>1 DEF Shapes, ReturnedHome
  <2>4. Returned(d) = {1} /\ UnderWay(d) /\ peer[d] # NoApp
    <3>1. 1 \in Returned(d)
      BY <1>3, <2>1, <2>2, <2>3 DEF Returned
    <3>2. QED BY <1>1, <2>2, <3>1 DEF Right, Handled, Nowhere, Selected, Busy, UnderWay
  <2>5. Handled(d)'
    <3>1. Returned(d)' = {}
      BY <1>1, <2>1, <2>2, <2>3, <2>4, ReturnedTaken
    <3>2. ServedBy(d)' = {}
      BY <2>1, <2>4 DEF UnderWay, ServedBy
    <3>3. QED BY <2>1, <2>4, <3>1, <3>2 DEF Handled, Selected
  <2>6. ASSUME NEW e \in Desc, e # d PROVE Handled(e)'
    <3>1. pipe[w][1] # <<"add", e>> /\ peer'[e] = peer[e] /\ (e \in active' <=> e \in active)
      BY <2>1, <2>2, <2>6
    <3>2. QED BY <1>1, <2>1, <3>1, TakingOrderKeeps
  <2>7. QED BY <1>1, <2>1, <2>5, <2>6 DEF Right, DepotIsPeer, JobIsPeer, Owed
<1>5. ASSUME RemoveFd(w) PROVE Right'
  <2>0. pipe[w] # <<>> /\ Head(pipe[w])[1] = "remove" /\ pipe[w][1] \in Order
    BY <1>3, <1>5 DEF RemoveFd
  <2>2. PICK d \in Desc : pipe[w][1] = <<"remove", d>>
    BY <1>3, <2>0 DEF Order
  <2>1. /\ pipe[w] # <<>> /\ active' = active \ {d} /\ peer' = [peer EXCEPT ![d] = NoApp]
        /\ pipe' = [pipe EXCEPT ![w] = Tail(@)]
        /\ UNCHANGED <<listed, depot, worker, housekeeper>>
        /\ d \in active /\ depot[d] = NoApp
    <3>1. Head(pipe[w])[2] = d
      BY <1>3, <2>0, <2>2
    <3>2. /\ pipe[w] # <<>> /\ active' = active \ {d} /\ peer' = [peer EXCEPT ![d] = NoApp]
          /\ pipe' = [pipe EXCEPT ![w] = Tail(@)]
          /\ UNCHANGED <<listed, depot, worker, housekeeper>>
      BY <1>5, <3>1 DEF RemoveFd
    <3>3. d \in active /\ depot[d] = NoApp
      BY <1>5, <3>1 DEF RemoveFd
    <3>4. QED BY <3>2, <3>3
  <2>3. Selected(d)
    BY <1>1, <2>1, <2>2 DEF Right, Handled, Nowhere, Selected, Busy, UnderWay
  <2>4. Handled(d)'
    <3>1. Returned(d)' = {}
      BY <1>1, <2>1, <2>3, ReturnedTaken DEF Selected
    <3>2. ServedBy(d)' = {} /\ peer'[d] = NoApp
      BY <1>1, <2>1, <2>2, <2>3 DEF Selected, ServedBy, RegistryTypeOK
    <3>3. QED BY <2>1, <3>1, <3>2 DEF Handled, Nowhere
  <2>5. ASSUME NEW e \in Desc, e # d PROVE Handled(e)'
    <3>1. pipe[w][1] # <<"add", e>> /\ peer'[e] = peer[e]
      BY <1>1, <2>1, <2>2, <2>5 DEF RegistryTypeOK
    <3>2. QED BY <1>1, <2>1, <2>5, <3>1, TakingOrderKeeps
  <2>6. DepotIsPeer'
    BY <1>1, <2>1, <2>2 DEF Right, DepotIsPeer, RegistryTypeOK
  <2>7. JobIsPeer'
    <3>1. \A u \in Worker : worker[u].desc # d
      BY <2>3 DEF Selected, ServedBy
    <3>2. QED BY <1>1, <2>1, <3>1 DEF Right, JobIsPeer, RegistryTypeOK
  <2>8. \A svc \in listed' : Owed(svc[1])'
    <3>1. UNCHANGED <<listed, depot, worker, housekeeper>>
      BY <2>1
    <3>2. QED BY <1>1, <3>1 DEF Right, Owed
  <2>9. QED BY <2>4, <2>5, <2>6, <2>7, <2>8 DEF Right
<1>6. ASSUME ExpireApp(w) PROVE Right'
  <2>1. UNCHANGED <<listed, peer, active, pipe, worker>> /\ housekeeper[w].at = "wait"
    BY <1>6 DEF ExpireApp, gate
  <2>2. PICK item \in housekeeper[w].copy :
          /\ depot' = [depot EXCEPT ![item[1]] = NoApp] /\ depot[item[1]] = item[2]
          /\ housekeeper' = [housekeeper EXCEPT ![w] = [at |-> "withdraw", copy |-> @.copy \ {item},
                                                        desc |-> item[1], app |-> item[2]]]
    BY <1>6 DEF ExpireApp
  <2>3. DepotIsPeer' /\ JobIsPeer'
    BY <1>1, <2>1, <2>2 DEF Right, DepotIsPeer, JobIsPeer, RegistryTypeOK
  <2>4. ASSUME NEW svc \in listed' PROVE Owed(svc[1])'
    <3>1. svc[1] # NoApp /\ Owed(svc[1])
      BY <1>1, <1>2, <2>1 DEF Right
    <3>2. \A e \in Desc : depot[e] = svc[1] => depot'[e] = svc[1] \/ housekeeper'[w].app = svc[1]
      BY <1>1, <2>2 DEF RegistryTypeOK
    <3>3. \A v \in WshProcess : housekeeper[v].app = svc[1] => housekeeper'[v].app = svc[1]
      BY <1>1, <2>1, <2>2, <3>1 DEF RegistryTypeOK, Shapes, RoundsHaveDesc
    <3>4. QED BY <2>1, <3>1, <3>2, <3>3 DEF Owed
  <2>5. QED BY <1>1, <2>1, <2>3, <2>4, HandledAsBefore DEF Right
<1>7. ASSUME ExpireServices(w) PROVE Right'
  <2>1. /\ UNCHANGED <<depot, peer, active, pipe, worker>>
        /\ listed' = listed \ Of(housekeeper[w].app)
        /\ \A v \in WshProcess : v # w => housekeeper'[v] = housekeeper[v]
    BY <1>1, <1>7 DEF ExpireServices, gate, RegistryTypeOK
  <2>2. \A svc \in listed' : svc \in listed /\ svc[1] # housekeeper[w].app
    BY <1>1, <2>1 DEF Of, RegistryTypeOK, Registration
  <2>3. \A svc \in listed' : Owed(svc[1])'
    BY <1>1, <2>1, <2>2 DEF Right, Owed
  <2>4. QED BY <1>1, <2>1, <2>3, HandledAsBefore DEF Right, DepotIsPeer, JobIsPeer
<1>8. ASSUME DestroySocket(w) PROVE Right'
  <2> DEFINE o == <<"remove", housekeeper[w].desc>>
  <2>1. /\ UNCHANGED <<listed, depot, peer, active, worker>>
        /\ pipe' = [pipe EXCEPT ![w] = Append(@, o)]
        /\ \A v \in WshProcess : housekeeper'[v].app = housekeeper[v].app
    BY <1>1, <1>8 DEF DestroySocket, RegistryTypeOK, Round
  <2>2. o \in Order
    BY <1>1, <1>8 DEF DestroySocket, Order, Shapes, RoundsHaveDesc, Round
  <2>3. ASSUME NEW e \in Desc PROVE Handled(e)'
    <3>1. Returned(e)' = Returned(e)
      <4>1. o # <<"add", e>>
        OBVIOUS
      <4> HIDE DEF o
      <4>2. QED BY <1>1, <2>1, <2>2, <4>1, ReturnedAppended
    <3>2. ServedBy(e)' = ServedBy(e)
      BY <2>1 DEF ServedBy
    <3>3. QED BY <1>1, <2>1, <3>1, <3>2, HandledStays DEF Right
  <2>4. QED BY <1>1, <2>1, <2>3 DEF Right, DepotIsPeer, JobIsPeer, Owed
<1>9. ASSUME UnRegisterExpired(w) PROVE Right'
  <2> DEFINE d == housekeeper[w].desc
  <2>1. /\ UNCHANGED <<listed, peer, active, pipe, worker>> /\ housekeeper[w].at = "drop"
        /\ depot' = [depot EXCEPT ![d] = NoApp] /\ housekeeper'[w].app = depot[d]
        /\ \A v \in WshProcess : v # w => housekeeper'[v] = housekeeper[v]
    BY <1>1, <1>9 DEF UnRegisterExpired, gate, RegistryTypeOK, Round
  <2>2. DepotIsPeer' /\ JobIsPeer'
    BY <1>1, <2>1 DEF Right, DepotIsPeer, JobIsPeer, RegistryTypeOK
  <2>3. ASSUME NEW svc \in listed' PROVE Owed(svc[1])'
    <3>1. svc[1] # NoApp /\ Owed(svc[1])
      BY <1>1, <1>2, <2>1 DEF Right
    <3>2. \A e \in Desc : depot[e] = svc[1] => depot'[e] = svc[1] \/ housekeeper'[w].app = svc[1]
      BY <1>1, <2>1 DEF RegistryTypeOK
    <3>3. \A v \in WshProcess : housekeeper[v].app = svc[1] => housekeeper'[v].app = svc[1]
      BY <1>1, <2>1, <3>1 DEF Shapes, RoundsHaveDesc
    <3>4. QED BY <2>1, <3>1, <3>2, <3>3 DEF Owed
  <2>4. QED BY <1>1, <2>1, <2>2, <2>3, HandledAsBefore DEF Right
<1>10. ASSUME CheckApps(w) PROVE Right'
  <2>1. /\ UNCHANGED <<listed, depot, peer, active, pipe, worker>>
        /\ \A v \in WshProcess : housekeeper'[v].app = housekeeper[v].app
    BY <1>1, <1>10 DEF CheckApps, gate, RegistryTypeOK, Round
  <2>2. QED BY <1>1, <2>1, HandledAsBefore DEF Right, DepotIsPeer, JobIsPeer, Owed
<1>11. QED
  BY <1>4, <1>5, <1>6, <1>7, <1>8, <1>9, <1>10 DEF WshStep

LEMMA ServerRight ==
  ASSUME RegistryInv, NEW a \in App, ~crossed',
         \/ \E d \in Desc : Connect(a, d)
         \/ Beat(a) \/ RegisterSvcDone(a) \/ Disconnect(a) \/ Timeout(a) \/ Stop(a) \/ Start(a)
  PROVE  Right'
<1>1. RegistryTypeOK /\ Right
  <2>1. ~crossed
    BY DEF Connect, Beat, RegisterSvcDone, Disconnect, Timeout, Stop, Start
  <2>2. QED BY <2>1 DEF RegistryInv
<1>2. ASSUME NEW d \in Desc, Connect(a, d) PROVE Right'
  <2>1. /\ peer[d] = NoApp /\ peer' = [peer EXCEPT ![d] = a] /\ active' = active \cup {d}
        /\ UNCHANGED <<listed, depot, pipe, worker, housekeeper>>
    BY <1>2 DEF Connect
  <2>2. Nowhere(d)
    BY <1>1, <2>1 DEF Right, Handled
  <2>3. ASSUME NEW e \in Desc PROVE Handled(e)'
    <3>1. ServedBy(e)' = ServedBy(e) /\ Returned(e)' = Returned(e)
      BY <2>1 DEF ServedBy, Returned
    <3>2. CASE e = d
      BY <1>1, <2>1, <2>2, <3>1, <3>2 DEF Nowhere, Handled, Selected, RegistryTypeOK
    <3>3. CASE e # d
      BY <1>1, <2>1, <3>1, <3>3, HandledStays DEF Right, RegistryTypeOK
    <3>4. QED BY <3>2, <3>3
  <2>4. DepotIsPeer'
    BY <1>1, <2>1 DEF Right, DepotIsPeer, RegistryTypeOK
  <2>5. JobIsPeer'
    BY <1>1, <2>1, <2>2 DEF Right, JobIsPeer, Nowhere, ServedBy, RegistryTypeOK
  <2>6. QED BY <1>1, <2>1, <2>3, <2>4, <2>5 DEF Right, Owed
<1>3. CASE Beat(a) \/ RegisterSvcDone(a) \/ Disconnect(a) \/ Timeout(a) \/ Stop(a) \/ Start(a)
  BY <1>1, <1>3, RightStays DEF Beat, RegisterSvcDone, Disconnect, Timeout, Stop, Start, Leave, gate
<1>4. QED BY <1>2, <1>3

-----------------------------------------------------------------------------

LEMMA NextInv ==
  ASSUME RegistryInv, [RegistryNext]_registryVars
  PROVE  RegistryInv'
<1>1. RegistryTypeOK /\ Shapes
  BY DEF RegistryInv
<1>2. ASSUME NEW t \in Worker,
             WorkerStep(t) \/ \E d \in Desc : ServeRequest(t, d) \/ ServeEnd(t, d)
      PROVE  RegistryInv'
  BY <1>1, <1>2, WorkerTypes, WorkerShapes, WorkerRight DEF RegistryInv
<1>3. ASSUME NEW w \in WshProcess, WshStep(w) \/ CheckApps(w)
      PROVE  RegistryInv'
  BY <1>1, <1>3, WshTypes, WshShapes, WshRight DEF RegistryInv
<1>4. ASSUME NEW a \in App,
             \/ \E d \in Desc : Connect(a, d)
             \/ Beat(a) \/ RegisterSvcDone(a) \/ Disconnect(a) \/ Timeout(a) \/ Stop(a) \/ Start(a)
      PROVE  RegistryInv'
  <2>1. UNCHANGED <<worker, housekeeper, pipe>>
    BY <1>4 DEF Connect, Beat, RegisterSvcDone, Disconnect, Timeout, Stop, Start, Leave, gate
  <2>2. QED BY <1>1, <1>4, <2>1, ServerTypes, ShapesStay, ServerRight DEF RegistryInv
<1>5. CASE UNCHANGED registryVars
  <2>1. UNCHANGED <<listed, depot, gate, housekeeper, server, faults, crossed>>
    BY <1>5 DEF registryVars
  <2>2. RegistryTypeOK'
    BY <1>1, <2>1 DEF RegistryTypeOK, gate, server
  <2>3. QED BY <1>1, <2>1, <2>2, ShapesStay, RightStays DEF RegistryInv, gate
<1>6. QED BY <1>2, <1>3, <1>4, <1>5 DEF RegistryNext

LEMMA AlwaysInv == RegistrySpec => []RegistryInv
BY InitInv, NextInv, PTL DEF RegistrySpec

(* Depots, workers, pipes and the servers' lists keep their types.         *)
THEOREM RegistryTypeCorrect == RegistrySpec => []RegistryTypeOK
<1>1. RegistryInv => RegistryTypeOK
  BY DEF RegistryInv
<1>2. QED BY <1>1, AlwaysInv, PTL

(* Whatever connections end or come, and whatever threads do in between, a *)
(* service on the board is somebody's to withdraw, until housekeeping acts *)
(* on a descriptor that is another's by then: UnRegisterApp and            *)
(* RegisterApp meet on a descriptor only when one worker has it, so an     *)
(* entry of the depot is never another server's than the connection's.     *)
THEOREM ServicesAreOwed == RegistrySpec => []SomeoneWithdraws
<1>1. RegistryInv => SomeoneWithdraws
  BY DEF RegistryInv, Right, SomeoneWithdraws
<1>2. QED BY <1>1, AlwaysInv, PTL

(* A descriptor that is open is selected, or one worker's, or given back   *)
(* once; a closed one is nowhere, for any number of threads and WSHs.      *)
THEOREM DescriptorsAreHandledOnce == RegistrySpec => []OneHandler
<1>1. ASSUME RegistryInv PROVE OneHandler
  <2>1. SUFFICES ASSUME ~crossed, NEW d \in Desc
                 PROVE  (IF d \in active THEN 1 ELSE 0) + Cardinality(ServedBy(d)) + Cardinality(Returned(d))
                          = IF peer[d] = NoApp THEN 0 ELSE 1
    BY DEF OneHandler, ServedBy, Returned
  <2>2. Handled(d)
    BY <1>1, <2>1 DEF RegistryInv, Right
  <2>3. Cardinality({}) = 0 /\ \A x : Cardinality({x}) = 1
    BY FS_EmptySet, FS_Singleton
  <2>4. CASE peer[d] = NoApp
    <3>1. ServedBy(d) = {} /\ Returned(d) = {} /\ d \notin active
      BY <2>2, <2>4, Zenon DEF Handled, Nowhere
    <3>2. Cardinality(ServedBy(d)) = 0 /\ Cardinality(Returned(d)) = 0
      BY <2>3, <3>1
    <3>3. QED BY <2>4, <3>1, <3>2
  <2>5. CASE Selected(d) /\ peer[d] # NoApp
    <3>1. ServedBy(d) = {} /\ Returned(d) = {} /\ d \in active
      BY <2>5, Zenon DEF Selected
    <3>2. Cardinality(ServedBy(d)) = 0 /\ Cardinality(Returned(d)) = 0
      BY <2>3, <3>1
    <3>3. QED BY <2>5, <3>1, <3>2
  <2>6. CASE Busy(d) /\ peer[d] # NoApp
    <3>1. PICK t \in ServedBy(d) : ServedBy(d) = {t}
      BY <2>6 DEF Busy
    <3>2. Cardinality(ServedBy(d)) = 1
      BY <2>3, <3>1
    <3>3. Returned(d) = {} /\ d \notin active
      BY <2>6, Zenon DEF Busy
    <3>4. Cardinality(Returned(d)) = 0
      BY <2>3, <3>3
    <3>5. QED BY <2>6, <3>2, <3>3, <3>4
  <2>7. CASE UnderWay(d) /\ peer[d] # NoApp
    <3>1. PICK k \in Returned(d) : Returned(d) = {k}
      BY <2>7 DEF UnderWay
    <3>2. Cardinality(Returned(d)) = 1
      BY <2>3, <3>1
    <3>3. Cardinality(ServedBy(d)) = 0 /\ d \notin active
      BY <2>3, <2>7 DEF UnderWay
    <3>4. QED BY <2>7, <3>2, <3>3
  <2>8. QED BY <2>2, <2>4, <2>5, <2>6, <2>7 DEF Handled
<1>2. QED BY <1>1, AlwaysInv, PTL

=============================================================================
