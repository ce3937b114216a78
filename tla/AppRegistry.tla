----------------------------- MODULE AppRegistry -----------------------------
(***************************************************************************)
(* How the services of servers get onto the bulletin board of a gate and   *)
(* off again: a server's two lists (libtux/ServiceRepository.cpp) and its  *)
(* heartbeat (libtux/GateCheckThread.cpp); the WSHs, each with its depot   *)
(* of applications (txgate/AppDepot.cpp), its workers                      *)
(* (txgate/GateNSHandlerImpl.cpp under lwpr/MTNetServer.cpp) and its       *)
(* housekeeping thread (txgate/HousekeepingThread.cpp).                    *)
(*                                                                         *)
(* A connection is known to a WSH by its descriptor only, and descriptors  *)
(* are used again. The board is reduced to what ServiceDirectory promises: *)
(* a set of registrations of bounded size. Numbers and notices are         *)
(* WshNotify's, the gates' copies of each other BulletinBoard's.           *)
(***************************************************************************)
EXTENDS Sequences, FiniteSets, Integers

CONSTANTS
  App,       \* the servers
  Name,      \* the services each of them offers
  WshProcess, Desc, \* the WSHs, and the descriptors of all of them
  WshOf,     \* whose each descriptor is
  Worker,    \* the threads of all WSHs that serve connections
  Capacity,  \* the length of the service table
  NoApp, NoDesc, NoList, \* no server, no connection, no message
  FaultMax   \* bound: how many answers come too late, servers end and
             \* applications are found expired, all told

ASSUME RegistryAssumption ==
  /\ WshOf \in [Desc -> WshProcess]
  /\ NoApp \notin App /\ NoDesc \notin Desc /\ \A names \in SUBSET Name : names # NoList
  /\ IsFiniteSet(Desc) /\ Capacity \in Nat /\ FaultMax \in Nat

VARIABLES
  listed,  \* the registrations on the board
  depot,   \* m_AppMap of every WSH: the server a descriptor is registered for
  peer,    \* whose connection a descriptor is; NoApp when it is closed
  inbox,   \* the heartbeat that waits to be read from a descriptor: m_SVCWill
  active,  \* m_setActiveFd: the descriptors that are selected
  pipe,    \* the orders to the selecting thread of each WSH
  worker,  \* what each worker is doing
  housekeeper,  \* what the housekeeping thread of each WSH is doing
  alive,   \* the servers that run
  link,    \* the connection of each server: m_nFDGate
  will, already, \* m_SVCWill and m_SVCAlready
  asked,   \* the servers that wait for the answer to a heartbeat
  answer,  \* the answer that waits to be read by a server
  faults,  \* spent of FaultMax
  crossed  \* history: housekeeping has acted on a descriptor that belongs to
           \* another application by then, or is being served; what threads
           \* begin after that is not followed

gate    == <<peer, inbox, active, pipe, worker>>
server  == <<alive, link, will, already, asked, answer>>
registryVars    == <<listed, depot, gate, housekeeper, server, faults, crossed>>

Registration == App \X Name
Lists == (SUBSET Name) \cup {NoList}
Order == {"add", "remove"} \X Desc
Of(a) == {a} \X Name

(* A worker: at "idle"; serving a heartbeat of app, with the names still   *)
(* to register (todo) and those registered (done); ending a connection.    *)
Job == [at : {"idle", "register", "reply", "end", "withdraw", "close"},
        desc : Desc \cup {NoDesc}, app : App \cup {NoApp},
        todo : SUBSET Name, done : SUBSET Name]
Idle == [at |-> "idle", desc |-> NoDesc, app |-> NoApp, todo |-> {}, done |-> {}]

(* The housekeeping thread: the applications it found expired, and what it *)
(* does with the one it took out of them.                                  *)
Round == [at : {"wait", "withdraw", "order", "drop", "again"},
          copy : SUBSET (Desc \X App), desc : Desc \cup {NoDesc}, app : App \cup {NoApp}]
Waiting == [at |-> "wait", copy |-> {}, desc |-> NoDesc, app |-> NoApp]

RegistryInit ==
  /\ listed = {}
  /\ depot = [d \in Desc |-> NoApp]
  /\ peer = [d \in Desc |-> NoApp]
  /\ inbox = [d \in Desc |-> NoList]
  /\ active = {}
  /\ pipe = [w \in WshProcess |-> <<>>]
  /\ worker = [t \in Worker |-> Idle]
  /\ housekeeper = [w \in WshProcess |-> Waiting]
  /\ alive = App
  /\ link = [a \in App |-> NoDesc]
  /\ will = [a \in App |-> Name]
  /\ already = [a \in App |-> {}]
  /\ asked = {}
  /\ answer = [a \in App |-> NoList]
  /\ faults = 0 /\ crossed = FALSE

-----------------------------------------------------------------------------
(* The threads of a WSH that serve connections. *)

(* select() fails for ever once a descriptor in the set is closed.         *)
CanSelect(w) == \A d \in active : WshOf[d] = w => peer[d] # NoApp

(* The selecting thread accepts a connection: a descriptor that is free.   *)
Connect(a, d) ==
  /\ a \in alive /\ link[a] = NoDesc /\ ~crossed
  /\ peer[d] = NoApp /\ CanSelect(WshOf[d])
  /\ link' = [link EXCEPT ![a] = d]
  /\ peer' = [peer EXCEPT ![d] = a]
  /\ active' = active \cup {d}
  /\ UNCHANGED <<listed, depot, inbox, pipe, worker, housekeeper, alive, will, already, asked,
                 answer, faults, crossed>>

(* A mistake: the descriptor is selected on while it is served.            *)
TakenKept(d) == active
(* What is readable is taken out of the set, and before the set is selected*)
(* again the workers have taken all of it (m_ReadableSockets).             *)
Taken(d) == active \ {d}

(* A worker takes a descriptor that is readable: a heartbeat waits ...     *)
ServeRequest(t, d) ==
  /\ worker[t] = Idle /\ ~crossed
  /\ d \in active /\ CanSelect(WshOf[d]) /\ inbox[d] # NoList
  /\ worker' = [worker EXCEPT ![t] = [at |-> "register", desc |-> d, app |-> peer[d],
                                      todo |-> inbox[d], done |-> {}]]
  /\ inbox' = [inbox EXCEPT ![d] = NoList]
  /\ active' = Taken(d)
  /\ UNCHANGED <<listed, depot, peer, pipe, housekeeper, server, faults, crossed>>

(* ... or the peer has gone: DestroySocketInternal.                        *)
ServeEnd(t, d) ==
  /\ worker[t] = Idle /\ ~crossed
  /\ d \in active /\ CanSelect(WshOf[d]) /\ inbox[d] = NoList /\ link[peer[d]] # d
  /\ worker' = [worker EXCEPT ![t] = [Idle EXCEPT !.at = "end", !.desc = d]]
  /\ active' = Taken(d)
  /\ UNCHANGED <<listed, depot, peer, inbox, pipe, housekeeper, server, faults, crossed>>

(* RegisterApp: RegisterService for one name after the other. The first    *)
(* that finds the table full is the last.                                  *)
RegisterService(t) ==
  /\ worker[t].at = "register"
  /\ \E n \in worker[t].todo :
       LET svc == <<worker[t].app, n>> IN
       \/ /\ svc \in listed \/ Cardinality(listed) < Capacity
          /\ listed' = listed \cup {svc}
          /\ worker' = [worker EXCEPT ![t].todo = @ \ {n}, ![t].done = @ \cup {n}]
       \/ /\ svc \notin listed /\ Cardinality(listed) >= Capacity
          /\ worker' = [worker EXCEPT ![t].todo = {}]
          /\ UNCHANGED listed
  /\ UNCHANGED <<depot, peer, inbox, active, pipe, housekeeper, server, faults, crossed>>

(* AppDepot::RegisterApp.                                                  *)
RegisterApp(t) ==
  /\ worker[t].at = "register" /\ worker[t].todo = {}
  /\ depot' = [depot EXCEPT ![worker[t].desc] = worker[t].app]
  /\ worker' = [worker EXCEPT ![t].at = "reply"]
  /\ UNCHANGED <<listed, peer, inbox, active, pipe, housekeeper, server, faults, crossed>>

(* The answer is written to whoever has the descriptor now, and the        *)
(* descriptor goes back to the selecting thread (EnableSocket).            *)
Reply(t) ==
  LET d == worker[t].desc IN
  /\ worker[t].at = "reply" /\ peer[d] # NoApp
  /\ answer' = [answer EXCEPT ![peer[d]] = IF link[peer[d]] = d THEN worker[t].done ELSE @]
  /\ pipe' = [pipe EXCEPT ![WshOf[d]] = Append(@, <<"add", d>>)]
  /\ worker' = [worker EXCEPT ![t] = Idle]
  /\ UNCHANGED <<listed, depot, peer, inbox, active, housekeeper, alive, link, will, already, asked,
                 faults, crossed>>

(* The answer cannot be written: the connection is ended.                  *)
ReplyFails(t) ==
  LET d == worker[t].desc IN
  /\ worker[t].at = "reply"
  /\ peer[d] # NoApp => link[peer[d]] # d
  /\ worker' = [worker EXCEPT ![t] = [Idle EXCEPT !.at = "end", !.desc = d]]
  /\ UNCHANGED <<listed, depot, peer, inbox, active, pipe, housekeeper, server, faults, crossed>>

(* A mistake: the application leaves the depot, its services stay.         *)
NothingToDo(a) == "close"
(* What is left to do for a connection whose entry in the depot was a's.   *)
Erased(a) == IF a = NoApp THEN "close" ELSE "withdraw"

(* DoClientAmountUpdate of a connection that ends: whatever application is *)
(* registered for the descriptor goes, ...                                 *)
UnRegisterApp(t) ==
  LET d == worker[t].desc IN
  /\ worker[t].at = "end"
  /\ depot' = [depot EXCEPT ![d] = NoApp]
  /\ worker' = [worker EXCEPT ![t].at = Erased(depot[d]),
                              ![t].app = depot[d]]
  /\ UNCHANGED <<listed, peer, inbox, active, pipe, housekeeper, server, faults, crossed>>

(* ... and with it all services of its address.                            *)
UnregisterService(t) ==
  /\ worker[t].at = "withdraw"
  /\ listed' = listed \ Of(worker[t].app)
  /\ worker' = [worker EXCEPT ![t].at = "close"]
  /\ UNCHANGED <<depot, peer, inbox, active, pipe, housekeeper, server, faults, crossed>>

CloseSocket(t) ==
  LET d == worker[t].desc IN
  /\ worker[t].at = "close"
  /\ peer' = [peer EXCEPT ![d] = NoApp]
  /\ inbox' = [inbox EXCEPT ![d] = NoList]
  /\ worker' = [worker EXCEPT ![t] = Idle]
  /\ UNCHANGED <<listed, depot, active, pipe, housekeeper, server, faults, crossed>>

(* The selecting thread takes an order from the pipe: a descriptor to      *)
(* select again ...                                                        *)
AddFd(w) ==
  /\ CanSelect(w) /\ pipe[w] # <<>> /\ Head(pipe[w])[1] = "add"
  /\ active' = active \cup {Head(pipe[w])[2]}
  /\ pipe' = [pipe EXCEPT ![w] = Tail(@)]
  /\ UNCHANGED <<listed, depot, peer, inbox, worker, housekeeper, server, faults, crossed>>

(* ... or one to close. One that is readable may have been noted for the   *)
(* workers just before (overtaken).                                        *)
RemoveFd(w) ==
  LET d == Head(pipe[w])[2] IN
  /\ CanSelect(w) /\ pipe[w] # <<>> /\ Head(pipe[w])[1] = "remove"
  /\ active' = active \ {d}
  /\ peer' = [peer EXCEPT ![d] = NoApp]
  /\ inbox' = [inbox EXCEPT ![d] = NoList]
  /\ pipe' = [pipe EXCEPT ![w] = Tail(@)]
  /\ \E overtaken \in BOOLEAN :
       /\ overtaken => peer[d] # NoApp /\ (inbox[d] # NoList \/ link[peer[d]] # d)
       /\ crossed' = (crossed \/ overtaken \/ d \notin active \/ depot[d] # NoApp)
  /\ UNCHANGED <<listed, depot, worker, housekeeper, server, faults>>

-----------------------------------------------------------------------------
(* The housekeeping thread of a WSH. *)

(* It copies the depot, and finds some of the applications expired.        *)
CheckApps(w) ==
  /\ housekeeper[w] = Waiting /\ ~crossed
  /\ \E found \in SUBSET {<<d, depot[d]>> : d \in {e \in Desc : WshOf[e] = w /\ depot[e] # NoApp}} :
       /\ found # {} /\ faults + Cardinality(found) <= FaultMax
       /\ housekeeper' = [housekeeper EXCEPT ![w].copy = found]
       /\ faults' = faults + Cardinality(found)
  /\ UNCHANGED <<listed, depot, gate, server, crossed>>

(* Each is taken from the depot by its descriptor ...                      *)
ExpireApp(w) ==
  /\ housekeeper[w].at = "wait"
  /\ \E item \in housekeeper[w].copy :
       /\ depot' = [depot EXCEPT ![item[1]] = NoApp]
       /\ housekeeper' = [housekeeper EXCEPT ![w] = [at |-> "withdraw", copy |-> @.copy \ {item},
                                           desc |-> item[1], app |-> item[2]]]
       /\ crossed' = (crossed \/ depot[item[1]] # item[2])
  /\ UNCHANGED <<listed, gate, server, faults>>

(* After the services of an application have been withdrawn: the first time*)
(* its connection is still to be closed.                                   *)
Withdrawn(r) ==
  IF r.at = "withdraw" THEN [r EXCEPT !.at = "order", !.app = NoApp]
  ELSE [Waiting EXCEPT !.copy = r.copy]

(* ... its services leave the board, ...                                   *)
ExpireServices(w) ==
  /\ housekeeper[w].at \in {"withdraw", "again"}
  /\ listed' = listed \ Of(housekeeper[w].app)
  /\ housekeeper' = [housekeeper EXCEPT ![w] = Withdrawn(@)]
  /\ UNCHANGED <<depot, gate, server, faults, crossed>>

(* ... DestroySocket orders its connection to be closed, ...               *)
DestroySocket(w) ==
  /\ housekeeper[w].at = "order"
  /\ pipe' = [pipe EXCEPT ![w] = Append(@, <<"remove", housekeeper[w].desc>>)]
  /\ housekeeper' = [housekeeper EXCEPT ![w].at = "drop"]
  /\ UNCHANGED <<listed, depot, peer, inbox, active, worker, server, faults, crossed>>

(* ... and DoClientAmountUpdate looks for an application once more.        *)
UnRegisterExpired(w) ==
  LET a == depot[housekeeper[w].desc] IN
  /\ housekeeper[w].at = "drop"
  /\ depot' = [depot EXCEPT ![housekeeper[w].desc] = NoApp]
  /\ housekeeper' = [housekeeper EXCEPT ![w].at = IF a = NoApp THEN "wait" ELSE "again",
                              ![w].desc = IF a = NoApp THEN NoDesc ELSE @,
                              ![w].app = a]
  /\ UNCHANGED <<listed, gate, server, faults, crossed>>

-----------------------------------------------------------------------------
(* The servers. *)

(* RegisterToGate sends what is still to be registered.                    *)
Beat(a) ==
  LET d == link[a] IN
  /\ a \in alive /\ d # NoDesc /\ a \notin asked /\ ~crossed
  /\ asked' = asked \cup {a}
  /\ inbox' = IF peer[d] = a THEN [inbox EXCEPT ![d] = will[a]] ELSE inbox
  /\ UNCHANGED <<listed, depot, peer, active, pipe, worker, housekeeper, alive, link, will, already,
                 answer, faults, crossed>>

(* The answer: RegisterSvcDone.                                            *)
RegisterSvcDone(a) ==
  /\ a \in asked /\ answer[a] # NoList
  /\ will' = [will EXCEPT ![a] = @ \ answer[a]]
  /\ already' = [already EXCEPT ![a] = @ \cup (answer[a] \cap will[a])]
  /\ answer' = [answer EXCEPT ![a] = NoList]
  /\ asked' = asked \ {a}
  /\ UNCHANGED <<listed, depot, gate, housekeeper, alive, link, faults, crossed>>

(* A mistake: what was registered is not registered again.                 *)
StillToRegister(a) == will[a]
(* MakeSvcRegister.                                                        *)
ToRegister(a) == will[a] \cup already[a]

(* DisconnectGate, with MakeSvcRegister.                                   *)
Leave(a) ==
  /\ link' = [link EXCEPT ![a] = NoDesc]
  /\ will' = [will EXCEPT ![a] = ToRegister(a)]
  /\ already' = [already EXCEPT ![a] = {}]
  /\ answer' = [answer EXCEPT ![a] = NoList]
  /\ asked' = asked \ {a}
  /\ UNCHANGED <<listed, depot, gate, housekeeper>>

(* The gate has closed the connection: Invoke fails, or WaitForNotify does.*)
Disconnect(a) ==
  /\ link[a] # NoDesc /\ peer[link[a]] # a
  /\ a \in asked => answer[a] = NoList
  /\ Leave(a)
  /\ UNCHANGED <<alive, faults, crossed>>

(* The answer has not come in time.                                        *)
Timeout(a) ==
  /\ a \in asked /\ faults < FaultMax
  /\ Leave(a)
  /\ faults' = faults + 1
  /\ UNCHANGED <<alive, crossed>>

(* A server ends, and may be started again at the same address.            *)
Stop(a) ==
  /\ a \in alive /\ faults < FaultMax
  /\ Leave(a)
  /\ alive' = alive \ {a}
  /\ faults' = faults + 1
  /\ UNCHANGED crossed

Start(a) ==
  /\ a \notin alive
  /\ alive' = alive \cup {a}
  /\ UNCHANGED <<listed, depot, gate, housekeeper, link, will, already, asked, answer, faults, crossed>>

-----------------------------------------------------------------------------

WorkerStep(t) ==
  \/ RegisterService(t) \/ RegisterApp(t) \/ Reply(t) \/ ReplyFails(t)
  \/ UnRegisterApp(t) \/ UnregisterService(t) \/ CloseSocket(t)

WshStep(w) ==
  \/ AddFd(w) \/ RemoveFd(w)
  \/ ExpireApp(w) \/ ExpireServices(w) \/ DestroySocket(w) \/ UnRegisterExpired(w)

RegistryNext ==
  \/ \E t \in Worker : WorkerStep(t) \/ \E d \in Desc : ServeRequest(t, d) \/ ServeEnd(t, d)
  \/ \E w \in WshProcess : WshStep(w) \/ CheckApps(w)
  \/ \E a \in App :
       \/ \E d \in Desc : Connect(a, d)
       \/ Beat(a) \/ RegisterSvcDone(a)
       \/ Disconnect(a) \/ Timeout(a) \/ Stop(a) \/ Start(a)

RegistrySpec == RegistryInit /\ [][RegistryNext]_registryVars

(* The threads go on, a server connects and beats again and again, and     *)
(* notices that its connection is closed. Nothing else need happen.        *)
RegistryFairness ==
  /\ \A t \in Worker : WF_registryVars(WorkerStep(t))
  /\ \A d \in Desc : SF_registryVars(\E t \in Worker : ServeRequest(t, d) \/ ServeEnd(t, d))
  /\ \A w \in WshProcess :
       /\ WF_registryVars(AddFd(w) \/ RemoveFd(w))
       /\ WF_registryVars(ExpireApp(w) \/ ExpireServices(w) \/ DestroySocket(w) \/ UnRegisterExpired(w))
  /\ \A a \in App :
       /\ WF_registryVars(\E d \in Desc : Connect(a, d))
       /\ WF_registryVars(Beat(a)) /\ WF_registryVars(RegisterSvcDone(a)) /\ WF_registryVars(Disconnect(a))
RegistryLiveSpec == RegistrySpec /\ RegistryFairness

-----------------------------------------------------------------------------

(* The types: descriptors stay with their WSH, servers with their names.   *)
RegistryTypeOK ==
  /\ listed \subseteq Registration
  /\ depot \in [Desc -> App \cup {NoApp}]
  /\ peer \in [Desc -> App \cup {NoApp}]
  /\ inbox \in [Desc -> Lists]
  /\ active \subseteq Desc
  /\ pipe \in [WshProcess -> Seq(Order)]
  /\ worker \in [Worker -> Job]
  /\ housekeeper \in [WshProcess -> Round]
  /\ alive \subseteq App
  /\ link \in [App -> Desc \cup {NoDesc}]
  /\ will \in [App -> SUBSET Name] /\ already \in [App -> SUBSET Name]
  /\ asked \subseteq App
  /\ answer \in [App -> Lists]
  /\ faults \in 0 .. FaultMax /\ crossed \in BOOLEAN

(* Something is left that withdraws the services of server a.              *)
Owed(a) ==
  \/ \E d \in Desc : depot[d] = a
  \/ \E t \in Worker : worker[t].app = a /\ worker[t].at \in {"register", "withdraw"}
  \/ \E w \in WshProcess : housekeeper[w].app = a

(* A registration on the board is somebody's to withdraw: the depot entry  *)
(* of its server, or a thread that is about to make or to act on one. So   *)
(* no end of a connection, and no answer that comes after the server has   *)
(* gone, leaves a service on the board for good. Housekeeping breaks it:   *)
(* by the time it acts, the descriptor can be another application's, whose *)
(* depot entry it then erases without its services.                        *)
SomeoneWithdraws == ~crossed => \A svc \in listed : Owed(svc[1])

(* The selecting thread and the workers hand descriptors to each other     *)
(* without a lock on them: a descriptor is selected, being served, or on   *)
(* its way back in the pipe, never two of these, and none of them when it  *)
(* is closed: select would fail for ever on a closed one. Housekeeping     *)
(* breaks this too: DestroySocket does not ask who has the descriptor.     *)
OneHandler ==
  ~crossed =>
    \A d \in Desc :
      LET selected == IF d \in active THEN 1 ELSE 0
          served == Cardinality({t \in Worker : worker[t].desc = d})
          returned == Cardinality({k \in 1 .. Len(pipe[WshOf[d]]) : pipe[WshOf[d]][k] = <<"add", d>>})
      IN  selected + served + returned = IF peer[d] = NoApp THEN 0 ELSE 1

(* The services of a server that has ended leave the board in the end.     *)
GoneIsUnlisted ==
  \A a \in App :
    (a \notin alive) ~> (a \in alive \/ listed \cap Of(a) = {} \/ crossed)

(* A server that goes on gets its services registered, unless the board is *)
(* full, whatever connections it loses.                                    *)
EveryServerRegisters ==
  \A a \in App, n \in Name :
    (a \in alive)
      ~> (n \in already[a] \/ a \notin alive \/ Cardinality(listed) >= Capacity \/ crossed)

(* ServiceRepository.h:70 calls m_SVCAlready the services that have been   *)
(* registered with the gate: one that is there is on the board in the end, *)
(* or taken for unregistered again.                                        *)
AlreadyIsListed ==
  \A a \in App, n \in Name :
    (n \in already[a]) ~> (<<a, n>> \in listed \/ n \notin already[a] \/ crossed)

=============================================================================
