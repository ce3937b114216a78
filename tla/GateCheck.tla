------------------------------ MODULE GateCheck ------------------------------
(***************************************************************************)
(* An application and the gate it talks to: the thread that keeps the      *)
(* application registered and subscribed (libtux/GateCheckThread.cpp), the *)
(* threads that call a service (libtux/AppContext.cpp, tpcall), what they  *)
(* know about its servers (libtux/LocalServiceStub.cpp), and a gate's part *)
(* of the conversation (txgate/GateNSHandlerImpl.cpp, HousekeepingThread). *)
(*                                                                         *)
(* The application is a client of one service. What is on a gate's board   *)
(* is whether that service has a server; other changes only move the       *)
(* sequence number. Servers' registrations, tpterm and tpinit are left out.*)
(***************************************************************************)
EXTENDS Integers, Sequences

CONSTANTS
  GateLen,    \* m_GateAddrs.size(): how many gates the application knows
  Caller,     \* threads that call the service
  Nobody,     \* no thread holds a mutex
  SeqMax,     \* bound: changes of a board between two starts of its gate
  FailMax     \* bound: gates that end, connections that break, late answers

ASSUME GateLenAssumption == GateLen \in Nat \ {0}
ASSUME ThreadAssumption == Nobody \notin Caller /\ "check" \notin Caller /\ Nobody # "check"
ASSUME BoundAssumption == SeqMax \in Nat /\ FailMax \in Nat

Gate == 0 .. GateLen - 1
None == -1 \* no connection

VARIABLES
  board,         \* of each gate: its sequence number, whether the service has
                 \* a server, whether a change has yet to be broadcast
  alive,         \* the gates that run
  link,          \* m_nFDGate: the gate the application is connected to
  broken,        \* that connection is dead, which only its use will show
  depot,         \* what the WSH at its other end has in its AppDepot for it
  inbox,         \* what the WSH has written and the application not read
  work,          \* the request the WSH is working on
  request,       \* the request whose answer the application waits for
  gateIndex,     \* m_nGateIndex, modulo the number of gates
  seqSubscibe,   \* m_nBBUpdateSeqSubscibe
  notified,      \* m_bGateNotified
  client,        \* m_nAppType has TUX_APP_TYPE_CLIENT
  stub,          \* m_ServiceItemMap's entry for the service: "absent", "empty"
                 \* or "proxy"
  mutexGate, mutexResource, \* the threads that hold them
  pipe,          \* something to read in the pipe that wakes the check thread
  check,         \* where the check thread is
  call,          \* where each caller is in tpcall
  served,        \* history: every gate had a server all the time since a call began
  same,          \* history: the last subscription was made on this connection
  failures       \* spent of FailMax

gates  == <<board, alive>>
line   == <<link, broken, depot, inbox, work, request, gateIndex>>
known  == <<seqSubscibe, notified, stub, same>>
locks  == <<mutexGate, mutexResource, pipe>>
threads == <<client, check, call>>
history == <<served, failures>>
vars == <<gates, line, known, locks, threads, history>>

Message == [kind : {"notice", "register", "subscribe"}, seq : 0 .. SeqMax, info : BOOLEAN]
Work    == [at : {"idle", "asked", "listed", "answer"}, kind : {"notice", "register", "subscribe"},
            seq : 0 .. SeqMax, info : BOOLEAN]
Notice  == [kind |-> "notice", seq |-> 0, info |-> FALSE]
Idle    == [at |-> "idle", kind |-> "notice", seq |-> 0, info |-> FALSE]

Fresh == [seq |-> 0, up |-> FALSE, owes |-> FALSE]

Init ==
  /\ board = [g \in Gate |-> Fresh]
  /\ alive = Gate
  /\ link = None /\ broken = FALSE /\ depot = "none" /\ inbox = <<>>
  /\ work = Idle /\ request = "none" /\ gateIndex = 0
  /\ seqSubscibe = 0 /\ notified = FALSE /\ stub = "absent" /\ same = FALSE
  /\ client = FALSE
  /\ mutexGate = Nobody /\ mutexResource = Nobody /\ pipe = FALSE
  /\ check = "lock"
  /\ call = [t \in Caller |-> [at |-> "idle", fresh |-> FALSE, picked |-> FALSE]]
  /\ served = [t \in Caller |-> FALSE]
  /\ failures = 0

-----------------------------------------------------------------------------
(* The gates. *)

(* A server registers or goes, here or with a gate this one copies from,   *)
(* or something changes that is not about the service.                     *)
Change(g) ==
  /\ g \in alive /\ board[g].seq < SeqMax
  /\ \E up \in BOOLEAN :
       /\ board' = [board EXCEPT ![g] = [seq |-> board[g].seq + 1, up |-> up, owes |-> TRUE]]
       /\ served' = [t \in Caller |-> served[t] /\ up]
  /\ UNCHANGED <<alive, line, known, locks, threads, failures>>

(* BroadcastNotice: to every connection that is in the depot as a client. *)
Broadcast(g) ==
  /\ g \in alive /\ board[g].owes
  /\ board' = [board EXCEPT ![g] = [seq |-> board[g].seq, up |-> board[g].up, owes |-> FALSE]]
  /\ inbox' = IF link = g /\ ~broken /\ depot = "client" THEN Append(inbox, Notice) ELSE inbox
  /\ UNCHANGED <<alive, link, broken, depot, work, request, gateIndex, known, locks, threads, history>>

(* A WSH takes a registration: the application is put into the depot ...   *)
ListApp ==
  /\ work.at = "asked" /\ work.kind = "register" /\ ~broken
  /\ depot' = IF work.info THEN "client" ELSE "app"
  /\ work' = [at |-> "listed", kind |-> "register", seq |-> 0, info |-> work.info]
  /\ UNCHANGED <<gates, link, broken, inbox, request, gateIndex, known, locks, threads, history>>

(* ... and then the sequence number is read for the answer.                *)
AnswerRegister ==
  /\ work.at = "listed" /\ ~broken
  /\ work' = [at |-> "answer", kind |-> "register", seq |-> board[link].seq, info |-> FALSE]
  /\ UNCHANGED <<gates, link, broken, depot, inbox, request, gateIndex, known, locks, threads, history>>

(* A subscription: what the board has for the names asked for, and its     *)
(* number, read together.                                                  *)
AnswerSubscibe ==
  /\ work.at = "asked" /\ work.kind = "subscribe" /\ ~broken
  /\ work' = [at |-> "answer", kind |-> "subscribe", seq |-> board[link].seq,
              info |-> work.info /\ board[link].up]
  /\ UNCHANGED <<gates, link, broken, depot, inbox, request, gateIndex, known, locks, threads, history>>

(* A mistake: the number is read when the answer is sent, as RegisterApp   *)
(* does for its answer.                                                    *)
SeqWhenSent == board[link].seq
SeqOfAnswer == work.seq

(* The answer is written, after or before notices about later changes.     *)
SendAnswer ==
  /\ work.at = "answer" /\ ~broken
  /\ inbox' = Append(inbox, [kind |-> work.kind, seq |-> SeqOfAnswer, info |-> work.info])
  /\ work' = Idle
  /\ UNCHANGED <<gates, link, broken, depot, request, gateIndex, known, locks, threads, history>>

(* A gate ends, and with it its board; what it had written is read or lost. *)
GateEnds(g) ==
  /\ g \in alive /\ failures < FailMax
  /\ alive' = alive \ {g}
  /\ board' = [board EXCEPT ![g] = Fresh]
  /\ broken' = (broken \/ link = g)
  /\ served' = [t \in Caller |-> FALSE]
  /\ failures' = failures + 1
  /\ UNCHANGED <<link, depot, inbox, work, request, gateIndex, known, locks, threads>>

GateStarts(g) ==
  /\ g \notin alive
  /\ alive' = alive \cup {g}
  /\ UNCHANGED <<board, line, known, locks, threads, history>>

(* The network fails, or the WSH ends. *)
Break ==
  /\ link # None /\ ~broken /\ failures < FailMax
  /\ broken' = TRUE
  /\ failures' = failures + 1
  /\ UNCHANGED <<gates, link, depot, inbox, work, request, gateIndex, known, locks, threads, served>>

-----------------------------------------------------------------------------
(* Talking to the gate, for the thread that holds m_MutexGate.             *)

Nth(k) == (gateIndex + k) % GateLen
CanConnect == link # None \/ alive # {}

(* ConnectGate, unless there is a connection: the gates are tried in turn, *)
(* from the one after the last.                                            *)
ConnectGate ==
  IF link # None THEN UNCHANGED <<link, gateIndex, broken, depot, inbox, same>>
  ELSE \E k \in Gate :
         /\ Nth(k) \in alive /\ \A j \in Gate : j < k => Nth(j) \notin alive
         /\ link' = Nth(k) /\ gateIndex' = (Nth(k) + 1) % GateLen
         /\ broken' = FALSE /\ depot' = "none" /\ inbox' = <<>> /\ same' = FALSE

(* The first half of RegisterToGate or SubscibeFromGate. *)
Ask(kind, info) ==
  /\ request = "none"
  /\ ConnectGate
  /\ request' = kind
  /\ work' = [at |-> "asked", kind |-> kind, seq |-> 0, info |-> info]
  /\ UNCHANGED <<gates, seqSubscibe, notified, stub, history>>

(* A mistake: the connection is kept for the next try. *)
DisconnectLeftOut == UNCHANGED <<link, broken, depot, inbox, work, gateIndex, same>>

(* DisconnectGate: the socket is closed, whatever is in it is lost.        *)
DisconnectGate ==
  /\ link' = None /\ broken' = FALSE /\ depot' = "none" /\ inbox' = <<>> /\ work' = Idle
  /\ same' = FALSE
  /\ UNCHANGED gateIndex

(* Invoke fails: the connection is dead, or the answer comes too late.     *)
Fail ==
  /\ request # "none"
  /\ \/ broken /\ UNCHANGED failures
     \/ /\ work.at # "idle" /\ failures < FailMax
        /\ failures' = failures + 1
  /\ request' = "none"
  /\ DisconnectGate
  /\ UNCHANGED <<gates, seqSubscibe, notified, stub, served>>

(* Invoke reads on when it meets a notice: the notice is forgotten.        *)
SkipNotice ==
  /\ request # "none" /\ inbox # <<>> /\ Head(inbox).kind = "notice"
  /\ inbox' = Tail(inbox)
  /\ UNCHANGED <<gates, link, broken, depot, work, request, gateIndex, known, locks, threads, history>>

Answered(kind) ==
  /\ request = kind /\ inbox # <<>> /\ Head(inbox).kind # "notice"
  /\ request' = "none"
  /\ inbox' = Tail(inbox)
  /\ UNCHANGED <<gates, link, broken, depot, work, gateIndex, history>>

(* The second half of SubscibeFromGate. UpdateServiceInfo keeps an entry   *)
(* only for what the gate returned.                                        *)
Subscibed ==
  /\ Answered("subscribe")
  /\ notified' = FALSE
  /\ seqSubscibe' = Head(inbox).seq
  /\ stub' = IF Head(inbox).info THEN "proxy" ELSE "absent"
  /\ same' = TRUE

AskSubscibe == Ask("subscribe", stub # "absent")

-----------------------------------------------------------------------------
(* The check thread: Run. *)

StayingOut == UNCHANGED <<locks, client, call>>

LockGate ==
  /\ check = "lock" /\ mutexGate = Nobody
  /\ mutexGate' = "check"
  /\ check' = "beat1"
  /\ UNCHANGED <<gates, line, known, mutexResource, pipe, client, call, history>>

(* SendHeartBeat() || SendHeartBeat(): a second try, then the wait.        *)
NextTry == check' = IF check \in {"beat1", "sub1"} THEN "beat2" ELSE "wait"

Beat ==
  /\ check \in {"beat1", "beat2"} /\ request = "none"
  /\ \/ CanConnect /\ Ask("register", client) /\ UNCHANGED check
     \/ ~CanConnect /\ NextTry /\ UNCHANGED <<gates, line, known, history>>
  /\ StayingOut

(* A mistake: the numbers of two gates are taken for one sequence.         *)
NewerThanSubscibed(seq) == seq > seqSubscibe
Outdated(seq) == seq # seqSubscibe

Registered ==
  /\ check \in {"beat1", "beat2"} /\ Answered("register")
  /\ check' = IF ~(client /\ Outdated(Head(inbox).seq)) THEN "wait"
              ELSE IF check = "beat1" THEN "sub1" ELSE "sub2"
  /\ StayingOut /\ UNCHANGED known

CheckSubscibes ==
  /\ check \in {"sub1", "sub2"}
  /\ AskSubscibe \/ Subscibed
  /\ check' = IF request = "none" THEN check ELSE "wait"
  /\ StayingOut

CheckFails ==
  /\ mutexGate = "check" /\ Fail
  /\ NextTry
  /\ StayingOut

(* WaitForNotify. A notice does not end the wait ...                       *)
ReadNotice ==
  /\ check = "wait" /\ inbox # <<>>
  /\ notified' = TRUE
  /\ inbox' = Tail(inbox)
  /\ UNCHANGED <<gates, link, broken, depot, work, request, gateIndex, seqSubscibe, stub, same,
                 locks, threads, history>>

LeaveWait == check = "wait" /\ check' = "resource" /\ mutexGate' = Nobody

(* ... the interval or another thread does; the byte stays in the pipe when *)
(* the interval ends first ...                                             *)
Woken ==
  /\ LeaveWait
  /\ pipe' \in {pipe, FALSE}
  /\ UNCHANGED <<gates, line, known, mutexResource, client, call, history>>

(* ... or the end of the connection.                                       *)
GateGone ==
  /\ LeaveWait
  /\ link # None /\ broken /\ inbox = <<>>
  /\ DisconnectGate
  /\ pipe' \in {pipe, FALSE}
  /\ UNCHANGED <<gates, request, seqSubscibe, notified, stub, mutexResource, client, call, history>>

(* A mistake: the check thread does not wait for m_MutexResource.          *)
MayGoOnAnyway == TRUE
MayGoOn == mutexResource = Nobody

(* Synchronized syn(m_MutexResource), for a moment: a thread that waits    *)
(* for m_MutexGate goes first.                                             *)
LetOthersGo ==
  /\ check = "resource" /\ MayGoOn
  /\ check' = "lock"
  /\ UNCHANGED <<gates, line, known, locks, client, call, history>>

Check ==
  \/ LockGate \/ Beat \/ Registered \/ CheckSubscibes
  \/ ReadNotice \/ Woken \/ GateGone \/ LetOthersGo

-----------------------------------------------------------------------------
(* tpcall, up to the choice of the servers. *)

Go(t, place, fresh, picked) ==
  call' = [call EXCEPT ![t] = [at |-> place, fresh |-> fresh, picked |-> picked]]
At(t, place) == Go(t, place, call[t].fresh, call[t].picked)
HandsOff == UNCHANGED <<client, check>>

(* The call begins; with a notice pending it downloads first.              *)
Call(t) ==
  /\ call[t].at \in {"idle", "found", "nogate", "notfound"}
  /\ client' = TRUE
  /\ Go(t, IF notified THEN "resource" ELSE "pick", FALSE, FALSE)
  /\ served' = [served EXCEPT ![t] = alive = Gate /\ \A g \in Gate : board[g].up]
  /\ UNCHANGED <<gates, line, known, locks, check, failures>>

(* DownloadService: m_MutexResource, the byte that makes the check thread  *)
(* give m_MutexGate up, and that one.                                      *)
LockResource(t) ==
  /\ call[t].at = "resource" /\ mutexResource = Nobody
  /\ mutexResource' = t /\ pipe' = TRUE
  /\ At(t, "gate")
  /\ HandsOff /\ UNCHANGED <<gates, line, known, mutexGate, history>>

CallerLocksGate(t) ==
  /\ call[t].at = "gate" /\ mutexGate = Nobody
  /\ mutexGate' = t
  /\ At(t, "subscribe")
  /\ HandsOff /\ UNCHANGED <<gates, line, known, mutexResource, pipe, history>>

CallerAsks(t) ==
  /\ call[t].at = "subscribe" /\ CanConnect
  /\ AskSubscibe
  /\ HandsOff /\ UNCHANGED <<locks, call>>

Unlock(t) == mutexGate' = Nobody /\ mutexResource' = Nobody /\ UNCHANGED pipe

Downloaded(t) ==
  /\ call[t].at = "subscribe" /\ Subscibed
  /\ Go(t, "pick", TRUE, call[t].picked)
  /\ Unlock(t) /\ HandsOff

(* Without a download the second search is not made, yet bFound is true:   *)
(* no server is tried.                                                     *)
NotDownloaded(t) ==
  /\ call[t].at = "subscribe"
  /\ \/ Fail
     \/ request = "none" /\ ~CanConnect /\ UNCHANGED <<gates, line, known, history>>
  /\ At(t, IF call[t].picked THEN "nogate" ELSE "pick")
  /\ Unlock(t) /\ HandsOff

(* PickServers, which makes an entry for the service if there is none. A   *)
(* first search that fails is repeated after a download, if there has been *)
(* none in this call.                                                      *)
PickServers(t) ==
  /\ call[t].at = "pick"
  /\ stub' = IF stub = "absent" THEN "empty" ELSE stub
  /\ \/ stub = "proxy" /\ At(t, "found")
     \/ stub # "proxy" /\ call[t].picked /\ At(t, "notfound")
     \/ /\ stub # "proxy" /\ ~call[t].picked
        /\ Go(t, IF call[t].fresh THEN "pick" ELSE "resource", call[t].fresh, TRUE)
  /\ HandsOff /\ UNCHANGED <<gates, line, seqSubscibe, notified, same, locks, history>>

InCall(t) ==
  \/ LockResource(t) \/ CallerLocksGate(t) \/ CallerAsks(t)
  \/ Downloaded(t) \/ PickServers(t)

Wsh == ListApp \/ AnswerRegister \/ AnswerSubscibe \/ SendAnswer

Next ==
  \/ Wsh \/ Break \/ SkipNotice \/ Check \/ CheckFails
  \/ \E g \in Gate : Change(g) \/ Broadcast(g) \/ GateEnds(g) \/ GateStarts(g)
  \/ \E t \in Caller : Call(t) \/ InCall(t) \/ NotDownloaded(t)

Spec == Init /\ [][Next]_vars

(* The threads run (a mutex that stays free is taken, the interval ends,   *)
(* a dead connection is noticed), WSHs answer, boards are watched.         *)
Fairness ==
  /\ WF_vars(Wsh) /\ WF_vars(SkipNotice) /\ \A g \in Gate : WF_vars(Broadcast(g))
  /\ WF_vars(LockGate) /\ WF_vars(Beat) /\ WF_vars(Registered) /\ WF_vars(CheckSubscibes)
  /\ WF_vars(broken /\ CheckFails) /\ WF_vars(Woken) /\ WF_vars(LetOthersGo)
  /\ \A t \in Caller : WF_vars(InCall(t)) /\ WF_vars((broken \/ ~CanConnect) /\ NotDownloaded(t))
LiveSpec == Spec /\ Fairness

-----------------------------------------------------------------------------

GatesOK ==
  /\ board \in [Gate -> [seq : 0 .. SeqMax, up : BOOLEAN, owes : BOOLEAN]]
  /\ alive \in SUBSET Gate
LineOK ==
  /\ link \in Gate \cup {None} /\ broken \in BOOLEAN
  /\ depot \in {"none", "app", "client"}
  /\ inbox \in Seq(Message)
  /\ work \in Work
  /\ request \in {"none", "register", "subscribe"}
  /\ gateIndex \in Gate
KnownOK ==
  /\ seqSubscibe \in 0 .. SeqMax
  /\ notified \in BOOLEAN /\ stub \in {"absent", "empty", "proxy"} /\ same \in BOOLEAN
LocksOK ==
  /\ mutexGate \in Caller \cup {Nobody, "check"} /\ mutexResource \in Caller \cup {Nobody}
  /\ pipe \in BOOLEAN
ThreadsOK ==
  /\ client \in BOOLEAN
  /\ check \in {"lock", "beat1", "beat2", "sub1", "sub2", "wait", "resource"}
  /\ call \in [Caller -> [at : {"idle", "pick", "resource", "gate", "subscribe", "found", "nogate", "notfound"},
                          fresh : BOOLEAN, picked : BOOLEAN]]
HistoryOK == served \in [Caller -> BOOLEAN] /\ failures \in 0 .. FailMax

TypeOK == GatesOK /\ LineOK /\ KnownOK /\ LocksOK /\ ThreadsOK /\ HistoryOK

(* An answer the application has not read yet is the answer to the request *)
(* it waits for, never to one it has given up: a thread that gets its      *)
(* answer too late leaves nothing behind for the next one.                 *)
AnswerIsForRequest ==
  \A i \in DOMAIN inbox : inbox[i].kind # "notice" => inbox[i].kind = request

(* What the application knows about the service is what its gate knows,    *)
(* as long as it stays with the connection it subscribed on and the        *)
(* numbers are equal: it never offers a caller a server that is gone.      *)
NoStaleServer ==
  (same /\ ~broken /\ seqSubscibe = board[link].seq /\ stub = "proxy") => board[link].up

(* A thread that downloads gets its turn, however the check thread's long  *)
(* waits under m_MutexGate fall: nobody keeps m_MutexResource for ever.    *)
DownloadEnds == \A t \in Caller : (mutexResource = t) ~> (mutexResource # t)

(* An application that has missed a notice (Invoke skips those it meets)   *)
(* subscribes again all the same, on the next heartbeats.                  *)
CatchesUp ==
  \A g \in Gate :
    (link = g /\ client /\ seqSubscibe # board[g].seq)
      ~> (seqSubscibe = board[g].seq \/ link # g \/ broken)

(* AppContext.cpp:156 takes the service to have no server when it has not  *)
(* been found: a call during which every gate had one all the time does    *)
(* not end that way.                                                       *)
NotFoundMeansNoServer == \A t \in Caller : call[t].at = "notfound" => ~served[t]

(* The developing guide says (1.5) that another gate takes over at once    *)
(* from one that fails: an application that has changed gates learns what  *)
(* the new one knows.                                                      *)
NewGateIsHeard ==
  \A g \in Gate :
    (link = g /\ client /\ stub = "proxy" /\ ~board[g].up)
      ~> (stub # "proxy" \/ board[g].up \/ link # g \/ broken)

=============================================================================
