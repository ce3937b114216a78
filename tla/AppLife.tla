------------------------------- MODULE AppLife -------------------------------
(***************************************************************************)
(* The life of an application: the C functions of ATMIAPI.cpp around its   *)
(* AppContext, and the check thread that the first tpinit starts and that  *)
(* outlives every tpterm.  A client calls what it likes; a server is run   *)
(* by _tmstartserver.  What the check thread does with its gate is module  *)
(* GateCheck; here it is connected or not, and the gate knows it for a     *)
(* server or not.                                                          *)
(***************************************************************************)
EXTENDS Integers

CONSTANT LifePipeMax  \* bound: pipes, one for each time GateCheckThread is made ready
ASSUME PipeMaxAssumption == LifePipeMax \in Nat \ {0}

VARIABLES role,      \* "client" or "server"
          main,      \* where the main thread is
          context,   \* g_pAppContext: "none", "new" or "inited"
          tperr,     \* tperrno of the main thread
          appType,   \* m_nAppType has TUX_APP_TYPE_SERVER
          netServer,    \* the network server: "none", "listening", "running", "stopped"
          gateLink,      \* m_nFDGate is a connection
          announced, \* the gate at its other end lists the server
          termed,    \* m_bTermed
          pipes,     \* how often pipe() has been called: the last is m_nFDPIPERead
          selects,   \* the pipe the check thread looks at
          bytes,     \* the pipes there is a byte in
          mutexGate, mutexResource, \* who holds them
          check      \* where the check thread is

lifeVars == <<role, main, context, tperr, appType, netServer, gateLink, announced, termed, pipes,
              selects, bytes, mutexGate, mutexResource, check>>

api == <<main, context, tperr>>
lifeGate == <<gateLink, announced>>
wake == <<pipes, selects, bytes>>
mutexes == <<mutexGate, mutexResource>>
Nobody == "nobody"

LifeInit ==
    /\ role \in {"client", "server"}
    /\ main = IF role = "client" THEN "idle" ELSE "starting"
    /\ context = "none" /\ tperr = "none"
    /\ appType = FALSE /\ netServer = "none"
    /\ gateLink = FALSE /\ announced = FALSE /\ termed = FALSE
    /\ pipes = 0 /\ selects = 0 /\ bytes = {}
    /\ mutexGate = Nobody /\ mutexResource = Nobody /\ check = "none"

-----------------------------------------------------------------------------
(* GateCheckThread.                                                        *)

MayConnect == ~termed

\* It may fail: no gate answers.
ConnectGate == IF gateLink \/ ~MayConnect THEN UNCHANGED lifeGate
               ELSE gateLink' \in BOOLEAN /\ announced' = FALSE

\* An answer of RegisterToGate, or none: DisconnectGate.
RegisterToGate ==
    IF gateLink \/ MayConnect
    THEN \/ gateLink' = TRUE /\ announced' = (announced \/ appType)
         \/ gateLink' = FALSE /\ announced' = FALSE
    ELSE UNCHANGED lifeGate

LockGate ==
    /\ check = "lock" /\ mutexGate = Nobody
    /\ mutexGate' = "check" /\ check' = "beat"
    /\ UNCHANGED <<role, api, appType, netServer, lifeGate, termed, wake, mutexResource>>

LifeBeat ==
    /\ check = "beat" /\ RegisterToGate
    /\ check' = "wait" /\ selects' = pipes
    /\ UNCHANGED <<role, api, appType, netServer, termed, pipes, bytes, mutexes>>

\* Of the pipe it selects on, a byte is cleared only if that is the last one.
Awoken ==
    /\ check = "wait" /\ selects \in bytes
    /\ IF selects = pipes
       THEN /\ bytes' = bytes \ {selects}
            /\ check' = "resource" /\ mutexGate' = Nobody /\ UNCHANGED selects
       ELSE selects' = pipes /\ UNCHANGED <<bytes, check, mutexGate>>
    /\ UNCHANGED <<role, api, appType, netServer, lifeGate, termed, pipes, mutexResource>>

\* The interval ends, or the gate closes the connection.
WaitEnds ==
    /\ check = "wait" /\ check' = "resource" /\ mutexGate' = Nobody
    /\ \/ UNCHANGED lifeGate
       \/ gateLink /\ gateLink' = FALSE /\ announced' = FALSE
    /\ UNCHANGED <<role, api, appType, netServer, termed, wake, mutexResource>>

(* A mistake: the check thread does not wait for m_MutexResource. *)
GoesOn == TRUE
MayGo == mutexResource = Nobody

LetOthersGo ==
    /\ check = "resource" /\ MayGo /\ check' = "lock"
    /\ UNCHANGED <<role, api, appType, netServer, lifeGate, termed, wake, mutexes>>

\* The byte that Wakeup writes.
Wakeup == bytes' = bytes \cup {pipes}

-----------------------------------------------------------------------------
(* The functions of the API.                                               *)

Returns(error) == tperr' = error
NotMain == UNCHANGED <<role, appType, netServer, termed, selects, mutexes>>

\* What AppContext::tpinit does the first time: ConfigInit, GateCheckThread::Init
\* (a pipe and a connection) and Start, which starts the thread only once.
FirstInit ==
    /\ pipes < LifePipeMax /\ pipes' = pipes + 1
    /\ ConnectGate
    /\ context' = "inited"
    /\ check' = IF check = "none" THEN "lock" ELSE check
    /\ UNCHANGED bytes

\* tpinit: of a context that is always new.
Tpinit ==
    /\ role = "client" /\ main = "idle"
    /\ \/ context = "none" /\ FirstInit /\ UNCHANGED tperr
       \/ context # "none" /\ Returns("TPEPROTO") /\ UNCHANGED <<context, check, lifeGate, pipes, bytes>>
    /\ UNCHANGED main /\ NotMain

\* pipe() fails: errno is set, tperrno is not, and the context stays.
TpinitFails ==
    /\ role = "client" /\ main = "idle" /\ context = "none"
    /\ context' = "new"
    /\ UNCHANGED <<role, main, tperr, appType, netServer, lifeGate, termed, wake, mutexes, check>>

\* tpcall and the functions that are not implemented need a context, or say so;
\* tpregister, tprun and tpadvertise, of which the test is the wrong way round,
\* refuse when there is one.
Tpcall ==
    /\ role = "client" /\ main = "idle"
    /\ Returns(IF context = "none" THEN "TPEPROTO" ELSE "result")
    /\ UNCHANGED <<role, main, context, appType, netServer, lifeGate, termed, wake, mutexes, check>>
NotImplemented ==
    /\ role = "client" /\ main = "idle"
    /\ Returns("TPEPROTO")
    /\ UNCHANGED <<role, main, context, appType, netServer, lifeGate, termed, wake, mutexes, check>>
Tpadvertise ==
    /\ role = "client" /\ main = "idle" /\ context # "none"
    /\ Returns("TPEPROTO")
    /\ UNCHANGED <<role, main, context, appType, netServer, lifeGate, termed, wake, mutexes, check>>

\* tpterm, first part: GateCheckThread::Term wakes the thread, under m_MutexResource.
Tpterm ==
    /\ \/ role = "client" /\ main = "idle" /\ context # "none"
       \/ role = "server" /\ main = "stopped"
    /\ mutexResource = Nobody /\ mutexResource' = "main"
    /\ IF pipes = 0 THEN UNCHANGED bytes ELSE Wakeup
    /\ main' = IF pipes = 0 THEN "disconnect" ELSE "term"
    /\ UNCHANGED <<role, context, tperr, appType, netServer, lifeGate, termed, pipes, selects, mutexGate, check>>

\* Only with a context.
TptermRefused ==
    /\ role = "client" /\ main = "idle" /\ context = "none"
    /\ Returns("TPEPROTO")
    /\ UNCHANGED <<role, main, context, appType, netServer, lifeGate, termed, wake, mutexes, check>>

\* Under m_MutexGate: m_bTermed, and DisconnectGate.
Term ==
    /\ main = "term" /\ mutexGate = Nobody
    /\ termed' = TRUE /\ gateLink' = FALSE /\ announced' = FALSE
    /\ main' = "disconnect"
    /\ UNCHANGED <<role, context, tperr, appType, netServer, wake, mutexes, check>>

\* The mutexes are left; DisconnectAll, and the context is deleted.
Termed ==
    /\ main = "disconnect"
    /\ mutexResource' = Nobody /\ context' = "none"
    /\ main' = IF role = "client" THEN "idle" ELSE "done"
    /\ UNCHANGED <<role, tperr, appType, netServer, lifeGate, termed, wake, mutexGate, check>>

-----------------------------------------------------------------------------
(* _tmstartserver.                                                         *)

StartServer ==
    /\ main = "starting" /\ context = "none" /\ FirstInit
    /\ main' = "inited"
    /\ UNCHANGED tperr /\ NotMain

IsActive == main = "active"

\* tpregister: the services, ActivateService, SetNetServer and Wakeup.
ActivateService ==
    /\ main = "inited" /\ netServer' = "listening" /\ main' = "active"
    /\ UNCHANGED <<role, context, tperr, appType, lifeGate, termed, wake, mutexes, check>>
SetNetServer ==
    /\ IsActive /\ appType' = TRUE /\ Wakeup
    /\ main' = "registered"
    /\ UNCHANGED <<role, context, tperr, netServer, lifeGate, termed, pipes, selects, mutexes, check>>

\* tpsvrinit may fail: _tmstartserver returns, the process ends.
Tpsvrinit ==
    /\ main = "registered"
    /\ \/ main' = "run" /\ UNCHANGED <<netServer, lifeGate, check>>
       \/ /\ main' = "done" /\ netServer' = "stopped" /\ check' = "none"
          /\ gateLink' = FALSE /\ announced' = FALSE
    /\ UNCHANGED <<role, context, tperr, appType, termed, wake, mutexes>>

\* tprun: until the network server is shut down.
Tprun ==
    /\ \/ main = "run" /\ netServer' = "running" /\ main' = "running"
       \/ main = "running" /\ netServer' = "stopped" /\ main' = "stopped"
    /\ UNCHANGED <<role, context, tperr, appType, lifeGate, termed, wake, mutexes, check>>

Check == LockGate \/ LifeBeat \/ Awoken \/ WaitEnds \/ LetOthersGo
Client == Tpinit \/ TpinitFails \/ Tpcall \/ NotImplemented \/ Tpadvertise \/ TptermRefused
Server == StartServer \/ ActivateService \/ SetNetServer \/ Tpsvrinit \/ Tprun
Done == main = "done" /\ UNCHANGED lifeVars

LifeNext == Check \/ Client \/ Server \/ Tpterm \/ Term \/ Termed \/ Done
LifeSpec == LifeInit /\ [][LifeNext]_lifeVars

\* Both threads run; select returns when the interval is over.
LifeFairness == WF_lifeVars(Check) /\ WF_lifeVars(Term) /\ WF_lifeVars(Termed)

-----------------------------------------------------------------------------
(* After tpterm the application has no connection to a gate, although the  *)
(* check thread goes on with its beats.                                    *)
ClosedAfterTerm == main \in {"idle", "done"} /\ context = "none" => ~gateLink

(* A gate lists the server only when its socket listens, although the      *)
(* check thread beats from before the services are registered; when the    *)
(* network server has been shut down, until tpterm.                        *)
AnnouncedListens ==
    announced => netServer \in {"listening", "running"} \/ main \in {"stopped", "term"}

(* tpterm returns, although the check thread takes m_MutexGate again after *)
(* every wait and may look at a pipe that nobody writes to any more.       *)
TptermReturns == main = "term" ~> main \in {"idle", "done"}

(* An application's life with its gate: of the three above. *)
LifeKept == [](ClosedAfterTerm /\ AnnouncedListens) /\ TptermReturns
=============================================================================
