----------------------------- MODULE ServerCall -----------------------------
(***************************************************************************)
(* tpcall below the gate: the threads of a client pick the servers of a    *)
(* service (LocalServiceStub), call them one after the other until one     *)
(* answers (AppContext), each over the one connection that a ServerProxy   *)
(* keeps to its server and guards with a mutex (ServerProxy, Invoke),      *)
(* while subscriptions replace the proxies and servers answer, close       *)
(* connections, fall silent or end.                                        *)
(*                                                                         *)
(* A proxy is an object with a count of references.  The object made for   *)
(* an address the n-th time is <<address, n>>: the count drops to zero     *)
(* once, and nobody may use the object after that.                         *)
(***************************************************************************)
EXTENDS Integers, Sequences, FiniteSets

CONSTANTS Thread,      \* threads of the process that call
          Service,     \* names of services
          Addr,        \* addresses of servers
          Nil,        \* no proxy, no thread
          Cached,      \* TUXONE_APP_CLIENT_CACHEDCONNECTIONS
          FactorMax,   \* the balance factor counts modulo this: 2^32 in the code
          CallMax,     \* bound: calls of a thread
          CallTotal,   \* bound: calls of all threads together
          GenMax,      \* bound: proxies made for one address
          TermMax      \* bound: calls of tpterm

ASSUME CallAssumption ==
    /\ Cached \in Nat /\ FactorMax \in Nat \ {0}
    /\ CallMax \in Nat /\ CallTotal \in Nat /\ GenMax \in Nat /\ TermMax \in Nat
    /\ IsFiniteSet(Thread) /\ IsFiniteSet(Service) /\ IsFiniteSet(Addr)
    /\ Nil \notin Thread /\ Nil \notin Addr \X (1 .. GenMax)

VARIABLES
    gen,           \* how many proxies have been made for an address
    refs,          \* their counts of references
    destroyed,     \* m_bDestroied
    proxyMap,      \* m_ServerProxyMap: the proxy of an address, or Nil
    items,         \* m_ServiceItemMap: the proxies of a service
    fd,            \* m_nFDServer, and what the server did to the connection
    mutex,         \* who is in CallServer of a proxy
    nFDCount,      \* g_nFDCount, all proxies together
    answers,       \* answers that have come over the connection of a proxy
    requests,      \* requests that have reached a server whole
    inited,        \* m_bInited
    terms,         \* calls of tpterm so far
    pc, callNo, wanted, \* of each thread: where it is, its call, the service
    bDownload,     \* this call has fetched the subscription
    servers, index,    \* the picked proxies, and how many have been called
    cur,           \* the proxy being called
    factor,        \* m_nBalanceFactor of the thread
    first,         \* its value when the call began
    tried,         \* the proxies this call has turned to
    outcome,       \* what Invoke returned, as tpcall sorts it
    disc,          \* the answer asks to disconnect
    status,        \* what each call has come to
    executed       \* how often a service has been executed for it

stubVars     == <<gen, refs, destroyed, proxyMap, items>>
wire     == <<fd, nFDCount, answers, requests>>
life     == <<inited, terms>>
callState == <<callNo, wanted, bDownload, servers, first, status>>
attempt  == <<index, cur, factor, tried, outcome, disc>>
callVars == <<stubVars, wire, life, mutex, pc, callState, attempt, executed>>

Proxy == Addr \X (1 .. GenMax)
CallId  == Thread \X (1 .. CallMax)
Made(p) == p[2] <= gen[p[1]]
This(t) == <<t, callNo[t]>>

CallInit ==
    /\ gen = [a \in Addr |-> 0]
    /\ refs = [p \in Proxy |-> 0]
    /\ destroyed = [p \in Proxy |-> FALSE]
    /\ proxyMap = [a \in Addr |-> Nil]
    /\ items = [s \in Service |-> <<>>]
    /\ fd = [p \in Proxy |-> "none"]
    /\ mutex = [p \in Proxy |-> Nil]
    /\ nFDCount = 0
    /\ answers = [p \in Proxy |-> <<>>]
    /\ requests = {}
    /\ inited = TRUE /\ terms = 0
    /\ pc = [t \in Thread |-> "idle"]
    /\ callNo = [t \in Thread |-> 0]
    /\ wanted \in [Thread -> Service]
    /\ bDownload = [t \in Thread |-> FALSE]
    /\ servers = [t \in Thread |-> <<>>]
    /\ index = [t \in Thread |-> 0]
    /\ cur = [t \in Thread |-> Nil]
    /\ factor = [t \in Thread |-> 0]
    /\ first = [t \in Thread |-> 0]
    /\ tried = [t \in Thread |-> {}]
    /\ outcome = [t \in Thread |-> "next"]
    /\ disc = [t \in Thread |-> FALSE]
    /\ status = [c \in CallId |-> "unborn"]
    /\ executed = [c \in CallId |-> 0]

-----------------------------------------------------------------------------
(* The stub: which proxies there are, and who counts on them.              *)

\* Places of a sequence that hold p.
AtPlace(seq, p) == {k \in DOMAIN seq : seq[k] = p}

\* Where a map D to sequences of at most all addresses holds p.
Places(D, map, p) == {u \in D \X (1 .. Cardinality(Addr)) : u[2] \in AtPlace(map[u[1]], p)}

\* Places of the map of services that hold p.
Uses(its, p) == Places(Service, its, p)

(* A mistake: closing a connection forgets to count it out. *)
ClosedNotCounted(P) ==
    /\ fd' = [p \in Proxy |-> IF p \in P THEN "none" ELSE fd[p]]
    /\ answers' = [p \in Proxy |-> IF p \in P THEN <<>> ELSE answers[p]]
    /\ requests' = {[r EXCEPT !.open = r.open /\ r.proxy \notin P] : r \in requests}
    /\ UNCHANGED nFDCount

\* DecRef to zero deletes the proxy, and its destructor closes the connection.
\* A request on its way to the server has lost its way back.
Closed(P) ==
    /\ fd' = [p \in Proxy |-> IF p \in P THEN "none" ELSE fd[p]]
    /\ nFDCount' = nFDCount - Cardinality({p \in P : fd[p] # "none"})
    /\ answers' = [p \in Proxy |-> IF p \in P THEN <<>> ELSE answers[p]]
    /\ requests' = {[r EXCEPT !.open = r.open /\ r.proxy \notin P] : r \in requests}

Gone(old, new) == {p \in Proxy : old[p] > 0 /\ new[p] = 0}

\* The proxy that an address has after UpdateServiceInfo has asked for it.
CreateServerProxy(a) == IF proxyMap[a] # Nil THEN proxyMap[a] ELSE <<a, gen[a] + 1>>

\* The services of the new map count on p, those of the old no longer.
References(its, p) == Cardinality(Uses(its, p)) - Cardinality(Uses(items, p))

\* UpdateServiceInfo: the proxies of the new subscription are made or found
\* again and counted, the old references given back, and the proxies nobody
\* asked for destroyed: marked, and taken out of the map.  All under m_Mutex.
UpdateServiceInfo(new) ==
    LET named == UNION {{new[s][k] : k \in DOMAIN new[s]} : s \in Service}
        made == {a \in named : proxyMap[a] = Nil}
        its == [s \in Service |-> [k \in DOMAIN new[s] |-> CreateServerProxy(new[s][k])]]
        unused == {proxyMap[a] : a \in {b \in Addr \ named : proxyMap[b] # Nil}}
    IN /\ \A a \in made : gen[a] < GenMax
       /\ gen' = [a \in Addr |-> IF a \in made THEN gen[a] + 1 ELSE gen[a]]
       /\ refs' = [p \in Proxy |->
              refs[p] + (IF p[1] \in made /\ p[2] = gen[p[1]] + 1 THEN 1 ELSE 0)
                      + References(its, p)
                      - (IF p \in unused THEN 1 ELSE 0)]
       /\ destroyed' = [p \in Proxy |-> destroyed[p] \/ p \in unused]
       /\ proxyMap' = [a \in Addr |-> IF a \in named THEN CreateServerProxy(a) ELSE Nil]
       /\ items' = its
       /\ Closed(Gone(refs, refs'))

\* What a gate may answer: each service at some of the addresses, in the
\* order of the bulletin board.
ProxyLists == {q \in UNION {[1 .. k -> Addr] : k \in 0 .. Cardinality(Addr)} :
             \A j, k \in DOMAIN q : j # k => q[j] # q[k]}
Subscriptions == [Service -> ProxyLists]

IsServerOK(p) == ~destroyed[p]

\* PickServers: a counted reference for every usable proxy, under m_Mutex, in
\* the order the proxies have in the map.
PickProxies(t) ==
    /\ LET known == items[wanted[t]]
           usable == {k \in DOMAIN known : IsServerOK(known[k])}
       IN \E turn \in [1 .. Cardinality(usable) -> usable] :
             /\ \A i, j \in DOMAIN turn : i < j => turn[i] < turn[j]
             /\ servers' = [servers EXCEPT ![t] = [i \in DOMAIN turn |-> known[turn[i]]]]
    /\ refs' = [p \in Proxy |-> refs[p] + Cardinality(AtPlace(servers'[t], p))]
    /\ UNCHANGED <<gen, destroyed, proxyMap, items>>

-----------------------------------------------------------------------------
(* tpcall up to the choice of a server.                                    *)

Goto(t, label) == pc' = [pc EXCEPT ![t] = label]

\* tpcall begins; it downloads at once when the gate has sent a notice.
Begin(t, s) ==
    /\ pc[t] = "idle" /\ inited
    /\ callNo[t] < CallMax /\ Cardinality({c \in CallId : status[c] # "unborn"}) < CallTotal
    /\ callNo' = [callNo EXCEPT ![t] = @ + 1]
    /\ wanted' = [wanted EXCEPT ![t] = s]
    /\ first' = [first EXCEPT ![t] = factor[t]]
    /\ status' = [status EXCEPT ![<<t, callNo[t] + 1>>] = "asked"]
    /\ \E label \in {"notice", "pick"} : Goto(t, label)
    /\ UNCHANGED <<stubVars, wire, life, mutex, bDownload, servers, attempt, executed>>

\* DownloadService succeeds: the subscription replaces the proxies.
Download(t) ==
    /\ pc[t] \in {"notice", "fetch"}
    /\ \E new \in Subscriptions : UpdateServiceInfo(new)
    /\ bDownload' = [bDownload EXCEPT ![t] = TRUE]
    /\ Goto(t, IF pc[t] = "notice" THEN "pick" ELSE "repick")
    /\ UNCHANGED <<life, mutex, callNo, wanted, servers, first, status, attempt, executed>>

\* It fails.  After a first pick that found nothing, bFound is then true with
\* no server at all (155): the loop calls nobody.
DownloadFails(t) ==
    /\ pc[t] \in {"notice", "fetch"}
    /\ Goto(t, IF pc[t] = "notice" THEN "pick" ELSE "next")
    /\ UNCHANGED <<stubVars, wire, life, mutex, callState, attempt, executed>>

Pick(t) ==
    /\ pc[t] = "pick"
    /\ PickProxies(t)
    /\ Goto(t, IF servers'[t] # <<>> THEN "next"
               ELSE IF bDownload[t] THEN "repick" ELSE "fetch")
    /\ UNCHANGED <<wire, life, mutex, callNo, wanted, bDownload, first, status, attempt, executed>>

\* The second pick: when it finds nothing, no server offers the service.
Repick(t) ==
    /\ pc[t] = "repick"
    /\ PickProxies(t)
    /\ Goto(t, "next")
    /\ UNCHANGED <<wire, life, mutex, callNo, wanted, bDownload, first, status, attempt, executed>>

-----------------------------------------------------------------------------
(* The loop over the servers, and CallServer.                              *)

Advance(t) == (factor[t] + 1) % FactorMax

\* The next server in turn, by a counter of the thread (207-211).
NextServer(t) ==
    /\ pc[t] = "next"
    /\ index[t] < Len(servers[t])
    /\ cur' = [cur EXCEPT ![t] = servers[t][(factor[t] % Len(servers[t])) + 1]]
    /\ factor' = [factor EXCEPT ![t] = Advance(t)]
    /\ index' = [index EXCEPT ![t] = @ + 1]
    /\ tried' = [tried EXCEPT ![t] = @ \cup {cur'[t]}]
    /\ Goto(t, "lock")
    /\ UNCHANGED <<stubVars, wire, life, mutex, callState, outcome, disc, executed>>

\* CallServer takes the mutex of the proxy, for the whole call.  A destroyed
\* proxy is left at once, as if the connection had failed.
Lock(t) ==
    /\ pc[t] = "lock"
    /\ mutex[cur[t]] = Nil
    /\ IF destroyed[cur[t]]
       THEN UNCHANGED mutex /\ Goto(t, "next")
       ELSE mutex' = [mutex EXCEPT ![cur[t]] = t] /\ Goto(t, "connect")
    /\ UNCHANGED <<stubVars, wire, life, callState, attempt, executed>>

\* ConnectServer: the connection of an earlier call is used again as it is.
Connect(t) ==
    /\ pc[t] = "connect"
    /\ IF fd[cur[t]] # "none"
       THEN UNCHANGED <<fd, nFDCount>>
       ELSE /\ fd' = [fd EXCEPT ![cur[t]] = "open"]
            /\ nFDCount' = nFDCount + 1
    /\ Goto(t, "send")
    /\ UNCHANGED <<stubVars, answers, requests, life, mutex, callState, attempt, executed>>

ConnectFails(t) ==
    /\ pc[t] = "connect" /\ fd[cur[t]] = "none"
    /\ mutex' = [mutex EXCEPT ![cur[t]] = Nil]
    /\ Goto(t, "next")
    /\ UNCHANGED <<stubVars, wire, life, callState, attempt, executed>>

\* Header and body are written.  The server has the request, unless it has
\* closed the connection and the kernel took the bytes all the same.
SendRequest(t) ==
    /\ pc[t] = "send"
    /\ requests' = IF fd[cur[t]] = "open"
                   THEN requests \cup {[callNo |-> This(t), proxy |-> cur[t], open |-> TRUE]}
                   ELSE requests
    /\ Goto(t, "receive")
    /\ UNCHANGED <<stubVars, fd, nFDCount, answers, life, mutex, callState, attempt, executed>>

Verdict(t, o) == outcome' = [outcome EXCEPT ![t] = o]

(* A mistake: a lost answer is taken for a request that was not sent. *)
TryElsewhere(returned) == IF returned = "OK" THEN "ok" ELSE "next"

\* How tpcall sorts what Invoke returns (212-232): the request cannot have
\* reached the server whole, or it may have, or here is the answer.
Sorted(returned) ==
    CASE returned \in {"SEND_HEADER_FAILED", "SEND_HEADER_TIMEOUT", "SEND_BODY_FAILED"} -> "next"
      [] returned \in {"SEND_BODY_TIMEOUT", "RECEIVE_FAILED", "RECEIVE_TIMEOUT",
                  "RECEIVE_PROTOCOL_ERROR", "RECEIVE_OS_ERROR"} -> "stop"
      [] returned = "OK" -> "ok"

\* Only part of header and body was written.
SendFails(t) ==
    /\ pc[t] = "send"
    /\ \E returned \in {"SEND_HEADER_FAILED", "SEND_HEADER_TIMEOUT", "SEND_BODY_FAILED",
                   "SEND_BODY_TIMEOUT"} : Verdict(t, Sorted(returned))
    /\ Goto(t, "close")
    /\ UNCHANGED <<stubVars, wire, life, mutex, callState, index, cur, factor, tried, disc, executed>>

(* A mistake: a connection that timed out is kept like any other. *)
AfterFailureKeep == "leave"

\* After any failure the connection is closed whatever the limit.
AfterFailure == "close"

\* No answer in time, or the connection is at its end, or no message.
ReceiveFails(t) ==
    /\ pc[t] = "receive"
    /\ answers[cur[t]] = <<>>
    /\ \E returned \in {"RECEIVE_FAILED", "RECEIVE_TIMEOUT", "RECEIVE_PROTOCOL_ERROR",
                   "RECEIVE_OS_ERROR"} : Verdict(t, Sorted(returned))
    /\ disc' = [disc EXCEPT ![t] = FALSE]
    /\ Goto(t, AfterFailure)
    /\ UNCHANGED <<stubVars, wire, life, mutex, callState, index, cur, factor, tried, executed>>

\* What tpcall makes of the server's answer (238-327).
ResultOf(code) == CASE code = "SVC_NOT_FOUND" -> "noentry"
                    [] code = "SVC_ERR" -> "failed"
                    [] code = "DONE" -> "answered"

\* The first answer of the connection is taken for the answer to this call.
Receive(t) ==
    /\ pc[t] = "receive"
    /\ answers[cur[t]] # <<>>
    /\ LET rep == Head(answers[cur[t]])
       IN /\ status' = [status EXCEPT ![This(t)] =
                           ResultOf(rep.code)]
          /\ disc' = [disc EXCEPT ![t] = rep.disc]
    /\ answers' = [answers EXCEPT ![cur[t]] = Tail(@)]
    /\ Verdict(t, Sorted("OK"))
    /\ Goto(t, "leave")
    /\ UNCHANGED <<stubVars, fd, nFDCount, requests, life, mutex,
                   callNo, wanted, bDownload, servers, first, index, cur, factor, tried, executed>>

OverLimit == nFDCount > Cached

\* DisconnectServer: on the server's wish, or over the limit of the process.
Leave(t) ==
    /\ pc[t] = "leave"
    /\ IF disc[t] \/ OverLimit
       THEN Goto(t, "close") /\ UNCHANGED mutex
       ELSE Goto(t, "end") /\ mutex' = [mutex EXCEPT ![cur[t]] = Nil]
    /\ UNCHANGED <<stubVars, wire, life, callState, attempt, executed>>

\* The connection is closed and CallServer left: on to the next, or stop.
Close(t) ==
    /\ pc[t] = "close"
    /\ Closed({cur[t]})
    /\ mutex' = [mutex EXCEPT ![cur[t]] = Nil]
    /\ Goto(t, IF outcome[t] = "next" THEN "next" ELSE "end")
    /\ status' = IF outcome[t] = "stop" THEN [status EXCEPT ![This(t)] = "timeout"] ELSE status
    /\ UNCHANGED <<stubVars, life, callNo, wanted, bDownload, servers, first, attempt, executed>>

\* All have been called in vain, or there was none: TPENOENT.
BreakDown(t) ==
    /\ pc[t] = "next"
    /\ index[t] >= Len(servers[t])
    /\ status' = [status EXCEPT ![This(t)] = "noentry"]
    /\ Goto(t, "end")
    /\ UNCHANGED <<stubVars, wire, life, mutex, callNo, wanted, bDownload, servers, first, attempt, executed>>

\* tpcall returns: the holder gives its references back, and what nobody else
\* counts on is deleted.
Return(t) ==
    /\ pc[t] = "end"
    /\ refs' = [p \in Proxy |-> refs[p] - Cardinality(AtPlace(servers[t], p))]
    /\ Closed(Gone(refs, refs'))
    /\ servers' = [servers EXCEPT ![t] = <<>>]
    /\ cur' = [cur EXCEPT ![t] = Nil]
    /\ index' = [index EXCEPT ![t] = 0]
    /\ tried' = [tried EXCEPT ![t] = {}]
    /\ outcome' = [outcome EXCEPT ![t] = "next"]
    /\ disc' = [disc EXCEPT ![t] = FALSE]
    /\ bDownload' = [bDownload EXCEPT ![t] = FALSE]
    /\ Goto(t, "idle")
    /\ UNCHANGED <<gen, destroyed, proxyMap, items, life, mutex,
                   callNo, wanted, first, status, factor, executed>>

-----------------------------------------------------------------------------
(* The server.                                                             *)

\* What a server sends back, and whether the service has run then.  It has
\* if it ended by tpreturn with TPSUCCESS or TPFAIL, and if it returned
\* without (ExecuteServiceMethod); it has not if it is not there or its
\* request cannot be made from the message (CallService).
Endings == {[code |-> "DONE", ran |-> TRUE], [code |-> "SVC_ERR", ran |-> TRUE],
            [code |-> "SVC_ERR", ran |-> FALSE], [code |-> "SVC_NOT_FOUND", ran |-> FALSE]}

\* A request is taken and its answer written, if there is still a connection.
\* A server with many clients asks to disconnect.
Serve(r) ==
    /\ r \in requests
    /\ requests' = requests \ {r}
    /\ \E e \in Endings, d \in BOOLEAN :
          /\ executed' = IF e.ran THEN [executed EXCEPT ![r.callNo] = @ + 1] ELSE executed
          /\ answers' = IF r.open /\ fd[r.proxy] = "open"
                      THEN [answers EXCEPT ![r.proxy] =
                               Append(@, [callNo |-> r.callNo, code |-> e.code, disc |-> d])]
                      ELSE answers
    /\ UNCHANGED <<stubVars, fd, nFDCount, life, mutex, pc, callState, attempt>>

BreakServer(P) == fd' = [p \in Proxy |-> IF p \in P /\ fd[p] = "open" THEN "broken" ELSE fd[p]]

\* A server closes a connection on which nothing has come for a while, or
\* that it cannot read or write.  It has not taken a request from it.
ServerCloses(p) ==
    /\ fd[p] = "open"
    /\ BreakServer({p})
    /\ requests' = {r \in requests : ~(r.open /\ r.proxy = p)}
    /\ UNCHANGED <<stubVars, nFDCount, answers, life, mutex, pc, callState, attempt, executed>>

\* A service runs and ends the process: tpreturn with TPEXIT, or a crash.
ServerExits(r) ==
    /\ r \in requests
    /\ executed' = [executed EXCEPT ![r.callNo] = @ + 1]
    /\ BreakServer({p \in Proxy : p[1] = r.proxy[1]})
    /\ requests' = {q \in requests : q.proxy[1] # r.proxy[1]}
    /\ UNCHANGED <<stubVars, nFDCount, answers, life, mutex, pc, callState, attempt>>

-----------------------------------------------------------------------------
(* tpterm, and tpinit after it.  No thread is in tpcall then: tpterm       *)
(* deletes the context that tpcall uses.                                   *)

Term ==
    /\ inited /\ terms < TermMax
    /\ \A t \in Thread : pc[t] = "idle"
    /\ inited' = FALSE
    /\ terms' = terms + 1
    /\ Closed({p \in Proxy : \E s \in Service : AtPlace(items[s], p) # {}})
    /\ UNCHANGED <<stubVars, mutex, pc, callState, attempt, executed>>

Reinit ==
    /\ ~inited
    /\ inited' = TRUE
    /\ UNCHANGED <<stubVars, wire, terms, mutex, pc, callState, attempt, executed>>

-----------------------------------------------------------------------------
Step(t) ==
    \/ Download(t) \/ DownloadFails(t) \/ Pick(t) \/ Repick(t)
    \/ NextServer(t) \/ Lock(t) \/ Connect(t) \/ ConnectFails(t)
    \/ SendRequest(t) \/ SendFails(t) \/ Receive(t) \/ ReceiveFails(t)
    \/ Leave(t) \/ Close(t) \/ BreakDown(t) \/ Return(t)

Server ==
    \/ \E r \in requests : Serve(r) \/ ServerExits(r)
    \/ \E p \in Proxy : ServerCloses(p)

CallNext ==
    \/ \E t \in Thread, s \in Service : Begin(t, s)
    \/ \E t \in Thread : Step(t)
    \/ Server
    \/ Term
    \/ Reinit

CallSpec == CallInit /\ [][CallNext]_callVars

-----------------------------------------------------------------------------
StubTypes ==
    /\ gen \in [Addr -> 0 .. GenMax]
    /\ refs \in [Proxy -> Nat]
    /\ destroyed \in [Proxy -> BOOLEAN]
    /\ proxyMap \in [Addr -> Proxy \cup {Nil}]
    /\ items \in [Service -> Seq(Proxy)]

Reply == [callNo : CallId, code : {"DONE", "SVC_ERR", "SVC_NOT_FOUND"}, disc : BOOLEAN]
Request == [callNo : CallId, proxy : Proxy, open : BOOLEAN]

WireTypes ==
    /\ fd \in [Proxy -> {"none", "open", "broken"}]
    /\ nFDCount \in Int
    /\ answers \in [Proxy -> Seq(Reply)]
    /\ requests \subseteq Request

ThreadTypes ==
    /\ inited \in BOOLEAN /\ terms \in 0 .. TermMax
    /\ mutex \in [Proxy -> Thread \cup {Nil}]
    /\ pc \in [Thread -> {"idle", "notice", "fetch", "pick", "repick", "next", "lock", "connect",
                          "send", "receive", "leave", "close", "end"}]
    /\ callNo \in [Thread -> 0 .. CallMax]
    /\ wanted \in [Thread -> Service]
    /\ bDownload \in [Thread -> BOOLEAN]
    /\ servers \in [Thread -> Seq(Proxy)]
    /\ first \in [Thread -> 0 .. FactorMax - 1]

AttemptTypes ==
    /\ index \in [Thread -> Nat]
    /\ cur \in [Thread -> Proxy \cup {Nil}]
    /\ factor \in [Thread -> 0 .. FactorMax - 1]
    /\ tried \in [Thread -> SUBSET Proxy]
    /\ outcome \in [Thread -> {"next", "stop", "ok"}]
    /\ disc \in [Thread -> BOOLEAN]

ResultTypes ==
    /\ status \in [CallId -> {"unborn", "asked", "answered", "failed", "noentry", "timeout"}]
    /\ executed \in [CallId -> Nat]

(* The type of every variable. *)
CallTypeOK == StubTypes /\ WireTypes /\ ThreadTypes /\ AttemptTypes /\ ResultTypes

\* Who counts on a proxy: the map of addresses, the services, the calls.
Mapped(p) == IF p \in {proxyMap[a] : a \in Addr} THEN 1 ELSE 0
Holders(p) == Mapped(p) + Cardinality(Uses(items, p)) + Cardinality(Places(Thread, servers, p))

(* No proxy is deleted under somebody who uses it, and none outlives its   *)
(* last user: the count of references is the number of places that hold    *)
(* the proxy, while subscriptions replace the maps under running calls.    *)
RefsCounted == \A p \in Proxy : refs[p] = Holders(p)

(* g_nFDCount, which decides over every proxy whether it may keep its      *)
(* connection, is the number of connections there are: none is counted     *)
(* twice or leaked when proxies are destroyed, picked again or terminated. *)
FDsCounted == nFDCount = Cardinality({p \in Proxy : fd[p] # "none"})

(* Connections that no call uses are not more than the cache allows,       *)
(* whatever the order in which concurrent calls end.                       *)
CacheBounded == Cardinality({p \in Proxy : fd[p] # "none" /\ mutex[p] = Nil}) <= Cached

(* The answer that a call is about to take from a connection is its own: a *)
(* late answer to a call that gave up is never taken for the next one's.   *)
AnswerIsOwn == \A t \in Thread :
    pc[t] = "receive" /\ answers[cur[t]] # <<>> => Head(answers[cur[t]]).callNo = This(t)

(* A call that gives up because every server broke down has turned to      *)
(* every one it picked, and to none twice instead of another: the turns of *)
(* a thread go on from call to call.  Only a call in which the factor      *)
(* wraps may leave one out, since 2^32 is no multiple of every number.     *)
AllTried == \A t \in Thread :
    pc[t] = "next" /\ index[t] = Len(servers[t]) /\ first[t] + index[t] < FactorMax
      => tried[t] = {servers[t][k] : k \in DOMAIN servers[t]}

(* What a call takes for its answer, and when it gives up: both of these.  *)
CallsKept == AnswerIsOwn /\ AllTried

Promise == INSTANCE RemoteCall WITH times <- executed, Call <- CallId

(* tpcall keeps the promise of RemoteCall: executed at most once, answers  *)
(* only after an execution, TPENOENT only for what is never executed.      *)
ImplementsRemoteCall == Promise!Spec

(* The mutex of a proxy is held by a thread that is calling through that   *)
(* proxy and by no other: every way out of a call gives it back, and       *)
(* nobody waits for ever, nor for itself.                                  *)
MutexesGivenBack == \A p \in Proxy : mutex[p] # Nil =>
    cur[mutex[p]] = p /\ pc[mutex[p]] \in {"connect", "send", "receive", "leave", "close"}

(* What concurrent calls and subscriptions share is kept in order:         *)
(* references, connections, their number and mutexes.                      *)
SharedKept == RefsCounted /\ FDsCounted /\ CacheBounded /\ MutexesGivenBack
=============================================================================
