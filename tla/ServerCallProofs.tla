-------------------------- MODULE ServerCallProofs ---------------------------
(***************************************************************************)
(* Theorems about the two sides of a call.  About ServerCall, for any      *)
(* threads, services, addresses and bounds: what the calls share is kept,  *)
(* a call takes its own answer, and tpcall implements RemoteCall.  About   *)
(* Serving, for any workers, buffers, services and bounds: a client is     *)
(* told what its own service has said, with what that has put into its     *)
(* buffer, and the buffer is freed.                                        *)
(***************************************************************************)
EXTENDS ServerCall, Serving, FiniteSetTheorems, SequenceTheorems, TLAPS

-----------------------------------------------------------------------------
(* The inductive invariant. *)

(* Where a thread is in tpcall: before it has picked servers, before it has*)
(* an answer or has given up, inside CallServer.                           *)
Unpicked == {"idle", "notice", "fetch", "pick", "repick"}
Asking == {"notice", "fetch", "pick", "repick", "next", "lock", "connect", "send", "receive"}
Calling == {"connect", "send", "receive", "leave", "close"}

(* The stub: lists are no longer than there are addresses, and the proxy   *)
(* of an address is one that was made for it.                              *)
StubInv ==
  /\ \A s \in Service : Len(items[s]) <= Cardinality(Addr)
  /\ \A a \in Addr : proxyMap[a] # Nil => proxyMap[a][1] = a /\ proxyMap[a][2] <= gen[a]

(* A thread has no servers before it has picked some, and none that it has *)
(* turned to; in CallServer it has a proxy and that one's mutex.           *)
ThreadInv ==
  \A t \in Thread :
    /\ Len(servers[t]) <= Cardinality(Addr)
    /\ pc[t] \in Unpicked => servers[t] = <<>> /\ index[t] = 0 /\ tried[t] = {}
    /\ pc[t] \in Unpicked \cup {"next", "lock", "connect", "send", "receive"} => outcome[t] = "next"
    /\ pc[t] = "leave" => outcome[t] = "ok"
    /\ pc[t] # "idle" => callNo[t] >= 1
    /\ pc[t] = "lock" => cur[t] \in Proxy
    /\ pc[t] \in Calling => cur[t] \in Proxy /\ mutex[cur[t]] = t

(* The call of a thread is open until it has an answer or has given up; all*)
(* before it are settled, all after it unborn.                             *)
Open(t) == pc[t] \in Asking \/ (pc[t] = "close" /\ outcome[t] # "ok")
StatusInv ==
  /\ \A c \in CallId : /\ status[c] = "unborn" <=> callNo[c[1]] < c[2]
                       /\ c[2] < callNo[c[1]] => status[c] # "asked"
  /\ \A t \in Thread : callNo[t] >= 1 => (status[This(t)] = "asked" <=> Open(t))

(* Nothing of the call has reached a server whole.                         *)
Pending(c) == {r \in requests : r.callNo = c}
Unsent(t) == \/ pc[t] \in Asking \ {"receive"}
             \/ pc[t] = "close" /\ outcome[t] = "next"

(* A request is at one server only, and while it waits there the service   *)
(* has not been executed for it.                                           *)
OnceInv ==
  /\ \A c \in CallId : executed[c] \in {0, 1} /\ (status[c] = "unborn" => executed[c] = 0)
  /\ \A r, q \in requests : r.callNo = q.callNo => r = q
  /\ \A r \in requests : executed[r.callNo] = 0 /\ status[r.callNo] \in {"asked", "timeout"}
  /\ \A t \in Thread : Unsent(t) => executed[This(t)] = 0 /\ Pending(This(t)) = {}

(* A request that can still be answered is that of a thread that waits for *)
(* the answer, or that has given up and is about to close the connection.  *)
RequestInv ==
  \A r \in requests : r.open =>
    LET t == r.callNo[1] IN
    pc[t] \in {"receive", "close"} /\ cur[t] = r.proxy /\ r.callNo = This(t)

(* An answer on a connection is the only one and its holder's, and says    *)
(* what has become of the request.                                         *)
AnswerInv ==
  \A p \in Proxy : answers[p] # <<>> =>
    /\ mutex[p] \in Thread /\ pc[mutex[p]] \in {"receive", "close"} /\ Len(answers[p]) = 1
    /\ answers[p][1].callNo = This(mutex[p]) /\ Pending(This(mutex[p])) = {}
    /\ answers[p][1].code = "DONE" => executed[This(mutex[p])] = 1
    /\ answers[p][1].code = "SVC_NOT_FOUND" => executed[This(mutex[p])] = 0

(* The turns of a call: servers one after the other, from the first on.    *)
Turn(t, i) == servers[t][((first[t] + i) % Len(servers[t])) + 1]
TurnInv ==
  \A t \in Thread :
    /\ index[t] <= Len(servers[t])
    /\ pc[t] # "idle" /\ first[t] + index[t] < FactorMax =>
         /\ factor[t] = first[t] + index[t]
         /\ tried[t] = {Turn(t, i) : i \in 0 .. index[t] - 1}

CallInv ==
  /\ CallTypeOK /\ StubInv /\ ThreadInv /\ MutexesGivenBack
  /\ StatusInv /\ OnceInv /\ RequestInv /\ AnswerInv /\ TurnInv
  /\ RefsCounted /\ FDsCounted /\ CacheBounded

-----------------------------------------------------------------------------
(* Lemmas about the operators. *)

LEMMA Sizes ==
  /\ IsFiniteSet(Thread) /\ IsFiniteSet(Service) /\ IsFiniteSet(Addr) /\ IsFiniteSet(Proxy)
  /\ Cardinality(Addr) \in Nat /\ IsFiniteSet(1 .. Cardinality(Addr))
  /\ GenMax \in Nat /\ CallMax \in Nat /\ FactorMax \in Nat \ {0} /\ Cached \in Nat
  /\ TermMax \in Nat /\ Nil \notin Thread /\ Nil \notin Proxy
<1>1. GenMax \in Nat /\ IsFiniteSet(Addr)
  BY CallAssumption
<1>2. IsFiniteSet(1 .. GenMax)
  BY <1>1, FS_Interval
<1>3. IsFiniteSet(Proxy)
  BY <1>1, <1>2, FS_Product DEF Proxy
<1>4. Cardinality(Addr) \in Nat
  BY <1>1, FS_CardinalityType
<1>5. IsFiniteSet(1 .. Cardinality(Addr))
  BY <1>4, FS_Interval
<1>6. QED BY <1>3, <1>4, <1>5, CallAssumption DEF Proxy

LEMMA IntervalSize ==
  ASSUME NEW n \in Nat
  PROVE  IsFiniteSet(1 .. n) /\ Cardinality(1 .. n) = n
<1>1. IsFiniteSet(1 .. n) /\ Cardinality(1 .. n) = IF 1 > n THEN 0 ELSE n - 1 + 1
  BY FS_Interval
<1>2. QED BY <1>1

(* What closing the connections of some proxies leaves of the wire.        *)
LEMMA ClosedWire ==
  ASSUME CallTypeOK, NEW P \in SUBSET Proxy, Closed(P)
  PROVE  /\ fd' \in [Proxy -> {"none", "open", "broken"}]
         /\ nFDCount' \in Int
         /\ answers' \in [Proxy -> Seq(Reply)]
         /\ \A p \in Proxy : answers'[p] # <<>> => p \notin P /\ answers'[p] = answers[p]
         /\ \A p \in Proxy : fd'[p] = IF p \in P THEN "none" ELSE fd[p]
<1>1. Cardinality({p \in P : fd[p] # "none"}) \in Nat
  <2>1. IsFiniteSet({p \in P : fd[p] # "none"})
    BY Sizes, FS_Subset
  <2>2. QED BY <2>1, FS_CardinalityType
<1>2. nFDCount' \in Int
  BY <1>1 DEF Closed, CallTypeOK, WireTypes
<1>3. fd' \in [Proxy -> {"none", "open", "broken"}]
  BY DEF Closed, CallTypeOK, WireTypes
<1>4. answers' \in [Proxy -> Seq(Reply)]
  <2> DEFINE replies == Seq(Reply)
  <2>1. answers \in [Proxy -> replies]
    BY DEF CallTypeOK, WireTypes
  <2>2. <<>> \in replies
    OBVIOUS
  <2> HIDE DEF replies
  <2>3. answers' \in [Proxy -> replies]
    BY <2>1, <2>2 DEF Closed
  <2>4. QED BY <2>3 DEF replies
<1>5. QED BY <1>2, <1>3, <1>4 DEF Closed

LEMMA ClosedRequests ==
  ASSUME CallTypeOK, NEW P \in SUBSET Proxy, Closed(P)
  PROVE  /\ requests' \subseteq Request
         /\ \A r \in requests' : \E q \in requests :
              /\ r = [q EXCEPT !.open = q.open /\ q.proxy \notin P]
              /\ r.callNo = q.callNo /\ r.proxy = q.proxy /\ (r.open => q.open /\ q.proxy \notin P)
<1>1. ASSUME NEW r \in requests'
      PROVE  /\ r \in Request
             /\ \E q \in requests :
                  /\ r = [q EXCEPT !.open = q.open /\ q.proxy \notin P]
                  /\ r.callNo = q.callNo /\ r.proxy = q.proxy /\ (r.open => q.open /\ q.proxy \notin P)
  <2>1. PICK q \in requests : r = [q EXCEPT !.open = q.open /\ q.proxy \notin P]
    BY <1>1 DEF Closed
  <2>2. q \in Request
    BY DEF CallTypeOK, WireTypes
  <2>3. (q.open /\ q.proxy \notin P) \in BOOLEAN
    OBVIOUS
  <2>4. QED BY <2>1, <2>2, <2>3 DEF Request
<1>2. QED BY <1>1

(* What a subscription leaves of the stub.                                 *)
LEMMA UpdatedStub ==
  ASSUME CallTypeOK, StubInv, NEW new \in Subscriptions, UpdateServiceInfo(new)
  PROVE  /\ gen' \in [Addr -> 0 .. GenMax] /\ destroyed' \in [Proxy -> BOOLEAN]
         /\ proxyMap' \in [Addr -> Proxy \cup {Nil}] /\ items' \in [Service -> Seq(Proxy)]
         /\ StubInv'
<1> DEFINE named == UNION {{new[s][k] : k \in DOMAIN new[s]} : s \in Service}
           made == {a \in named : proxyMap[a] = Nil}
           its == [s \in Service |-> [k \in DOMAIN new[s] |-> CreateServerProxy(new[s][k])]]
           unused == {proxyMap[a] : a \in {b \in Addr \ named : proxyMap[b] # Nil}}
<1>1. /\ \A a \in made : gen[a] < GenMax
      /\ gen' = [a \in Addr |-> IF a \in made THEN gen[a] + 1 ELSE gen[a]]
      /\ destroyed' = [p \in Proxy |-> destroyed[p] \/ p \in unused]
      /\ proxyMap' = [a \in Addr |-> IF a \in named THEN CreateServerProxy(a) ELSE Nil]
      /\ items' = its
  BY DEF UpdateServiceInfo
<1>2. \A s \in Service : \E n \in 0 .. Cardinality(Addr) : new[s] \in [1 .. n -> Addr]
  BY DEF Subscriptions, ProxyLists
<1>3. /\ named \subseteq Addr
      /\ \A a : a \in made <=> a \in named /\ proxyMap[a] = Nil
      /\ \A s \in Service : \A k \in DOMAIN new[s] : new[s][k] \in named
  BY <1>2
<1> HIDE DEF named, made, unused
<1>4. gen' \in [Addr -> 0 .. GenMax]
  BY <1>1, Sizes DEF CallTypeOK, StubTypes
<1>5. ASSUME NEW a \in named
      PROVE  /\ CreateServerProxy(a) \in Proxy
             /\ CreateServerProxy(a)[1] = a /\ CreateServerProxy(a)[2] <= gen'[a]
  <2>1. CASE proxyMap[a] = Nil
    <3>1. gen[a] < GenMax /\ gen'[a] = gen[a] + 1 /\ gen[a] \in 0 .. GenMax /\ a \in Addr
      BY <1>1, <1>3, <1>5, <2>1 DEF CallTypeOK, StubTypes
    <3>2. QED BY <2>1, <3>1, Sizes DEF CreateServerProxy, Proxy
  <2>2. CASE proxyMap[a] # Nil
    <3>1. a \in Addr /\ gen'[a] = gen[a] /\ proxyMap[a] \in Proxy
      BY <1>1, <1>3, <1>5, <2>2 DEF CallTypeOK, StubTypes
    <3>2. QED BY <2>2, <3>1 DEF CreateServerProxy, StubInv
  <2>3. QED BY <2>1, <2>2
<1>6. proxyMap' \in [Addr -> Proxy \cup {Nil}]
  BY <1>1, <1>5
<1>7. ASSUME NEW s \in Service
      PROVE  its[s] \in Seq(Proxy) /\ Len(its[s]) <= Cardinality(Addr)
  <2>1. PICK n \in 0 .. Cardinality(Addr) : new[s] \in [1 .. n -> Addr]
    BY <1>2
  <2>2. n \in Nat /\ its[s] \in [1 .. n -> Proxy]
    BY <1>3, <1>5, <2>1, Sizes
  <2>3. QED BY <2>1, <2>2, Sizes
<1>8. items' \in [Service -> Seq(Proxy)]
  BY <1>1, <1>7
<1>9. StubInv'
  BY <1>1, <1>5, <1>7, Sizes DEF StubInv
<1>10. destroyed' \in [Proxy -> BOOLEAN]
  BY <1>1 DEF CallTypeOK, StubTypes
<1>11. QED BY <1>4, <1>6, <1>8, <1>9, <1>10

(* What PickServers gives a thread.                                        *)
LEMMA Picked ==
  ASSUME CallTypeOK, StubInv, NEW t \in Thread, PickProxies(t)
  PROVE  /\ servers' \in [Thread -> Seq(Proxy)]
         /\ Len(servers'[t]) <= Cardinality(Addr)
         /\ \A u \in Thread : u # t => servers'[u] = servers[u]
<1> DEFINE known == items[wanted[t]]
           usable == {k \in DOMAIN known : IsServerOK(known[k])}
<1>1. known \in Seq(Proxy) /\ Len(known) \in Nat /\ Len(known) <= Cardinality(Addr)
  BY DEF CallTypeOK, ThreadTypes, StubTypes, StubInv
<1>2. PICK turn \in [1 .. Cardinality(usable) -> usable] :
        servers' = [servers EXCEPT ![t] = [i \in DOMAIN turn |-> known[turn[i]]]]
  BY DEF PickProxies
<1>3. Cardinality(usable) \in Nat /\ Cardinality(usable) <= Len(known)
  <2>1. IsFiniteSet(1 .. Len(known)) /\ Cardinality(1 .. Len(known)) = Len(known)
    BY <1>1, IntervalSize
  <2>2. usable \in SUBSET (1 .. Len(known))
    BY <1>1
  <2>3. QED BY <2>1, <2>2, FS_Subset, FS_CardinalityType
<1> DEFINE n == Cardinality(usable)
           got == [i \in DOMAIN turn |-> known[turn[i]]]
<1>4. got \in [1 .. n -> Proxy]
  <2>1. \A i \in 1 .. n : turn[i] \in 1 .. Len(known)
    BY <1>1, <1>2
  <2> HIDE DEF known
  <2>2. \A i \in 1 .. n : known[turn[i]] \in Proxy
    BY <1>1, <2>1
  <2>3. DOMAIN turn = 1 .. n
    BY <1>2
  <2>4. QED BY <2>2, <2>3
<1>5. got \in Seq(Proxy) /\ Len(got) = n
  <2> HIDE DEF got, n
  <2>1. n \in Nat
    BY <1>3 DEF n
  <2>2. QED BY <1>4, <2>1
<1>6. servers' = [servers EXCEPT ![t] = got] /\ n <= Cardinality(Addr)
  BY <1>1, <1>2, <1>3, Sizes
<1> HIDE DEF got, n
<1>7. QED BY <1>5, <1>6 DEF CallTypeOK, ThreadTypes, StubTypes

-----------------------------------------------------------------------------
(* Types. *)

(* The parts of the state that a step leaves alone keep their types.       *)
LEMMA TypesStand ==
  /\ StubTypes /\ UNCHANGED stubVars => StubTypes'
  /\ WireTypes /\ UNCHANGED wire => WireTypes'
  /\ AttemptTypes /\ UNCHANGED attempt => AttemptTypes'
  /\ ResultTypes /\ UNCHANGED <<status, executed>> => ResultTypes'
  /\ ThreadTypes /\ UNCHANGED <<life, mutex, callNo, wanted, bDownload, servers, first>>
       /\ pc' \in [Thread -> {"idle", "notice", "fetch", "pick", "repick", "next", "lock", "connect",
                               "send", "receive", "leave", "close", "end"}] => ThreadTypes'
<1>1. StubTypes /\ UNCHANGED stubVars => StubTypes'
  BY DEF stubVars, StubTypes
<1>2. WireTypes /\ UNCHANGED wire => WireTypes'
  BY DEF wire, WireTypes
<1>3. AttemptTypes /\ UNCHANGED attempt => AttemptTypes'
  BY DEF attempt, AttemptTypes
<1>4. QED BY <1>1, <1>2, <1>3 DEF life, ResultTypes, ThreadTypes

(* Every variable keeps its type; that of the counts of references follows *)
(* from what they count.                                                   *)
LEMMA TypesKept ==
  ASSUME CallTypeOK, StubInv, ThreadInv, [CallNext]_callVars, refs' \in [Proxy -> Nat]
  PROVE  CallTypeOK'
<1> USE Sizes DEF CallTypeOK, stubVars, wire, life, callState, attempt, Goto
<1>1. ASSUME NEW t \in Thread, NEW s \in Service, Begin(t, s)
      PROVE  CallTypeOK'
  <2>1. first' \in [Thread -> 0 .. FactorMax - 1]
    BY <1>1 DEF ThreadTypes, AttemptTypes, Begin
  <2>2. callNo' \in [Thread -> 0 .. CallMax]
    BY <1>1 DEF ThreadTypes, Begin
  <2>3. pc' = [pc EXCEPT ![t] = "notice"] \/ pc' = [pc EXCEPT ![t] = "pick"]
    BY <1>1 DEF Begin
  <2>4. ThreadTypes'
    BY <1>1, <2>1, <2>2, <2>3 DEF ThreadTypes, Begin
  <2>5. AttemptTypes'
    BY <1>1 DEF AttemptTypes, Begin
  <2>6. ResultTypes'
    BY <1>1 DEF ResultTypes, Begin
  <2>7. QED BY <1>1, TypesStand, <2>4, <2>5, <2>6 DEF Begin
<1>2. ASSUME NEW t \in Thread, DownloadFails(t)
      PROVE  CallTypeOK'
  <2>1. ThreadTypes'
    BY <1>2 DEF ThreadTypes, DownloadFails
  <2>2. QED BY <1>2, TypesStand, <2>1 DEF DownloadFails
<1>3. ASSUME NEW t \in Thread, NextServer(t)
      PROVE  CallTypeOK'
  <2>1. cur'[t] \in Proxy /\ cur' = [cur EXCEPT ![t] = cur'[t]]
    BY SMTT(30), <1>3 DEF NextServer, ThreadTypes, AttemptTypes
  <2>2. factor' = [factor EXCEPT ![t] = Advance(t)] /\ Advance(t) \in 0 .. FactorMax - 1
    BY <1>3 DEF NextServer, Advance, AttemptTypes
  <2>3. cur' \in [Thread -> Proxy \cup {Nil}] /\ tried' \in [Thread -> SUBSET Proxy]
    BY <1>3, <2>1 DEF NextServer, AttemptTypes
  <2>4. index' \in [Thread -> Nat]
    BY <1>3 DEF NextServer, AttemptTypes
  <2>5. ThreadTypes'
    BY <1>3 DEF ThreadTypes, NextServer
  <2>6. AttemptTypes'
    BY <1>3, <2>1, <2>2, <2>3, <2>4 DEF AttemptTypes, NextServer
  <2>7. QED BY <1>3, TypesStand, <2>5, <2>6 DEF NextServer
<1>4. ASSUME NEW t \in Thread, Lock(t)
      PROVE  CallTypeOK'
  <2>1. mutex' = mutex \/ mutex' = [mutex EXCEPT ![cur[t]] = t]
    BY <1>4 DEF Lock
  <2>2. mutex' \in [Proxy -> Thread \cup {Nil}]
    BY <2>1 DEF ThreadTypes
  <2>3. pc' = [pc EXCEPT ![t] = "next"] \/ pc' = [pc EXCEPT ![t] = "connect"]
    BY <1>4 DEF Lock
  <2>4. ThreadTypes'
    BY <1>4, <2>2, <2>3 DEF ThreadTypes, Lock
  <2>5. QED BY <1>4, TypesStand, <2>4 DEF Lock
<1>5. ASSUME NEW t \in Thread, Connect(t)
      PROVE  CallTypeOK'
  <2>1. fd' = fd \/ fd' = [fd EXCEPT ![cur[t]] = "open"]
    BY <1>5 DEF Connect
  <2>2. nFDCount' \in Int
    BY <1>5 DEF Connect, WireTypes
  <2>3. ThreadTypes'
    BY <1>5 DEF ThreadTypes, Connect
  <2>4. WireTypes'
    BY <1>5, <2>1, <2>2 DEF WireTypes, Connect
  <2>5. QED BY <1>5, TypesStand, <2>3, <2>4 DEF Connect
<1>6. ASSUME NEW t \in Thread, ConnectFails(t)
      PROVE  CallTypeOK'
  <2>1. ThreadTypes'
    BY <1>6 DEF ThreadTypes, ConnectFails
  <2>2. QED BY <1>6, TypesStand, <2>1 DEF ConnectFails
<1>7. ASSUME NEW t \in Thread, SendFails(t)
      PROVE  CallTypeOK'
  <2>1. ThreadTypes'
    BY <1>7 DEF ThreadTypes, SendFails
  <2>2. AttemptTypes'
    BY <1>7 DEF AttemptTypes, SendFails, Verdict, Sorted
  <2>3. QED BY <1>7, TypesStand, <2>1, <2>2 DEF SendFails
<1>8. ASSUME NEW t \in Thread, ReceiveFails(t)
      PROVE  CallTypeOK'
  <2>1. ThreadTypes'
    BY <1>8 DEF ThreadTypes, ReceiveFails, AfterFailure
  <2>2. AttemptTypes'
    BY <1>8 DEF AttemptTypes, ReceiveFails, Verdict, Sorted
  <2>3. QED BY <1>8, TypesStand, <2>1, <2>2 DEF ReceiveFails
<1>9. ASSUME NEW t \in Thread, Leave(t)
      PROVE  CallTypeOK'
  <2>1. ThreadTypes'
    BY <1>9 DEF ThreadTypes, Leave
  <2>2. QED BY <1>9, TypesStand, <2>1 DEF Leave
<1>10. ASSUME NEW t \in Thread, BreakDown(t)
      PROVE  CallTypeOK'
  <2>1. ThreadTypes'
    BY <1>10 DEF ThreadTypes, BreakDown
  <2>2. ResultTypes'
    BY <1>10 DEF ResultTypes, BreakDown
  <2>3. QED BY <1>10, TypesStand, <2>1, <2>2 DEF BreakDown
<1>11. ASSUME NEW t \in Thread, Pick(t)
      PROVE  CallTypeOK'
  <2>1. servers' \in [Thread -> Seq(Proxy)]
    BY <1>11, Picked DEF Pick
  <2>2. ThreadTypes'
    BY <1>11, <2>1 DEF ThreadTypes, Pick
  <2>3. StubTypes'
    BY <1>11 DEF StubTypes, Pick, PickProxies
  <2>4. QED BY <1>11, TypesStand, <2>2, <2>3 DEF Pick
<1>12. ASSUME NEW t \in Thread, Repick(t)
      PROVE  CallTypeOK'
  <2>1. servers' \in [Thread -> Seq(Proxy)]
    BY <1>12, Picked DEF Repick
  <2>2. ThreadTypes'
    BY <1>12, <2>1 DEF ThreadTypes, Repick
  <2>3. StubTypes'
    BY <1>12 DEF StubTypes, Repick, PickProxies
  <2>4. QED BY <1>12, TypesStand, <2>2, <2>3 DEF Repick
<1>13. ASSUME NEW t \in Thread, Download(t)
      PROVE  CallTypeOK'
  <2>1. \E new \in Subscriptions : UpdateServiceInfo(new)
    BY <1>13 DEF Download
  <2>2. Closed(Gone(refs, refs')) /\ Gone(refs, refs') \in SUBSET Proxy
    BY <2>1 DEF UpdateServiceInfo, Gone
  <2>3. ThreadTypes'
    BY <1>13 DEF ThreadTypes, Download
  <2>4. StubTypes'
    BY <2>1, UpdatedStub DEF StubTypes
  <2>5. WireTypes'
    BY <2>2, ClosedWire, ClosedRequests DEF WireTypes
  <2>6. QED BY <1>13, TypesStand, <2>3, <2>4, <2>5 DEF Download
<1>14. ASSUME NEW t \in Thread, SendRequest(t)
      PROVE  CallTypeOK'
  <2>1. This(t) \in CallId /\ cur[t] \in Proxy
    BY <1>14 DEF ThreadTypes, ThreadInv, SendRequest, This, CallId, Calling, Unpicked
  <2>2. [callNo |-> This(t), proxy |-> cur[t], open |-> TRUE] \in Request
    BY <2>1 DEF Request
  <2>3. requests' \subseteq Request
    BY <1>14, <2>2 DEF WireTypes, SendRequest
  <2>4. ThreadTypes'
    BY <1>14 DEF ThreadTypes, SendRequest
  <2>5. WireTypes'
    BY <1>14, <2>3 DEF WireTypes, SendRequest
  <2>6. QED BY <1>14, TypesStand, <2>4, <2>5 DEF SendRequest
<1>15. ASSUME NEW t \in Thread, Receive(t)
      PROVE  CallTypeOK'
  <2>1. cur[t] \in Proxy
    BY <1>15 DEF ThreadTypes, ThreadInv, Receive, Calling, Unpicked
  <2>2. answers[cur[t]] \in Seq(Reply)
    BY <2>1 DEF WireTypes
  <2>3. Head(answers[cur[t]]) \in Reply /\ Tail(answers[cur[t]]) \in Seq(Reply)
    BY <1>15, <2>2, HeadTailProperties DEF Receive
  <2>4. ThreadTypes'
    BY <1>15 DEF ThreadTypes, Receive
  <2>5. WireTypes'
    BY <1>15, <2>3 DEF WireTypes, Receive
  <2>6. AttemptTypes'
    BY <1>15, <2>3 DEF AttemptTypes, Receive, Verdict, Sorted, Reply
  <2>7. ResultTypes'
    BY <1>15, <2>3 DEF ResultTypes, Receive, ResultOf, Reply
  <2>8. QED BY <1>15, TypesStand, <2>4, <2>5, <2>6, <2>7 DEF Receive
<1>16. ASSUME NEW t \in Thread, Close(t)
      PROVE  CallTypeOK'
  <2>1. cur[t] \in Proxy /\ {cur[t]} \in SUBSET Proxy /\ Closed({cur[t]})
    BY <1>16 DEF ThreadTypes, ThreadInv, Close, Calling, Unpicked
  <2>2. ThreadTypes'
    BY <1>16 DEF ThreadTypes, Close
  <2>3. WireTypes'
    BY <2>1, ClosedWire, ClosedRequests DEF WireTypes
  <2>4. ResultTypes'
    BY <1>16 DEF ResultTypes, Close
  <2>5. QED BY <1>16, TypesStand, <2>2, <2>3, <2>4 DEF Close
<1>17. ASSUME NEW t \in Thread, Return(t)
      PROVE  CallTypeOK'
  <2>1. Closed(Gone(refs, refs')) /\ Gone(refs, refs') \in SUBSET Proxy
    BY <1>17 DEF Return, Gone
  <2>2. ThreadTypes'
    BY <1>17 DEF ThreadTypes, Return
  <2>3. StubTypes'
    BY <1>17 DEF StubTypes, Return
  <2>4. WireTypes'
    BY <2>1, ClosedWire, ClosedRequests DEF WireTypes
  <2>5. AttemptTypes'
    BY <1>17 DEF AttemptTypes, Return
  <2>6. QED BY <1>17, TypesStand, <2>2, <2>3, <2>4, <2>5 DEF Return
<1>18. ASSUME NEW r \in requests, Serve(r)
      PROVE  CallTypeOK'
  <2>1. r \in Request /\ r.callNo \in CallId /\ r.proxy \in Proxy /\ executed[r.callNo] + 1 \in Nat
    BY <1>18 DEF WireTypes, ResultTypes, Request
  <2>2. PICK e \in Endings, d \in BOOLEAN :
          /\ executed' = IF e.ran THEN [executed EXCEPT ![r.callNo] = @ + 1] ELSE executed
          /\ answers' = IF r.open /\ fd[r.proxy] = "open"
                        THEN [answers EXCEPT ![r.proxy] =
                                 Append(@, [callNo |-> r.callNo, code |-> e.code, disc |-> d])]
                        ELSE answers
    BY <1>18 DEF Serve
  <2>3. [callNo |-> r.callNo, code |-> e.code, disc |-> d] \in Reply
    BY <2>1 DEF Endings, Reply
  <2>4. answers' \in [Proxy -> Seq(Reply)]
    BY <2>1, <2>2, <2>3, AppendProperties DEF WireTypes
  <2>5. WireTypes'
    BY <1>18, <2>4 DEF WireTypes, Serve
  <2>6. ResultTypes'
    BY <1>18, <2>1, <2>2 DEF ResultTypes, Serve
  <2>7. ThreadTypes'
    BY <1>18 DEF ThreadTypes, Serve
  <2>8. QED BY <1>18, TypesStand, <2>5, <2>6, <2>7 DEF Serve
<1>19. ASSUME NEW r \in requests, ServerExits(r)
      PROVE  CallTypeOK'
  <2>1. r.callNo \in CallId /\ executed[r.callNo] + 1 \in Nat
    BY <1>19 DEF WireTypes, ResultTypes, Request
  <2>2. WireTypes'
    BY <1>19 DEF WireTypes, ServerExits, BreakServer
  <2>3. ResultTypes'
    BY <1>19, <2>1 DEF ResultTypes, ServerExits
  <2>4. ThreadTypes'
    BY <1>19 DEF ThreadTypes, ServerExits
  <2>5. QED BY <1>19, TypesStand, <2>2, <2>3, <2>4 DEF ServerExits
<1>20. ASSUME NEW p \in Proxy, ServerCloses(p)
      PROVE  CallTypeOK'
  <2>1. WireTypes'
    BY <1>20 DEF WireTypes, ServerCloses, BreakServer
  <2>2. ThreadTypes'
    BY <1>20 DEF ThreadTypes, ServerCloses
  <2>3. QED BY <1>20, TypesStand, <2>1, <2>2 DEF ServerCloses
<1>21. ASSUME Term
      PROVE  CallTypeOK'
  <2>1. \E P \in SUBSET Proxy : Closed(P)
    BY <1>21 DEF Term
  <2>2. terms' \in 0 .. TermMax
    BY <1>21 DEF Term, ThreadTypes
  <2>3. ThreadTypes'
    BY <1>21, <2>2 DEF Term, ThreadTypes
  <2>4. WireTypes'
    BY <2>1, ClosedWire, ClosedRequests DEF WireTypes
  <2>5. ResultTypes'
    BY <1>21 DEF ResultTypes, Term
  <2>6. QED BY <1>21, TypesStand, <2>3, <2>4, <2>5 DEF Term
<1>22. ASSUME Reinit
      PROVE  CallTypeOK'
  <2>1. ThreadTypes'
    BY <1>22 DEF ThreadTypes, Reinit
  <2>2. ResultTypes'
    BY <1>22 DEF ResultTypes, Reinit
  <2>3. QED BY <1>22, TypesStand, <2>1, <2>2 DEF Reinit
<1>23. CASE UNCHANGED callVars
  BY <1>23, TypesStand DEF callVars, ThreadTypes
<1>24. QED BY <1>1, <1>2, <1>3, <1>4, <1>5, <1>6, <1>7, <1>8, <1>9, <1>10, <1>11, <1>12, <1>13,
             <1>14, <1>15, <1>16, <1>17, <1>18, <1>19, <1>20, <1>21, <1>22, <1>23 DEF CallNext,
             Step, Server

-----------------------------------------------------------------------------
(* Threads and mutexes. *)

(* A thread of whose variables nothing changes stays sound, and mutexes    *)
(* stay with their holders, when at most the mutex of its own proxy goes   *)
(* to or from the one thread that takes a step.                            *)
LEMMA ThreadsKept ==
  ASSUME CallTypeOK, StubInv, ThreadInv, MutexesGivenBack, [CallNext]_callVars
  PROVE  ThreadInv' /\ MutexesGivenBack'
<1> USE Sizes DEF CallTypeOK, ThreadTypes, AttemptTypes, ThreadInv, MutexesGivenBack, stubVars,
             wire, life, callState,
                  attempt, Goto, Unpicked, Calling
<1>1. ASSUME NEW t \in Thread, NEW s \in Service, Begin(t, s)
      PROVE  ThreadInv' /\ MutexesGivenBack'
  <2>1. ThreadInv'
    BY SMTT(30), <1>1 DEF Begin
  <2>2. ASSUME NEW m \in Proxy, mutex'[m] # Nil
        PROVE  cur'[mutex'[m]] = m /\ pc'[mutex'[m]] \in Calling
    BY <2>2, <1>1 DEF Begin
  <2>3. QED BY <2>1, <2>2
<1>2. ASSUME NEW t \in Thread, DownloadFails(t)
      PROVE  ThreadInv' /\ MutexesGivenBack'
  <2>1. ThreadInv'
    BY <1>2 DEF DownloadFails
  <2>2. ASSUME NEW m \in Proxy, mutex'[m] # Nil
        PROVE  cur'[mutex'[m]] = m /\ pc'[mutex'[m]] \in Calling
    BY <2>2, <1>2 DEF DownloadFails
  <2>3. QED BY <2>1, <2>2
<1>3. ASSUME NEW t \in Thread, NextServer(t)
      PROVE  ThreadInv' /\ MutexesGivenBack'
  <2>1. ThreadInv'
    BY SMTT(30), <1>3 DEF NextServer
  <2>2. ASSUME NEW m \in Proxy, mutex'[m] # Nil
        PROVE  cur'[mutex'[m]] = m /\ pc'[mutex'[m]] \in Calling
    BY <2>2, <1>3 DEF NextServer
  <2>3. QED BY <2>1, <2>2
<1>4. ASSUME NEW t \in Thread, Lock(t)
      PROVE  ThreadInv' /\ MutexesGivenBack'
  <2>1. pc[t] = "lock" /\ mutex[cur[t]] = Nil
        /\ UNCHANGED <<servers, index, cur, tried, outcome, callNo>>
    BY <1>4 DEF Lock
  <2>2. \/ mutex' = mutex /\ pc' = [pc EXCEPT ![t] = "next"]
        \/ mutex' = [mutex EXCEPT ![cur[t]] = t] /\ pc' = [pc EXCEPT ![t] = "connect"]
    BY <1>4 DEF Lock
  <2>3. ThreadInv'
    BY <2>1, <2>2
  <2>4. ASSUME NEW m \in Proxy, mutex'[m] # Nil
        PROVE  cur'[mutex'[m]] = m /\ pc'[mutex'[m]] \in Calling
    <3>1. mutex[m] \in Thread => cur[mutex[m]] = m /\ pc[mutex[m]] \in Calling
      BY <2>1
    <3>2. CASE mutex' = mutex /\ pc' = [pc EXCEPT ![t] = "next"]
      BY <3>1, <3>2, <2>4, <2>1
    <3>3. CASE mutex' = [mutex EXCEPT ![cur[t]] = t] /\ pc' = [pc EXCEPT ![t] = "connect"]
      BY SMTT(30), <3>1, <3>3, <2>4, <2>1
    <3>4. QED BY <3>2, <3>3, <2>2
  <2>5. QED BY <2>3, <2>4
<1>5. ASSUME NEW t \in Thread, Connect(t)
      PROVE  ThreadInv' /\ MutexesGivenBack'
  <2>1. ThreadInv'
    BY <1>5 DEF Connect
  <2>2. ASSUME NEW m \in Proxy, mutex'[m] # Nil
        PROVE  cur'[mutex'[m]] = m /\ pc'[mutex'[m]] \in Calling
    BY <2>2, <1>5 DEF Connect
  <2>3. QED BY <2>1, <2>2
<1>6. ASSUME NEW t \in Thread, ConnectFails(t)
      PROVE  ThreadInv' /\ MutexesGivenBack'
  <2>1. ThreadInv'
    BY <1>6 DEF ConnectFails
  <2>2. ASSUME NEW m \in Proxy, mutex'[m] # Nil
        PROVE  cur'[mutex'[m]] = m /\ pc'[mutex'[m]] \in Calling
    BY <2>2, <1>6 DEF ConnectFails
  <2>3. QED BY <2>1, <2>2
<1>7. ASSUME NEW t \in Thread, SendRequest(t)
      PROVE  ThreadInv' /\ MutexesGivenBack'
  <2>1. ThreadInv'
    BY <1>7 DEF SendRequest
  <2>2. ASSUME NEW m \in Proxy, mutex'[m] # Nil
        PROVE  cur'[mutex'[m]] = m /\ pc'[mutex'[m]] \in Calling
    BY <2>2, <1>7 DEF SendRequest
  <2>3. QED BY <2>1, <2>2
<1>8. ASSUME NEW t \in Thread, SendFails(t)
      PROVE  ThreadInv' /\ MutexesGivenBack'
  <2>1. ThreadInv'
    BY SMTT(30), <1>8 DEF SendFails, Verdict, Sorted
  <2>2. ASSUME NEW m \in Proxy, mutex'[m] # Nil
        PROVE  cur'[mutex'[m]] = m /\ pc'[mutex'[m]] \in Calling
    BY <2>2, <1>8 DEF SendFails, Verdict, Sorted
  <2>3. QED BY <2>1, <2>2
<1>9. ASSUME NEW t \in Thread, ReceiveFails(t)
      PROVE  ThreadInv' /\ MutexesGivenBack'
  <2>1. ThreadInv'
    BY SMTT(30), <1>9 DEF ReceiveFails, Verdict, Sorted, AfterFailure
  <2>2. ASSUME NEW m \in Proxy, mutex'[m] # Nil
        PROVE  cur'[mutex'[m]] = m /\ pc'[mutex'[m]] \in Calling
    BY <2>2, <1>9 DEF ReceiveFails, Verdict, Sorted, AfterFailure
  <2>3. QED BY <2>1, <2>2
<1>10. ASSUME NEW t \in Thread, Receive(t)
      PROVE  ThreadInv' /\ MutexesGivenBack'
  <2>1. pc' = [pc EXCEPT ![t] = "leave"] /\ outcome' = [outcome EXCEPT ![t] = "ok"]
        /\ pc[t] = "receive" /\ UNCHANGED <<mutex, callNo, servers, index, cur, tried>>
    BY <1>10 DEF Receive, Verdict, Sorted
  <2>2. ThreadInv'
    BY <2>1
  <2>3. ASSUME NEW m \in Proxy, mutex'[m] # Nil
        PROVE  cur'[mutex'[m]] = m /\ pc'[mutex'[m]] \in Calling
    BY <2>3, <2>1
  <2>4. QED BY <2>2, <2>3
<1>11. ASSUME NEW t \in Thread, Leave(t)
      PROVE  ThreadInv' /\ MutexesGivenBack'
  <2>1. pc[t] = "leave" /\ UNCHANGED <<servers, index, cur, tried, outcome, callNo>>
    BY <1>11 DEF Leave
  <2>2. \/ mutex' = mutex /\ pc' = [pc EXCEPT ![t] = "close"]
        \/ mutex' = [mutex EXCEPT ![cur[t]] = Nil] /\ pc' = [pc EXCEPT ![t] = "end"]
    BY <1>11 DEF Leave
  <2>3. ThreadInv'
    BY <2>1, <2>2
  <2>4. ASSUME NEW m \in Proxy, mutex'[m] # Nil
        PROVE  cur'[mutex'[m]] = m /\ pc'[mutex'[m]] \in Calling
    <3>1. mutex[m] \in Thread => cur[mutex[m]] = m /\ pc[mutex[m]] \in Calling
      BY <2>1
    <3>2. CASE mutex' = mutex /\ pc' = [pc EXCEPT ![t] = "close"]
      BY <3>1, <3>2, <2>4, <2>1
    <3>3. CASE mutex' = [mutex EXCEPT ![cur[t]] = Nil] /\ pc' = [pc EXCEPT ![t] = "end"]
      BY <3>1, <3>3, <2>4, <2>1
    <3>4. QED BY <3>2, <3>3, <2>2
  <2>5. QED BY <2>3, <2>4
<1>12. ASSUME NEW t \in Thread, Close(t)
      PROVE  ThreadInv' /\ MutexesGivenBack'
  <2>1. ThreadInv'
    BY <1>12 DEF Close
  <2>2. ASSUME NEW m \in Proxy, mutex'[m] # Nil
        PROVE  cur'[mutex'[m]] = m /\ pc'[mutex'[m]] \in Calling
    BY <2>2, <1>12 DEF Close
  <2>3. QED BY <2>1, <2>2
<1>13. ASSUME NEW t \in Thread, BreakDown(t)
      PROVE  ThreadInv' /\ MutexesGivenBack'
  <2>1. ThreadInv'
    BY <1>13 DEF BreakDown
  <2>2. ASSUME NEW m \in Proxy, mutex'[m] # Nil
        PROVE  cur'[mutex'[m]] = m /\ pc'[mutex'[m]] \in Calling
    BY <2>2, <1>13 DEF BreakDown
  <2>3. QED BY <2>1, <2>2
<1>14. ASSUME NEW t \in Thread, Return(t)
      PROVE  ThreadInv' /\ MutexesGivenBack'
  <2>1. ThreadInv'
    BY <1>14 DEF Return
  <2>2. ASSUME NEW m \in Proxy, mutex'[m] # Nil
        PROVE  cur'[mutex'[m]] = m /\ pc'[mutex'[m]] \in Calling
    BY <2>2, <1>14 DEF Return
  <2>3. QED BY <2>1, <2>2
<1>15. ASSUME NEW t \in Thread, Pick(t)
      PROVE  ThreadInv' /\ MutexesGivenBack'
  <2>1. /\ servers' \in [Thread -> Seq(Proxy)] /\ Len(servers'[t]) <= Cardinality(Addr)
        /\ \A u \in Thread : u # t => servers'[u] = servers[u]
    BY <1>15, Picked DEF Pick
  <2>2. ThreadInv'
    BY SMTT(30), <1>15, <2>1 DEF Pick
  <2>3. ASSUME NEW m \in Proxy, mutex'[m] # Nil
        PROVE  cur'[mutex'[m]] = m /\ pc'[mutex'[m]] \in Calling
    BY <2>3, <1>15, <2>1 DEF Pick
  <2>4. QED BY <2>2, <2>3
<1>16. ASSUME NEW t \in Thread, Repick(t)
      PROVE  ThreadInv' /\ MutexesGivenBack'
  <2>1. /\ servers' \in [Thread -> Seq(Proxy)] /\ Len(servers'[t]) <= Cardinality(Addr)
        /\ \A u \in Thread : u # t => servers'[u] = servers[u]
    BY SMTT(30), <1>16, Picked DEF Repick
  <2>2. ThreadInv'
    BY SMTT(30), <1>16, <2>1 DEF Repick
  <2>3. ASSUME NEW m \in Proxy, mutex'[m] # Nil
        PROVE  cur'[mutex'[m]] = m /\ pc'[mutex'[m]] \in Calling
    BY <2>3, <1>16, <2>1 DEF Repick
  <2>4. QED BY <2>2, <2>3
<1>17. ASSUME NEW t \in Thread, Download(t)
      PROVE  ThreadInv' /\ MutexesGivenBack'
  <2>1. ThreadInv'
    BY <1>17 DEF Download
  <2>2. ASSUME NEW m \in Proxy, mutex'[m] # Nil
        PROVE  cur'[mutex'[m]] = m /\ pc'[mutex'[m]] \in Calling
    BY <2>2, <1>17 DEF Download
  <2>3. QED BY <2>1, <2>2
<1>18. ASSUME NEW r \in requests, Serve(r) \/ ServerExits(r)
      PROVE  ThreadInv' /\ MutexesGivenBack'
  <2>1. ThreadInv'
    BY <1>18 DEF Serve, ServerExits
  <2>2. ASSUME NEW m \in Proxy, mutex'[m] # Nil
        PROVE  cur'[mutex'[m]] = m /\ pc'[mutex'[m]] \in Calling
    BY <2>2, <1>18 DEF Serve, ServerExits
  <2>3. QED BY <2>1, <2>2
<1>19. ASSUME NEW p \in Proxy, ServerCloses(p)
      PROVE  ThreadInv' /\ MutexesGivenBack'
  <2>1. ThreadInv'
    BY <1>19 DEF ServerCloses
  <2>2. ASSUME NEW m \in Proxy, mutex'[m] # Nil
        PROVE  cur'[mutex'[m]] = m /\ pc'[mutex'[m]] \in Calling
    BY <2>2, <1>19 DEF ServerCloses
  <2>3. QED BY <2>1, <2>2
<1>20. ASSUME Term \/ Reinit
      PROVE  ThreadInv' /\ MutexesGivenBack'
  <2>1. ThreadInv'
    BY <1>20 DEF Term, Reinit
  <2>2. ASSUME NEW m \in Proxy, mutex'[m] # Nil
        PROVE  cur'[mutex'[m]] = m /\ pc'[mutex'[m]] \in Calling
    BY <2>2, <1>20 DEF Term, Reinit
  <2>3. QED BY <2>1, <2>2
<1>21. CASE UNCHANGED callVars
  BY <1>21 DEF callVars
<1>22. QED BY <1>1, <1>2, <1>3, <1>4, <1>5, <1>6, <1>7, <1>8, <1>9, <1>10, <1>11, <1>12, <1>13,
             <1>14, <1>15, <1>16, <1>17, <1>18, <1>19, <1>20, <1>21 DEF CallNext, Step, Server

-----------------------------------------------------------------------------
(* The status of a call. *)

(* A step that leaves the calls alone and every call as open as it was.    *)
LEMMA StatusStands ==
  ASSUME StatusInv, UNCHANGED <<callNo, status>>,
         \A t \in Thread : Open(t)' <=> Open(t)
  PROVE  StatusInv'
BY DEF StatusInv, This

(* A call of a thread is settled: nothing else changes.                    *)
LEMMA StatusSettled ==
  ASSUME CallTypeOK, StatusInv, NEW t \in Thread, callNo[t] >= 1, This(t) \in CallId,
             callNo' = callNo,
         ~Open(t)', \E x \in {"noentry", "failed", "answered",
             "timeout"} : status' = [status EXCEPT ![This(t)] = x],
         \A u \in Thread : u # t => (Open(u)' <=> Open(u))
  PROVE  StatusInv'
<1>1. ASSUME NEW c \in CallId
      PROVE  /\ status'[c] = "unborn" <=> callNo'[c[1]] < c[2]
             /\ c[2] < callNo'[c[1]] => status'[c] # "asked"
  <2>1. /\ status[c] = "unborn" <=> callNo[c[1]] < c[2]
        /\ c[2] < callNo[c[1]] => status[c] # "asked"
    BY DEF StatusInv
  <2>2. CASE c = This(t)
    <3>1. status'[c] \notin {"unborn", "asked"}
      BY <2>2 DEF CallTypeOK, ResultTypes
    <3>2. c[1] = t /\ c[2] = callNo[t] /\ callNo[t] \in Nat
      BY <2>2 DEF This, CallTypeOK, ThreadTypes
    <3>3. QED BY <3>1, <3>2
  <2>3. CASE c # This(t)
    BY <2>1, <2>3 DEF CallTypeOK, ResultTypes
  <2>4. QED BY <2>2, <2>3
<1>2. ASSUME NEW u \in Thread, callNo'[u] >= 1
      PROVE  status'[<<u, callNo'[u]>>] = "asked" <=> Open(u)'
  <2>1. CASE u = t
    BY <2>1 DEF This, CallTypeOK, ResultTypes
  <2>2. CASE u # t
    <3>1. status[<<u, callNo[u]>>] = "asked" <=> Open(u)
      BY <1>2 DEF StatusInv, This
    <3>2. status'[<<u, callNo[u]>>] = status[<<u, callNo[u]>>]
      BY <2>2 DEF This, CallTypeOK, ResultTypes
    <3>3. QED BY <2>2, <3>1, <3>2
  <2>3. QED BY <2>1, <2>2
<1>3. QED BY <1>1, <1>2 DEF StatusInv, This

LEMMA StatusKept ==
  ASSUME CallTypeOK, ThreadInv, StatusInv, [CallNext]_callVars
  PROVE  StatusInv'
<1> USE Sizes DEF stubVars, wire, life, callState, attempt, Goto
<1>1. ASSUME NEW t \in Thread, DownloadFails(t)
      PROVE  StatusInv'
  <2>1. UNCHANGED <<callNo, status>>
    BY <1>1 DEF DownloadFails
  <2>2. \A u \in Thread : Open(u)' <=> Open(u)
    BY <1>1 DEF DownloadFails, Open, Asking, CallTypeOK, ThreadTypes, AttemptTypes, ThreadInv,
             Unpicked
  <2>3. QED BY <2>1, <2>2, StatusStands
<1>2. ASSUME NEW t \in Thread, Download(t)
      PROVE  StatusInv'
  <2>1. UNCHANGED <<callNo, status>>
    BY <1>2 DEF Download
  <2>2. \A u \in Thread : Open(u)' <=> Open(u)
    BY <1>2 DEF Download, Open, Asking, CallTypeOK, ThreadTypes, AttemptTypes, ThreadInv, Unpicked
  <2>3. QED BY <2>1, <2>2, StatusStands
<1>3. ASSUME NEW t \in Thread, Pick(t)
      PROVE  StatusInv'
  <2>1. UNCHANGED <<callNo, status>>
    BY <1>3 DEF Pick
  <2>2. \A u \in Thread : Open(u)' <=> Open(u)
    BY <1>3 DEF Pick, Open, Asking, CallTypeOK, ThreadTypes, AttemptTypes, ThreadInv, Unpicked
  <2>3. QED BY <2>1, <2>2, StatusStands
<1>4. ASSUME NEW t \in Thread, Repick(t)
      PROVE  StatusInv'
  <2>1. UNCHANGED <<callNo, status>>
    BY <1>4 DEF Repick
  <2>2. \A u \in Thread : Open(u)' <=> Open(u)
    BY <1>4 DEF Repick, Open, Asking, CallTypeOK, ThreadTypes, AttemptTypes, ThreadInv, Unpicked
  <2>3. QED BY <2>1, <2>2, StatusStands
<1>5. ASSUME NEW t \in Thread, NextServer(t)
      PROVE  StatusInv'
  <2>1. UNCHANGED <<callNo, status>>
    BY <1>5 DEF NextServer
  <2>2. \A u \in Thread : Open(u)' <=> Open(u)
    BY SMTT(30), <1>5 DEF NextServer, Open, Asking, CallTypeOK, ThreadTypes, AttemptTypes, ThreadInv, Unpicked
  <2>3. QED BY <2>1, <2>2, StatusStands
<1>6. ASSUME NEW t \in Thread, Lock(t)
      PROVE  StatusInv'
  <2>1. UNCHANGED <<callNo, status>>
    BY <1>6 DEF Lock
  <2>2. \A u \in Thread : Open(u)' <=> Open(u)
    BY <1>6 DEF Lock, Open, Asking, CallTypeOK, ThreadTypes, AttemptTypes, ThreadInv, Unpicked
  <2>3. QED BY <2>1, <2>2, StatusStands
<1>7. ASSUME NEW t \in Thread, Connect(t)
      PROVE  StatusInv'
  <2>1. UNCHANGED <<callNo, status>>
    BY <1>7 DEF Connect
  <2>2. \A u \in Thread : Open(u)' <=> Open(u)
    BY <1>7 DEF Connect, Open, Asking, CallTypeOK, ThreadTypes, AttemptTypes, ThreadInv, Unpicked
  <2>3. QED BY <2>1, <2>2, StatusStands
<1>8. ASSUME NEW t \in Thread, ConnectFails(t)
      PROVE  StatusInv'
  <2>1. UNCHANGED <<callNo, status>>
    BY <1>8 DEF ConnectFails
  <2>2. \A u \in Thread : Open(u)' <=> Open(u)
    BY <1>8 DEF ConnectFails, Open, Asking, CallTypeOK, ThreadTypes, AttemptTypes, ThreadInv,
             Unpicked
  <2>3. QED BY <2>1, <2>2, StatusStands
<1>9. ASSUME NEW t \in Thread, SendRequest(t)
      PROVE  StatusInv'
  <2>1. UNCHANGED <<callNo, status>>
    BY <1>9 DEF SendRequest
  <2>2. \A u \in Thread : Open(u)' <=> Open(u)
    BY <1>9 DEF SendRequest, Open, Asking, CallTypeOK, ThreadTypes, AttemptTypes, ThreadInv,
             Unpicked
  <2>3. QED BY <2>1, <2>2, StatusStands
<1>10. ASSUME NEW t \in Thread, SendFails(t)
      PROVE  StatusInv'
  <2>1. UNCHANGED <<callNo, status>>
    BY <1>10 DEF SendFails
  <2>2. \A u \in Thread : Open(u)' <=> Open(u)
    BY SMTT(30), <1>10 DEF SendFails, Verdict, Sorted, Open, Asking, CallTypeOK, ThreadTypes, AttemptTypes,
             ThreadInv, Unpicked
  <2>3. QED BY <2>1, <2>2, StatusStands
<1>11. ASSUME NEW t \in Thread, ReceiveFails(t)
      PROVE  StatusInv'
  <2>1. UNCHANGED <<callNo, status>>
    BY <1>11 DEF ReceiveFails
  <2>2. \A u \in Thread : Open(u)' <=> Open(u)
    BY SMTT(30), <1>11 DEF ReceiveFails, Verdict, Sorted, AfterFailure, Open, Asking, CallTypeOK,
             ThreadTypes, AttemptTypes, ThreadInv, Unpicked
  <2>3. QED BY <2>1, <2>2, StatusStands
<1>12. ASSUME NEW t \in Thread, Leave(t)
      PROVE  StatusInv'
  <2>1. UNCHANGED <<callNo, status>>
    BY <1>12 DEF Leave
  <2>2. \A u \in Thread : Open(u)' <=> Open(u)
    BY <1>12 DEF Leave, Open, Asking, CallTypeOK, ThreadTypes, AttemptTypes, ThreadInv, Unpicked
  <2>3. QED BY <2>1, <2>2, StatusStands
<1>13. ASSUME NEW t \in Thread, Return(t)
      PROVE  StatusInv'
  <2>1. UNCHANGED <<callNo, status>>
    BY <1>13 DEF Return
  <2>2. \A u \in Thread : Open(u)' <=> Open(u)
    BY <1>13 DEF Return, Open, Asking, CallTypeOK, ThreadTypes, AttemptTypes, ThreadInv, Unpicked
  <2>3. QED BY <2>1, <2>2, StatusStands
<1>14. ASSUME NEW t \in Thread, NEW s \in Service, Begin(t, s)
      PROVE  StatusInv'
  <2>1. /\ callNo' = [callNo EXCEPT ![t] = callNo[t] + 1] /\ callNo[t] \in Nat /\ callNo[t] + 1 <= CallMax
        /\ status' = [status EXCEPT ![<<t, callNo[t] + 1>>] = "asked"] /\ pc[t] = "idle"
        /\ outcome' = outcome
        /\ (pc' = [pc EXCEPT ![t] = "notice"] \/ pc' = [pc EXCEPT ![t] = "pick"])
    <3>1. callNo[t] \in 0 .. CallMax
      BY DEF CallTypeOK, ThreadTypes
    <3>2. pc' = [pc EXCEPT ![t] = "notice"] \/ pc' = [pc EXCEPT ![t] = "pick"]
      BY <1>14 DEF Begin
    <3>3. callNo[t] \in Nat /\ callNo[t] + 1 <= CallMax
      BY <1>14, <3>1 DEF Begin
    <3>4. QED BY <1>14, <3>2, <3>3 DEF Begin
  <2>2. status[This(t)] # "asked" \/ callNo[t] = 0
    <3>1. ~Open(t)
      BY <2>1 DEF Open, Asking
    <3>2. callNo[t] >= 1 => status[This(t)] # "asked"
      BY <3>1 DEF StatusInv
    <3>3. QED BY <2>1, <3>2
  <2>3. ASSUME NEW c \in CallId
        PROVE  /\ status'[c] = "unborn" <=> callNo'[c[1]] < c[2]
               /\ c[2] < callNo'[c[1]] => status'[c] # "asked"
    <3>1. c[1] \in Thread /\ c[2] \in 1 .. CallMax /\ c = <<c[1], c[2]>>
      BY DEF CallId
    <3>2. /\ status[c] = "unborn" <=> callNo[c[1]] < c[2]
          /\ c[2] < callNo[c[1]] => status[c] # "asked"
      BY DEF StatusInv
    <3>3. callNo[c[1]] \in Nat
      BY <3>1 DEF CallTypeOK, ThreadTypes
    <3>4. CASE c = <<t, callNo[t] + 1>>
      BY <2>1, <3>1, <3>4 DEF CallTypeOK, ThreadTypes, ResultTypes
    <3>5. CASE c # <<t, callNo[t] + 1>>
      <4>1. status'[c] = status[c]
        BY <2>1, <3>5 DEF CallTypeOK, ResultTypes
      <4>2. CASE c[1] = t
        <5>1. callNo'[t] = callNo[t] + 1 /\ c[2] # callNo[t] + 1
          BY <2>1, <3>1, <3>5, <4>2 DEF CallTypeOK, ThreadTypes
        <5>2. c[2] = callNo[t] => c = This(t)
          BY <3>1, <4>2 DEF This
        <5>3. QED BY <2>1, <2>2, <3>1, <3>2, <4>1, <4>2, <5>1, <5>2
      <4>3. CASE c[1] # t
        BY <2>1, <3>1, <3>2, <4>1, <4>3 DEF CallTypeOK, ThreadTypes
      <4>4. QED BY <4>2, <4>3
    <3>6. QED BY <3>4, <3>5
  <2>4. ASSUME NEW u \in Thread, callNo'[u] >= 1
        PROVE  status'[<<u, callNo'[u]>>] = "asked" <=> Open(u)'
    <3>1. CASE u = t
      <4>1. callNo'[t] = callNo[t] + 1 /\ pc'[t] \in {"notice", "pick"}
            /\ <<t, callNo[t] + 1>> \in CallId
        BY <2>1 DEF CallTypeOK, ThreadTypes, CallId
      <4>2. QED BY <2>1, <3>1, <4>1 DEF Open, Asking, CallTypeOK, ResultTypes
    <3>2. CASE u # t
      <4>1. callNo'[u] = callNo[u] /\ pc'[u] = pc[u]
            /\ status'[<<u, callNo[u]>>] = status[<<u, callNo[u]>>]
        BY <2>1, <3>2 DEF CallTypeOK, ThreadTypes, ResultTypes
      <4>2. status[<<u, callNo[u]>>] = "asked" <=> Open(u)
        BY <2>4, <4>1 DEF StatusInv, This
      <4>3. QED BY <2>1, <4>1, <4>2 DEF Open
    <3>3. QED BY <3>1, <3>2
  <2>5. QED BY <2>3, <2>4 DEF StatusInv, This
<1>15. ASSUME NEW t \in Thread, Receive(t)
      PROVE  StatusInv'
  <2>1. cur[t] \in Proxy /\ answers[cur[t]] \in Seq(Reply) /\ Head(answers[cur[t]]) \in Reply
    <3>1. cur[t] \in Proxy /\ answers[cur[t]] \in Seq(Reply)
      BY <1>15 DEF Receive, CallTypeOK, WireTypes, ThreadInv, Calling
    <3>2. QED BY <1>15, <3>1, HeadTailProperties DEF Receive
  <2>2. /\ callNo' = callNo
        /\ \/ status' = status /\ (Open(t)' <=> Open(t))
           \/ /\ ~Open(t)'
              /\ \E x \in {"noentry", "failed", "answered"} : status' = [status EXCEPT ![This(t)] = x]
    BY <1>15, <2>1 DEF Receive, Verdict, Sorted, ResultOf, Reply, Open, Asking, CallTypeOK,
             ThreadTypes, AttemptTypes
  <2>3. callNo[t] >= 1 /\ callNo[t] \in Nat /\ This(t) \in CallId
    BY <1>15 DEF Receive, ThreadInv, CallTypeOK, ThreadTypes, This, CallId
  <2>4. \A u \in Thread : u # t => (Open(u)' <=> Open(u))
    BY <1>15 DEF Receive, Verdict, Sorted, Open, CallTypeOK, ThreadTypes, AttemptTypes
  <2>5. CASE status' = status /\ (Open(t)' <=> Open(t))
    BY <2>2, <2>4, <2>5, StatusStands
  <2>6. CASE ~Open(t)'
             /\ \E x \in {"noentry", "failed", "answered"} : status' = [status EXCEPT ![This(t)] = x]
    BY <2>2, <2>3, <2>4, <2>6, StatusSettled
  <2>7. QED BY <2>2, <2>5, <2>6
<1>16. ASSUME NEW t \in Thread, BreakDown(t)
      PROVE  StatusInv'
  <2>1. pc[t] = "next"
    BY <1>16 DEF BreakDown
  <2>2. /\ callNo' = callNo
        /\ \/ status' = status /\ (Open(t)' <=> Open(t))
           \/ ~Open(t)' /\ \E x \in {"noentry"} : status' = [status EXCEPT ![This(t)] = x]
    BY <1>16, <2>1 DEF BreakDown, Open, Asking, CallTypeOK, ThreadTypes, AttemptTypes
  <2>3. callNo[t] >= 1 /\ callNo[t] \in Nat /\ This(t) \in CallId
    BY <1>16 DEF BreakDown, ThreadInv, CallTypeOK, ThreadTypes, This, CallId
  <2>4. \A u \in Thread : u # t => (Open(u)' <=> Open(u))
    BY <1>16 DEF BreakDown, Open, CallTypeOK, ThreadTypes, AttemptTypes
  <2>5. CASE status' = status /\ (Open(t)' <=> Open(t))
    BY <2>2, <2>4, <2>5, StatusStands
  <2>6. CASE ~Open(t)' /\ \E x \in {"noentry"} : status' = [status EXCEPT ![This(t)] = x]
    BY <2>2, <2>3, <2>4, <2>6, StatusSettled
  <2>7. QED BY <2>2, <2>5, <2>6
<1>17. ASSUME NEW t \in Thread, Close(t)
      PROVE  StatusInv'
  <2>1. pc[t] = "close"
    BY <1>17 DEF Close
  <2>2. /\ callNo' = callNo
        /\ \/ status' = status /\ (Open(t)' <=> Open(t))
           \/ ~Open(t)' /\ \E x \in {"timeout"} : status' = [status EXCEPT ![This(t)] = x]
    BY <1>17, <2>1 DEF Close, Open, Asking, CallTypeOK, ThreadTypes, AttemptTypes
  <2>3. callNo[t] >= 1 /\ callNo[t] \in Nat /\ This(t) \in CallId
    BY <1>17 DEF Close, ThreadInv, CallTypeOK, ThreadTypes, This, CallId
  <2>4. \A u \in Thread : u # t => (Open(u)' <=> Open(u))
    BY <1>17 DEF Close, Open, CallTypeOK, ThreadTypes, AttemptTypes
  <2>5. CASE status' = status /\ (Open(t)' <=> Open(t))
    BY <2>2, <2>4, <2>5, StatusStands
  <2>6. CASE ~Open(t)' /\ \E x \in {"timeout"} : status' = [status EXCEPT ![This(t)] = x]
    BY <2>2, <2>3, <2>4, <2>6, StatusSettled
  <2>7. QED BY <2>2, <2>5, <2>6
<1>18. ASSUME NEW r \in requests, Serve(r) \/ ServerExits(r)
      PROVE  StatusInv'
  BY <1>18, StatusStands DEF Serve, ServerExits, Open
<1>19. ASSUME NEW p \in Proxy, ServerCloses(p)
      PROVE  StatusInv'
  BY <1>19, StatusStands DEF ServerCloses, Open
<1>20. ASSUME Term \/ Reinit
      PROVE  StatusInv'
  BY <1>20, StatusStands DEF Term, Reinit, Open
<1>21. CASE UNCHANGED callVars
  BY <1>21, StatusStands DEF callVars, Open
<1>22. QED BY <1>1, <1>2, <1>3, <1>4, <1>5, <1>6, <1>7, <1>8, <1>9, <1>10, <1>11, <1>12, <1>13,
             <1>14, <1>15, <1>16, <1>17, <1>18, <1>19, <1>20, <1>21 DEF CallNext, Step, Server

-----------------------------------------------------------------------------
(* A call reaches one server once. *)

(* A step that executes nothing, adds no request, and takes no call back.  *)
LEMMA OnceStands ==
  ASSUME OnceInv, UNCHANGED executed,
         \A c \in CallId : status'[c] = "unborn" => status[c] = "unborn",
         \A r \in requests' : \E q \in requests : r.callNo = q.callNo,
         \A r, q \in requests' : r.callNo = q.callNo => r = q,
         \A r \in requests' : status'[r.callNo] \in {"asked", "timeout"},
         \A t \in Thread : Unsent(t)' => Unsent(t) /\ callNo'[t] = callNo[t]
  PROVE  OnceInv'
<1>1. ASSUME NEW t \in Thread, Unsent(t)'
      PROVE  executed'[<<t, callNo'[t]>>] = 0
             /\ {r \in requests' : r.callNo = <<t, callNo'[t]>>} = {}
  BY <1>1 DEF OnceInv, Pending, This
<1>2. QED BY <1>1 DEF OnceInv, Pending, This

(* The same when requests stay as they are, or connections are closed.     *)
LEMMA OnceRequests ==
  ASSUME CallTypeOK, OnceInv, \/ UNCHANGED requests
                              \/ \E P \in SUBSET Proxy : Closed(P)
  PROVE  /\ \A r \in requests' : \E q \in requests : r.callNo = q.callNo
         /\ \A r, q \in requests' : r.callNo = q.callNo => r = q
<1>1. CASE UNCHANGED requests
  BY <1>1 DEF OnceInv
<1>2. ASSUME NEW P \in SUBSET Proxy, Closed(P)
      PROVE  /\ \A r \in requests' : \E q \in requests : r.callNo = q.callNo
             /\ \A r, q \in requests' : r.callNo = q.callNo => r = q
  <2>1. \A r \in requests' : \E q \in requests :
          r = [q EXCEPT !.open = q.open /\ q.proxy \notin P] /\ r.callNo = q.callNo
    BY <1>2, ClosedRequests
  <2>2. ASSUME NEW r \in requests', NEW x \in requests', r.callNo = x.callNo
        PROVE  r = x
    <3>1. PICK q \in requests : r = [q EXCEPT !.open = q.open /\ q.proxy \notin P] /\ r.callNo = q.callNo
      BY <2>1
    <3>2. PICK y \in requests : x = [y EXCEPT !.open = y.open /\ y.proxy \notin P] /\ x.callNo = y.callNo
      BY <2>1
    <3>3. q = y
      BY <2>2, <3>1, <3>2 DEF OnceInv
    <3>4. QED BY <3>1, <3>2, <3>3
  <2>3. QED BY <2>1, <2>2
<1>3. QED BY <1>1, <1>2

LEMMA OnceKept ==
  ASSUME CallTypeOK, ThreadInv, StatusInv, OnceInv, AnswerInv, [CallNext]_callVars
  PROVE  OnceInv'
<1> USE Sizes DEF stubVars, wire, life, callState, attempt, Goto
<1>1. ASSUME NEW t \in Thread, DownloadFails(t)
      PROVE  OnceInv'
  <2>1. UNCHANGED <<callNo, status, executed>>
    BY <1>1 DEF DownloadFails
  <2>2. /\ \A r \in requests' : \E q \in requests : r.callNo = q.callNo
        /\ \A r, q \in requests' : r.callNo = q.callNo => r = q
    BY <1>1, OnceRequests DEF DownloadFails
  <2>3. \A u \in Thread : Unsent(u)' => Unsent(u)
    BY <1>1 DEF DownloadFails, Unsent, Asking, CallTypeOK, ThreadTypes, AttemptTypes, ThreadInv,
             Unpicked
  <2>4. \A r \in requests' : status'[r.callNo] \in {"asked", "timeout"}
    BY <2>1, <2>2 DEF OnceInv
  <2>5. QED BY <2>1, <2>2, <2>3, <2>4, OnceStands
<1>2. ASSUME NEW t \in Thread, Download(t)
      PROVE  OnceInv'
  <2>1. UNCHANGED <<callNo, status, executed>>
    BY <1>2 DEF Download
  <2>2. /\ \A r \in requests' : \E q \in requests : r.callNo = q.callNo
        /\ \A r, q \in requests' : r.callNo = q.callNo => r = q
    <3>1. \E new \in Subscriptions : UpdateServiceInfo(new)
      BY <1>2 DEF Download
    <3>2. Closed(Gone(refs, refs')) /\ Gone(refs, refs') \in SUBSET Proxy
      BY <3>1 DEF UpdateServiceInfo, Gone
    <3>3. QED BY <3>2, OnceRequests
  <2>3. \A u \in Thread : Unsent(u)' => Unsent(u)
    BY <1>2 DEF Download, Unsent, Asking, CallTypeOK, ThreadTypes, AttemptTypes, ThreadInv, Unpicked
  <2>4. \A r \in requests' : status'[r.callNo] \in {"asked", "timeout"}
    BY <2>1, <2>2 DEF OnceInv
  <2>5. QED BY <2>1, <2>2, <2>3, <2>4, OnceStands
<1>3. ASSUME NEW t \in Thread, Pick(t)
      PROVE  OnceInv'
  <2>1. UNCHANGED <<callNo, status, executed>>
    BY <1>3 DEF Pick
  <2>2. /\ \A r \in requests' : \E q \in requests : r.callNo = q.callNo
        /\ \A r, q \in requests' : r.callNo = q.callNo => r = q
    BY <1>3, OnceRequests DEF Pick
  <2>3. \A u \in Thread : Unsent(u)' => Unsent(u)
    BY <1>3 DEF Pick, Unsent, Asking, CallTypeOK, ThreadTypes, AttemptTypes, ThreadInv, Unpicked
  <2>4. \A r \in requests' : status'[r.callNo] \in {"asked", "timeout"}
    BY <2>1, <2>2 DEF OnceInv
  <2>5. QED BY <2>1, <2>2, <2>3, <2>4, OnceStands
<1>4. ASSUME NEW t \in Thread, Repick(t)
      PROVE  OnceInv'
  <2>1. UNCHANGED <<callNo, status, executed>>
    BY <1>4 DEF Repick
  <2>2. /\ \A r \in requests' : \E q \in requests : r.callNo = q.callNo
        /\ \A r, q \in requests' : r.callNo = q.callNo => r = q
    BY <1>4, OnceRequests DEF Repick
  <2>3. \A u \in Thread : Unsent(u)' => Unsent(u)
    BY <1>4 DEF Repick, Unsent, Asking, CallTypeOK, ThreadTypes, AttemptTypes, ThreadInv, Unpicked
  <2>4. \A r \in requests' : status'[r.callNo] \in {"asked", "timeout"}
    BY <2>1, <2>2 DEF OnceInv
  <2>5. QED BY <2>1, <2>2, <2>3, <2>4, OnceStands
<1>5. ASSUME NEW t \in Thread, NextServer(t)
      PROVE  OnceInv'
  <2>1. UNCHANGED <<callNo, status, executed>>
    BY <1>5 DEF NextServer
  <2>2. /\ \A r \in requests' : \E q \in requests : r.callNo = q.callNo
        /\ \A r, q \in requests' : r.callNo = q.callNo => r = q
    BY <1>5, OnceRequests DEF NextServer
  <2>3. \A u \in Thread : Unsent(u)' => Unsent(u)
    BY <1>5 DEF NextServer, Unsent, Asking, CallTypeOK, ThreadTypes, AttemptTypes, ThreadInv,
             Unpicked
  <2>4. \A r \in requests' : status'[r.callNo] \in {"asked", "timeout"}
    BY <2>1, <2>2 DEF OnceInv
  <2>5. QED BY <2>1, <2>2, <2>3, <2>4, OnceStands
<1>6. ASSUME NEW t \in Thread, Lock(t)
      PROVE  OnceInv'
  <2>1. UNCHANGED <<callNo, status, executed>>
    BY <1>6 DEF Lock
  <2>2. /\ \A r \in requests' : \E q \in requests : r.callNo = q.callNo
        /\ \A r, q \in requests' : r.callNo = q.callNo => r = q
    BY <1>6, OnceRequests DEF Lock
  <2>3. \A u \in Thread : Unsent(u)' => Unsent(u)
    BY <1>6 DEF Lock, Unsent, Asking, CallTypeOK, ThreadTypes, AttemptTypes, ThreadInv, Unpicked
  <2>4. \A r \in requests' : status'[r.callNo] \in {"asked", "timeout"}
    BY <2>1, <2>2 DEF OnceInv
  <2>5. QED BY <2>1, <2>2, <2>3, <2>4, OnceStands
<1>7. ASSUME NEW t \in Thread, Connect(t)
      PROVE  OnceInv'
  <2>1. UNCHANGED <<callNo, status, executed>>
    BY <1>7 DEF Connect
  <2>2. /\ \A r \in requests' : \E q \in requests : r.callNo = q.callNo
        /\ \A r, q \in requests' : r.callNo = q.callNo => r = q
    BY <1>7, OnceRequests DEF Connect
  <2>3. \A u \in Thread : Unsent(u)' => Unsent(u)
    BY <1>7 DEF Connect, Unsent, Asking, CallTypeOK, ThreadTypes, AttemptTypes, ThreadInv, Unpicked
  <2>4. \A r \in requests' : status'[r.callNo] \in {"asked", "timeout"}
    BY <2>1, <2>2 DEF OnceInv
  <2>5. QED BY <2>1, <2>2, <2>3, <2>4, OnceStands
<1>8. ASSUME NEW t \in Thread, ConnectFails(t)
      PROVE  OnceInv'
  <2>1. UNCHANGED <<callNo, status, executed>>
    BY <1>8 DEF ConnectFails
  <2>2. /\ \A r \in requests' : \E q \in requests : r.callNo = q.callNo
        /\ \A r, q \in requests' : r.callNo = q.callNo => r = q
    BY <1>8, OnceRequests DEF ConnectFails
  <2>3. \A u \in Thread : Unsent(u)' => Unsent(u)
    BY <1>8 DEF ConnectFails, Unsent, Asking, CallTypeOK, ThreadTypes, AttemptTypes, ThreadInv,
             Unpicked
  <2>4. \A r \in requests' : status'[r.callNo] \in {"asked", "timeout"}
    BY <2>1, <2>2 DEF OnceInv
  <2>5. QED BY <2>1, <2>2, <2>3, <2>4, OnceStands
<1>9. ASSUME NEW t \in Thread, SendFails(t)
      PROVE  OnceInv'
  <2>1. UNCHANGED <<callNo, status, executed>>
    BY <1>9 DEF SendFails
  <2>2. /\ \A r \in requests' : \E q \in requests : r.callNo = q.callNo
        /\ \A r, q \in requests' : r.callNo = q.callNo => r = q
    BY <1>9, OnceRequests DEF SendFails
  <2>3. \A u \in Thread : Unsent(u)' => Unsent(u)
    BY <1>9 DEF SendFails, Verdict, Sorted, Unsent, Asking, CallTypeOK, ThreadTypes,
             AttemptTypes, ThreadInv, Unpicked
  <2>4. \A r \in requests' : status'[r.callNo] \in {"asked", "timeout"}
    BY <2>1, <2>2 DEF OnceInv
  <2>5. QED BY <2>1, <2>2, <2>3, <2>4, OnceStands
<1>10. ASSUME NEW t \in Thread, ReceiveFails(t)
      PROVE  OnceInv'
  <2>1. UNCHANGED <<callNo, status, executed>>
    BY <1>10 DEF ReceiveFails
  <2>2. /\ \A r \in requests' : \E q \in requests : r.callNo = q.callNo
        /\ \A r, q \in requests' : r.callNo = q.callNo => r = q
    BY <1>10, OnceRequests DEF ReceiveFails
  <2>3. \A u \in Thread : Unsent(u)' => Unsent(u)
    BY <1>10 DEF ReceiveFails, Verdict, Sorted, AfterFailure, Unsent, Asking, CallTypeOK,
             ThreadTypes, AttemptTypes, ThreadInv, Unpicked
  <2>4. \A r \in requests' : status'[r.callNo] \in {"asked", "timeout"}
    BY <2>1, <2>2 DEF OnceInv
  <2>5. QED BY <2>1, <2>2, <2>3, <2>4, OnceStands
<1>11. ASSUME NEW t \in Thread, Leave(t)
      PROVE  OnceInv'
  <2>1. UNCHANGED <<callNo, status, executed>>
    BY <1>11 DEF Leave
  <2>2. /\ \A r \in requests' : \E q \in requests : r.callNo = q.callNo
        /\ \A r, q \in requests' : r.callNo = q.callNo => r = q
    BY <1>11, OnceRequests DEF Leave
  <2>3. \A u \in Thread : Unsent(u)' => Unsent(u)
    BY <1>11 DEF Leave, Unsent, Asking, CallTypeOK, ThreadTypes, AttemptTypes, ThreadInv, Unpicked
  <2>4. \A r \in requests' : status'[r.callNo] \in {"asked", "timeout"}
    BY <2>1, <2>2 DEF OnceInv
  <2>5. QED BY <2>1, <2>2, <2>3, <2>4, OnceStands
<1>12. ASSUME NEW t \in Thread, Return(t)
      PROVE  OnceInv'
  <2>1. UNCHANGED <<callNo, status, executed>>
    BY <1>12 DEF Return
  <2>2. /\ \A r \in requests' : \E q \in requests : r.callNo = q.callNo
        /\ \A r, q \in requests' : r.callNo = q.callNo => r = q
    <3>1. Closed(Gone(refs, refs')) /\ Gone(refs, refs') \in SUBSET Proxy
      BY <1>12 DEF Return, Gone
    <3>2. QED BY <3>1, OnceRequests
  <2>3. \A u \in Thread : Unsent(u)' => Unsent(u)
    BY <1>12 DEF Return, Unsent, Asking, CallTypeOK, ThreadTypes, AttemptTypes, ThreadInv, Unpicked
  <2>4. \A r \in requests' : status'[r.callNo] \in {"asked", "timeout"}
    BY <2>1, <2>2 DEF OnceInv
  <2>5. QED BY <2>1, <2>2, <2>3, <2>4, OnceStands
<1>13. ASSUME NEW t \in Thread, Receive(t)
      PROVE  OnceInv'
  <2>1. /\ cur[t] \in Proxy /\ mutex[cur[t]] = t
        /\ answers[cur[t]] \in Seq(Reply) /\ Head(answers[cur[t]]) \in Reply
    <3>1. cur[t] \in Proxy /\ mutex[cur[t]] = t /\ answers[cur[t]] \in Seq(Reply)
      BY <1>13 DEF Receive, CallTypeOK, WireTypes, ThreadInv, Calling
    <3>2. QED BY <1>13, <3>1, HeadTailProperties DEF Receive
  <2>2. /\ \E x \in {"noentry", "failed", "answered"} : status' = [status EXCEPT ![This(t)] = x]
        /\ Pending(This(t)) = {}
    BY <1>13, <2>1 DEF Receive, ResultOf, Reply, AnswerInv
  <2>3. UNCHANGED <<callNo, executed>>
    BY <1>13 DEF Receive
  <2>4. /\ \A r \in requests' : \E q \in requests : r.callNo = q.callNo
        /\ \A r, q \in requests' : r.callNo = q.callNo => r = q
    BY <1>13, <2>1, OnceRequests DEF Receive
  <2>5. \A u \in Thread : Unsent(u)' => Unsent(u)
    BY <1>13, <2>1 DEF Receive, Verdict, Sorted, Unsent, Asking, CallTypeOK, ThreadTypes,
             AttemptTypes
  <2>6. \A r \in requests' : r.callNo \in CallId
    BY <2>4 DEF CallTypeOK, WireTypes, Request
  <2>7. \A r \in requests' : status'[r.callNo] \in {"asked", "timeout"}
    BY <2>2, <2>4, <2>6 DEF OnceInv, Pending, CallTypeOK, ResultTypes
  <2>8. \A c \in CallId : status'[c] = "unborn" => status[c] = "unborn"
    BY <2>2 DEF CallTypeOK, ResultTypes
  <2>9. QED BY <2>3, <2>4, <2>5, <2>7, <2>8, OnceStands
<1>14. ASSUME NEW t \in Thread, BreakDown(t)
      PROVE  OnceInv'
  <2>1. pc[t] = "next"
    BY <1>14 DEF BreakDown
  <2>2. /\ status' = [status EXCEPT ![This(t)] = "noentry"]
        /\ Pending(This(t)) = {}
    BY <1>14 DEF BreakDown, OnceInv, Unsent, Asking
  <2>3. UNCHANGED <<callNo, executed>>
    BY <1>14 DEF BreakDown
  <2>4. /\ \A r \in requests' : \E q \in requests : r.callNo = q.callNo
        /\ \A r, q \in requests' : r.callNo = q.callNo => r = q
    BY <1>14, <2>1, OnceRequests DEF BreakDown
  <2>5. \A u \in Thread : Unsent(u)' => Unsent(u)
    BY <1>14, <2>1 DEF BreakDown, Unsent, Asking, CallTypeOK, ThreadTypes, AttemptTypes
  <2>6. \A r \in requests' : r.callNo \in CallId
    BY <2>4 DEF CallTypeOK, WireTypes, Request
  <2>7. \A r \in requests' : status'[r.callNo] \in {"asked", "timeout"}
    BY <2>2, <2>4, <2>6 DEF OnceInv, Pending, CallTypeOK, ResultTypes
  <2>8. \A c \in CallId : status'[c] = "unborn" => status[c] = "unborn"
    BY <2>2 DEF CallTypeOK, ResultTypes
  <2>9. QED BY <2>3, <2>4, <2>5, <2>7, <2>8, OnceStands
<1>15. ASSUME NEW t \in Thread, Close(t)
      PROVE  OnceInv'
  <2>1. pc[t] = "close" /\ cur[t] \in Proxy /\ {cur[t]} \in SUBSET Proxy
    BY <1>15 DEF Close, ThreadInv, Calling
  <2>2. status' = status \/ status' = [status EXCEPT ![This(t)] = "timeout"]
    BY <1>15 DEF Close
  <2>3. UNCHANGED <<callNo, executed>>
    BY <1>15 DEF Close
  <2>4. /\ \A r \in requests' : \E q \in requests : r.callNo = q.callNo
        /\ \A r, q \in requests' : r.callNo = q.callNo => r = q
    BY <1>15, <2>1, OnceRequests DEF Close
  <2>5. \A u \in Thread : Unsent(u)' => Unsent(u)
    BY <1>15, <2>1 DEF Close, Unsent, Asking, CallTypeOK, ThreadTypes, AttemptTypes
  <2>6. \A r \in requests' : r.callNo \in CallId
    BY <2>4 DEF CallTypeOK, WireTypes, Request
  <2>7. \A r \in requests' : status'[r.callNo] \in {"asked", "timeout"}
    BY <2>2, <2>4, <2>6 DEF OnceInv, Pending, CallTypeOK, ResultTypes
  <2>8. \A c \in CallId : status'[c] = "unborn" => status[c] = "unborn"
    BY <2>2 DEF CallTypeOK, ResultTypes
  <2>9. QED BY <2>3, <2>4, <2>5, <2>7, <2>8, OnceStands
<1>16. ASSUME NEW t \in Thread, NEW s \in Service, Begin(t, s)
      PROVE  OnceInv'
  <2> DEFINE new == <<t, callNo[t] + 1>>
  <2>1. /\ callNo' = [callNo EXCEPT ![t] = callNo[t] + 1] /\ callNo[t] \in Nat /\ callNo[t] + 1 <= CallMax
        /\ status' = [status EXCEPT ![new] = "asked"] /\ outcome' = outcome
        /\ UNCHANGED <<executed, requests>> /\ \A u \in Thread : u # t => pc'[u] = pc[u]
    <3>1. callNo[t] \in 0 .. CallMax
      BY DEF CallTypeOK, ThreadTypes
    <3>2. callNo[t] \in Nat /\ callNo[t] + 1 <= CallMax
      BY <1>16, <3>1 DEF Begin
    <3>3. \A u \in Thread : u # t => pc'[u] = pc[u]
      BY <1>16 DEF Begin, CallTypeOK, ThreadTypes
    <3>4. QED BY <1>16, <3>2, <3>3 DEF Begin
  <2>2. new \in CallId /\ status[new] = "unborn" /\ callNo[t] \in Nat
    BY <2>1 DEF CallId, StatusInv
  <2>3. executed[new] = 0 /\ Pending(new) = {}
    BY <2>2 DEF OnceInv, Pending
  <2>4. ASSUME NEW u \in Thread, Unsent(u)'
        PROVE  executed'[This(u)'] = 0 /\ {r \in requests' : r.callNo = This(u)'} = {}
    <3>1. CASE u = t
      <4>1. This(u)' = new
        BY <2>1, <3>1 DEF This, CallTypeOK, ThreadTypes
      <4>2. QED BY <2>1, <2>3, <4>1 DEF Pending
    <3>2. CASE u # t
      <4>1. This(u)' = This(u) /\ Unsent(u)
        BY <2>1, <2>4, <3>2 DEF This, Unsent, CallTypeOK, ThreadTypes
      <4>2. QED BY <2>1, <4>1 DEF OnceInv, Pending
    <3>3. QED BY <3>1, <3>2
  <2>5. ASSUME NEW c \in CallId
        PROVE  executed'[c] \in {0, 1} /\ (status'[c] = "unborn" => executed'[c] = 0)
    BY <2>1, <2>2 DEF OnceInv, CallTypeOK, ResultTypes
  <2>6. ASSUME NEW r \in requests'
        PROVE  executed'[r.callNo] = 0 /\ status'[r.callNo] \in {"asked", "timeout"}
    <3>1. r.callNo \in CallId /\ r \in requests
      BY <2>1 DEF CallTypeOK, WireTypes, Request
    <3>2. QED BY <2>1, <3>1 DEF OnceInv, CallTypeOK, ResultTypes
  <2>7. QED BY <2>1, <2>4, <2>5, <2>6 DEF OnceInv, Pending
<1>17. ASSUME NEW t \in Thread, SendRequest(t)
      PROVE  OnceInv'
  <2> DEFINE req == [callNo |-> This(t), proxy |-> cur[t], open |-> TRUE]
  <2>1. /\ pc[t] = "send" /\ UNCHANGED <<executed, status, callNo, outcome>>
        /\ pc' = [pc EXCEPT ![t] = "receive"]
        /\ (requests' = requests \/ requests' = requests \cup {req})
    BY <1>17 DEF SendRequest
  <2>2. executed[This(t)] = 0 /\ Pending(This(t)) = {} /\ status[This(t)] = "asked" /\ req.callNo = This(t)
    BY <2>1 DEF OnceInv, StatusInv, Unsent, Open, Asking, ThreadInv
  <2>3. \A u \in Thread : Unsent(u)' => Unsent(u) /\ u # t
    BY <2>1 DEF Unsent, Asking, CallTypeOK, ThreadTypes
  <2>4. \A u \in Thread : u # t => This(u) # This(t)
    BY DEF This
  <2>5. \A r \in requests' : r \in requests \/ r = req
    BY <2>1
  <2> HIDE DEF req
  <2>6. \A r \in requests : r.callNo # This(t)
    BY <2>2 DEF Pending
  <2>7. ASSUME NEW u \in Thread, Unsent(u)'
        PROVE  executed'[<<u, callNo'[u]>>] = 0
               /\ {r \in requests' : r.callNo = <<u, callNo'[u]>>} = {}
    <3>1. executed[This(u)] = 0 /\ Pending(This(u)) = {} /\ This(u) # This(t)
      BY <2>3, <2>4, <2>7 DEF OnceInv
    <3>2. QED BY <2>1, <2>2, <2>5, <3>1 DEF Pending, This
  <2>8. \A r, q \in requests' : r.callNo = q.callNo => r = q
    BY <2>2, <2>5, <2>6 DEF OnceInv
  <2>9. \A r \in requests' : executed'[r.callNo] = 0 /\ status'[r.callNo] \in {"asked", "timeout"}
    BY <2>1, <2>2, <2>5 DEF OnceInv
  <2>10. \A c \in CallId : executed'[c] \in {0, 1} /\ (status'[c] = "unborn" => executed'[c] = 0)
    BY <2>1 DEF OnceInv
  <2>11. QED BY <2>7, <2>8, <2>9, <2>10 DEF OnceInv, Pending, This
<1>18. ASSUME NEW r \in requests, NEW gone \in SUBSET requests, r \in gone,
             requests' = requests \ gone,
             executed' = executed \/ executed' = [executed EXCEPT ![r.callNo] = @ + 1],
             UNCHANGED <<pc, callNo, outcome, status>>
      PROVE  OnceInv'
  <2>1. r.callNo \in CallId /\ executed[r.callNo] = 0 /\ status[r.callNo] # "unborn"
    BY DEF OnceInv, CallTypeOK, WireTypes, Request
  <2>2. \A c \in CallId : executed'[c] = executed[c] \/ (c = r.callNo /\ executed'[c] = 1)
    <3>1. CASE executed' = executed
      BY <3>1
    <3>2. CASE executed' = [executed EXCEPT ![r.callNo] = @ + 1]
      BY <2>1, <3>2 DEF CallTypeOK, ResultTypes
    <3>3. QED BY <1>18, <3>1, <3>2
  <2>3. \A q \in requests' : q \in requests /\ q.callNo \in CallId /\ q.callNo # r.callNo
    BY <1>18 DEF OnceInv, CallTypeOK, WireTypes, Request
  <2>4. ASSUME NEW t \in Thread, Unsent(t)
        PROVE  executed'[This(t)] = 0 /\ {q \in requests' : q.callNo = This(t)} = {}
    <3>1. executed[This(t)] = 0 /\ Pending(This(t)) = {}
      BY <2>4 DEF OnceInv
    <3>2. This(t) # r.callNo
      BY <3>1 DEF Pending
    <3>3. executed'[This(t)] = 0
      <4>1. callNo[t] >= 1 /\ callNo[t] \in 0 .. CallMax
        BY <2>4 DEF Unsent, Asking, ThreadInv, CallTypeOK, ThreadTypes
      <4>2. This(t) \in CallId
        BY <4>1 DEF This, CallId
      <4>3. QED BY <2>2, <3>1, <3>2, <4>2
    <3>4. QED BY <2>3, <3>1, <3>3 DEF Pending
  <2>5. \A t \in Thread : Unsent(t)' => Unsent(t)
    BY <1>18 DEF Unsent
  <2>6. \A t \in Thread : Unsent(t)' =>
          executed'[This(t)'] = 0 /\ {q \in requests' : q.callNo = This(t)'} = {}
    BY <1>18, <2>4, <2>5 DEF This
  <2>7. /\ \A c \in CallId : executed'[c] \in {0, 1} /\ (status'[c] = "unborn" => executed'[c] = 0)
        /\ \A x, q \in requests' : x.callNo = q.callNo => x = q
        /\ \A q \in requests' :
             executed'[q.callNo] = 0 /\ status'[q.callNo] \in {"asked", "timeout"}
    BY <1>18, <2>1, <2>2, <2>3 DEF OnceInv
  <2>8. QED BY <2>6, <2>7 DEF OnceInv, Pending
<1>19. ASSUME NEW r \in requests, Serve(r)
      PROVE  OnceInv'
  BY <1>18, <1>19 DEF Serve
<1>20. ASSUME NEW r \in requests, ServerExits(r)
      PROVE  OnceInv'
  <2>1. requests' = requests \ {q \in requests : q.proxy[1] = r.proxy[1]}
    BY <1>20 DEF ServerExits
  <2>2. QED BY <1>18, <1>20, <2>1 DEF ServerExits
<1>21. ASSUME NEW p \in Proxy, ServerCloses(p)
      PROVE  OnceInv'
  <2>1. UNCHANGED <<pc, callNo, outcome, status, executed>> /\ requests' \subseteq requests
    BY <1>21 DEF ServerCloses
  <2>2. QED BY <2>1, OnceStands DEF OnceInv, Unsent
<1>22. ASSUME Term \/ Reinit
      PROVE  OnceInv'
  <2>1. UNCHANGED <<pc, callNo, outcome, status, executed>>
    BY <1>22 DEF Term, Reinit
  <2>2. /\ \A r \in requests' : \E q \in requests : r.callNo = q.callNo
        /\ \A r, q \in requests' : r.callNo = q.callNo => r = q
    BY <1>22, OnceRequests DEF Term, Reinit
  <2>3. QED BY <2>1, <2>2, OnceStands DEF OnceInv, Unsent
<1>23. CASE UNCHANGED callVars
  BY <1>23, OnceStands DEF OnceInv, Unsent, callVars
<1>24. QED BY <1>1, <1>2, <1>3, <1>4, <1>5, <1>6, <1>7, <1>8, <1>9, <1>10, <1>11, <1>12, <1>13,
             <1>14, <1>15, <1>16, <1>17, <1>19, <1>20, <1>21, <1>22, <1>23 DEF CallNext, Step,
             Server

-----------------------------------------------------------------------------
(* A call takes its own answer. *)

(* What a step does to the requests and answers of others than thread t.   *)
Aside(t) ==
  /\ \A u \in Thread : u # t => pc'[u] = pc[u] /\ cur'[u] = cur[u] /\ callNo'[u] = callNo[u]
  /\ \A p \in Proxy : mutex[p] \in Thread /\ mutex[p] # t => mutex'[p] = mutex[p]
  /\ executed' = executed
  /\ \A r \in requests' : \E q \in requests : r.callNo = q.callNo /\ r.proxy = q.proxy /\ (r.open => q.open)
  /\ \A p \in Proxy : answers'[p] # <<>> => answers'[p] = answers[p]

LEMMA AnswersStand ==
  ASSUME CallTypeOK, AnswerInv, RequestInv, NEW t \in Thread, Aside(t),
         \A r \in requests' : r.open => r.callNo[1] # t,
         \A p \in Proxy : answers'[p] # <<>> => mutex[p] # t
  PROVE  RequestInv' /\ AnswerInv'
<1>1. ASSUME NEW r \in requests', r.open
      PROVE  /\ pc'[r.callNo[1]] \in {"receive", "close"} /\ cur'[r.callNo[1]] = r.proxy
             /\ r.callNo = <<r.callNo[1], callNo'[r.callNo[1]]>>
  <2>1. PICK q \in requests : r.callNo = q.callNo /\ r.proxy = q.proxy /\ q.open
    BY <1>1 DEF Aside
  <2>2. r.callNo[1] \in Thread /\ r.callNo[1] # t
    BY <1>1, <2>1 DEF CallTypeOK, WireTypes, Request, CallId
  <2>3. QED BY <2>1, <2>2 DEF Aside, RequestInv, This
<1>2. ASSUME NEW p \in Proxy, answers'[p] # <<>>
      PROVE  /\ mutex'[p] \in Thread /\ pc'[mutex'[p]] \in {"receive", "close"}
             /\ Len(answers'[p]) = 1
             /\ answers'[p][1].callNo = This(mutex[p])' /\ Pending(This(mutex[p]))' = {}
             /\ answers'[p][1].code = "DONE" => executed'[This(mutex[p])'] = 1
             /\ answers'[p][1].code = "SVC_NOT_FOUND" => executed'[This(mutex[p])'] = 0
  <2>1. answers'[p] = answers[p] /\ mutex[p] # t
    BY <1>2 DEF Aside
  <2>2. /\ mutex[p] \in Thread /\ pc[mutex[p]] \in {"receive", "close"} /\ Len(answers[p]) = 1
        /\ answers[p][1].callNo = This(mutex[p]) /\ Pending(This(mutex[p])) = {}
        /\ answers[p][1].code = "DONE" => executed[This(mutex[p])] = 1
        /\ answers[p][1].code = "SVC_NOT_FOUND" => executed[This(mutex[p])] = 0
    BY <1>2, <2>1 DEF AnswerInv
  <2>3. mutex'[p] = mutex[p] /\ pc'[mutex[p]] = pc[mutex[p]] /\ callNo'[mutex[p]] = callNo[mutex[p]]
    BY <2>1, <2>2 DEF Aside
  <2>4. This(mutex[p])' = This(mutex[p])
    BY <2>3 DEF This
  <2>5. Pending(This(mutex[p]))' = {}
    BY <2>2, <2>4 DEF Pending, Aside
  <2>6. executed' = executed
    BY DEF Aside
  <2>7. QED BY <2>1, <2>2, <2>3, <2>4, <2>5, <2>6
<1>3. RequestInv'
  BY <1>1 DEF RequestInv, This
<1>4. AnswerInv'
  BY <1>2 DEF AnswerInv
<1>5. QED BY <1>3, <1>4

(* A thread that waits for no answer has none coming.                      *)
LEMMA Waiting ==
  ASSUME CallTypeOK, AnswerInv, RequestInv, MutexesGivenBack, NEW t \in Thread
  PROVE  /\ pc[t] \notin {"receive", "close"} =>
              /\ \A r \in requests : r.open => r.callNo[1] # t
              /\ \A p \in Proxy : answers[p] # <<>> => mutex[p] # t
         /\ \A p \in Proxy : mutex[p] = t => cur[t] = p
<1>1. \A r \in requests : r.callNo[1] \in Thread
  BY DEF CallTypeOK, WireTypes, Request, CallId
<1>2. QED BY <1>1, Sizes DEF AnswerInv, RequestInv, MutexesGivenBack

LEMMA AnswersKept ==
  ASSUME CallTypeOK, ThreadInv, MutexesGivenBack, StatusInv, OnceInv, RequestInv, AnswerInv,
             [CallNext]_callVars
  PROVE  RequestInv' /\ AnswerInv'
<1> USE Sizes DEF stubVars, wire, life, callState, attempt, Goto
<1>1. ASSUME NEW t \in Thread, Aside(t), pc[t] \notin {"receive", "close"}
      PROVE  RequestInv' /\ AnswerInv'
  <2>1. \A r \in requests' : r.open => r.callNo[1] # t
    BY <1>1, Waiting DEF Aside
  <2>2. \A p \in Proxy : answers'[p] # <<>> => mutex[p] # t
    BY <1>1, Waiting DEF Aside
  <2>3. QED BY <1>1, <2>1, <2>2, AnswersStand
<1>2. ASSUME NEW t \in Thread, DownloadFails(t)
      PROVE  RequestInv' /\ AnswerInv'
  <2>1. Aside(t)
    BY <1>2 DEF Aside, DownloadFails, CallTypeOK, ThreadTypes, AttemptTypes
  <2>2. pc[t] \notin {"receive", "close"}
    BY <1>2 DEF DownloadFails
  <2>3. QED BY <1>1, <2>1, <2>2
<1>3. ASSUME NEW t \in Thread, Download(t)
      PROVE  RequestInv' /\ AnswerInv'
  <2>1. Aside(t)
    <3>1. \E new \in Subscriptions : UpdateServiceInfo(new)
      BY <1>3 DEF Download
    <3>2. Closed(Gone(refs, refs')) /\ Gone(refs, refs') \in SUBSET Proxy
      BY <3>1 DEF UpdateServiceInfo, Gone
    <3>3. /\ \A r \in requests' : \E q \in requests :
               r.callNo = q.callNo /\ r.proxy = q.proxy /\ (r.open => q.open)
          /\ \A p \in Proxy : answers'[p] # <<>> => answers'[p] = answers[p]
      BY <3>2, ClosedRequests, ClosedWire
    <3>4. QED BY <1>3, <3>3 DEF Aside, Download, CallTypeOK, ThreadTypes, AttemptTypes
  <2>2. pc[t] \notin {"receive", "close"}
    BY <1>3 DEF Download
  <2>3. QED BY <1>1, <2>1, <2>2
<1>4. ASSUME NEW t \in Thread, Pick(t)
      PROVE  RequestInv' /\ AnswerInv'
  <2>1. Aside(t)
    BY <1>4 DEF Aside, Pick, CallTypeOK, ThreadTypes, AttemptTypes
  <2>2. pc[t] \notin {"receive", "close"}
    BY <1>4 DEF Pick
  <2>3. QED BY <1>1, <2>1, <2>2
<1>5. ASSUME NEW t \in Thread, Repick(t)
      PROVE  RequestInv' /\ AnswerInv'
  <2>1. Aside(t)
    BY <1>5 DEF Aside, Repick, CallTypeOK, ThreadTypes, AttemptTypes
  <2>2. pc[t] \notin {"receive", "close"}
    BY <1>5 DEF Repick
  <2>3. QED BY <1>1, <2>1, <2>2
<1>6. ASSUME NEW t \in Thread, NextServer(t)
      PROVE  RequestInv' /\ AnswerInv'
  <2>1. Aside(t)
    BY <1>6 DEF Aside, NextServer, CallTypeOK, ThreadTypes, AttemptTypes
  <2>2. pc[t] \notin {"receive", "close"}
    BY <1>6 DEF NextServer
  <2>3. QED BY <1>1, <2>1, <2>2
<1>7. ASSUME NEW t \in Thread, Lock(t)
      PROVE  RequestInv' /\ AnswerInv'
  <2>1. Aside(t)
    <3>1. \A p \in Proxy : mutex[p] \in Thread /\ mutex[p] # t => mutex'[p] = mutex[p]
      BY <1>7 DEF Lock, CallTypeOK, ThreadTypes, AttemptTypes, ThreadInv, Calling
    <3>2. QED BY <1>7, <3>1 DEF Aside, Lock, CallTypeOK, ThreadTypes, AttemptTypes
  <2>2. pc[t] \notin {"receive", "close"}
    BY <1>7 DEF Lock
  <2>3. QED BY <1>1, <2>1, <2>2
<1>8. ASSUME NEW t \in Thread, Connect(t)
      PROVE  RequestInv' /\ AnswerInv'
  <2>1. Aside(t)
    BY <1>8 DEF Aside, Connect, CallTypeOK, ThreadTypes, AttemptTypes
  <2>2. pc[t] \notin {"receive", "close"}
    BY <1>8 DEF Connect
  <2>3. QED BY <1>1, <2>1, <2>2
<1>9. ASSUME NEW t \in Thread, ConnectFails(t)
      PROVE  RequestInv' /\ AnswerInv'
  <2>1. Aside(t)
    <3>1. \A p \in Proxy : mutex[p] \in Thread /\ mutex[p] # t => mutex'[p] = mutex[p]
      BY <1>9 DEF ConnectFails, CallTypeOK, ThreadTypes, AttemptTypes, ThreadInv, Calling
    <3>2. QED BY <1>9, <3>1 DEF Aside, ConnectFails, CallTypeOK, ThreadTypes, AttemptTypes
  <2>2. pc[t] \notin {"receive", "close"}
    BY <1>9 DEF ConnectFails
  <2>3. QED BY <1>1, <2>1, <2>2
<1>10. ASSUME NEW t \in Thread, SendFails(t)
      PROVE  RequestInv' /\ AnswerInv'
  <2>1. Aside(t)
    BY <1>10 DEF Aside, SendFails, CallTypeOK, ThreadTypes, AttemptTypes
  <2>2. pc[t] \notin {"receive", "close"}
    BY <1>10 DEF SendFails
  <2>3. QED BY <1>1, <2>1, <2>2
<1>11. ASSUME NEW t \in Thread, Leave(t)
      PROVE  RequestInv' /\ AnswerInv'
  <2>1. Aside(t)
    <3>1. \A p \in Proxy : mutex[p] \in Thread /\ mutex[p] # t => mutex'[p] = mutex[p]
      BY <1>11 DEF Leave, CallTypeOK, ThreadTypes, AttemptTypes, ThreadInv, Calling
    <3>2. QED BY <1>11, <3>1 DEF Aside, Leave, CallTypeOK, ThreadTypes, AttemptTypes
  <2>2. pc[t] \notin {"receive", "close"}
    BY <1>11 DEF Leave
  <2>3. QED BY <1>1, <2>1, <2>2
<1>12. ASSUME NEW t \in Thread, BreakDown(t)
      PROVE  RequestInv' /\ AnswerInv'
  <2>1. Aside(t)
    BY <1>12 DEF Aside, BreakDown, CallTypeOK, ThreadTypes, AttemptTypes
  <2>2. pc[t] \notin {"receive", "close"}
    BY <1>12 DEF BreakDown
  <2>3. QED BY <1>1, <2>1, <2>2
<1>13. ASSUME NEW t \in Thread, Return(t)
      PROVE  RequestInv' /\ AnswerInv'
  <2>1. Aside(t)
    <3>1. pc[t] = "end"
      BY <1>13 DEF Return
    <3>2. Closed(Gone(refs, refs')) /\ Gone(refs, refs') \in SUBSET Proxy
      BY <1>13 DEF Return, Gone
    <3>3. /\ \A r \in requests' : \E q \in requests :
               r.callNo = q.callNo /\ r.proxy = q.proxy /\ (r.open => q.open)
          /\ \A p \in Proxy : answers'[p] # <<>> => answers'[p] = answers[p]
      BY <3>2, ClosedRequests, ClosedWire
    <3>4. QED BY <1>13, <3>3 DEF Aside, Return, CallTypeOK, ThreadTypes, AttemptTypes
  <2>2. pc[t] \notin {"receive", "close"}
    BY <1>13 DEF Return
  <2>3. QED BY <1>1, <2>1, <2>2
<1>14. ASSUME NEW t \in Thread, NEW s \in Service, Begin(t, s)
      PROVE  RequestInv' /\ AnswerInv'
  <2>1. Aside(t)
    BY <1>14 DEF Aside, Begin, CallTypeOK, ThreadTypes, AttemptTypes
  <2>2. pc[t] \notin {"receive", "close"}
    BY <1>14 DEF Begin
  <2>3. QED BY <1>1, <2>1, <2>2
<1>15. ASSUME NEW t \in Thread, SendRequest(t)
      PROVE  RequestInv' /\ AnswerInv'
  <2> DEFINE req == [callNo |-> This(t), proxy |-> cur[t], open |-> TRUE]
  <2>1. /\ pc[t] = "send" /\ UNCHANGED <<executed, callNo, cur, answers, mutex>>
        /\ pc' = [pc EXCEPT ![t] = "receive"]
        /\ (requests' = requests \/ requests' = requests \cup {req})
    BY <1>15 DEF SendRequest
  <2>2. req.callNo = This(t) /\ req.proxy = cur[t] /\ This(t)[1] = t /\ pc'[t] = "receive"
    BY <2>1 DEF This, CallTypeOK, ThreadTypes
  <2>3. \A r \in requests' : r \in requests \/ r = req
    BY <2>1
  <2> HIDE DEF req
  <2>4. \A r \in requests : r.open => r.callNo[1] \in Thread /\ r.callNo[1] # t
    BY <2>1, Waiting DEF CallTypeOK, WireTypes, Request, CallId
  <2>5. \A p \in Proxy : answers[p] # <<>> => mutex[p] # t
    BY <2>1, Waiting
  <2>6. \A u \in Thread : u # t => pc'[u] = pc[u] /\ This(u) # This(t)
    BY <2>1 DEF This, CallTypeOK, ThreadTypes
  <2>7. ASSUME NEW r \in requests', r.open
        PROVE  /\ pc'[r.callNo[1]] \in {"receive", "close"} /\ cur[r.callNo[1]] = r.proxy
               /\ r.callNo = This(r.callNo[1])
    <3>1. CASE r = req
      BY <2>2, <3>1
    <3>2. CASE r \in requests
      BY <2>4, <2>6, <2>7, <3>2 DEF RequestInv
    <3>3. QED BY <2>3, <3>1, <3>2
  <2>8. ASSUME NEW p \in Proxy, answers[p] # <<>>
        PROVE  pc'[mutex[p]] \in {"receive", "close"} /\ Pending(This(mutex[p]))' = {}
    <3>1. mutex[p] \in Thread /\ mutex[p] # t /\ pc[mutex[p]] \in {"receive", "close"}
          /\ Pending(This(mutex[p])) = {}
      BY <2>5, <2>8 DEF AnswerInv
    <3>2. This(mutex[p])' = This(mutex[p])
      BY <2>1 DEF This
    <3>3. \A r \in requests' : r.callNo # This(mutex[p])
      BY <2>2, <2>3, <2>6, <3>1 DEF Pending
    <3>4. QED BY <2>6, <3>1, <3>2, <3>3 DEF Pending
  <2>9. RequestInv'
    BY <2>1, <2>7 DEF RequestInv, This
  <2>10. AnswerInv'
    BY <2>1, <2>8 DEF AnswerInv, This
  <2>11. QED BY <2>9, <2>10
<1>16. ASSUME NEW t \in Thread, ReceiveFails(t)
      PROVE  RequestInv' /\ AnswerInv'
  <2>1. /\ pc[t] = "receive" /\ UNCHANGED <<executed, callNo, cur, answers, mutex, requests>>
        /\ pc' = [pc EXCEPT ![t] = "close"]
    BY <1>16 DEF ReceiveFails, AfterFailure
  <2>2. \A u \in Thread : pc[u] \in {"receive", "close"} => pc'[u] \in {"receive", "close"}
    BY <2>1 DEF CallTypeOK, ThreadTypes
  <2>3. \A r \in requests : r.callNo[1] \in Thread
    BY DEF CallTypeOK, WireTypes, Request, CallId
  <2>4. RequestInv'
    BY <2>1, <2>2, <2>3 DEF RequestInv, This
  <2>5. AnswerInv'
    BY <2>1, <2>2 DEF AnswerInv, This, Pending
  <2>6. QED BY <2>4, <2>5
<1>17. ASSUME NEW t \in Thread, Receive(t)
      PROVE  RequestInv' /\ AnswerInv'
  <2>1. /\ pc[t] = "receive" /\ cur[t] \in Proxy /\ mutex[cur[t]] = t /\ answers[cur[t]] # <<>>
        /\ answers[cur[t]] \in Seq(Reply)
    BY <1>17 DEF Receive, ThreadInv, Calling, CallTypeOK, WireTypes
  <2>2. Len(answers[cur[t]]) = 1 /\ Pending(This(t)) = {}
    BY <2>1 DEF AnswerInv
  <2>3. answers' = [answers EXCEPT ![cur[t]] = Tail(answers[cur[t]])] /\ Tail(answers[cur[t]]) = <<>>
    <3>1. Tail(answers[cur[t]]) \in Seq(Reply) /\ Len(Tail(answers[cur[t]])) = 0
      BY <2>1, <2>2, HeadTailProperties
    <3>2. Tail(answers[cur[t]]) = <<>>
      BY <3>1, EmptySeq
    <3>3. QED BY <1>17, <3>2 DEF Receive
  <2>4. \A p \in Proxy : answers'[p] # <<>> => p # cur[t] /\ answers'[p] = answers[p]
    BY <2>1, <2>3 DEF CallTypeOK, WireTypes
  <2>5. Aside(t)
    BY <1>17, <2>4 DEF Aside, Receive, CallTypeOK, ThreadTypes, AttemptTypes
  <2>6. \A r \in requests' : r.open => r.callNo[1] # t
    BY <1>17, <2>2 DEF Receive, RequestInv, Pending
  <2>7. \A p \in Proxy : answers'[p] # <<>> => mutex[p] # t
    BY <2>4, Waiting
  <2>8. QED BY <2>5, <2>6, <2>7, AnswersStand
<1>18. ASSUME NEW t \in Thread, Close(t)
      PROVE  RequestInv' /\ AnswerInv'
  <2>1. /\ pc[t] = "close" /\ cur[t] \in Proxy /\ mutex[cur[t]] = t
        /\ Closed({cur[t]}) /\ {cur[t]} \in SUBSET Proxy
    BY <1>18 DEF Close, ThreadInv, Calling
  <2>2. \A p \in Proxy : answers'[p] # <<>> => p # cur[t] /\ answers'[p] = answers[p]
    BY <2>1, ClosedWire
  <2>3. \A r \in requests' : \E q \in requests :
          r.callNo = q.callNo /\ r.proxy = q.proxy /\ (r.open => q.open /\ q.proxy # cur[t])
    BY <2>1, ClosedRequests
  <2>4. \A p \in Proxy : mutex[p] \in Thread /\ mutex[p] # t => mutex'[p] = mutex[p]
    BY <1>18, <2>1 DEF Close, CallTypeOK, ThreadTypes, AttemptTypes
  <2>5. Aside(t)
    BY <1>18, <2>2, <2>3, <2>4 DEF Aside, Close, CallTypeOK, ThreadTypes, AttemptTypes
  <2>6. \A r \in requests' : r.open => r.callNo[1] # t
    BY <2>3 DEF RequestInv
  <2>7. \A p \in Proxy : answers'[p] # <<>> => mutex[p] # t
    BY <2>2, Waiting
  <2>8. QED BY <2>5, <2>6, <2>7, AnswersStand
<1>19. ASSUME NEW r \in requests, NEW gone \in SUBSET requests, r \in gone,
             requests' = requests \ gone,
             executed' = executed \/ executed' = [executed EXCEPT ![r.callNo] = @ + 1],
             UNCHANGED <<pc, callNo, cur, mutex>>
      PROVE  /\ RequestInv'
             /\ \A p \in Proxy : answers[p] # <<>> =>
                  /\ This(mutex[p])' = This(mutex[p]) /\ This(mutex[p]) # r.callNo
                  /\ executed'[This(mutex[p])] = executed[This(mutex[p])]
                  /\ Pending(This(mutex[p]))' = {}
  <2>1. RequestInv'
    BY <1>19 DEF RequestInv, This
  <2>2. r.callNo \in CallId
    BY DEF CallTypeOK, WireTypes, Request
  <2>3. ASSUME NEW p \in Proxy, answers[p] # <<>>
        PROVE  /\ This(mutex[p])' = This(mutex[p]) /\ This(mutex[p]) # r.callNo
               /\ executed'[This(mutex[p])] = executed[This(mutex[p])]
               /\ Pending(This(mutex[p]))' = {}
    <3>1. mutex[p] \in Thread /\ Pending(This(mutex[p])) = {} /\ This(mutex[p])' = This(mutex[p])
      BY <1>19, <2>3 DEF AnswerInv, This
    <3>2. This(mutex[p]) # r.callNo
      BY <3>1 DEF Pending
    <3>3. executed'[This(mutex[p])] = executed[This(mutex[p])]
      <4>1. CASE executed' = [executed EXCEPT ![r.callNo] = @ + 1]
        BY <3>2, <4>1 DEF CallTypeOK, ResultTypes
      <4>2. QED BY <1>19, <4>1
    <3>4. Pending(This(mutex[p]))' = {}
      BY <1>19, <3>1 DEF Pending
    <3>5. QED BY <3>1, <3>2, <3>3, <3>4
  <2>4. QED BY <2>1, <2>3
<1>20. ASSUME NEW r \in requests, Serve(r)
      PROVE  RequestInv' /\ AnswerInv'
  <2>1. PICK e \in Endings, d \in BOOLEAN :
          /\ executed' = IF e.ran THEN [executed EXCEPT ![r.callNo] = @ + 1] ELSE executed
          /\ answers' = IF r.open /\ fd[r.proxy] = "open"
                        THEN [answers EXCEPT ![r.proxy] =
                                 Append(@, [callNo |-> r.callNo, code |-> e.code, disc |-> d])]
                        ELSE answers
    BY <1>20 DEF Serve
  <2>2. /\ RequestInv'
        /\ \A p \in Proxy : answers[p] # <<>> =>
             /\ This(mutex[p])' = This(mutex[p]) /\ This(mutex[p]) # r.callNo
             /\ executed'[This(mutex[p])] = executed[This(mutex[p])]
             /\ Pending(This(mutex[p]))' = {}
    <3>1. UNCHANGED <<pc, callNo, cur,
             mutex>> /\ requests' = requests \ {r} /\ {r} \in SUBSET requests
      BY <1>20 DEF Serve
    <3>2. executed' = executed \/ executed' = [executed EXCEPT ![r.callNo] = @ + 1]
      BY <2>1
    <3>3. QED BY <1>19, <3>1, <3>2
  <2>3. r.callNo \in CallId /\ executed[r.callNo] = 0 /\ r.proxy \in Proxy
        /\ UNCHANGED <<pc, mutex, callNo>>
    BY <1>20 DEF Serve, CallTypeOK, WireTypes, Request, OnceInv
  <2>4. ASSUME NEW p \in Proxy, answers'[p] # <<>>
        PROVE  /\ mutex[p] \in Thread /\ pc[mutex[p]] \in {"receive", "close"}
               /\ Len(answers'[p]) = 1
               /\ answers'[p][1].callNo = This(mutex[p])' /\ Pending(This(mutex[p]))' = {}
               /\ answers'[p][1].code = "DONE" => executed'[This(mutex[p])'] = 1
               /\ answers'[p][1].code = "SVC_NOT_FOUND" => executed'[This(mutex[p])'] = 0
    <3>1. CASE answers'[p] = answers[p]
      BY <2>2, <2>4, <3>1 DEF AnswerInv
    <3>2. CASE answers'[p] # answers[p]
      <4> DEFINE t == r.callNo[1]
                 rep == [callNo |-> r.callNo, code |-> e.code, disc |-> d]
      <4>1. r.open /\ p = r.proxy /\ answers'[p] = Append(answers[p], rep)
        BY <2>1, <2>3, <3>2 DEF CallTypeOK, WireTypes
      <4>2. t \in Thread /\ pc[t] \in {"receive", "close"} /\ cur[t] = p /\ r.callNo = This(t)
        BY <2>3, <4>1 DEF RequestInv, CallId
      <4>3. mutex[p] = t
        BY <4>2 DEF ThreadInv, Calling
      <4>4. answers[p] = <<>>
        BY <2>2, <4>2, <4>3
      <4>5. answers'[p] = <<rep>>
        BY <4>1, <4>4
      <4>6. rep.callNo = r.callNo /\ rep.code = e.code
        OBVIOUS
      <4>7. \A q \in requests' : q.callNo # r.callNo
        BY <1>20 DEF Serve, OnceInv
      <4>8. /\ e.code = "DONE" => executed'[r.callNo] = 1
            /\ e.code = "SVC_NOT_FOUND" => executed'[r.callNo] = 0
        <5>1. (e.code = "DONE" => e.ran) /\ (e.code = "SVC_NOT_FOUND" => ~e.ran)
          BY DEF Endings
        <5>2. QED BY <2>1, <2>3, <5>1 DEF CallTypeOK, ResultTypes
      <4>9. This(mutex[p])' = r.callNo
        BY <2>3, <4>2, <4>3 DEF This
      <4>10. answers'[p][1] = rep /\ Len(answers'[p]) = 1
        BY <4>5
      <4> HIDE DEF rep, t
      <4>11. Pending(This(mutex[p]))' = {}
        BY <4>7, <4>9 DEF Pending
      <4>12. QED BY <4>2, <4>3, <4>6, <4>8, <4>9, <4>10, <4>11
    <3>3. QED BY <3>1, <3>2
  <2>5. AnswerInv'
    BY <2>3, <2>4 DEF AnswerInv
  <2>6. QED BY <2>2, <2>5
<1>21. ASSUME NEW r \in requests, ServerExits(r)
      PROVE  RequestInv' /\ AnswerInv'
  <2>1. /\ UNCHANGED <<pc, callNo, cur, mutex, answers>>
        /\ executed' = [executed EXCEPT ![r.callNo] = @ + 1]
        /\ requests' = requests \ {q \in requests : q.proxy[1] = r.proxy[1]}
    BY <1>21 DEF ServerExits
  <2>2. /\ RequestInv'
        /\ \A p \in Proxy : answers[p] # <<>> =>
             /\ This(mutex[p])' = This(mutex[p]) /\ This(mutex[p]) # r.callNo
             /\ executed'[This(mutex[p])] = executed[This(mutex[p])]
             /\ Pending(This(mutex[p]))' = {}
    BY <1>19, <2>1
  <2>3. AnswerInv'
    BY <2>1, <2>2 DEF AnswerInv
  <2>4. QED BY <2>2, <2>3
<1>22. ASSUME UNCHANGED <<pc, callNo, cur, mutex, answers, executed>>, requests' \subseteq requests
      PROVE  RequestInv' /\ AnswerInv'
  <2>1. RequestInv'
    BY <1>22 DEF RequestInv, This
  <2>2. AnswerInv'
    BY <1>22 DEF AnswerInv, This, Pending
  <2>3. QED BY <2>1, <2>2
<1>23. ASSUME NEW p \in Proxy, ServerCloses(p)
      PROVE  RequestInv' /\ AnswerInv'
  BY <1>22, <1>23 DEF ServerCloses
<1>24. ASSUME Term
      PROVE  RequestInv' /\ AnswerInv'
  <2>1. \E P \in SUBSET Proxy : Closed(P)
    BY <1>24 DEF Term
  <2>2. /\ \A r \in requests' : \E q \in requests : r.callNo = q.callNo /\ (r.open => q.open)
        /\ \A p \in Proxy : answers'[p] # <<>> => answers'[p] = answers[p]
    BY <2>1, ClosedRequests, ClosedWire
  <2>3. \A t \in Thread : pc[t] = "idle"
    BY <1>24 DEF Term
  <2>4. \A r \in requests' : ~r.open
    <3>1. \A q \in requests : q.callNo[1] \in Thread
      BY DEF CallTypeOK, WireTypes, Request, CallId
    <3>2. \A q \in requests : ~q.open
      BY <2>3, <3>1 DEF RequestInv
    <3>3. QED BY <2>2, <3>2
  <2>5. \A p \in Proxy : answers'[p] = <<>>
    BY <2>2, <2>3 DEF AnswerInv
  <2>6. QED BY <2>4, <2>5 DEF RequestInv, AnswerInv
<1>25. CASE Reinit \/ UNCHANGED callVars
  BY <1>22, <1>25 DEF Reinit, callVars
<1>26. QED BY <1>2, <1>3, <1>4, <1>5, <1>6, <1>7, <1>8, <1>9, <1>10, <1>11, <1>12, <1>13, <1>14,
             <1>15, <1>16, <1>17, <1>18, <1>20, <1>21, <1>23, <1>24, <1>25 DEF CallNext, Step,
             Server

-----------------------------------------------------------------------------
(* The turns of a call. *)

(* n turns one after the other, from any number on, are all of n places.   *)
LEMMA AllTurns ==
  ASSUME NEW n \in Nat \ {0}, NEW f \in Nat, NEW k \in 1 .. n
  PROVE  \E i \in 0 .. n - 1 : ((f + i) % n) + 1 = k
<1>1. ASSUME NEW q \in Nat, NEW m \in 0 .. n - 1
      PROVE  (q * n + m) % n = m
  OBVIOUS
<1>2. PICK q \in Nat, r \in 0 .. n - 1 : f = q * n + r
  <2>1. f % n \in 0 .. n - 1 /\ f = (f \div n) * n + (f % n) /\ f \div n \in Nat
    OBVIOUS
  <2>2. QED BY <2>1
<1>3. CASE k - 1 >= r
  <2>1. k - 1 - r \in 0 .. n - 1 /\ k - 1 \in 0 .. n - 1
    BY <1>3
  <2>2. f + (k - 1 - r) = q * n + (k - 1)
    BY <1>2
  <2>3. (f + (k - 1 - r)) % n = k - 1
    BY <1>1, <2>1, <2>2
  <2>4. QED BY <2>1, <2>3
<1>4. CASE k - 1 < r
  <2>1. k - 1 - r + n \in 0 .. n - 1 /\ k - 1 \in 0 .. n - 1 /\ q + 1 \in Nat
    BY <1>4
  <2>2. (q + 1) * n = q * n + n
    OBVIOUS
  <2>3. f + (k - 1 - r + n) = (q + 1) * n + (k - 1)
    BY <1>2, <2>2
  <2>4. (f + (k - 1 - r + n)) % n = k - 1
    BY <1>1, <2>1, <2>3
  <2>5. ((f + (k - 1 - r + n)) % n) + 1 = k
    BY <2>4
  <2>6. QED BY <2>1, <2>5
<1>5. QED BY <1>3, <1>4

(* A call that has had as many turns as it has servers has had them all.   *)
LEMMA TurnsTryAll ==
  ASSUME CallTypeOK, TurnInv
  PROVE  AllTried
<1>1. SUFFICES ASSUME NEW t \in Thread, pc[t] = "next", index[t] = Len(servers[t]),
             first[t] + index[t] < FactorMax
               PROVE  tried[t] = {servers[t][k] : k \in DOMAIN servers[t]}
  BY DEF AllTried
<1> DEFINE n == Len(servers[t])
<1>2. n \in Nat /\ DOMAIN servers[t] = 1 .. n /\ first[t] \in Nat
  BY Sizes DEF CallTypeOK, ThreadTypes
<1>3. tried[t] = {Turn(t, i) : i \in 0 .. n - 1}
  BY <1>1 DEF TurnInv
<1>4. ASSUME NEW k \in 1 .. n
      PROVE  \E i \in 0 .. n - 1 : Turn(t, i) = servers[t][k]
  <2>1. n \in Nat \ {0}
    BY <1>2
  <2>2. PICK i \in 0 .. n - 1 : ((first[t] + i) % n) + 1 = k
    BY <1>2, <2>1, AllTurns
  <2>3. QED BY <2>2 DEF Turn
<1>5. ASSUME NEW i \in 0 .. n - 1
      PROVE  \E k \in 1 .. n : Turn(t, i) = servers[t][k]
  <2>1. n \in Nat \ {0} /\ first[t] + i \in Nat
    BY <1>2
  <2>2. ((first[t] + i) % n) + 1 \in 1 .. n
    BY <2>1
  <2>3. QED BY <2>2 DEF Turn
<1>6. QED BY <1>2, <1>3, <1>4, <1>5

(* A thread that neither begins a call nor takes a turn keeps its turns.   *)
LEMMA TurnStands ==
  ASSUME TurnInv, UNCHANGED <<index, first, factor, tried>>,
         \A t \in Thread : pc'[t] # "idle" => pc[t] # "idle",
         \A t \in Thread : \/ servers'[t] = servers[t]
                           \/ index[t] = 0 /\ tried[t] = {} /\ Len(servers'[t]) \in Nat
  PROVE  TurnInv'
<1>1. SUFFICES ASSUME NEW t \in Thread
               PROVE  /\ index'[t] <= Len(servers'[t])
                      /\ pc'[t] # "idle" /\ first'[t] + index'[t] < FactorMax =>
                           /\ factor'[t] = first'[t] + index'[t]
                           /\ tried'[t] = {Turn(t, i)' : i \in 0 .. index'[t] - 1}
  BY DEF TurnInv
<1>2. CASE servers'[t] = servers[t]
  <2>1. \A i : Turn(t, i)' = Turn(t, i)
    BY <1>2 DEF Turn
  <2>2. QED BY <1>2, <2>1 DEF TurnInv
<1>3. CASE index[t] = 0 /\ tried[t] = {} /\ Len(servers'[t]) \in Nat
  BY <1>3 DEF TurnInv
<1>4. QED BY <1>2, <1>3

LEMMA TurnsKept ==
  ASSUME CallTypeOK, StubInv, ThreadInv, TurnInv, [CallNext]_callVars
  PROVE  TurnInv'
<1> USE Sizes DEF stubVars, wire, life, callState, attempt, Goto
<1>1. ASSUME NEW t \in Thread, DownloadFails(t)
      PROVE  TurnInv'
  <2>1. UNCHANGED <<index, first, factor, tried, servers>>
    BY <1>1 DEF DownloadFails
  <2>2. \A u \in Thread : pc'[u] # "idle" => pc[u] # "idle"
    BY <1>1 DEF DownloadFails, CallTypeOK, ThreadTypes
  <2>3. QED BY <2>1, <2>2, TurnStands
<1>2. ASSUME NEW t \in Thread, Download(t)
      PROVE  TurnInv'
  <2>1. UNCHANGED <<index, first, factor, tried, servers>>
    BY <1>2 DEF Download
  <2>2. \A u \in Thread : pc'[u] # "idle" => pc[u] # "idle"
    BY <1>2 DEF Download, CallTypeOK, ThreadTypes
  <2>3. QED BY <2>1, <2>2, TurnStands
<1>3. ASSUME NEW t \in Thread, Lock(t)
      PROVE  TurnInv'
  <2>1. UNCHANGED <<index, first, factor, tried, servers>>
    BY <1>3 DEF Lock
  <2>2. \A u \in Thread : pc'[u] # "idle" => pc[u] # "idle"
    BY <1>3 DEF Lock, CallTypeOK, ThreadTypes
  <2>3. QED BY <2>1, <2>2, TurnStands
<1>4. ASSUME NEW t \in Thread, Connect(t)
      PROVE  TurnInv'
  <2>1. UNCHANGED <<index, first, factor, tried, servers>>
    BY <1>4 DEF Connect
  <2>2. \A u \in Thread : pc'[u] # "idle" => pc[u] # "idle"
    BY <1>4 DEF Connect, CallTypeOK, ThreadTypes
  <2>3. QED BY <2>1, <2>2, TurnStands
<1>5. ASSUME NEW t \in Thread, ConnectFails(t)
      PROVE  TurnInv'
  <2>1. UNCHANGED <<index, first, factor, tried, servers>>
    BY <1>5 DEF ConnectFails
  <2>2. \A u \in Thread : pc'[u] # "idle" => pc[u] # "idle"
    BY <1>5 DEF ConnectFails, CallTypeOK, ThreadTypes
  <2>3. QED BY <2>1, <2>2, TurnStands
<1>6. ASSUME NEW t \in Thread, SendRequest(t)
      PROVE  TurnInv'
  <2>1. UNCHANGED <<index, first, factor, tried, servers>>
    BY <1>6 DEF SendRequest
  <2>2. \A u \in Thread : pc'[u] # "idle" => pc[u] # "idle"
    BY <1>6 DEF SendRequest, CallTypeOK, ThreadTypes
  <2>3. QED BY <2>1, <2>2, TurnStands
<1>7. ASSUME NEW t \in Thread, SendFails(t)
      PROVE  TurnInv'
  <2>1. UNCHANGED <<index, first, factor, tried, servers>>
    BY <1>7 DEF SendFails
  <2>2. \A u \in Thread : pc'[u] # "idle" => pc[u] # "idle"
    BY <1>7 DEF SendFails, CallTypeOK, ThreadTypes
  <2>3. QED BY <2>1, <2>2, TurnStands
<1>8. ASSUME NEW t \in Thread, Receive(t)
      PROVE  TurnInv'
  <2>1. UNCHANGED <<index, first, factor, tried, servers>>
    BY <1>8 DEF Receive
  <2>2. \A u \in Thread : pc'[u] # "idle" => pc[u] # "idle"
    BY <1>8 DEF Receive, CallTypeOK, ThreadTypes
  <2>3. QED BY <2>1, <2>2, TurnStands
<1>9. ASSUME NEW t \in Thread, ReceiveFails(t)
      PROVE  TurnInv'
  <2>1. UNCHANGED <<index, first, factor, tried, servers>>
    BY <1>9 DEF ReceiveFails
  <2>2. \A u \in Thread : pc'[u] # "idle" => pc[u] # "idle"
    BY <1>9 DEF ReceiveFails, AfterFailure, CallTypeOK, ThreadTypes
  <2>3. QED BY <2>1, <2>2, TurnStands
<1>10. ASSUME NEW t \in Thread, Leave(t)
      PROVE  TurnInv'
  <2>1. UNCHANGED <<index, first, factor, tried, servers>>
    BY <1>10 DEF Leave
  <2>2. \A u \in Thread : pc'[u] # "idle" => pc[u] # "idle"
    BY <1>10 DEF Leave, CallTypeOK, ThreadTypes
  <2>3. QED BY <2>1, <2>2, TurnStands
<1>11. ASSUME NEW t \in Thread, Close(t)
      PROVE  TurnInv'
  <2>1. UNCHANGED <<index, first, factor, tried, servers>>
    BY <1>11 DEF Close
  <2>2. \A u \in Thread : pc'[u] # "idle" => pc[u] # "idle"
    BY <1>11 DEF Close, CallTypeOK, ThreadTypes
  <2>3. QED BY <2>1, <2>2, TurnStands
<1>12. ASSUME NEW t \in Thread, BreakDown(t)
      PROVE  TurnInv'
  <2>1. UNCHANGED <<index, first, factor, tried, servers>>
    BY <1>12 DEF BreakDown
  <2>2. \A u \in Thread : pc'[u] # "idle" => pc[u] # "idle"
    BY <1>12 DEF BreakDown, CallTypeOK, ThreadTypes
  <2>3. QED BY <2>1, <2>2, TurnStands
<1>13. ASSUME NEW t \in Thread, Pick(t) \/ Repick(t)
      PROVE  TurnInv'
  <2>1. UNCHANGED <<index, first, factor, tried>> /\ PickProxies(t)
    BY <1>13 DEF Pick, Repick
  <2>2. \A u \in Thread : pc'[u] # "idle" => pc[u] # "idle"
    BY <1>13 DEF Pick, Repick, CallTypeOK, ThreadTypes
  <2>3. index[t] = 0 /\ tried[t] = {}
    BY <1>13 DEF Pick, Repick, ThreadInv, Unpicked
  <2>4. Len(servers'[t]) \in Nat /\ \A u \in Thread : u # t => servers'[u] = servers[u]
    BY <2>1, Picked
  <2>5. QED BY <2>1, <2>2, <2>3, <2>4, TurnStands
<1>14. ASSUME NEW t \in Thread, NEW s \in Service, Begin(t, s)
      PROVE  TurnInv'
  <2>1. /\ UNCHANGED <<index, factor, tried, servers>> /\ first' = [first EXCEPT ![t] = factor[t]]
        /\ \A u \in Thread : u # t => pc'[u] = pc[u]
    BY <1>14 DEF Begin, CallTypeOK, ThreadTypes, AttemptTypes
  <2>2. index[t] = 0 /\ tried[t] = {} /\ first'[t] = factor[t] /\ factor[t] \in Nat /\ Len(servers[t]) \in Nat
    BY <1>14, <2>1 DEF Begin, ThreadInv, Unpicked, CallTypeOK, ThreadTypes, AttemptTypes
  <2>3. \A u \in Thread : u # t => first'[u] = first[u]
    BY <2>1 DEF CallTypeOK, ThreadTypes
  <2>4. \A u \in Thread : u # t => \A i : Turn(u, i)' = Turn(u, i)
    BY <2>1, <2>3 DEF Turn
  <2>5. ASSUME NEW u \in Thread
        PROVE  /\ index'[u] <= Len(servers'[u])
               /\ pc'[u] # "idle" /\ first'[u] + index'[u] < FactorMax =>
                    /\ factor'[u] = first'[u] + index'[u]
                    /\ tried'[u] = {Turn(u, i)' : i \in 0 .. index'[u] - 1}
    <3>1. CASE u = t
      BY <2>1, <2>2, <3>1 DEF TurnInv
    <3>2. CASE u # t
      BY <2>1, <2>3, <2>4, <3>2 DEF TurnInv
    <3>3. QED BY <3>1, <3>2
  <2>6. QED BY <2>5 DEF TurnInv
<1>15. ASSUME NEW t \in Thread, NextServer(t)
      PROVE  TurnInv'
  <2>1. /\ index[t] < Len(servers[t]) /\ index[t] \in Nat /\ factor[t] \in Nat /\ first[t] \in Nat
        /\ cur'[t] = servers[t][(factor[t] % Len(servers[t])) + 1] /\ pc[t] # "idle"
        /\ UNCHANGED <<servers, first>>
    BY <1>15 DEF NextServer, CallTypeOK, ThreadTypes, AttemptTypes
  <2>2. /\ index' = [index EXCEPT ![t] = index[t] + 1] /\ factor' = [factor EXCEPT ![t] = Advance(t)]
        /\ tried' = [tried EXCEPT ![t] = tried[t] \cup {cur'[t]}]
    BY <1>15 DEF NextServer
  <2>3. \A u \in Thread : u # t => /\ index'[u] = index[u] /\ factor'[u] = factor[u]
                                  /\ tried'[u] = tried[u] /\ pc'[u] = pc[u]
    BY <1>15, <2>2 DEF NextServer, CallTypeOK, ThreadTypes, AttemptTypes
  <2>4. index'[t] = index[t] + 1 /\ factor'[t] = Advance(t) /\ tried'[t] = tried[t] \cup {cur'[t]}
    BY <2>2 DEF CallTypeOK, AttemptTypes
  <2>5. \A u \in Thread : \A i : Turn(u, i)' = Turn(u, i)
    BY <2>1 DEF Turn
  <2>6. ASSUME first[t] + index'[t] < FactorMax
        PROVE  /\ factor'[t] = first[t] + index'[t]
               /\ tried'[t] = {Turn(t, i) : i \in 0 .. index'[t] - 1}
    <3>1. first[t] + index[t] < FactorMax
      BY <2>1, <2>4, <2>6
    <3>2. factor[t] = first[t] + index[t] /\ tried[t] = {Turn(t, i) : i \in 0 .. index[t] - 1}
      BY <2>1, <3>1 DEF TurnInv
    <3>3. factor[t] + 1 < FactorMax /\ factor[t] + 1 \in Nat /\ factor[t] + 1 = first[t] + index'[t]
      <4>1. /\ index'[t] = index[t] + 1 /\ index[t] \in Nat /\ first[t] \in Nat
            /\ factor[t] = first[t] + index[t]
        BY <2>1, <2>4, <3>2
      <4>2. first[t] + index'[t] = factor[t] + 1
        BY <4>1
      <4>3. QED BY <2>1, <2>6, <4>2
    <3>4. Advance(t) = factor[t] + 1
      BY <3>3 DEF Advance
    <3>5. cur'[t] = Turn(t, index[t])
      BY <2>1, <3>2 DEF Turn
    <3>6. \A i : i \in 0 .. index'[t] - 1 <=> (i \in 0 .. index[t] - 1 \/ i = index[t])
      BY <2>1, <2>4
    <3>7. tried'[t] = {Turn(t, i) : i \in 0 .. index'[t] - 1}
      BY <2>4, <3>2, <3>5, <3>6
    <3>8. QED BY <2>4, <3>3, <3>4, <3>7
  <2>7. index'[t] <= Len(servers[t])
    <3>1. Len(servers[t]) \in Nat
      BY DEF CallTypeOK, ThreadTypes
    <3>2. QED BY <2>1, <2>4, <3>1
  <2>8. ASSUME NEW u \in Thread
        PROVE  /\ index'[u] <= Len(servers'[u])
               /\ pc'[u] # "idle" /\ first'[u] + index'[u] < FactorMax =>
                    /\ factor'[u] = first'[u] + index'[u]
                    /\ tried'[u] = {Turn(u, i)' : i \in 0 .. index'[u] - 1}
    <3>1. CASE u = t
      BY <2>1, <2>5, <2>6, <2>7, <3>1
    <3>2. CASE u # t
      BY <2>1, <2>3, <2>5, <3>2 DEF TurnInv
    <3>3. QED BY <3>1, <3>2
  <2>9. QED BY <2>8 DEF TurnInv
<1>16. ASSUME NEW t \in Thread, Return(t)
      PROVE  TurnInv'
  <2>1. /\ UNCHANGED <<first, factor>> /\ index'[t] = 0 /\ servers'[t] = <<>> /\ pc'[t] = "idle"
        /\ \A u \in Thread : u # t => /\ index'[u] = index[u] /\ tried'[u] = tried[u]
                                     /\ pc'[u] = pc[u] /\ servers'[u] = servers[u]
    BY <1>16 DEF Return, CallTypeOK, ThreadTypes, AttemptTypes
  <2>2. \A u \in Thread : u # t => \A i : Turn(u, i)' = Turn(u, i)
    BY <2>1 DEF Turn
  <2>3. ASSUME NEW u \in Thread
        PROVE  /\ index'[u] <= Len(servers'[u])
               /\ pc'[u] # "idle" /\ first'[u] + index'[u] < FactorMax =>
                    /\ factor'[u] = first'[u] + index'[u]
                    /\ tried'[u] = {Turn(u, i)' : i \in 0 .. index'[u] - 1}
    <3>1. CASE u = t
      BY <2>1, <3>1
    <3>2. CASE u # t
      BY <2>1, <2>2, <3>2 DEF TurnInv
    <3>3. QED BY <3>1, <3>2
  <2>4. QED BY <2>3 DEF TurnInv
<1>17. ASSUME UNCHANGED <<index, first, factor, tried, servers, pc>>
      PROVE  TurnInv'
  BY <1>17, TurnStands
<1>18. CASE \/ Server \/ Term \/ Reinit \/ UNCHANGED callVars
  BY <1>17, <1>18 DEF Server, Serve, ServerExits, ServerCloses, Term, Reinit, callVars
<1>19. QED BY <1>1, <1>2, <1>3, <1>4, <1>5, <1>6, <1>7, <1>8, <1>9, <1>10, <1>11, <1>12, <1>13,
             <1>14, <1>15, <1>16, <1>18 DEF CallNext, Step

-----------------------------------------------------------------------------
(* What is counted. *)

LEMMA PlacesFinite ==
  ASSUME NEW D, IsFiniteSet(D), NEW map, NEW p
  PROVE  IsFiniteSet(Places(D, map, p)) /\ Cardinality(Places(D, map, p)) \in Nat
<1>1. IsFiniteSet(D \X (1 .. Cardinality(Addr)))
  BY Sizes, FS_Product
<1>2. Places(D, map, p) \in SUBSET (D \X (1 .. Cardinality(Addr)))
  BY DEF Places
<1>3. IsFiniteSet(Places(D, map, p))
  BY <1>1, <1>2, FS_Subset
<1>4. QED BY <1>3, FS_CardinalityType

LEMMA HoldersCount ==
  ASSUME NEW p
  PROVE  Holders(p) \in Nat /\ Cardinality(Uses(items, p)) \in Nat
         /\ Cardinality(Places(Thread, servers, p)) \in Nat
<1>1. Cardinality(Uses(items, p)) \in Nat /\ Cardinality(Places(Thread, servers, p)) \in Nat
  BY Sizes, PlacesFinite DEF Uses
<1>2. Mapped(p) \in Nat
  BY DEF Mapped
<1>3. QED BY <1>1, <1>2 DEF Holders

(* Places in the sequence of d and in those of the others.                 *)
LEMMA PlacesSplit ==
  ASSUME NEW D, IsFiniteSet(D), NEW map \in [D -> Seq(Proxy)], NEW d \in D, NEW p,
             Len(map[d]) <= Cardinality(Addr)
  PROVE  Cardinality(Places(D, map, p)) = Cardinality(Places(D \ {d}, map,
             p)) + Cardinality(AtPlace(map[d], p))
<1> DEFINE others == Places(D \ {d}, map, p)
           own == AtPlace(map[d], p)
<1>1. own \in SUBSET (1 .. Cardinality(Addr))
  BY Sizes DEF AtPlace
<1>2. IsFiniteSet(own) /\ Cardinality(own) \in Nat
  BY <1>1, Sizes, FS_Subset, FS_CardinalityType
<1>3. IsFiniteSet({d}) /\ Cardinality({d}) = 1
  BY FS_Singleton
<1>4. IsFiniteSet({d} \X own) /\ Cardinality({d} \X own) = Cardinality(own)
  <2>1. IsFiniteSet({d} \X own) /\ Cardinality({d} \X own) = 1 * Cardinality(own)
    BY <1>2, <1>3, FS_Product
  <2>2. QED BY <1>2, <2>1
<1>5. IsFiniteSet(others)
  <2>1. IsFiniteSet(D \ {d})
    BY FS_Subset
  <2>2. QED BY <2>1, PlacesFinite
<1>6. Places(D, map, p) = others \cup ({d} \X own)
  BY <1>1 DEF Places
<1>7. others \cap ({d} \X own) = {}
  BY DEF Places
<1> HIDE DEF others, own
<1>8. Cardinality(others \cup ({d} \X own)) = Cardinality(others) + Cardinality({d} \X own)
                                               - Cardinality(others \cap ({d} \X own))
  BY <1>4, <1>5, FS_Union
<1>9. Cardinality(others) \in Nat /\ Cardinality({}) = 0
  BY <1>5, FS_CardinalityType, FS_EmptySet
<1>10. Cardinality(Places(D, map, p)) = Cardinality(others) + Cardinality(own)
  <2>1. Cardinality(others \cap ({d} \X own)) = 0
    BY <1>7, <1>9
  <2>2. Cardinality({d} \X own) = Cardinality(own)
    BY <1>4
  <2>3. Cardinality(Places(D, map, p)) = Cardinality(others) + Cardinality(own) - 0
    BY <1>6, <1>8, <2>1, <2>2
  <2>4. Cardinality(own) \in Nat /\ Cardinality(others) \in Nat
    BY <1>2, <1>9
  <2>5. QED BY <2>3, <2>4
<1>11. QED BY <1>10 DEF others, own

(* The places of thread t change from one sequence to another.             *)
LEMMA PlacesChange ==
  ASSUME NEW f \in [Thread -> Seq(Proxy)], NEW g \in [Thread -> Seq(Proxy)], NEW t \in Thread,
             NEW p,
         Len(f[t]) <= Cardinality(Addr), Len(g[t]) <= Cardinality(Addr),
         \A u \in Thread : u # t => g[u] = f[u]
  PROVE  /\ Cardinality(Places(Thread, g, p)) - Cardinality(AtPlace(g[t], p))
                = Cardinality(Places(Thread, f, p)) - Cardinality(AtPlace(f[t], p))
         /\ Cardinality(AtPlace(f[t], p)) \in Nat /\ Cardinality(AtPlace(g[t], p)) \in Nat
<1>1. Places(Thread \ {t}, g, p) = Places(Thread \ {t}, f, p)
  BY DEF Places
<1>2. /\ Cardinality(Places(Thread, f, p))
             = Cardinality(Places(Thread \ {t}, f, p)) + Cardinality(AtPlace(f[t], p))
      /\ Cardinality(Places(Thread, g, p))
             = Cardinality(Places(Thread \ {t}, g, p)) + Cardinality(AtPlace(g[t], p))
  BY Sizes, PlacesSplit
<1>3. Cardinality(Places(Thread \ {t}, f, p)) \in Nat
  <2>1. IsFiniteSet(Thread \ {t})
    BY Sizes, FS_Subset
  <2>2. QED BY <2>1, PlacesFinite
<1>4. Cardinality(AtPlace(f[t], p)) \in Nat /\ Cardinality(AtPlace(g[t], p)) \in Nat
  <2>1. AtPlace(f[t], p) \in SUBSET (1 .. Cardinality(Addr))
        /\ AtPlace(g[t], p) \in SUBSET (1 .. Cardinality(Addr))
    BY Sizes DEF AtPlace
  <2>2. QED BY <2>1, Sizes, FS_Subset, FS_CardinalityType
<1>5. QED BY <1>1, <1>2, <1>3, <1>4

LEMMA NowhereInEmpty ==
  ASSUME NEW p
  PROVE  Cardinality(AtPlace(<<>>, p)) = 0
<1>1. AtPlace(<<>>, p) = {}
  BY DEF AtPlace
<1>2. QED BY <1>1, FS_EmptySet

(* A subscription counts a new proxy in, and out what nobody asked for.    *)
LEMMA MappedChange ==
  ASSUME CallTypeOK, StubInv, NEW named \in SUBSET Addr, NEW p \in Proxy,
         proxyMap' = [a \in Addr |-> IF a \in named THEN CreateServerProxy(a) ELSE Nil]
  PROVE  Mapped(p)' = Mapped(p)
            + (IF p[1] \in {a \in named : proxyMap[a] = Nil} /\ p[2] = gen[p[1]] + 1 THEN 1 ELSE 0)
            - (IF p \in {proxyMap[a] : a \in {b \in Addr \ named : proxyMap[b] # Nil}} THEN 1 ELSE 0)
<1>1. p[1] \in Addr /\ p[2] \in 1 .. GenMax /\ p = <<p[1], p[2]>> /\ p # Nil
  BY Sizes DEF Proxy
<1>2. p \in {proxyMap[a] : a \in Addr} <=> proxyMap[p[1]] = p
  BY <1>1 DEF StubInv
<1>3. p \in {proxyMap[a] : a \in {b \in Addr \ named : proxyMap[b] # Nil}}
         <=> p[1] \notin named /\ proxyMap[p[1]] = p
  BY <1>1 DEF StubInv
<1>4. \A a \in named : CreateServerProxy(a)[1] = a
  BY DEF StubInv, CreateServerProxy
<1>5. p \in {proxyMap'[a] : a \in Addr} <=> proxyMap'[p[1]] = p
  BY <1>1, <1>4
<1>6. CASE p[1] \notin named
  <2>1. proxyMap'[p[1]] # p
    BY <1>1, <1>6
  <2>2. QED BY <1>2, <1>3, <1>5, <1>6, <2>1 DEF Mapped
<1>7. CASE p[1] \in named /\ proxyMap[p[1]] # Nil
  <2>1. proxyMap'[p[1]] = proxyMap[p[1]]
    BY <1>1, <1>7 DEF CreateServerProxy
  <2>2. QED BY <1>2, <1>3, <1>5, <1>7, <2>1 DEF Mapped
<1>8. CASE p[1] \in named /\ proxyMap[p[1]] = Nil
  <2>1. proxyMap'[p[1]] = <<p[1], gen[p[1]] + 1>> /\ proxyMap[p[1]] # p
    BY <1>1, <1>8 DEF CreateServerProxy
  <2>2. proxyMap'[p[1]] = p <=> p[2] = gen[p[1]] + 1
    BY <1>1, <2>1
  <2>3. QED BY <1>2, <1>3, <1>5, <1>8, <2>1, <2>2 DEF Mapped
<1>9. QED BY <1>6, <1>7, <1>8

(* References are counted as they are taken and given back.                *)
LEMMA RefsKept ==
  ASSUME CallTypeOK, StubInv, ThreadInv, RefsCounted, [CallNext]_callVars
  PROVE  refs' \in [Proxy -> Nat] /\ RefsCounted'
<1> USE DEF stubVars, wire, life, callState, attempt
<1>1. ASSUME NEW x, refs' = [p \in Proxy |-> x[p]], \A p \in Proxy : refs'[p] = Holders(p)'
      PROVE  refs' \in [Proxy -> Nat] /\ RefsCounted'
  <2>1. \A p \in Proxy : Holders(p)' \in Nat
    BY Sizes, PlacesFinite DEF Holders, Mapped, Uses
  <2>2. QED BY <1>1, <2>1 DEF RefsCounted
<1>2. ASSUME NEW t \in Thread, Download(t)
      PROVE  refs' \in [Proxy -> Nat] /\ RefsCounted'
  <2>1. PICK new \in Subscriptions : UpdateServiceInfo(new)
    BY <1>2 DEF Download
  <2> DEFINE named == UNION {{new[s][k] : k \in DOMAIN new[s]} : s \in Service}
             made == {a \in named : proxyMap[a] = Nil}
             its == [s \in Service |-> [k \in DOMAIN new[s] |-> CreateServerProxy(new[s][k])]]
             unused == {proxyMap[a] : a \in {b \in Addr \ named : proxyMap[b] # Nil}}
  <2>2. /\ refs' = [p \in Proxy |->
                   refs[p] + (IF p[1] \in made /\ p[2] = gen[p[1]] + 1 THEN 1 ELSE 0)
                           + References(its, p) - (IF p \in unused THEN 1 ELSE 0)]
        /\ proxyMap' = [a \in Addr |-> IF a \in named THEN CreateServerProxy(a) ELSE Nil]
        /\ items' = its
    BY <2>1 DEF UpdateServiceInfo
  <2>3. named \in SUBSET Addr
    BY DEF Subscriptions, ProxyLists
  <2>4. servers' = servers
    BY <1>2 DEF Download
  <2> HIDE DEF its, named
  <2>5. ASSUME NEW p \in Proxy
        PROVE  refs'[p] = Holders(p)'
    <3> DEFINE in == IF p[1] \in made /\ p[2] = gen[p[1]] + 1 THEN 1 ELSE 0
               out == IF p \in unused THEN 1 ELSE 0
    <3>1. Mapped(p)' = Mapped(p) + in - out
      BY <2>2, <2>3, MappedChange
    <3>2. refs'[p] = refs[p] + in + (Cardinality(Uses(its, p)) - Cardinality(Uses(items, p))) - out
      BY <2>2 DEF References
    <3>3. refs[p] = Mapped(p) + Cardinality(Uses(items, p)) + Cardinality(Places(Thread, servers,
             p))
      BY DEF RefsCounted, Holders
    <3>4. Holders(p)' = Mapped(p)' + Cardinality(Uses(its, p)) + Cardinality(Places(Thread,
             servers, p))
      BY <2>2, <2>4 DEF Holders, Uses
    <3>5. /\ Cardinality(Uses(items, p)) \in Nat /\ Cardinality(Uses(its, p)) \in Nat
          /\ Cardinality(Places(Thread, servers, p)) \in Nat /\ Mapped(p) \in Nat
      BY Sizes, PlacesFinite DEF Uses, Mapped
    <3>6. in \in Nat /\ out \in Nat
      OBVIOUS
    <3> HIDE DEF in, out
    <3>7. QED BY <3>1, <3>2, <3>3, <3>4, <3>5, <3>6
  <2>6. refs' = [p \in Proxy |-> refs'[p]]
    BY <2>2
  <2>7. QED BY <1>1, <2>5, <2>6
<1>3. ASSUME NEW t \in Thread, Pick(t) \/ Repick(t)
      PROVE  refs' \in [Proxy -> Nat] /\ RefsCounted'
  <2>1. PickProxies(t) /\ servers[t] = <<>>
    BY <1>3 DEF Pick, Repick, ThreadInv, Unpicked
  <2>2. /\ refs' = [p \in Proxy |-> refs[p] + Cardinality(AtPlace(servers'[t], p))]
        /\ UNCHANGED <<proxyMap, items>>
    BY <2>1 DEF PickProxies
  <2>3. ASSUME NEW p \in Proxy
        PROVE  refs'[p] = Holders(p)'
    <3>1. servers \in [Thread -> Seq(Proxy)] /\ Len(servers[t]) <= Cardinality(Addr)
      BY DEF CallTypeOK, ThreadTypes, ThreadInv
    <3>2. /\ servers' \in [Thread -> Seq(Proxy)] /\ Len(servers'[t]) <= Cardinality(Addr)
          /\ \A u \in Thread : u # t => servers'[u] = servers[u]
      BY <2>1, Picked
    <3>3. /\ Cardinality(Places(Thread, servers', p)) - Cardinality(AtPlace(servers'[t], p))
                 = Cardinality(Places(Thread, servers, p)) - Cardinality(AtPlace(servers[t], p))
          /\ Cardinality(AtPlace(servers'[t], p)) \in Nat
      BY <3>1, <3>2, PlacesChange
    <3>4. Cardinality(AtPlace(servers[t], p)) = 0
      BY <2>1, NowhereInEmpty
    <3>5. /\ refs'[p] = refs[p] + Cardinality(AtPlace(servers'[t], p))
          /\ refs[p] = Mapped(p) + Cardinality(Uses(items, p)) + Cardinality(Places(Thread, servers, p))
          /\ Holders(p)' = Mapped(p) + Cardinality(Uses(items, p)) + Cardinality(Places(Thread, servers', p))
      BY <2>2 DEF RefsCounted, Holders, Mapped
    <3>6. /\ Cardinality(Uses(items, p)) \in Nat /\ Cardinality(Places(Thread, servers, p)) \in Nat
          /\ Cardinality(Places(Thread, servers', p)) \in Nat /\ Mapped(p) \in Nat
      BY Sizes, PlacesFinite DEF Uses, Mapped
    <3>7. QED BY <3>3, <3>4, <3>5, <3>6
  <2>4. refs' = [p \in Proxy |-> refs'[p]]
    BY <2>2
  <2>5. QED BY <1>1, <2>3, <2>4
<1>4. ASSUME NEW t \in Thread, Return(t)
      PROVE  refs' \in [Proxy -> Nat] /\ RefsCounted'
  <2>1. /\ refs' = [p \in Proxy |-> refs[p] - Cardinality(AtPlace(servers[t], p))]
        /\ UNCHANGED <<proxyMap, items>> /\ servers' = [servers EXCEPT ![t] = <<>>]
    BY <1>4 DEF Return
  <2>2. ASSUME NEW p \in Proxy
        PROVE  refs'[p] = Holders(p)'
    <3>1. servers \in [Thread -> Seq(Proxy)] /\ Len(servers[t]) <= Cardinality(Addr)
      BY DEF CallTypeOK, ThreadTypes, ThreadInv
    <3>2. /\ servers' \in [Thread -> Seq(Proxy)] /\ servers'[t] = <<>>
          /\ Len(servers'[t]) <= Cardinality(Addr)
          /\ \A u \in Thread : u # t => servers'[u] = servers[u]
      BY <2>1, <3>1, Sizes
    <3>3. /\ Cardinality(Places(Thread, servers', p)) - Cardinality(AtPlace(servers'[t], p))
                 = Cardinality(Places(Thread, servers, p)) - Cardinality(AtPlace(servers[t], p))
          /\ Cardinality(AtPlace(servers[t], p)) \in Nat
      BY <3>1, <3>2, PlacesChange
    <3>4. Cardinality(AtPlace(servers'[t], p)) = 0
      BY <3>2, NowhereInEmpty
    <3>5. /\ refs'[p] = refs[p] - Cardinality(AtPlace(servers[t], p))
          /\ refs[p] = Mapped(p) + Cardinality(Uses(items, p)) + Cardinality(Places(Thread, servers, p))
          /\ Holders(p)' = Mapped(p) + Cardinality(Uses(items, p)) + Cardinality(Places(Thread, servers', p))
      BY <2>1 DEF RefsCounted, Holders, Mapped
    <3>6. /\ Cardinality(Uses(items, p)) \in Nat /\ Cardinality(Places(Thread, servers, p)) \in Nat
          /\ Cardinality(Places(Thread, servers', p)) \in Nat /\ Mapped(p) \in Nat
      BY Sizes, PlacesFinite DEF Uses, Mapped
    <3>7. QED BY <3>3, <3>4, <3>5, <3>6
  <2>3. refs' = [p \in Proxy |-> refs'[p]]
    BY <2>1
  <2>4. QED BY <1>1, <2>2, <2>3
<1>5. ASSUME UNCHANGED <<refs, proxyMap, items, servers>>
      PROVE  refs' \in [Proxy -> Nat] /\ RefsCounted'
  BY <1>5 DEF RefsCounted, Holders, Mapped, CallTypeOK, StubTypes
<1>6. ASSUME NEW t \in Thread, Step(t)
      PROVE  refs' \in [Proxy -> Nat] /\ RefsCounted'
  BY <1>2, <1>3, <1>4, <1>5, <1>6
     DEF Step, DownloadFails, NextServer, Lock, Connect, ConnectFails, SendRequest, SendFails,
             Receive,
         ReceiveFails, Leave, Close, BreakDown
<1>7. CASE \/ \E t \in Thread, s \in Service : Begin(t, s)
           \/ Server \/ Term \/ Reinit \/ UNCHANGED callVars
  BY <1>5, <1>7 DEF Begin, Server, Serve, ServerExits, ServerCloses, Term, Reinit, callVars
<1>8. QED BY <1>6, <1>7 DEF CallNext

(* Connections are counted as they are opened and closed.                  *)
LEMMA ClosedCounts ==
  ASSUME CallTypeOK, FDsCounted, NEW P \in SUBSET Proxy, Closed(P)
  PROVE  FDsCounted'
<1> DEFINE fds == {p \in Proxy : fd[p] # "none"}
           shut == {p \in P : fd[p] # "none"}
<1>1. IsFiniteSet(fds) /\ nFDCount = Cardinality(fds) /\ Cardinality(fds) \in Nat
  <2>1. IsFiniteSet(fds)
    BY Sizes, FS_Subset
  <2>2. QED BY <2>1, FS_CardinalityType DEF FDsCounted
<1>2. Cardinality(fds \ shut) = Cardinality(fds) - Cardinality(fds \cap shut)
  BY <1>1, FS_Difference
<1>3. fds \cap shut = shut
  OBVIOUS
<1>4. {p \in Proxy : fd'[p] # "none"} = fds \ shut
  BY ClosedWire
<1>5. nFDCount' = nFDCount - Cardinality(shut)
  BY DEF Closed
<1> HIDE DEF fds, shut
<1>6. nFDCount' = Cardinality(fds \ shut)
  BY <1>1, <1>2, <1>3, <1>5
<1>7. QED BY <1>4, <1>6 DEF FDsCounted

LEMMA FDsKept ==
  ASSUME CallTypeOK, ThreadInv, FDsCounted, [CallNext]_callVars
  PROVE  FDsCounted'
<1> USE DEF stubVars, wire, life, callState, attempt
<1>1. ASSUME nFDCount' = nFDCount, \A p \in Proxy : fd'[p] # "none" <=> fd[p] # "none"
      PROVE  FDsCounted'
  BY <1>1 DEF FDsCounted
<1>2. ASSUME NEW t \in Thread, Connect(t)
      PROVE  FDsCounted'
  <2>1. cur[t] \in Proxy
    BY <1>2 DEF Connect, ThreadInv, Calling
  <2>2. CASE fd[cur[t]] # "none"
    BY <1>1, <1>2, <2>2 DEF Connect
  <2>3. CASE fd[cur[t]] = "none"
    <3> DEFINE fds == {p \in Proxy : fd[p] # "none"}
    <3>1. fd' = [fd EXCEPT ![cur[t]] = "open"] /\ nFDCount' = nFDCount + 1
      BY <1>2, <2>3 DEF Connect
    <3>2. {p \in Proxy : fd'[p] # "none"} = fds \cup {cur[t]} /\ cur[t] \notin fds
      BY <2>1, <2>3, <3>1 DEF CallTypeOK, WireTypes
    <3>3. IsFiniteSet(fds)
      BY Sizes, FS_Subset
    <3>4. nFDCount = Cardinality(fds)
      BY DEF FDsCounted
    <3> HIDE DEF fds
    <3>5. Cardinality(fds \cup {cur[t]}) = Cardinality(fds) + 1
      BY <3>2, <3>3, FS_AddElement
    <3>6. QED BY <3>1, <3>2, <3>4, <3>5 DEF FDsCounted
  <2>4. QED BY <2>2, <2>3
<1>3. ASSUME NEW t \in Thread, Download(t)
      PROVE  FDsCounted'
  <2>1. \E new \in Subscriptions : UpdateServiceInfo(new)
    BY <1>3 DEF Download
  <2>2. Closed(Gone(refs, refs')) /\ Gone(refs, refs') \in SUBSET Proxy
    BY <2>1 DEF UpdateServiceInfo, Gone
  <2>3. QED BY <2>2, ClosedCounts
<1>4. ASSUME NEW t \in Thread, Return(t)
      PROVE  FDsCounted'
  <2>1. Closed(Gone(refs, refs')) /\ Gone(refs, refs') \in SUBSET Proxy
    BY <1>4 DEF Return, Gone
  <2>2. QED BY <2>1, ClosedCounts
<1>5. ASSUME NEW t \in Thread, Close(t)
      PROVE  FDsCounted'
  <2>1. Closed({cur[t]}) /\ {cur[t]} \in SUBSET Proxy
    BY <1>5 DEF Close, ThreadInv, Calling
  <2>2. QED BY <2>1, ClosedCounts
<1>6. CASE Term
  <2>1. \E P \in SUBSET Proxy : Closed(P)
    BY <1>6 DEF Term
  <2>2. QED BY <2>1, ClosedCounts
<1>7. CASE Server
  <2>1. ASSUME NEW P, BreakServer(P)
        PROVE  \A p \in Proxy : fd'[p] # "none" <=> fd[p] # "none"
    BY <2>1 DEF BreakServer
  <2>2. QED BY <1>1, <1>7, <2>1 DEF Server, Serve, ServerExits, ServerCloses
<1>8. ASSUME NEW t \in Thread, Step(t)
      PROVE  FDsCounted'
  BY <1>1, <1>2, <1>3, <1>4, <1>5, <1>8
     DEF Step, DownloadFails, NextServer, Lock, ConnectFails, SendRequest, SendFails, Receive,
         ReceiveFails, Leave, BreakDown, Pick, Repick
<1>9. CASE (\E t \in Thread, s \in Service : Begin(t, s)) \/ Reinit \/ UNCHANGED callVars
  BY <1>1, <1>9 DEF Begin, Reinit, callVars
<1>10. QED BY <1>6, <1>7, <1>8, <1>9 DEF CallNext

(* No step but the release of a connection in the limit leaves more of     *)
(* them unused.                                                            *)
LEMMA CacheKept ==
  ASSUME CallTypeOK, ThreadInv, MutexesGivenBack, FDsCounted, CacheBounded, [CallNext]_callVars
  PROVE  CacheBounded'
<1> USE DEF stubVars, wire, life, callState, attempt
<1> DEFINE kept == {p \in Proxy : fd[p] # "none" /\ mutex[p] = Nil}
           left == {p \in Proxy : fd'[p] # "none" /\ mutex'[p] = Nil}
<1>1. IsFiniteSet(kept) /\ Cardinality(kept) \in Nat /\ Cardinality(kept) <= Cached
  <2>1. IsFiniteSet(kept)
    BY Sizes, FS_Subset
  <2>2. QED BY <2>1, FS_CardinalityType DEF CacheBounded
<1>2. ASSUME \A p \in Proxy : fd'[p] # "none" /\ mutex'[p] = Nil => fd[p] # "none" /\ mutex[p] = Nil
      PROVE  CacheBounded'
  <2>1. left \in SUBSET kept
    BY <1>2
  <2> HIDE DEF kept
  <2>2. Cardinality(left) <= Cardinality(kept) /\ Cardinality(left) \in Nat
    BY <1>1, <2>1, FS_Subset, FS_CardinalityType
  <2>3. Cardinality(left) <= Cached
    BY <1>1, <2>2, Sizes
  <2>4. QED BY <2>3 DEF CacheBounded
<1>3. ASSUME NEW P \in SUBSET Proxy, Closed(P), \A p \in Proxy : mutex'[p] = mutex[p] \/ p \in P
      PROVE  CacheBounded'
  <2>1. \A p \in Proxy : fd'[p] = IF p \in P THEN "none" ELSE fd[p]
    BY <1>3, ClosedWire
  <2>2. QED BY <1>2, <1>3, <2>1
<1>4. ASSUME NEW t \in Thread, Leave(t)
      PROVE  CacheBounded'
  <2>1. CASE mutex' = mutex
    BY <1>2, <1>4, <2>1 DEF Leave
  <2>2. CASE ~OverLimit
    <3> DEFINE fds == {p \in Proxy : fd[p] # "none"}
    <3>1. IsFiniteSet(fds) /\ Cardinality(fds) <= Cached
      <4>1. Cardinality(fds) <= Cached
        BY <2>2, Sizes DEF FDsCounted, OverLimit, CallTypeOK, WireTypes
      <4>2. QED BY <4>1, Sizes, FS_Subset
    <3>2. left \in SUBSET fds
      BY <1>4 DEF Leave
    <3> HIDE DEF fds
    <3>3. Cardinality(left) <= Cardinality(fds) /\ Cardinality(left) \in Nat /\ Cardinality(fds) \in Nat
      BY <3>1, <3>2, FS_Subset, FS_CardinalityType
    <3>4. Cardinality(left) <= Cached
      BY <3>1, <3>3, Sizes
    <3>5. QED BY <3>4 DEF CacheBounded
  <2>3. QED BY <1>4, <2>1, <2>2 DEF Leave
<1>5. ASSUME NEW t \in Thread, Lock(t)
      PROVE  CacheBounded'
  <2>1. mutex' = mutex \/ mutex' = [mutex EXCEPT ![cur[t]] = t]
    BY <1>5 DEF Lock
  <2>2. \A p \in Proxy : mutex'[p] = Nil => mutex[p] = Nil
    BY <2>1, Sizes DEF CallTypeOK, ThreadTypes
  <2>3. QED BY <1>2, <1>5, <2>2 DEF Lock
<1>6. ASSUME NEW t \in Thread, Connect(t)
      PROVE  CacheBounded'
  <2>1. cur[t] \in Proxy /\ mutex[cur[t]] = t /\ mutex' = mutex
    BY <1>6 DEF Connect, ThreadInv, Calling
  <2>2. fd' = fd \/ fd' = [fd EXCEPT ![cur[t]] = "open"]
    BY <1>6 DEF Connect
  <2>3. \A p \in Proxy : fd'[p] = fd[p] \/ p = cur[t]
    BY <2>2 DEF CallTypeOK, WireTypes
  <2>4. QED BY <1>2, <2>1, <2>3, Sizes
<1>7. ASSUME NEW t \in Thread, ConnectFails(t)
      PROVE  CacheBounded'
  <2>1. fd[cur[t]] = "none" /\ fd' = fd /\ mutex' = [mutex EXCEPT ![cur[t]] = Nil]
    BY <1>7 DEF ConnectFails
  <2>2. \A p \in Proxy : mutex'[p] = mutex[p] \/ p = cur[t]
    BY <2>1 DEF CallTypeOK, ThreadTypes
  <2>3. QED BY <1>2, <2>1, <2>2
<1>8. ASSUME NEW t \in Thread, Close(t)
      PROVE  CacheBounded'
  <2>1. Closed({cur[t]}) /\ {cur[t]} \in SUBSET Proxy /\ mutex' = [mutex EXCEPT ![cur[t]] = Nil]
    BY <1>8 DEF Close, ThreadInv, Calling
  <2>2. \A p \in Proxy : mutex'[p] = mutex[p] \/ p \in {cur[t]}
    BY <2>1 DEF CallTypeOK, ThreadTypes
  <2>3. QED BY <1>3, <2>1, <2>2
<1>9. ASSUME NEW t \in Thread, Download(t)
      PROVE  CacheBounded'
  <2>1. (\E new \in Subscriptions : UpdateServiceInfo(new)) /\ mutex' = mutex
    BY <1>9 DEF Download
  <2>2. Closed(Gone(refs, refs')) /\ Gone(refs, refs') \in SUBSET Proxy
    BY <2>1 DEF UpdateServiceInfo, Gone
  <2>3. QED BY <1>3, <2>1, <2>2
<1>10. ASSUME NEW t \in Thread, Return(t)
       PROVE  CacheBounded'
  <2>1. Closed(Gone(refs, refs')) /\ Gone(refs, refs') \in SUBSET Proxy /\ mutex' = mutex
    BY <1>10 DEF Return, Gone
  <2>2. QED BY <1>3, <2>1
<1>11. CASE Term
  <2>1. (\E P \in SUBSET Proxy : Closed(P)) /\ mutex' = mutex
    BY <1>11 DEF Term
  <2>2. QED BY <1>3, <2>1
<1>12. CASE Server
  <2>1. ASSUME NEW P, BreakServer(P)
        PROVE  \A p \in Proxy : fd'[p] # "none" <=> fd[p] # "none"
    BY <2>1 DEF BreakServer
  <2>2. QED BY <1>2, <1>12, <2>1 DEF Server, Serve, ServerExits, ServerCloses
<1>13. ASSUME NEW t \in Thread, Step(t)
       PROVE  CacheBounded'
  <2>1. CASE UNCHANGED <<fd, mutex>>
    BY <1>2, <2>1
  <2>2. QED BY <1>4, <1>5, <1>6, <1>7, <1>8, <1>9, <1>10, <1>13, <2>1
           DEF Step, DownloadFails, NextServer, SendRequest, SendFails, Receive,
               ReceiveFails, BreakDown, Pick, Repick
<1>14. CASE (\E t \in Thread, s \in Service : Begin(t, s)) \/ Reinit \/ UNCHANGED callVars
  BY <1>2, <1>14 DEF Begin, Reinit, callVars
<1>15. QED BY <1>11, <1>12, <1>13, <1>14 DEF CallNext

-----------------------------------------------------------------------------
(* The theorems. *)

LEMMA CallInitInv == CallInit => CallInv
<1> SUFFICES ASSUME CallInit
             PROVE  CallInv
  OBVIOUS
<1> USE Sizes DEF CallInit
<1>1. CallTypeOK
  <2>1. <<>> \in Seq(Proxy) /\ <<>> \in Seq(Reply)
    OBVIOUS
  <2>2. StubTypes /\ WireTypes
    BY <2>1 DEF StubTypes, WireTypes
  <2>3. ThreadTypes
    BY <2>1 DEF ThreadTypes
  <2>4. AttemptTypes /\ ResultTypes
    BY DEF AttemptTypes, ResultTypes
  <2>5. QED BY <2>2, <2>3, <2>4 DEF CallTypeOK
<1>2. StubInv /\ ThreadInv /\ MutexesGivenBack
  <2>1. Len(<<>>) = 0
    OBVIOUS
  <2>2. StubInv
    BY <2>1 DEF StubInv
  <2>3. ThreadInv
    BY <2>1 DEF ThreadInv, Unpicked, Calling
  <2>4. QED BY <2>2, <2>3 DEF MutexesGivenBack
<1>3. StatusInv
  <2>1. \A c \in CallId : c[1] \in Thread /\ c[2] \in 1 .. CallMax
    BY DEF CallId
  <2>2. QED BY <2>1 DEF StatusInv
<1>4. OnceInv /\ RequestInv /\ AnswerInv
  BY DEF OnceInv, RequestInv, AnswerInv, Unsent, Asking
<1>5. TurnInv
  BY DEF TurnInv
<1>6. RefsCounted
  <2>1. ASSUME NEW p \in Proxy
        PROVE  refs[p] = Holders(p)
    <3>1. Mapped(p) = 0
      BY DEF Mapped
    <3>2. Uses(items, p) = {} /\ Places(Thread, servers, p) = {}
      BY DEF Uses, Places, AtPlace
    <3>3. Cardinality(Uses(items, p)) = 0 /\ Cardinality(Places(Thread, servers, p)) = 0
      BY <3>2, FS_EmptySet
    <3>4. Holders(p) = 0 + 0 + 0
      BY <3>1, <3>3 DEF Holders
    <3>5. QED BY <3>4
  <2>2. QED BY <2>1 DEF RefsCounted
<1>7. FDsCounted
  <2>1. {p \in Proxy : fd[p] # "none"} = {}
    OBVIOUS
  <2>2. QED BY <2>1, FS_EmptySet DEF FDsCounted
<1>8. CacheBounded
  <2>1. {p \in Proxy : fd[p] # "none" /\ mutex[p] = Nil} = {}
    OBVIOUS
  <2>2. Cardinality({p \in Proxy : fd[p] # "none" /\ mutex[p] = Nil}) = 0
    BY <2>1, FS_EmptySet
  <2>3. QED BY <2>2 DEF CacheBounded
<1>9. QED BY <1>1, <1>2, <1>3, <1>4, <1>5, <1>6, <1>7, <1>8 DEF CallInv

(* Only a subscription changes the stub.                                   *)
LEMMA StubKept ==
  ASSUME CallTypeOK, StubInv, [CallNext]_callVars
  PROVE  StubInv'
<1>1. ASSUME UNCHANGED <<items, proxyMap, gen>>
      PROVE  StubInv'
  BY <1>1 DEF StubInv
<1>2. ASSUME NEW t \in Thread, Download(t)
      PROVE  StubInv'
  <2>1. PICK new \in Subscriptions : UpdateServiceInfo(new)
    BY <1>2 DEF Download
  <2>2. QED BY <2>1, UpdatedStub
<1>3. ASSUME NEW t \in Thread, Step(t)
      PROVE  StubInv'
  BY <1>1, <1>2, <1>3
     DEF Step, stubVars, DownloadFails, NextServer, Lock, Connect, ConnectFails, SendRequest, SendFails,
         Receive, ReceiveFails, Leave, Close, BreakDown, Return, Pick, Repick, PickProxies
<1>4. CASE \/ \E t \in Thread, s \in Service : Begin(t, s)
           \/ Server \/ Term \/ Reinit \/ UNCHANGED callVars
  BY <1>1, <1>4 DEF Begin, Server, Serve, ServerExits, ServerCloses, Term, Reinit, callVars, stubVars
<1>5. QED BY <1>3, <1>4 DEF CallNext

LEMMA CallStepInv == CallInv /\ [CallNext]_callVars => CallInv'
<1> SUFFICES ASSUME CallInv, [CallNext]_callVars
             PROVE  CallInv'
  OBVIOUS
<1>1. StubInv'
  BY StubKept DEF CallInv
<1>2. refs' \in [Proxy -> Nat] /\ RefsCounted'
  BY RefsKept DEF CallInv
<1>3. CallTypeOK'
  BY <1>2, TypesKept DEF CallInv
<1>4. ThreadInv' /\ MutexesGivenBack'
  BY ThreadsKept DEF CallInv
<1>5. StatusInv' /\ OnceInv'
  BY StatusKept, OnceKept DEF CallInv
<1>6. RequestInv' /\ AnswerInv'
  BY AnswersKept DEF CallInv
<1>7. TurnInv'
  BY TurnsKept DEF CallInv
<1>8. FDsCounted' /\ CacheBounded'
  BY FDsKept, CacheKept DEF CallInv
<1>9. QED BY <1>1, <1>2, <1>3, <1>4, <1>5, <1>6, <1>7, <1>8 DEF CallInv

(* The inductive invariant of tpcall, with the types of all its variables. *)
THEOREM CallTypeCorrect == CallSpec => []CallInv
<1>1. QED BY CallInitInv, CallStepInv, PTL DEF CallSpec

(* References, connections, their number and the mutexes of the proxies    *)
(* are kept (ServerProxy, LocalServiceStub), however calls, subscriptions, *)
(* servers and tpterm interleave.                                          *)
THEOREM SharedIsKept == CallSpec => []SharedKept
<1>1. CallInv => SharedKept
  BY DEF CallInv, SharedKept
<1>2. QED BY <1>1, CallTypeCorrect, PTL

(* A call takes its own answer only, and gives up only when it has turned  *)
(* to every server it picked (AppContext, ServerProxy).                    *)
THEOREM CallsAreKept == CallSpec => []CallsKept
<1>1. ASSUME CallInv
      PROVE  AnswerIsOwn
  <2>1. SUFFICES ASSUME NEW t \in Thread, pc[t] = "receive", answers[cur[t]] # <<>>
                 PROVE  Head(answers[cur[t]]).callNo = This(t)
    BY DEF AnswerIsOwn
  <2>2. cur[t] \in Proxy /\ mutex[cur[t]] = t
    BY <1>1, <2>1 DEF CallInv, ThreadInv, Calling
  <2>3. answers[cur[t]][1].callNo = This(t)
    BY <1>1, <2>1, <2>2 DEF CallInv, AnswerInv
  <2>4. answers[cur[t]] \in Seq(Reply)
    BY <1>1, <2>2 DEF CallInv, CallTypeOK, WireTypes
  <2>5. QED BY <2>1, <2>3, <2>4
<1>2. CallInv => AllTried
  BY TurnsTryAll DEF CallInv
<1>3. CallInv => CallsKept
  BY <1>1, <1>2 DEF CallsKept
<1>4. QED BY <1>3, CallTypeCorrect, PTL

(* What a step does to the status of calls and to how often services are   *)
(* executed is a step of the promise, or none of its.                      *)
LEMMA PromiseStep == CallInv /\ [CallNext]_callVars => [Promise!Next]_Promise!vars
<1> SUFFICES ASSUME CallInv, [CallNext]_callVars
             PROVE  [Promise!Next]_Promise!vars
  OBVIOUS
<1>1. ASSUME UNCHANGED <<status, executed>>
      PROVE  [Promise!Next]_Promise!vars
  BY <1>1 DEF Promise!vars
<1>2. \A t \in Thread : pc[t] # "idle" => This(t) \in CallId
  BY Sizes DEF CallInv, CallTypeOK, ThreadTypes, ThreadInv, This, CallId
<1>3. ASSUME NEW t \in Thread, NEW s \in Service, Begin(t, s)
      PROVE  [Promise!Next]_Promise!vars
  <2> DEFINE new == <<t, callNo[t] + 1>>
  <2>1. callNo[t] \in 0 .. CallMax /\ callNo[t] < CallMax /\ status' = [status EXCEPT ![new] = "asked"]
        /\ executed' = executed
    BY <1>3 DEF Begin, CallInv, CallTypeOK, ThreadTypes
  <2>2. new \in CallId /\ callNo[t] < callNo[t] + 1
    BY <2>1, Sizes DEF CallId
  <2>3. status[new] = "unborn"
    BY <2>2 DEF CallInv, StatusInv
  <2> HIDE DEF new
  <2>4. Promise!Ask(new)
    BY <2>1, <2>3 DEF Promise!Ask, Promise!To
  <2>5. QED BY <2>2, <2>4 DEF Promise!Next
<1>4. ASSUME NEW r \in requests, UNCHANGED status,
             executed' = executed \/ executed' = [executed EXCEPT ![r.callNo] = @ + 1]
      PROVE  [Promise!Next]_Promise!vars
  <2>1. CASE executed' = executed
    BY <1>1, <1>4, <2>1
  <2>2. CASE executed' = [executed EXCEPT ![r.callNo] = @ + 1]
    <3>1. r.callNo \in CallId
      BY DEF CallInv, CallTypeOK, WireTypes, Request
    <3>2. executed[r.callNo] = 0 /\ status[r.callNo] \in {"asked", "timeout"}
      BY DEF CallInv, OnceInv
    <3>3. executed' = [executed EXCEPT ![r.callNo] = 1]
      BY <2>2, <3>2
    <3>4. Promise!Execute(r.callNo)
      BY <1>4, <3>2, <3>3 DEF Promise!Execute
    <3>5. QED BY <3>1, <3>4 DEF Promise!Next
  <2>3. QED BY <1>4, <2>1, <2>2
<1>5. ASSUME NEW t \in Thread, Receive(t)
      PROVE  [Promise!Next]_Promise!vars
  <2> DEFINE rep == Head(answers[cur[t]])
  <2>1. /\ pc[t] = "receive" /\ answers[cur[t]] # <<>> /\ executed' = executed
        /\ status' = [status EXCEPT ![This(t)] = ResultOf(rep.code)]
    BY <1>5 DEF Receive
  <2>2. cur[t] \in Proxy /\ mutex[cur[t]] = t
    BY <2>1 DEF CallInv, ThreadInv, Calling
  <2>3. answers[cur[t]] \in Seq(Reply) /\ rep \in Reply /\ rep = answers[cur[t]][1]
    <3>1. answers[cur[t]] \in Seq(Reply)
      BY <2>2 DEF CallInv, CallTypeOK, WireTypes
    <3>2. QED BY <2>1, <3>1, HeadTailProperties
  <2>4. (rep.code = "DONE" => executed[This(t)] = 1) /\ (rep.code = "SVC_NOT_FOUND" => executed[This(t)] = 0)
    BY <2>1, <2>2, <2>3 DEF CallInv, AnswerInv
  <2>5. rep.code \in {"DONE", "SVC_ERR", "SVC_NOT_FOUND"}
    BY <2>3 DEF Reply
  <2> HIDE DEF rep
  <2>6. status[This(t)] = "asked" /\ This(t) \in CallId
    <3>1. callNo[t] >= 1 /\ Open(t)
      BY <2>1 DEF CallInv, ThreadInv, Open, Asking
    <3>2. QED BY <1>2, <2>1, <3>1 DEF CallInv, StatusInv
  <2>7. CASE rep.code = "DONE"
    <3>1. Promise!Answer(This(t))
      BY <2>1, <2>4, <2>6, <2>7 DEF Promise!Answer, Promise!To, ResultOf
    <3>2. QED BY <2>6, <3>1 DEF Promise!Next
  <2>8. CASE rep.code = "SVC_ERR"
    <3>1. Promise!Fail(This(t))
      BY <2>1, <2>6, <2>8 DEF Promise!Fail, Promise!To, ResultOf
    <3>2. QED BY <2>6, <3>1 DEF Promise!Next
  <2>9. CASE rep.code = "SVC_NOT_FOUND"
    <3>1. Promise!NoEntry(This(t))
      BY <2>1, <2>4, <2>6, <2>9 DEF Promise!NoEntry, Promise!To, ResultOf
    <3>2. QED BY <2>6, <3>1 DEF Promise!Next
  <2>10. QED BY <2>5, <2>7, <2>8, <2>9
<1>6. ASSUME NEW t \in Thread, BreakDown(t)
      PROVE  [Promise!Next]_Promise!vars
  <2>1. pc[t] = "next" /\ executed' = executed /\ status' = [status EXCEPT ![This(t)] = "noentry"]
    BY <1>6 DEF BreakDown
  <2>2. executed[This(t)] = 0
    BY <2>1 DEF CallInv, OnceInv, Unsent, Asking
  <2>3. status[This(t)] = "asked" /\ This(t) \in CallId
    <3>1. callNo[t] >= 1 /\ Open(t)
      BY <2>1 DEF CallInv, ThreadInv, Open, Asking
    <3>2. QED BY <1>2, <2>1, <3>1 DEF CallInv, StatusInv
  <2>4. Promise!NoEntry(This(t))
    BY <2>1, <2>2, <2>3 DEF Promise!NoEntry, Promise!To
  <2>5. QED BY <2>3, <2>4 DEF Promise!Next
<1>7. ASSUME NEW t \in Thread, Close(t)
      PROVE  [Promise!Next]_Promise!vars
  <2>1. CASE outcome[t] # "stop"
    BY <1>1, <1>7, <2>1 DEF Close
  <2>2. CASE outcome[t] = "stop"
    <3>1. pc[t] = "close" /\ executed' = executed /\ status' = [status EXCEPT ![This(t)] = "timeout"]
      BY <1>7, <2>2 DEF Close
    <3>2. status[This(t)] = "asked" /\ This(t) \in CallId
      <4>1. callNo[t] >= 1 /\ Open(t)
        BY <2>2, <3>1 DEF CallInv, ThreadInv, Open
      <4>2. QED BY <1>2, <3>1, <4>1 DEF CallInv, StatusInv
    <3>3. Promise!GiveUp(This(t))
      BY <3>1, <3>2 DEF Promise!GiveUp, Promise!To
    <3>4. QED BY <3>2, <3>3 DEF Promise!Next
  <2>3. QED BY <2>1, <2>2
<1>8. ASSUME NEW t \in Thread, Step(t)
      PROVE  [Promise!Next]_Promise!vars
  BY <1>1, <1>5, <1>6, <1>7, <1>8
     DEF Step, callState, DownloadFails, Download, NextServer, Lock, Connect, ConnectFails, SendRequest,
         SendFails, ReceiveFails, Leave, Return, Pick, Repick
<1>9. CASE Server
  BY <1>1, <1>4, <1>9 DEF Server, Serve, ServerExits, ServerCloses, callState
<1>10. CASE Term \/ Reinit \/ UNCHANGED callVars
  BY <1>1, <1>10 DEF Term, Reinit, callVars, callState
<1>11. QED BY <1>3, <1>8, <1>9, <1>10 DEF CallNext

(* tpcall (AppContext, ServerProxy, Invoke) keeps the promise of           *)
(* RemoteCall: executed at most once, an answer only after an execution,   *)
(* TPENOENT only for what is never executed.                               *)
THEOREM ImplementsPromise == CallSpec => ImplementsRemoteCall
<1>1. CallInit => Promise!Init
  BY DEF CallInit, Promise!Init
<1>2. QED BY <1>1, CallTypeCorrect, PromiseStep, PTL DEF CallSpec, ImplementsRemoteCall, Promise!Spec

-----------------------------------------------------------------------------
(* The inductive invariant. *)

Data == {NoOwner, "memory", "request"} \cup Buffer
Type == DataType \cup {NoOwner}
Ending == {"TPSUCCESS", "TPFAIL", "TPEXIT", "unknown"}
Saying == Ending \cup {NoOwner, "plain", "throws"}
Outcome == {NoOwner, "TPETIME", "OK", "TPEOTYPE", "TPENOENT", "TPESVCFAIL", "TPESVCERR"}
Stage == {"waiting", "calling", "service", "returned", "replying", "posting"}

RequestTypes ==
  /\ asked \in Seq([svc : SvcName, type : Type])
  /\ said \in Seq(Saying) /\ Len(said) = Len(asked)
  /\ result \in Seq(Outcome) /\ Len(result) = Len(asked)

WorkerTypes ==
  /\ serving \in BOOLEAN
  /\ at \in [Worker -> Stage]
  /\ message \in [Worker -> Nat]
  /\ svcInfo \in [Worker -> [rval : Ending \cup {NoOwner}, data : Data]]
  /\ response \in [Worker -> [code : {"OK", "NOT_FOUND", "SVC_FAIL", "SVC_ERR"},
                              data : Data, type : Type, content : Nat]]
  /\ buffers \in [Buffer -> [owner : Worker \cup {NoOwner}, type : DataType, content : Nat]]

ServingTypeOK == RequestTypes /\ WorkerTypes

(* A request is one worker's. *)
WorkInv ==
  /\ \A w \in Worker : IF at[w] = "waiting" THEN message[w] = 0 ELSE message[w] \in 1 .. Len(asked)
  /\ \A w, v \in Worker : message[w] = message[v] /\ message[w] # 0 => w = v

(* What a worker knows of its request is what the service has said.        *)
Knows(w) ==
  /\ at[w] \in {"calling", "service", "returned", "replying"} => result[message[w]] \in {NoOwner, "TPETIME"}
  /\ at[w] \in {"calling", "service"} => said[message[w]] = NoOwner
  /\ at[w] = "returned" => svcInfo[w].rval = said[message[w]] /\ svcInfo[w].rval \in Ending
  /\ at[w] = "returned" /\ svcInfo[w].data = "request" => RequestOf(w).type # NoOwner
  /\ at[w] = "replying" =>
       /\ response[w].code = "OK" => said[message[w]] = "TPSUCCESS"
       /\ response[w].code = "SVC_FAIL" <=> said[message[w]] = "TPFAIL"
       /\ response[w].code = "NOT_FOUND" => RequestOf(w).svc \notin Advertised

SaidInv == \A w \in Worker : Knows(w)

(* The buffers a worker has, and the one it has left: with its request's   *)
(* content in it.                                                          *)
BufferInv ==
  /\ \A b \in Buffer : buffers[b].owner # NoOwner => buffers[b].content = message[buffers[b].owner]
  /\ \A w \in Worker :
       /\ at[w] \in {"waiting", "calling"} => HeldBy(w) = {}
       /\ at[w] = "returned" => HeldBy(w) \subseteq {svcInfo[w].data}
       /\ at[w] \in {"replying", "posting"} => HeldBy(w) \subseteq {response[w].data}

(* The buffer a worker answers with is its own until it has freed it. *)
ReplyInv ==
  \A w \in Worker :
    /\ at[w] = "returned" /\ svcInfo[w].data \in Buffer => svcInfo[w].data \in HeldBy(w)
    /\ at[w] \in {"replying", "posting"} /\ response[w].data \in Buffer => response[w].data \in HeldBy(w)
    /\ at[w] \in {"replying", "posting"} /\ response[w].data # NoOwner => response[w].content = message[w]

HandsInv == BufferInv /\ ReplyInv

ServingInv == /\ ServingTypeOK /\ WorkInv /\ SaidInv /\ HandsInv
              /\ ResultIsTheServices /\ EndsOnlyOnDemand

-----------------------------------------------------------------------------
(* The sequences of requests, of what services said and of results.        *)

(* What the types say of the requests so far.                              *)
LEMMA Recorded ==
  ASSUME RequestTypes
  PROVE  /\ Len(asked) \in Nat /\ DOMAIN said = 1 .. Len(asked) /\ DOMAIN result = 1 .. Len(asked)
         /\ \A n \in 1 .. Len(asked) : /\ asked[n] \in [svc : SvcName, type : Type]
                                       /\ said[n] \in Saying /\ result[n] \in Outcome
<1>1. \A n \in 1 .. Len(asked) : asked[n] \in [svc : SvcName, type : Type]
  BY ElementOfSeq DEF RequestTypes
<1>2. \A n \in 1 .. Len(said) : said[n] \in Saying
  BY ElementOfSeq DEF RequestTypes
<1>3. \A n \in 1 .. Len(result) : result[n] \in Outcome
  BY ElementOfSeq DEF RequestTypes
<1>4. Len(asked) \in Nat /\ DOMAIN said = 1 .. Len(said) /\ DOMAIN result = 1 .. Len(result)
  BY LenProperties DEF RequestTypes
<1>5. QED BY <1>1, <1>2, <1>3, <1>4 DEF RequestTypes

(* ReceiveRequest adds an entry to each of them and leaves the others.     *)
LEMMA Received ==
  ASSUME RequestTypes, NEW w \in Worker, ReceiveRequest(w)
  PROVE  /\ RequestTypes' /\ Len(asked') = Len(asked) + 1
         /\ \A n \in 1 .. Len(asked) : asked'[n] = asked[n] /\ said'[n] = said[n] /\ result'[n] = result[n]
         /\ said'[Len(asked) + 1] = NoOwner /\ result'[Len(asked) + 1] = NoOwner
<1>1. PICK svc \in SvcName, type \in DataType \cup {NoOwner} : asked' = Append(asked, [svc |-> svc, type |-> type])
  BY DEF ReceiveRequest
<1> DEFINE r == [svc |-> svc, type |-> type]
<1>2. r \in [svc : SvcName, type : Type]
  BY DEF Type
<1>3. NoOwner \in Saying /\ NoOwner \in Outcome
  BY DEF Saying, Outcome
<1>4. asked' = Append(asked, r) /\ said' = Append(said, NoOwner) /\ result' = Append(result, NoOwner)
  BY <1>1 DEF ReceiveRequest
<1> HIDE DEF r
<1>5. asked' \in Seq([svc : SvcName, type : Type]) /\ Len(asked') = Len(asked) + 1
  BY <1>2, <1>4, AppendProperties DEF RequestTypes
<1>6. \A n \in 1 .. Len(asked) : asked'[n] = asked[n]
  BY <1>2, <1>4, AppendProperties DEF RequestTypes
<1>7. said' \in Seq(Saying) /\ Len(said') = Len(said) + 1 /\ said'[Len(said) + 1] = NoOwner
  BY <1>3, <1>4, AppendProperties DEF RequestTypes
<1>8. \A n \in 1 .. Len(said) : said'[n] = said[n]
  BY <1>3, <1>4, AppendProperties DEF RequestTypes
<1>9. result' \in Seq(Outcome) /\ Len(result') = Len(result) + 1 /\ result'[Len(result) + 1] = NoOwner
  BY <1>3, <1>4, AppendProperties DEF RequestTypes
<1>10. \A n \in 1 .. Len(result) : result'[n] = result[n]
  BY <1>3, <1>4, AppendProperties DEF RequestTypes
<1>11. QED
  BY <1>5, <1>6, <1>7, <1>8, <1>9, <1>10 DEF RequestTypes

(* Ends leaves its clients with what they have or with TPETIME.            *)
LEMMA Ended ==
  ASSUME RequestTypes, Ends, UNCHANGED said
  PROVE  /\ RequestTypes' /\ Len(asked') = Len(asked)
         /\ \A n \in 1 .. Len(asked) : result'[n] = IF result[n] = NoOwner THEN "TPETIME" ELSE result[n]
<1>1. DOMAIN result = 1 .. Len(asked) /\ Len(asked) \in Nat
  BY Recorded
<1>2. result' \in [1 .. Len(asked) -> Outcome]
  BY <1>1, Recorded DEF Ends, Outcome
<1>3. result' \in Seq(Outcome)
  BY <1>1, <1>2, SeqDef
<1>4. Len(result') = Len(asked)
  BY <1>1, <1>2, <1>3, LenProperties
<1>5. QED
  BY <1>1, <1>3, <1>4 DEF Ends, RequestTypes

(* One entry is changed.                                                   *)
LEMMA Entered ==
  ASSUME RequestTypes, NEW n \in 1 .. Len(asked), NEW what \in Saying, NEW errno \in Outcome
  PROVE  /\ [said EXCEPT ![n] = what] \in Seq(Saying) /\ Len([said EXCEPT ![n] = what]) = Len(asked)
         /\ [result EXCEPT ![n] = errno] \in Seq(Outcome) /\ Len([result EXCEPT ![n] = errno]) = Len(asked)
BY ExceptSeq DEF RequestTypes

-----------------------------------------------------------------------------
(* The types. *)

(* A worker that has a request has one that is recorded.                   *)
LEMMA Working ==
  ASSUME ServingTypeOK, WorkInv, NEW w \in Worker, at[w] # "waiting"
  PROVE  /\ message[w] \in 1 .. Len(asked) /\ message[w] \in DOMAIN said /\ message[w] \in DOMAIN result
         /\ RequestOf(w) \in [svc : SvcName, type : Type]
BY Recorded DEF ServingTypeOK, WorkInv, RequestOf

(* A reply is one of the answers that tpcall knows.                        *)
LEMMA Replied ==
  ASSUME NEW r, r.code \in {"OK", "NOT_FOUND", "SVC_FAIL", "SVC_ERR"}, NEW wants
  PROVE  Tperrno(r, wants) \in Outcome \ {NoOwner, "TPETIME"}
BY DEF Tperrno, Outcome, NoOwner

(* The answer says what the reply says.                                    *)
LEMMA Answered ==
  ASSUME NEW r, r.code \in {"OK", "NOT_FOUND", "SVC_FAIL", "SVC_ERR"}, NEW wants
  PROVE  /\ Tperrno(r, wants) \in {"OK", "TPEOTYPE"} => r.code = "OK"
         /\ Tperrno(r, wants) = "TPESVCFAIL" <=> r.code = "SVC_FAIL"
         /\ Tperrno(r, wants) = "TPENOENT" => r.code = "NOT_FOUND"
BY DEF Tperrno

(* What HasReturned builds has the type of a reply.                        *)
LEMMA BuiltReply ==
  ASSUME ServingTypeOK, WorkInv, NEW w \in Worker, at[w] = "returned"
  PROVE  TypeOfData(w) \in Type
<1>1. CASE svcInfo[w].data = "request"
  BY <1>1, Working, ServingAssumption DEF TypeOfData
<1>2. CASE svcInfo[w].data \in Buffer
  BY <1>2, ServingAssumption DEF ServingTypeOK, WorkerTypes, TypeOfData, Type
<1>3. CASE svcInfo[w].data # "request" /\ svcInfo[w].data \notin Buffer
  BY <1>3, ServingAssumption DEF TypeOfData, Type
<1>4. QED BY <1>1, <1>2, <1>3

(* HasReturned replies, or the process ends.                               *)
LEMMA Returned ==
  ASSUME ServingTypeOK, WorkInv, SaidInv, NEW w \in Worker, HasReturned(w)
  PROVE  \/ /\ Ends /\ UNCHANGED said
            /\ \/ svcInfo[w].rval = "TPSUCCESS" /\ RequestOf(w).type = NoOwner
               \/ svcInfo[w].rval = "TPEXIT"
         \/ /\ UNCHANGED <<serving, result, message, svcInfo, buffers, asked, said>>
            /\ at' = [at EXCEPT ![w] = "replying"]
            /\ \E code \in {"OK", "SVC_FAIL", "SVC_ERR"}, type \in Type :
                 /\ response' = [response EXCEPT ![w] =
                       [code |-> code, data |-> svcInfo[w].data, type |-> type, content |-> message[w]]]
                 /\ code = "OK" => svcInfo[w].rval = "TPSUCCESS"
                 /\ code = "SVC_FAIL" <=> svcInfo[w].rval = "TPFAIL"
<1>1. at[w] = "returned" /\ svcInfo[w].rval \in Ending /\ UNCHANGED said
  BY DEF HasReturned, SaidInv, Knows
<1>2. TypeOfData(w) \in Type /\ "CARRAY" \in Type
  BY <1>1, BuiltReply, ServingAssumption DEF Type
<1>3. CASE svcInfo[w].rval = "TPSUCCESS" /\ svcInfo[w].data # NoOwner /\ RequestOf(w).type = NoOwner
  BY <1>1, <1>3 DEF HasReturned
<1>4. CASE svcInfo[w].rval = "TPSUCCESS" /\ (svcInfo[w].data = NoOwner \/ RequestOf(w).type # NoOwner)
  BY <1>1, <1>2, <1>4 DEF HasReturned, Respond
<1>5. CASE svcInfo[w].rval = "TPEXIT"
  BY <1>1, <1>5 DEF HasReturned
<1>6. CASE svcInfo[w].rval \in {"TPFAIL", "unknown"}
  BY <1>1, <1>2, <1>6 DEF HasReturned, Respond
<1>7. QED BY <1>1, <1>3, <1>4, <1>5, <1>6 DEF Ending

LEMMA ServingTypesKept ==
  ASSUME ServingTypeOK, WorkInv, SaidInv, [ServingNext]_servingVars
  PROVE  ServingTypeOK'
<1> USE DEF ServingTypeOK
<1>1. ASSUME NEW w \in Worker, ReceiveRequest(w) PROVE ServingTypeOK'
  <2>1. RequestTypes' /\ Len(asked') \in Nat
    BY <1>1, Received, Recorded
  <2>2. WorkerTypes'
    BY <1>1, <2>1 DEF WorkerTypes, ReceiveRequest, Stage
  <2>3. QED BY <2>1, <2>2
<1>2. ASSUME NEW w \in Worker, CallService(w) PROVE ServingTypeOK'
  <2>1. RequestTypes'
    BY <1>2 DEF CallService, RequestTypes
  <2>2. at' \in [Worker -> Stage]
    BY <1>2 DEF WorkerTypes, CallService, Respond, Stage
  <2>3. \/ UNCHANGED response
        \/ response' = [response EXCEPT ![w] = [NoResponse EXCEPT !.code = "NOT_FOUND"]]
        \/ response' = [response EXCEPT ![w] = NoResponse]
    BY <1>2 DEF CallService, Respond
  <2> DEFINE R == [code : {"OK", "NOT_FOUND", "SVC_FAIL", "SVC_ERR"}, data : Data, type : Type, content : Nat]
  <2>4. NoResponse \in R /\ [NoResponse EXCEPT !.code = "NOT_FOUND"] \in R
    BY ServingAssumption DEF NoResponse, Data, Type
  <2>5. response \in [Worker -> R]
    BY DEF WorkerTypes
  <2> HIDE DEF R
  <2>6. response' \in [Worker -> R]
    BY <2>3, <2>4, <2>5
  <2>7. WorkerTypes'
    BY <1>2, <2>2, <2>6 DEF WorkerTypes, CallService, R
  <2>8. QED BY <2>1, <2>7
<1>3. ASSUME NEW w \in Worker, NEW b \in Buffer, AllocBuffer(w, b) \/ FreeBuffer(w, b) PROVE ServingTypeOK'
  <2>1. RequestTypes'
    BY <1>3 DEF AllocBuffer, FreeBuffer, RequestTypes
  <2>2. buffers' \in [Buffer -> [owner : Worker \cup {NoOwner}, type : DataType, content : Nat]]
    BY <1>3, ServingAssumption DEF WorkerTypes, AllocBuffer, FreeBuffer, Unused
  <2>3. WorkerTypes'
    BY <1>3, <2>2 DEF WorkerTypes, AllocBuffer, FreeBuffer
  <2>4. QED BY <2>1, <2>3
<1>4. ASSUME NEW w \in Worker, Tpreturn(w) PROVE ServingTypeOK'
  <2>1. PICK rval \in Ending, data \in Data : /\ svcInfo' = [svcInfo EXCEPT ![w] = [rval |-> rval, data |-> data]]
                                              /\ said' = [said EXCEPT ![message[w]] = rval]
    BY <1>4 DEF Tpreturn, HeldBy, Data, Ending, InfoOf, Says
  <2>2. RequestTypes'
    <3>1. message[w] \in 1 .. Len(asked) /\ rval \in Saying
      BY <1>4, Working DEF Tpreturn, Saying
    <3>2. [said EXCEPT ![message[w]] = rval] \in Seq(Saying) /\ Len([said EXCEPT ![message[w]] = rval]) = Len(asked)
      BY <3>1, Entered DEF Outcome
    <3>3. QED BY <1>4, <2>1, <3>2 DEF Tpreturn, RequestTypes
  <2>3. WorkerTypes'
    BY <1>4, <2>1 DEF WorkerTypes, Tpreturn, AfterJump, Stage
  <2>4. QED BY <2>2, <2>3
<1>5. ASSUME NEW w \in Worker, ReturnsPlainly(w) PROVE ServingTypeOK'
  <2>1. message[w] \in 1 .. Len(asked) /\ "plain" \in Saying /\ NoOwner \in Outcome
    BY <1>5, Working DEF ReturnsPlainly, Saying, Outcome
  <2>2. RequestTypes'
    BY <1>5, <2>1, Entered DEF ReturnsPlainly, Says, RequestTypes
  <2>3. WorkerTypes'
    BY <1>5, ServingAssumption DEF WorkerTypes, ReturnsPlainly, Respond, NoResponse, Stage, Data, Type
  <2>4. QED BY <2>2, <2>3
<1>6. ASSUME NEW w \in Worker, Throws(w) PROVE ServingTypeOK'
  <2>1. message[w] \in 1 .. Len(asked) /\ "throws" \in Saying /\ "TPETIME" \in Outcome
    BY <1>6, Working DEF Throws, Saying, Outcome
  <2>2. RequestTypes'
    BY <1>6, <2>1, Entered DEF Throws, Caught, Lost, Says, RequestTypes
  <2>3. WorkerTypes'
    BY <1>6 DEF WorkerTypes, Throws, Caught, Stage
  <2>4. QED BY <2>2, <2>3
<1>7. ASSUME NEW w \in Worker, HasReturned(w) PROVE ServingTypeOK'
  <2>1. CASE Ends /\ UNCHANGED said
    <3>1. RequestTypes'
      BY <2>1, Ended
    <3>2. WorkerTypes'
      BY <2>1 DEF WorkerTypes, Ends
    <3>3. QED BY <3>1, <3>2
  <2>2. CASE UNCHANGED <<serving, result, message, svcInfo, buffers, asked, said>>
    <3>1. PICK code \in {"OK", "SVC_FAIL", "SVC_ERR"}, type \in Type :
             /\ at' = [at EXCEPT ![w] = "replying"] \/ Ends
             /\ response' = [response EXCEPT ![w] =
                   [code |-> code, data |-> svcInfo[w].data, type |-> type, content |-> message[w]]] \/ Ends
      BY <1>7, Returned, ServingAssumption DEF Type
    <3>2. RequestTypes'
      BY <2>2 DEF RequestTypes
    <3>3. WorkerTypes'
      BY SMTT(40), <2>2, <3>1 DEF WorkerTypes, Stage, Ends
    <3>4. QED BY <3>2, <3>3
  <2>3. QED BY <1>7, <2>1, <2>2, Returned
<1>8. ASSUME NEW w \in Worker, WriteReply(w) PROVE ServingTypeOK'
  <2>1. message[w] \in 1 .. Len(asked)
    BY <1>8, Working DEF WriteReply
  <2>2. PICK errno \in Outcome : result' = [result EXCEPT ![message[w]] = errno]
    <3>1. CASE Lost(w)
      BY <3>1 DEF Lost, Outcome
    <3>2. CASE ~Lost(w)
      <4> DEFINE r == [response[w] EXCEPT !.content = Content(w)]
      <4>1. PICK wants : result' = [result EXCEPT ![message[w]] = Tperrno(r, wants)]
        BY <1>8, <3>2 DEF WriteReply
      <4>2. r.code \in {"OK", "NOT_FOUND", "SVC_FAIL", "SVC_ERR"}
        BY DEF WorkerTypes
      <4> HIDE DEF r
      <4>3. Tperrno(r, wants) \in Outcome
        BY <4>2, Replied
      <4>4. QED BY <4>1, <4>3
    <3>3. QED BY <3>1, <3>2
  <2>3. RequestTypes'
    BY <1>8, <2>1, <2>2, Entered DEF WriteReply, Saying, RequestTypes
  <2>4. Content(w) \in Nat
    BY DEF Content, WorkerTypes
  <2>5. at' \in [Worker -> Stage]
    BY <1>8 DEF WorkerTypes, WriteReply, Stage
  <2>6. UNCHANGED response \/ response' = [response EXCEPT ![w] = [@ EXCEPT !.content = Content(w)]]
    BY <1>8 DEF WriteReply
  <2> DEFINE R == [code : {"OK", "NOT_FOUND", "SVC_FAIL", "SVC_ERR"}, data : Data, type : Type, content : Nat]
  <2>r. response \in [Worker -> R] /\ [response[w] EXCEPT !.content = Content(w)] \in R
    BY <2>4 DEF WorkerTypes
  <2> HIDE DEF R
  <2>7. response' \in [Worker -> R]
    BY <2>6, <2>r
  <2>8. WorkerTypes'
    BY <1>8, <2>5, <2>7 DEF WorkerTypes, WriteReply, R
  <2>9. QED BY <2>3, <2>8
<1>9. ASSUME NEW w \in Worker, InvokePost(w) PROVE ServingTypeOK'
  <2>1. RequestTypes'
    BY <1>9 DEF InvokePost, RequestTypes
  <2>2. buffers' \in [Buffer -> [owner : Worker \cup {NoOwner}, type : DataType, content : Nat]]
    BY <1>9, ServingAssumption DEF WorkerTypes, InvokePost, Unused
  <2>3. WorkerTypes'
    BY <1>9, <2>2, ServingAssumption DEF WorkerTypes, InvokePost, NoResponse, Stage, Data, Type
  <2>4. QED BY <2>1, <2>3
<1>10. CASE UNCHANGED servingVars
  BY <1>10 DEF servingVars, RequestTypes, WorkerTypes
<1>11. QED
  BY <1>1, <1>2, <1>3, <1>4, <1>5, <1>6, <1>7, <1>8, <1>9, <1>10 DEF ServingNext, ServiceStep

-----------------------------------------------------------------------------
(* Whose request is whose. *)

LEMMA WorkKept ==
  ASSUME ServingTypeOK, WorkInv, SaidInv, [ServingNext]_servingVars
  PROVE  WorkInv'
<1> USE DEF WorkInv
<1>t. message \in [Worker -> Nat] /\ at \in [Worker -> Stage] /\ Len(asked) \in Nat
  BY Recorded DEF ServingTypeOK, WorkerTypes
<1>1. ASSUME NEW w \in Worker, ReceiveRequest(w) PROVE WorkInv'
  <2>1. /\ Len(asked') = Len(asked) + 1 /\ at[w] = "waiting"
        /\ message' = [message EXCEPT ![w] = Len(asked) + 1] /\ at' = [at EXCEPT ![w] = "calling"]
    BY <1>1, Received DEF ReceiveRequest, ServingTypeOK
  <2>2. \A v \in Worker : message[v] # Len(asked) + 1
    BY <1>t
  <2>3. QED BY <1>t, <2>1, <2>2
<1>2. ASSUME NEW w \in Worker, CallService(w) PROVE WorkInv'
  BY <1>t, <1>2 DEF CallService, Respond
<1>3. ASSUME NEW w \in Worker, NEW b \in Buffer, AllocBuffer(w, b) \/ FreeBuffer(w, b) PROVE WorkInv'
  BY <1>t, <1>3 DEF AllocBuffer, FreeBuffer
<1>4. ASSUME NEW w \in Worker, Tpreturn(w) PROVE WorkInv'
  BY <1>t, <1>4 DEF Tpreturn
<1>5. ASSUME NEW w \in Worker, ReturnsPlainly(w) PROVE WorkInv'
  BY <1>t, <1>5 DEF ReturnsPlainly, Respond
<1>6. ASSUME NEW w \in Worker, Throws(w) PROVE WorkInv'
  BY <1>t, <1>6 DEF Throws, Caught
<1>7. ASSUME NEW w \in Worker, HasReturned(w) PROVE WorkInv'
  <2>1. UNCHANGED <<message, asked>> /\ at[w] = "returned"
    BY <1>7, Returned DEF Ends, HasReturned
  <2>2. UNCHANGED at \/ at' = [at EXCEPT ![w] = "replying"]
    BY <1>7, Returned DEF Ends
  <2>3. QED BY <1>t, <2>1, <2>2
<1>8. ASSUME NEW w \in Worker, WriteReply(w) PROVE WorkInv'
  BY <1>t, <1>8 DEF WriteReply
<1>9. ASSUME NEW w \in Worker, InvokePost(w) PROVE WorkInv'
  BY <1>t, <1>9 DEF InvokePost
<1>10. CASE UNCHANGED servingVars
  BY <1>10 DEF servingVars
<1>11. QED
  BY <1>1, <1>2, <1>3, <1>4, <1>5, <1>6, <1>7, <1>8, <1>9, <1>10 DEF ServingNext, ServiceStep

-----------------------------------------------------------------------------
(* What a worker knows. *)

(* A step of one worker leaves what the others know.                       *)
LEMMA OthersKnow ==
  ASSUME ServingTypeOK, WorkInv, SaidInv, WorkInv', NEW w \in Worker,
         \A n \in 1 .. Len(asked) : asked'[n] = asked[n],
         \A n \in 1 .. Len(asked) : n # message[w] => said'[n] = said[n] /\ result'[n] = result[n],
         \A v \in Worker \ {w} : /\ at'[v] = at[v] /\ message'[v] = message[v]
                                 /\ svcInfo'[v] = svcInfo[v] /\ response'[v] = response[v]
  PROVE  \A v \in Worker \ {w} : Knows(v)'
<1> TAKE v \in Worker \ {w}
<1>1. CASE at[v] = "waiting"
  BY <1>1 DEF Knows
<1>2. CASE at[v] # "waiting"
  <2>1. message'[v] = message[v] /\ message[v] \in 1 .. Len(asked) /\ message[v] # message[w]
    BY <1>2, Recorded DEF WorkInv, ServingTypeOK
  <2>2. /\ said'[message'[v]] = said[message[v]] /\ result'[message'[v]] = result[message[v]]
        /\ RequestOf(v)' = RequestOf(v)
    BY <2>1 DEF RequestOf
  <2>3. Knows(v)
    BY DEF SaidInv
  <2>4. QED BY <2>2, <2>3 DEF Knows
<1>3. QED BY <1>1, <1>2

LEMMA SaidKept ==
  ASSUME ServingTypeOK, WorkInv, SaidInv, [ServingNext]_servingVars, WorkInv'
  PROVE  SaidInv'
<1>t. /\ DOMAIN at = Worker /\ DOMAIN message = Worker /\ DOMAIN svcInfo = Worker /\ DOMAIN response = Worker
      /\ Len(asked) \in Nat /\ DOMAIN said = 1 .. Len(asked) /\ DOMAIN result = 1 .. Len(asked)
  BY Recorded DEF ServingTypeOK, WorkerTypes
<1>w. \A w \in Worker : at[w] # "waiting" => message[w] \in 1 .. Len(asked)
  BY DEF WorkInv
<1>k. \A w \in Worker : Knows(w)
  BY DEF SaidInv
<1>r. ASSUME NEW w \in Worker, Knows(w)', \A v \in Worker \ {w} : Knows(v)'
      PROVE  SaidInv'
  BY <1>r DEF SaidInv
<1>1. ASSUME NEW w \in Worker, ReceiveRequest(w) PROVE SaidInv'
  <2>1. /\ message' = [message EXCEPT ![w] = Len(asked) + 1] /\ at' = [at EXCEPT ![w] = "calling"]
        /\ UNCHANGED <<svcInfo, response>>
    BY <1>1, Received DEF ReceiveRequest, ServingTypeOK
  <2>2. /\ result'[Len(asked) + 1] = NoOwner /\ said'[Len(asked) + 1] = NoOwner
        /\ \A n \in 1 .. Len(asked) : asked'[n] = asked[n] /\ said'[n] = said[n] /\ result'[n] = result[n]
    BY <1>1, Received DEF ServingTypeOK
  <2>3. Knows(w)'
    BY <1>t, <2>1, <2>2 DEF Knows
  <2>4. \A v \in Worker \ {w} : Knows(v)'
    BY <1>t, <2>1, <2>2, OthersKnow
  <2>5. QED BY <1>r, <2>3, <2>4
<1>2. ASSUME NEW w \in Worker, CallService(w) PROVE SaidInv'
  <2>1. /\ \A v \in Worker \ {w} : at'[v] = at[v] /\ response'[v] = response[v]
        /\ UNCHANGED <<message, svcInfo, asked, said, result>> /\ at[w] = "calling"
    BY <1>t, <1>2 DEF CallService, Respond
  <2>2. \/ at'[w] = "service"
        \/ /\ at'[w] = "replying"
           /\ \/ response'[w].code = "SVC_ERR"
              \/ response'[w].code = "NOT_FOUND" /\ RequestOf(w).svc \notin Advertised
    BY <1>t, <1>2 DEF CallService, Respond, NoResponse
  <2>3. said[message[w]] # "TPFAIL"
    BY <1>k, <2>1 DEF Knows, NoOwner
  <2>4. Knows(w)'
    BY <1>t, <1>k, <2>1, <2>2, <2>3 DEF Knows, RequestOf
  <2>5. \A v \in Worker \ {w} : Knows(v)'
    BY <2>1, OthersKnow
  <2>6. QED BY <1>r, <2>4, <2>5
<1>3. ASSUME NEW w \in Worker, NEW b \in Buffer, AllocBuffer(w, b) \/ FreeBuffer(w, b) PROVE SaidInv'
  <2>1. UNCHANGED <<at, message, svcInfo, response, asked, said, result>>
    BY <1>3 DEF AllocBuffer, FreeBuffer
  <2>2. QED BY <1>k, <2>1 DEF SaidInv, Knows, RequestOf
<1>4. ASSUME NEW w \in Worker, Tpreturn(w) PROVE SaidInv'
  <2>1. /\ at[w] = "service" /\ at' = [at EXCEPT ![w] = "returned"]
        /\ UNCHANGED <<message, response, asked, result>>
    BY <1>4 DEF Tpreturn
  <2>2. PICK rval \in Ending, data \in {NoOwner, "memory"} \cup HeldBy(w)
                   \cup (IF RequestOf(w).type # NoOwner THEN {"request"} ELSE {}) :
           svcInfo' = [svcInfo EXCEPT ![w] = [rval |-> rval, data |-> data]] /\ said' = [said EXCEPT ![message[w]] = rval]
    BY <1>4 DEF Tpreturn, InfoOf, Says, Ending
  <2>3. data = "request" => RequestOf(w).type # NoOwner
    BY <2>2, ServingAssumption DEF HeldBy, NoOwner
  <2>4. Knows(w)'
    BY <1>t, <1>k, <1>w, <2>1, <2>2, <2>3 DEF Knows, RequestOf
  <2>5. \A v \in Worker \ {w} : Knows(v)'
    BY <1>t, <2>1, <2>2, OthersKnow
  <2>6. QED BY <1>r, <2>4, <2>5
<1>5. ASSUME NEW w \in Worker, ReturnsPlainly(w) PROVE SaidInv'
  <2>1. /\ at[w] = "service" /\ at' = [at EXCEPT ![w] = "replying"] /\ said' = [said EXCEPT ![message[w]] = "plain"]
        /\ response' = [response EXCEPT ![w] = NoResponse] /\ UNCHANGED <<message, svcInfo, asked, result>>
    BY <1>5 DEF ReturnsPlainly, Respond, Says
  <2>2. Knows(w)'
    BY <1>t, <1>k, <1>w, <2>1 DEF Knows, NoResponse
  <2>3. \A v \in Worker \ {w} : Knows(v)'
    BY <1>t, <2>1, OthersKnow
  <2>4. QED BY <1>r, <2>2, <2>3
<1>6. ASSUME NEW w \in Worker, Throws(w) PROVE SaidInv'
  <2>1. /\ at[w] = "service" /\ at' = [at EXCEPT ![w] = "waiting"] /\ said' = [said EXCEPT ![message[w]] = "throws"]
        /\ message' = [message EXCEPT ![w] = 0] /\ result' = [result EXCEPT ![message[w]] = "TPETIME"]
        /\ UNCHANGED <<svcInfo, response, asked>>
    BY <1>6 DEF Throws, Caught, Lost, Says
  <2>2. Knows(w)'
    BY <1>t, <2>1 DEF Knows
  <2>3. \A v \in Worker \ {w} : Knows(v)'
    BY <1>t, <2>1, OthersKnow
  <2>4. QED BY <1>r, <2>2, <2>3
<1>7. ASSUME NEW w \in Worker, HasReturned(w) PROVE SaidInv'
  <2>1. CASE Ends /\ UNCHANGED said
    <3>1. \A n \in 1 .. Len(asked) : result'[n] = IF result[n] = NoOwner THEN "TPETIME" ELSE result[n]
      BY <2>1, Ended DEF ServingTypeOK
    <3>2. UNCHANGED <<at, message, svcInfo, response, asked, said>>
      BY <2>1 DEF Ends
    <3>3. ASSUME NEW v \in Worker PROVE Knows(v)'
      <4>1. at[v] = "waiting" \/ result'[message[v]] = IF result[message[v]] = NoOwner THEN "TPETIME" ELSE result[message[v]]
        BY <1>w, <3>1
      <4>2. QED BY <1>k, <3>2, <4>1 DEF Knows, RequestOf
    <3>4. QED BY <3>3 DEF SaidInv
  <2>2. CASE ~(Ends /\ UNCHANGED said)
    <3>1. /\ UNCHANGED <<result, message, svcInfo, asked, said>>
          /\ at[w] = "returned" /\ at' = [at EXCEPT ![w] = "replying"]
      BY <1>7, <2>2, Returned DEF HasReturned
    <3>2. PICK code \in {"OK", "SVC_FAIL", "SVC_ERR"}, type \in Type :
             /\ response' = [response EXCEPT ![w] =
                   [code |-> code, data |-> svcInfo[w].data, type |-> type, content |-> message[w]]]
             /\ code = "OK" => svcInfo[w].rval = "TPSUCCESS"
             /\ code = "SVC_FAIL" <=> svcInfo[w].rval = "TPFAIL"
      BY <1>7, <2>2, Returned
    <3>3. Knows(w)'
      BY <1>t, <1>k, <3>1, <3>2 DEF Knows
    <3>4. \A v \in Worker \ {w} : Knows(v)'
      BY <1>t, <3>1, <3>2, OthersKnow
    <3>5. QED BY <1>r, <3>3, <3>4
  <2>3. QED BY <2>1, <2>2
<1>8. ASSUME NEW w \in Worker, WriteReply(w) PROVE SaidInv'
  <2>1. /\ at' = [at EXCEPT ![w] = "posting"] /\ UNCHANGED <<message, svcInfo, asked, said>>
        /\ \A v \in Worker \ {w} : response'[v] = response[v]
    BY <1>t, <1>8 DEF WriteReply
  <2>2. \A n \in 1 .. Len(asked) : n # message[w] => result'[n] = result[n]
    BY <1>t, <1>8 DEF WriteReply, Lost
  <2>3. Knows(w)'
    BY <1>t, <2>1 DEF Knows
  <2>4. \A v \in Worker \ {w} : Knows(v)'
    BY <1>t, <2>1, <2>2, OthersKnow
  <2>5. QED BY <1>r, <2>3, <2>4
<1>9. ASSUME NEW w \in Worker, InvokePost(w) PROVE SaidInv'
  <2>1. /\ at' = [at EXCEPT ![w] = "waiting"] /\ message' = [message EXCEPT ![w] = 0]
        /\ response' = [response EXCEPT ![w] = NoResponse] /\ UNCHANGED <<svcInfo, asked, said, result>>
    BY <1>9 DEF InvokePost
  <2>2. Knows(w)'
    BY <1>t, <2>1 DEF Knows
  <2>3. \A v \in Worker \ {w} : Knows(v)'
    BY <1>t, <2>1, OthersKnow
  <2>4. QED BY <1>r, <2>2, <2>3
<1>10. CASE UNCHANGED servingVars
  BY <1>k, <1>10 DEF servingVars, SaidInv, Knows, RequestOf
<1>11. QED
  BY <1>1, <1>2, <1>3, <1>4, <1>5, <1>6, <1>7, <1>8, <1>9, <1>10 DEF ServingNext, ServiceStep

-----------------------------------------------------------------------------
(* The buffers. *)

(* No step but AllocBuffer, FreeBuffer and InvokePost touches the buffers. *)
LEMMA HandsKept ==
  ASSUME ServingTypeOK, WorkInv, SaidInv, HandsInv, [ServingNext]_servingVars, ServingTypeOK'
  PROVE  HandsInv'
<1>t. /\ DOMAIN at = Worker /\ DOMAIN message = Worker /\ DOMAIN svcInfo = Worker /\ DOMAIN response = Worker
      /\ at \in [Worker -> Stage] /\ DOMAIN buffers = Buffer
      /\ \A b \in Buffer : buffers[b].owner \in Worker \cup {NoOwner}
      /\ NoOwner \notin Buffer /\ NoOwner \notin Worker
  BY ServingAssumption DEF ServingTypeOK, WorkerTypes
<1>h. \A w \in Worker, b \in Buffer : b \in HeldBy(w) <=> buffers[b].owner = w
  BY DEF HeldBy
<1>g. \A w \in Worker, b \in Buffer : b \in HeldBy(w)' <=> buffers'[b].owner = w
  BY DEF HeldBy
<1>s. \A w \in Worker : HeldBy(w) \subseteq Buffer /\ HeldBy(w)' \subseteq Buffer
  BY DEF HeldBy
<1>e. ASSUME UNCHANGED buffers PROVE \A w \in Worker : HeldBy(w)' = HeldBy(w)
  BY <1>e DEF HeldBy
<1>1. ASSUME NEW w \in Worker, ReceiveRequest(w) PROVE HandsInv'
  <2>1. /\ message' = [message EXCEPT ![w] = Len(asked')] /\ at[w] = "waiting" /\ at' = [at EXCEPT ![w] = "calling"]
        /\ UNCHANGED <<svcInfo, response, buffers>>
    BY <1>1 DEF ReceiveRequest
  <2>2. HeldBy(w) = {}
    BY <2>1 DEF HandsInv, BufferInv
  <2>3. \A b \in Buffer : buffers[b].owner # w
    BY <2>2, <1>h
  <2>4. BufferInv'
    BY <1>t, <1>e, <2>1, <2>2, <2>3 DEF HandsInv, BufferInv
  <2>5. ReplyInv'
    BY <1>t, <1>e, <2>1 DEF HandsInv, ReplyInv
  <2>6. QED BY <2>4, <2>5 DEF HandsInv
<1>2. ASSUME NEW w \in Worker, CallService(w) PROVE HandsInv'
  <2>1. /\ at[w] = "calling" /\ UNCHANGED <<message, svcInfo, buffers>>
        /\ \/ at' = [at EXCEPT ![w] = "service"] /\ UNCHANGED response
           \/ /\ at' = [at EXCEPT ![w] = "replying"] /\ \A v \in Worker \ {w} : response'[v] = response[v]
              /\ response'[w].data = NoOwner
    BY <1>t, <1>2 DEF CallService, Respond, NoResponse
  <2>2. HeldBy(w) = {}
    BY <2>1 DEF HandsInv, BufferInv
  <2>3. BufferInv'
    BY <1>t, <1>e, <2>1, <2>2 DEF HandsInv, BufferInv
  <2>4. ReplyInv'
    BY <1>t, <1>e, <2>1 DEF HandsInv, ReplyInv
  <2>5. QED BY <2>3, <2>4 DEF HandsInv
<1>3. ASSUME NEW w \in Worker, NEW b \in Buffer, AllocBuffer(w, b) \/ FreeBuffer(w, b) PROVE HandsInv'
  <2>1. /\ at[w] = "service" /\ UNCHANGED <<at, message, svcInfo, response>>
        /\ \A d \in Buffer \ {b} : buffers'[d] = buffers[d]
        /\ \/ buffers[b].owner = NoOwner /\ buffers'[b].owner = w /\ buffers'[b].content = message[w]
           \/ buffers[b].owner = w /\ buffers'[b].owner = NoOwner
    BY <1>t, <1>3 DEF AllocBuffer, FreeBuffer, HeldBy, Unused
  <2>2. \A v \in Worker \ {w} : HeldBy(v)' = HeldBy(v)
    BY <1>t, <2>1 DEF HeldBy
  <2>3. BufferInv'
    BY <1>t, <2>1, <2>2 DEF HandsInv, BufferInv
  <2>4. ReplyInv'
    BY <1>t, <2>1, <2>2 DEF HandsInv, ReplyInv
  <2>5. QED BY <2>3, <2>4 DEF HandsInv
<1>4. ASSUME NEW w \in Worker, Tpreturn(w) PROVE HandsInv'
  <2>1. /\ at[w] = "service" /\ at' = [at EXCEPT ![w] = "returned"] /\ UNCHANGED <<message, response, buffers>>
    BY <1>4 DEF Tpreturn, AfterJump
  <2>2. PICK rval \in Ending, data \in {NoOwner, "memory", "request"} \cup HeldBy(w) :
           HeldBy(w) \subseteq {data} /\ svcInfo' = [svcInfo EXCEPT ![w] = [rval |-> rval, data |-> data]]
    BY <1>4 DEF Tpreturn, InfoOf, Ending
  <2>3. data \in Buffer => data \in HeldBy(w)
    BY <2>2, ServingAssumption
  <2>4. BufferInv'
    BY <1>t, <1>e, <2>1, <2>2 DEF HandsInv, BufferInv
  <2>5. ReplyInv'
    BY <1>t, <1>e, <2>1, <2>2, <2>3 DEF HandsInv, ReplyInv
  <2>6. QED BY <2>4, <2>5 DEF HandsInv
<1>5. ASSUME NEW w \in Worker, ReturnsPlainly(w) PROVE HandsInv'
  <2>1. /\ HeldBy(w) = {} /\ at' = [at EXCEPT ![w] = "replying"] /\ response' = [response EXCEPT ![w] = NoResponse]
        /\ UNCHANGED <<message, svcInfo, buffers>>
    BY <1>5 DEF ReturnsPlainly, Respond
  <2>2. BufferInv'
    BY <1>t, <1>e, <2>1 DEF HandsInv, BufferInv
  <2>3. ReplyInv'
    BY <1>t, <1>e, <2>1 DEF HandsInv, ReplyInv, NoResponse
  <2>4. QED BY <2>2, <2>3 DEF HandsInv
<1>6. ASSUME NEW w \in Worker, Throws(w) PROVE HandsInv'
  <2>1. /\ HeldBy(w) = {} /\ at' = [at EXCEPT ![w] = "waiting"] /\ message' = [message EXCEPT ![w] = 0]
        /\ UNCHANGED <<svcInfo, response, buffers>>
    BY <1>6 DEF Throws, Caught
  <2>2. \A b \in Buffer : buffers[b].owner # w
    BY <2>1, <1>h
  <2>3. BufferInv'
    BY <1>t, <1>e, <2>1, <2>2 DEF HandsInv, BufferInv
  <2>4. ReplyInv'
    BY <1>t, <1>e, <2>1 DEF HandsInv, ReplyInv
  <2>5. QED BY <2>3, <2>4 DEF HandsInv
<1>7. ASSUME NEW w \in Worker, HasReturned(w) PROVE HandsInv'
  <2>1. CASE Ends
    <3>1. UNCHANGED <<at, message, svcInfo, response, buffers>>
      BY <2>1 DEF Ends
    <3>2. QED BY <1>e, <3>1 DEF HandsInv, BufferInv, ReplyInv
  <2>2. CASE ~Ends
    <3>1. /\ UNCHANGED <<message, svcInfo, buffers>> /\ at[w] = "returned" /\ at' = [at EXCEPT ![w] = "replying"]
      BY <1>7, <2>2, Returned DEF HasReturned
    <3>2. PICK code \in {"OK", "SVC_FAIL", "SVC_ERR"}, type \in Type :
             response' = [response EXCEPT ![w] =
                [code |-> code, data |-> svcInfo[w].data, type |-> type, content |-> message[w]]]
      BY <1>7, <2>2, Returned
    <3>3. BufferInv'
      BY <1>t, <1>e, <3>1, <3>2 DEF HandsInv, BufferInv
    <3>4. ReplyInv'
      BY <1>t, <1>e, <3>1, <3>2 DEF HandsInv, ReplyInv
    <3>5. QED BY <3>3, <3>4 DEF HandsInv
  <2>3. QED BY <2>1, <2>2
<1>8. ASSUME NEW w \in Worker, WriteReply(w) PROVE HandsInv'
  <2>1. /\ at[w] = "replying" /\ at' = [at EXCEPT ![w] = "posting"] /\ UNCHANGED <<message, svcInfo, buffers>>
        /\ \A v \in Worker \ {w} : response'[v] = response[v]
    BY <1>t, <1>8 DEF WriteReply
  <2>2. response'[w] = response[w] \/ response'[w] = [response[w] EXCEPT !.content = Content(w)]
    BY <1>t, <1>8 DEF WriteReply
  <2>3. Content(w) = message[w]
    <3>1. CASE response[w].data \in Buffer
      <4>1. buffers[response[w].data].owner = w
        BY <1>h, <2>1, <3>1 DEF HandsInv, ReplyInv
      <4>2. buffers[response[w].data].content = message[w]
        BY <1>t, <3>1, <4>1 DEF HandsInv, BufferInv
      <4>3. QED BY <3>1, <4>2 DEF Content
    <3>2. CASE response[w].data \notin Buffer
      BY <3>2 DEF Content
    <3>3. QED BY <3>1, <3>2
  <2>4. response'[w].data = response[w].data
    BY <2>2 DEF ServingTypeOK, WorkerTypes
  <2>5. response[w].data # NoOwner => response'[w].content = message[w]
    BY <2>1, <2>2, <2>3 DEF ServingTypeOK, WorkerTypes, HandsInv, ReplyInv
  <2>6. BufferInv'
    BY <1>t, <1>e, <2>1, <2>4 DEF HandsInv, BufferInv
  <2>7. ReplyInv'
    BY <1>t, <1>e, <2>1, <2>4, <2>5 DEF HandsInv, ReplyInv
  <2>8. QED BY <2>6, <2>7 DEF HandsInv
<1>9. ASSUME NEW w \in Worker, InvokePost(w) PROVE HandsInv'
  <2>1. /\ at[w] = "posting" /\ at' = [at EXCEPT ![w] = "waiting"] /\ message' = [message EXCEPT ![w] = 0]
        /\ response' = [response EXCEPT ![w] = NoResponse] /\ UNCHANGED svcInfo
    BY <1>9 DEF InvokePost
  <2>2. \A b \in Buffer : buffers'[b] = IF b = response[w].data THEN Unused ELSE buffers[b]
    BY <1>9 DEF InvokePost, ToFree
  <2>3. \A b \in Buffer : b = response[w].data => buffers[b].owner = w
    BY <1>h, <2>1 DEF HandsInv, ReplyInv
  <2>4. \A b \in Buffer : buffers[b].owner = w => b = response[w].data
    BY <1>h, <2>1 DEF HandsInv, BufferInv
  <2>5. \A b \in Buffer : buffers'[b].owner # w /\ (buffers[b].owner # w => buffers'[b] = buffers[b])
                          /\ (buffers[b].owner = w => buffers'[b].owner = NoOwner)
    BY <1>t, <2>2, <2>3, <2>4 DEF Unused
  <2>6. HeldBy(w)' = {} /\ \A v \in Worker \ {w} : HeldBy(v)' = HeldBy(v)
    BY <1>t, <2>5 DEF HeldBy
  <2>7. BufferInv'
    BY <1>t, <2>1, <2>5, <2>6 DEF HandsInv, BufferInv
  <2>8. ReplyInv'
    BY <1>t, <2>1, <2>6 DEF HandsInv, ReplyInv
  <2>9. QED BY <2>7, <2>8 DEF HandsInv
<1>10. CASE UNCHANGED servingVars
  BY <1>e, <1>10 DEF servingVars, HandsInv, BufferInv, ReplyInv
<1>11. QED
  BY <1>1, <1>2, <1>3, <1>4, <1>5, <1>6, <1>7, <1>8, <1>9, <1>10 DEF ServingNext, ServiceStep

-----------------------------------------------------------------------------
(* The results. *)

LEMMA ResultsKept ==
  ASSUME ServingTypeOK, WorkInv, SaidInv, ResultIsTheServices, [ServingNext]_servingVars, ServingTypeOK'
  PROVE  ResultIsTheServices'
<1>t. /\ Len(asked) \in Nat /\ DOMAIN said = 1 .. Len(asked) /\ DOMAIN result = 1 .. Len(asked)
      /\ DOMAIN result' = 1 .. Len(asked')
  BY Recorded DEF ServingTypeOK, RequestTypes
<1> DEFINE Right(n) == /\ result[n] \in {"OK", "TPEOTYPE"} => said[n] = "TPSUCCESS"
                       /\ result[n] = "TPESVCFAIL" <=> said[n] = "TPFAIL" /\ result[n] \notin {NoOwner, "TPETIME"}
                       /\ result[n] = "TPENOENT" => asked[n].svc \notin Advertised
<1>r. \A n \in 1 .. Len(asked) : Right(n)
  BY <1>t DEF ResultIsTheServices
<1>q. ASSUME \A n \in 1 .. Len(asked') : Right(n)'
      PROVE  ResultIsTheServices'
  BY <1>t, <1>q DEF ResultIsTheServices
<1>k. \A w \in Worker : Knows(w)
  BY DEF SaidInv
(* The service of a worker has said something, and its client has nothing. *)
<1>s. ASSUME NEW w \in Worker, at[w] # "waiting", UNCHANGED asked,
             result'[message[w]] \in {NoOwner, "TPETIME"},
             \A n \in 1 .. Len(asked) : n # message[w] => said'[n] = said[n] /\ result'[n] = result[n]
      PROVE  ResultIsTheServices'
  <2>1. ASSUME NEW n \in 1 .. Len(asked) PROVE Right(n)'
    <3>1. CASE n = message[w]
      BY <1>s, <3>1 DEF NoOwner
    <3>2. CASE n # message[w]
      BY <1>r, <1>s, <3>2
    <3>3. QED BY <3>1, <3>2
  <2>2. QED BY <1>q, <1>s, <2>1
<1>1. ASSUME NEW w \in Worker, ReceiveRequest(w) PROVE ResultIsTheServices'
  <2>1. /\ Len(asked') = Len(asked) + 1 /\ result'[Len(asked) + 1] = NoOwner
        /\ \A n \in 1 .. Len(asked) : asked'[n] = asked[n] /\ said'[n] = said[n] /\ result'[n] = result[n]
    BY <1>1, Received DEF ServingTypeOK
  <2>2. ASSUME NEW n \in 1 .. Len(asked') PROVE Right(n)'
    <3>1. CASE n = Len(asked) + 1
      BY <2>1, <3>1 DEF NoOwner
    <3>2. CASE n \in 1 .. Len(asked)
      BY <1>r, <2>1, <3>2
    <3>3. QED BY <1>t, <2>1, <3>1, <3>2
  <2>3. QED BY <1>q, <2>2
<1>2. CASE UNCHANGED <<asked, said, result>>
  BY <1>2 DEF ResultIsTheServices
<1>3. ASSUME NEW w \in Worker, Tpreturn(w) \/ ReturnsPlainly(w) PROVE ResultIsTheServices'
  <2>1. at[w] = "service" /\ UNCHANGED <<asked, result>>
    BY <1>3 DEF Tpreturn, ReturnsPlainly
  <2>2. \A n \in 1 .. Len(asked) : n # message[w] => said'[n] = said[n]
    BY <1>3, <1>t DEF Tpreturn, ReturnsPlainly, Says
  <2>3. QED BY <1>k, <1>s, <2>1, <2>2 DEF Knows
<1>4. ASSUME NEW w \in Worker, Throws(w) PROVE ResultIsTheServices'
  <2>1. at[w] = "service" /\ UNCHANGED asked /\ message[w] \in 1 .. Len(asked)
    BY <1>4, Working DEF Throws, Caught
  <2>2. said' = [said EXCEPT ![message[w]] = "throws"] /\ result' = [result EXCEPT ![message[w]] = "TPETIME"]
    BY <1>4 DEF Throws, Caught, Lost, Says
  <2>3. QED BY <1>s, <1>t, <2>1, <2>2
<1>5. ASSUME NEW w \in Worker, HasReturned(w) PROVE ResultIsTheServices'
  <2>1. CASE Ends /\ UNCHANGED said
    <3>1. \A n \in 1 .. Len(asked) : result'[n] = IF result[n] = NoOwner THEN "TPETIME" ELSE result[n]
      BY <2>1, Ended DEF ServingTypeOK
    <3>2. UNCHANGED <<asked, said>>
      BY <2>1 DEF Ends
    <3>3. ASSUME NEW n \in 1 .. Len(asked) PROVE Right(n)'
      BY <1>r, <3>1, <3>2 DEF NoOwner
    <3>4. QED BY <1>q, <3>2, <3>3
  <2>2. CASE ~(Ends /\ UNCHANGED said)
    BY <1>2, <1>5, <2>2, Returned
  <2>3. QED BY <2>1, <2>2
<1>6. ASSUME NEW w \in Worker, WriteReply(w) PROVE ResultIsTheServices'
  <2>1. at[w] = "replying" /\ UNCHANGED <<asked, said>> /\ message[w] \in 1 .. Len(asked)
    BY <1>6, Working DEF WriteReply
  <2>2. CASE Lost(w)
    <3>1. result' = [result EXCEPT ![message[w]] = "TPETIME"]
      BY <2>2 DEF Lost
    <3>2. QED BY <1>s, <1>t, <2>1, <3>1
  <2>3. CASE ~Lost(w)
    <3> DEFINE r == [response[w] EXCEPT !.content = Content(w)]
    <3>1. PICK wants : result' = [result EXCEPT ![message[w]] = Tperrno(r, wants)]
      BY <1>6, <2>3 DEF WriteReply
    <3>2. r.code = response[w].code /\ r.code \in {"OK", "NOT_FOUND", "SVC_FAIL", "SVC_ERR"}
      BY DEF ServingTypeOK, WorkerTypes
    <3> HIDE DEF r
    <3> DEFINE errno == Tperrno(r, wants)
    <3>3. /\ errno \in {"OK", "TPEOTYPE"} => said[message[w]] = "TPSUCCESS"
          /\ errno = "TPESVCFAIL" <=> said[message[w]] = "TPFAIL"
          /\ errno = "TPENOENT" => asked[message[w]].svc \notin Advertised
      BY <1>k, <2>1, <3>2, Answered DEF Knows, RequestOf
    <3>4. errno \notin {NoOwner, "TPETIME"}
      BY <3>2, Replied
    <3>5. result' = [result EXCEPT ![message[w]] = errno]
      BY <3>1
    <3> HIDE DEF errno
    <3>6. ASSUME NEW n \in 1 .. Len(asked) PROVE Right(n)'
      <4>1. CASE n = message[w]
        BY <1>t, <2>1, <3>3, <3>4, <3>5, <4>1
      <4>2. CASE n # message[w]
        BY <1>r, <1>t, <2>1, <3>5, <4>2
      <4>3. QED BY <4>1, <4>2
    <3>7. QED BY <1>q, <2>1, <3>6
  <2>4. QED BY <2>2, <2>3
<1>7. CASE \E w \in Worker : \/ CallService(w) \/ InvokePost(w)
                             \/ \E b \in Buffer : AllocBuffer(w, b) \/ FreeBuffer(w, b)
  BY <1>2, <1>7 DEF CallService, InvokePost, AllocBuffer, FreeBuffer
<1>8. CASE UNCHANGED servingVars
  BY <1>2, <1>8 DEF servingVars
<1>9. QED
  BY <1>1, <1>3, <1>4, <1>5, <1>6, <1>7, <1>8 DEF ServingNext, ServiceStep

LEMMA EndingKept ==
  ASSUME ServingTypeOK, WorkInv, SaidInv, EndsOnlyOnDemand, [ServingNext]_servingVars
  PROVE  EndsOnlyOnDemand'
<1>1. CASE ~serving
  <2>1. UNCHANGED servingVars
    BY <1>1 DEF ServingNext, ReceiveRequest
  <2>2. QED BY <2>1 DEF servingVars, EndsOnlyOnDemand
<1>2. CASE serving /\ serving'
  BY <1>2 DEF EndsOnlyOnDemand
<1>3. CASE serving /\ ~serving'
  <2>1. PICK w \in Worker : HasReturned(w)
    BY <1>3 DEF ServingNext, servingVars, ReceiveRequest, CallService, ServiceStep, AllocBuffer, FreeBuffer,
                Tpreturn, ReturnsPlainly, Throws, Caught, WriteReply, InvokePost
  <2>2. /\ Ends /\ UNCHANGED said
        /\ \/ svcInfo[w].rval = "TPSUCCESS" /\ RequestOf(w).type = NoOwner
           \/ svcInfo[w].rval = "TPEXIT"
    BY <1>3, <2>1, Returned
  <2>3. at[w] = "returned" /\ svcInfo[w].rval = said[message[w]] /\ message[w] \in DOMAIN said /\ UNCHANGED <<asked, said>>
    BY <2>1, <2>2, Working DEF SaidInv, Knows, HasReturned, Ends
  <2>4. QED BY <2>2, <2>3 DEF EndsOnlyOnDemand, RequestOf
<1>4. QED BY <1>1, <1>2, <1>3

-----------------------------------------------------------------------------
(* The theorems. *)

LEMMA ServingInitInv == ServingInit => ServingInv
<1> SUFFICES ASSUME ServingInit PROVE ServingInv
  OBVIOUS
<1> USE DEF ServingInit
<1>1. <<>> \in Seq([svc : SvcName, type : Type]) /\ <<>> \in Seq(Saying) /\ <<>> \in Seq(Outcome) /\ Len(<<>>) = 0
  BY EmptySeq, LenProperties
<1>2. RequestTypes
  BY <1>1 DEF RequestTypes
<1>3. NoInfo \in [rval : Ending \cup {NoOwner}, data : Data]
  BY DEF NoInfo, Data
<1>4. NoResponse \in [code : {"OK", "NOT_FOUND", "SVC_FAIL", "SVC_ERR"}, data : Data, type : Type, content : Nat]
  BY ServingAssumption DEF NoResponse, Data, Type
<1>5. Unused \in [owner : Worker \cup {NoOwner}, type : DataType, content : Nat]
  BY ServingAssumption DEF Unused
<1>6. WorkerTypes
  BY <1>3, <1>4, <1>5 DEF WorkerTypes, Stage
<1>7. WorkInv
  BY DEF WorkInv
<1>8. SaidInv
  BY DEF SaidInv, Knows
<1>9. HandsInv
  BY ServingAssumption DEF HandsInv, BufferInv, ReplyInv, HeldBy, Unused
<1>10. ResultIsTheServices /\ EndsOnlyOnDemand
  BY DEF ResultIsTheServices, EndsOnlyOnDemand
<1>11. QED BY <1>2, <1>6, <1>7, <1>8, <1>9, <1>10 DEF ServingInv, ServingTypeOK

LEMMA ServingStepInv == ServingInv /\ [ServingNext]_servingVars => ServingInv'
<1> SUFFICES ASSUME ServingInv, [ServingNext]_servingVars PROVE ServingInv'
  OBVIOUS
<1>1. ServingTypeOK /\ WorkInv /\ SaidInv /\ HandsInv /\ ResultIsTheServices /\ EndsOnlyOnDemand
  BY DEF ServingInv
<1>2. ServingTypeOK' /\ WorkInv'
  BY <1>1, ServingTypesKept, WorkKept
<1>3. SaidInv' /\ HandsInv'
  BY <1>1, <1>2, SaidKept, HandsKept
<1>4. ResultIsTheServices' /\ EndsOnlyOnDemand'
  BY <1>1, <1>2, ResultsKept, EndingKept
<1>5. QED BY <1>2, <1>3, <1>4 DEF ServingInv

(* The inductive invariant of a server's workers, with their types.        *)
THEOREM ServingTypeCorrect == ServingSpec => []ServingInv
BY ServingInitInv, ServingStepInv, PTL DEF ServingSpec

(* Whatever the workers of a server do at the same time, tpcall returns    *)
(* what its own service has said (AppNSHandlerImpl, TLSLibtux), with what  *)
(* that has put into its buffer, which is freed, and the process ends only *)
(* when a service demands it.                                              *)
THEOREM RequestsAreServed == ServingSpec => []ServedAsPromised
<1>1. ServingInv => ServedAsPromised
  <2> SUFFICES ASSUME ServingInv PROVE ServedAsPromised
    OBVIOUS
  <2>1. ReplyIsAsGiven
    BY DEF ServingInv, HandsInv, ReplyInv, ReplyIsAsGiven
  <2>2. ASSUME NEW b \in Buffer, buffers[b].owner # NoOwner
        PROVE  at[buffers[b].owner] \in {"service", "returned", "replying", "posting"}
    <3>1. buffers[b].owner \in Worker
      BY <2>2 DEF ServingInv, ServingTypeOK, WorkerTypes
    <3>2. HeldBy(buffers[b].owner) # {}
      BY DEF HeldBy
    <3>3. at[buffers[b].owner] \notin {"waiting", "calling"}
      BY <3>1, <3>2 DEF ServingInv, HandsInv, BufferInv
    <3>4. QED BY <3>1, <3>3 DEF ServingInv, ServingTypeOK, WorkerTypes, Stage
  <2>3. BuffersAreFreed
    BY <2>2 DEF BuffersAreFreed
  <2>4. QED BY <2>1, <2>3 DEF ServingInv, ServedAsPromised
<1>2. QED BY <1>1, ServingTypeCorrect, PTL

=============================================================================
