---------------------------- MODULE MCAppRegistry ----------------------------
(* Model values for AppRegistry, and the lock that a board is used under     *)
(* (IPCSem).  They share no state here; the first state of a behaviour       *)
(* chooses one of them, and the other stays as it is.                        *)
EXTENDS AppRegistry, MCIPCSem

CONSTANTS Parts,  \* those that a behaviour may be of
          a1, a2, x1, x2, g1, g2, d1, d2, t1, t2

MCApp == {a1, a2}
MCName == {x1, x2}
MCWshProcess == {g1, g2}
MCWorker == {t1, t2}
MCDesc == {d1, d2}
MCWshOf == (d1 :> g1) @@ (d2 :> g2)

\* A WSH and SYNC with a thread each: with more the run takes too long.
MCLockOwner == (w1 :> wsh) @@ (s1 :> sync)

VARIABLE part

partVars == <<part, registryVars, vars>>

\* Gates that no server is run for.
UnusedGates ==
  /\ listed = {} /\ alive = {} /\ asked = {} /\ active = {}
  /\ depot = [d \in Desc |-> NoApp] /\ peer = depot /\ inbox = [d \in Desc |-> NoList]
  /\ pipe = [w \in WshProcess |-> <<>>] /\ housekeeper = [w \in WshProcess |-> Waiting]
  /\ worker = [t \in Worker |-> Idle]
  /\ link = [a \in App |-> NoDesc] /\ answer = [a \in App |-> NoList]
  /\ will = [a \in App |-> Name] /\ already = [a \in App |-> {}]
  /\ faults = 0 /\ crossed = FALSE

\* A lock that nobody uses any more.
UnusedLock ==
  /\ semval = InitialValue /\ semadj = [p \in Process |-> 0]
  /\ at = [t \in Thread |-> "ended"] /\ intact = TRUE

PartInit ==
  /\ part \in Parts
  /\ IF part = "registry" THEN RegistryInit ELSE UnusedGates
  /\ IF part = "lock" THEN Init ELSE UnusedLock

PartNext ==
  /\ UNCHANGED part
  /\ \/ part = "registry" /\ RegistryNext /\ UNCHANGED vars
     \/ part = "lock" /\ Next /\ UNCHANGED registryVars

\* The fairness of each in its part: RegistryFairness and Fairness.
PartFairness ==
  /\ \A t \in Worker : WF_registryVars(part = "registry" /\ WorkerStep(t))
  /\ \A d \in Desc :
       SF_registryVars(part = "registry" /\ \E t \in Worker : ServeRequest(t, d) \/ ServeEnd(t, d))
  /\ \A w \in WshProcess :
       /\ WF_registryVars(part = "registry" /\ (AddFd(w) \/ RemoveFd(w)))
       /\ WF_registryVars(part = "registry" /\ (\/ ExpireApp(w) \/ ExpireServices(w)
                                                \/ DestroySocket(w) \/ UnRegisterExpired(w)))
  /\ \A a \in App :
       /\ WF_registryVars(part = "registry" /\ \E d \in Desc : Connect(a, d))
       /\ WF_registryVars(part = "registry" /\ Beat(a))
       /\ WF_registryVars(part = "registry" /\ RegisterSvcDone(a))
       /\ WF_registryVars(part = "registry" /\ Disconnect(a))
  /\ \A t \in Thread : WF_vars(part = "lock" /\ Unlock(t)) /\ SF_vars(part = "lock" /\ Lock(t))

PartSpec == PartInit /\ [][PartNext]_partVars /\ PartFairness
=============================================================================
