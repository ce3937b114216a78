----------------------------- MODULE MCWshNotify -----------------------------
(* Model values for four that deal with news and with those who come and go: *)
(* WshNotify (news inside a gate), GateSync (between gates), AppLife (an     *)
(* application and its gate) and STNetServer (its server and its clients).   *)
(* They share no state here; the first state of a behaviour chooses one of   *)
(* them, and the others stay as they are.                                    *)
EXTENDS WshNotify, GateSync, AppLife, STNetServer, TLC

CONSTANTS w1, w2, g1, g2

MCWsh == {w1, w2}
MCGate == {g1, g2}

VARIABLE part

partVars == <<part, vars, syncVars, lifeVars, stVars>>

Inside == part = "inside"
Between == part = "between"
Life == part = "life"
Single == part = "single"

PartInit ==
  /\ part \in {"inside", "between", "life", "single"}
  /\ Init /\ SyncInit /\ STInit
  /\ LifeInit /\ (~Life => role = "client")

PartNext ==
  /\ UNCHANGED part
  /\ IF Inside THEN TRUE ELSE UNCHANGED vars
  /\ IF Between THEN TRUE ELSE UNCHANGED syncVars
  /\ IF Life THEN TRUE ELSE UNCHANGED lifeVars
  /\ IF Single THEN TRUE ELSE UNCHANGED stVars
  /\ \/ Inside /\ Next
     \/ Between /\ SyncNext
     \/ Life /\ LifeNext
     \/ Single /\ STNext

\* The fairness of each in its part.
PartFairness ==
  /\ \A w \in Wsh :
       /\ WF_vars(Inside /\ MarkSelf(w)) /\ WF_vars(Inside /\ Notify(w))
       /\ WF_vars(Inside /\ Wait(w)) /\ WF_vars(Inside /\ IsSvcUpdated(w))
       /\ WF_vars(Inside /\ BroadcastNotice(w)) /\ WF_vars(Inside /\ NotifyOtherWSH(w))
       /\ WF_vars(Inside /\ Select(w)) /\ WF_vars(Inside /\ ClearUDPSocket(w))
  /\ WF_syncVars(Between /\ SyncRuns)
  /\ \A g \in OtherGate :
       /\ WF_syncVars(Between /\ GateNotice(g)) /\ WF_syncVars(Between /\ GateServe(g))
       /\ WF_syncVars(Between /\ GateAnswer(g))
  /\ WF_lifeVars(Life /\ Check) /\ WF_lifeVars(Life /\ Term) /\ WF_lifeVars(Life /\ Termed)
  /\ WF_stVars(Single /\ Go)

PartSpec == PartInit /\ [][PartNext]_partVars /\ PartFairness
=============================================================================
