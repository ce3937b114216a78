------------------------------ MODULE MCWshPool ------------------------------
(* Model values for the pools: the processes of a gate (WshPool) and LWPR's  *)
(* threads (ThreadPool, TimerThread, EventNetDispatch).  They share no state *)
(* here; the first state of a behaviour chooses one of them, and the others  *)
(* stay as they are.                                                         *)
EXTENDS WshPool, ThreadPool, TimerThread, EventNetDispatch, TLC

CONSTANTS p1, p2, p3

MCPid == {p1, p2, p3}

VARIABLE which

whichVars == <<which, vars, poolVars, timerVars, evVars>>

\* A gate that has been stopped before it forked anybody.
StoppedGate ==
  /\ tblWSH = [i \in Index |-> [pid |-> NoPid, conn |-> 0, state |-> "IDLE"]]
  /\ proc = [p \in Pid |-> "none"] /\ wshIndex = [p \in Pid |-> -1]
  /\ conns = [p \in Pid |-> 0] /\ expired = conns /\ stray = conns
  /\ main = "gone" /\ forks = WshMin /\ wshs = {} /\ exited = {}
  /\ syncPID = NoPid /\ crashes = 0 /\ foreigns = 0

WhichInit ==
  /\ which \in {"processes", "threads", "timer", "events"}
  /\ IF which = "processes" THEN Init ELSE StoppedGate
  /\ PoolInit /\ TimerInit /\ EvInit
  /\ which # "events" => ~seen

WhichNext ==
  /\ UNCHANGED which
  /\ IF which = "processes" THEN TRUE ELSE UNCHANGED vars
  /\ IF which = "threads" THEN TRUE ELSE UNCHANGED poolVars
  /\ IF which = "timer" THEN TRUE ELSE UNCHANGED timerVars
  /\ IF which = "events" THEN TRUE ELSE UNCHANGED evVars
  /\ \/ which = "processes" /\ Next
     \/ which = "threads" /\ PoolNext
     \/ which = "timer" /\ TimerNext
     \/ which = "events" /\ EvNext

\* The fairness of each in its part.
WhichFairness ==
  /\ WF_vars(which = "processes" /\ TxGate)
  /\ \A p \in Pid : WF_vars(which = "processes" /\ (RegisterWSH(p) \/ RegisterFails(p)))
  /\ WF_poolVars(which = "threads" /\ Notify) /\ WF_poolVars(which = "threads" /\ ManagePool)
  /\ WF_poolVars(which = "threads" /\ AddRequest)
  /\ \A w \in PoolWorker : WF_poolVars(which = "threads" /\ WorkerRuns(w))
  /\ WF_timerVars(which = "timer" /\ TimerRuns) /\ WF_timerVars(which = "timer" /\ NotifyTimer)
  /\ WF_timerVars(which = "timer" /\ Second)
  /\ WF_evVars(which = "events" /\ evState # "crashed" /\ EvManage)
  /\ \A w \in EvWorker : WF_evVars(which = "events" /\ evState # "crashed" /\ EvRuns(w))

WhichSpec == WhichInit /\ [][WhichNext]_whichVars /\ WhichFairness
=============================================================================
