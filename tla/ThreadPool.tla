----------------------------- MODULE ThreadPool ------------------------------
(***************************************************************************)
(* LWPR's pool of threads: requests in a list, a Resource that counts the  *)
(* wake-ups workers have not yet taken, and a manager that makes workers   *)
(* and sends them away.  The manager waits for at most ten seconds, so     *)
(* that it may go round at any time.  A condition variable is the set of   *)
(* the threads asleep on it: pthread_cond_signal wakes one of them.        *)
(***************************************************************************)
EXTENDS Integers, Sequences, FiniteSets, SequencesExt

CONSTANTS PoolWorker,       \* objects ThreadWorker
          PoolLow,          \* idle workers that are too few: 3 in the code
          MinThread, MaxThread, MaxIdlThread,
          PoolRequestMax    \* bound: requests

ASSUME ThreadPoolAssumption ==
    /\ IsFiniteSet(PoolWorker)
    /\ {PoolLow, MinThread, MaxThread, MaxIdlThread, PoolRequestMax} \subseteq Nat
    /\ MinThread <= Cardinality(PoolWorker)
    /\ PoolLow <= MaxIdlThread + 1      \* so a round makes a worker or sends one away, never both

VARIABLES poolAt,       \* where each worker is
          stopped,      \* the workers StopRunning was called for
          workers,      \* m_ThreadWorkerList
          requests,     \* m_WorkRequestList
          added, owed,  \* requests so far; those whose Notify is still to come
          m_nResource,
          asleep        \* the workers that sleep in Wait

poolVars == <<poolAt, stopped, workers, requests, added, owed, m_nResource, asleep>>

In(places) == {w \in PoolWorker : poolAt[w] \in places}
\* m_nWaitThreads, m_nIdleThread, m_nTotalThread.
nWaitThreads == Cardinality(In({"wait"}))
nIdleThread == Cardinality(In({"wait", "take"}))
nTotalThread == Cardinality(In({"top", "wait", "take", "work"}))

PoolInit ==
    /\ workers = SubSeq(SetToSeq(PoolWorker), 1, MinThread)
    /\ poolAt = [w \in PoolWorker |-> IF w \in Range(workers) THEN "starting" ELSE "none"]
    /\ stopped = {} /\ requests = <<>>
    /\ added = 0 /\ owed = 0 /\ m_nResource = 0 /\ asleep = {}

Goes(w, place) == poolAt' = [poolAt EXCEPT ![w] = place]

-----------------------------------------------------------------------------
(* AddRequest: the list, and then Notify.                                  *)

AddRequest ==
    /\ added < PoolRequestMax
    /\ added' = added + 1 /\ owed' = owed + 1
    /\ requests' = Append(requests, added')
    /\ UNCHANGED <<poolAt, stopped, workers, m_nResource, asleep>>

(* A mistake: a wake-up is counted only for a thread that waits. *)
CountedForSleeper == IF asleep = {} THEN m_nResource ELSE m_nResource + 1

Counted == m_nResource + 1

Signals == asleep # {}

\* Resource::Notify.
Notify ==
    /\ owed > 0 /\ owed' = owed - 1
    /\ m_nResource' = Counted
    /\ IF Signals THEN \E w \in asleep : asleep' = asleep \ {w} ELSE UNCHANGED asleep
    /\ UNCHANGED <<poolAt, stopped, workers, requests, added>>

-----------------------------------------------------------------------------
(* A worker.                                                               *)

WorkerBegins(w) ==
    /\ poolAt[w] = "starting" /\ Goes(w, "top")
    /\ UNCHANGED <<stopped, workers, requests, added, owed, m_nResource, asleep>>

\* IsContinue; Resource::Wait begins.
EnterWait(w) ==
    /\ poolAt[w] = "top"
    /\ Goes(w, IF w \in stopped THEN "ended" ELSE "wait")
    /\ UNCHANGED <<stopped, workers, requests, added, owed, m_nResource, asleep>>

\* A thread that waits alone takes all the wake-ups there are.
Taken == IF nWaitThreads = 1 THEN 0 ELSE m_nResource - 1

\* The loop of Resource::Wait: with the mutex, awake.
Wait(w) ==
    /\ poolAt[w] = "wait" /\ w \notin asleep
    /\ IF m_nResource = 0 THEN asleep' = asleep \cup {w} /\ UNCHANGED <<poolAt, m_nResource>>
       ELSE m_nResource' = Taken /\ Goes(w, "take") /\ UNCHANGED asleep
    /\ UNCHANGED <<stopped, workers, requests, added, owed>>

\* The first request, if there is one.
Take(w) ==
    /\ poolAt[w] = "take" /\ Goes(w, "work")
    /\ requests' = IF requests = <<>> THEN requests ELSE Tail(requests)
    /\ UNCHANGED <<stopped, workers, added, owed, m_nResource, asleep>>

DoWork(w) ==
    /\ poolAt[w] = "work" /\ Goes(w, "top")
    /\ UNCHANGED <<stopped, workers, requests, added, owed, m_nResource, asleep>>

-----------------------------------------------------------------------------
(* The manager, one round: workers that have been told to stop leave the   *)
(* list at once, ended or not; one worker more, or one that is to stop.    *)

ClearDeadWorker == SelectSeq(workers, LAMBDA w : w \notin stopped)
NeedsWorker == nIdleThread < PoolLow /\ nTotalThread < MaxThread
NeedsFewerWorkers == nIdleThread > MaxIdlThread /\ nTotalThread > MaxIdlThread

ManagePool ==
    /\ \/ /\ NeedsWorker
          /\ In({"none", "ended"}) # {}
          /\ LET w == CHOOSE o \in In({"none", "ended"}) : TRUE IN
                /\ Goes(w, "starting") /\ stopped' = stopped \ {w}
                /\ workers' = Append(ClearDeadWorker, w)
       \/ /\ ~NeedsWorker
          /\ workers' = ClearDeadWorker
          /\ stopped' = IF NeedsFewerWorkers /\ ClearDeadWorker # <<>>
                        THEN stopped \cup {Head(ClearDeadWorker)} ELSE stopped
          /\ UNCHANGED poolAt
    /\ UNCHANGED <<requests, added, owed, m_nResource, asleep>>

WorkerRuns(w) == WorkerBegins(w) \/ EnterWait(w) \/ Wait(w) \/ Take(w) \/ DoWork(w)
PoolNext == AddRequest \/ Notify \/ ManagePool \/ \E w \in PoolWorker : WorkerRuns(w)
PoolSpec == PoolInit /\ [][PoolNext]_poolVars

-----------------------------------------------------------------------------
\* Threads run; the manager's wait ends; the program goes on to add requests.
PoolFairness == WF_poolVars(Notify) /\ WF_poolVars(ManagePool) /\ WF_poolVars(AddRequest)
                /\ \A w \in PoolWorker : WF_poolVars(WorkerRuns(w))

(* Nobody sleeps while there are wake-ups left: for each of them a thread  *)
(* has been woken that has not yet looked.                                 *)
NoWakeupOverslept == asleep # {} => m_nResource <= Cardinality(In({"wait"}) \ asleep)

(* A request is carried out in the end if only requests keep coming: the   *)
(* first of the list, when the next one is added at the latest.  (It may   *)
(* have to wait for that one: two wake-ups are one for a lonely worker.)   *)
FirstIsTaken ==
    \A r \in 1 .. PoolRequestMax :
        (requests # <<>> /\ Head(requests) = r /\ added < PoolRequestMax)
            ~> (requests = <<>> \/ Head(requests) # r)

(* No wake-up is lost between those who add requests and those who sleep:  *)
(* both of these.                                                          *)
RequestsAreTaken == []NoWakeupOverslept /\ FirstIsTaken
=============================================================================
