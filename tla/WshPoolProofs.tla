---------------------------- MODULE WshPoolProofs ----------------------------
(***************************************************************************)
(* Theorems about WshPool, for any number of processes, slots, connections,*)
(* crashes and foreign processes; and about LWPR's threads: the pool whose *)
(* workers sleep (ThreadPool), the timer (TimerThread) and the threads of  *)
(* the event dispatcher (EventNetDispatch), for any number of threads,     *)
(* requests and clients.                                                   *)
(***************************************************************************)
EXTENDS WshPool, ThreadPool, TimerThread, EventNetDispatch, FiniteSetTheorems, SequenceTheorems, TLAPS

-----------------------------------------------------------------------------
(* The pool of threads.                                                    *)

PoolPlaces == {"none", "starting", "top", "wait", "take", "work", "ended"}

(* Who sleeps is among those that wait, and the promise itself.            *)
PoolInv ==
    /\ poolAt \in [PoolWorker -> PoolPlaces]
    /\ m_nResource \in Nat
    /\ asleep \subseteq In({"wait"})
    /\ NoWakeupOverslept

\* Those that wait, and those of them that are awake.
LEMMA WaitersCount ==
  ASSUME NEW s
  PROVE  /\ IsFiniteSet(In({"wait"})) /\ IsFiniteSet(In({"wait"}) \ s)
         /\ Cardinality(In({"wait"})) \in Nat /\ Cardinality(In({"wait"}) \ s) \in Nat
<1>1. In({"wait"}) \in SUBSET PoolWorker /\ (In({"wait"}) \ s) \in SUBSET PoolWorker
  BY DEF In
<1>2. IsFiniteSet(PoolWorker)
  BY ThreadPoolAssumption
<1>3. IsFiniteSet(In({"wait"})) /\ IsFiniteSet(In({"wait"}) \ s)
  BY <1>1, <1>2, FS_Subset
<1>4. QED BY <1>3, FS_CardinalityType

\* A step that changes neither who waits nor who sleeps nor the wake-ups.
LEMMA WaitersStay ==
  ASSUME PoolInv, poolAt' \in [PoolWorker -> PoolPlaces], In({"wait"})' = In({"wait"}),
         UNCHANGED <<m_nResource, asleep>>
  PROVE  PoolInv'
<1>1. asleep' = asleep /\ m_nResource' = m_nResource
  OBVIOUS
<1>2. NoWakeupOverslept'
  BY <1>1 DEF PoolInv, NoWakeupOverslept
<1>3. QED BY <1>1, <1>2 DEF PoolInv

\* A worker that goes from one place to another.
LEMMA WorkerGoes ==
  ASSUME poolAt \in [PoolWorker -> PoolPlaces], NEW w \in PoolWorker, NEW place \in PoolPlaces,
         Goes(w, place)
  PROVE  /\ poolAt' \in [PoolWorker -> PoolPlaces]
         /\ place = "wait" => In({"wait"})' = In({"wait"}) \cup {w}
         /\ place # "wait" => In({"wait"})' = In({"wait"}) \ {w}
<1>1. poolAt' = [poolAt EXCEPT ![w] = place]
  BY DEF Goes
<1>2. \A v \in PoolWorker : poolAt'[v] = IF v = w THEN place ELSE poolAt[v]
  BY <1>1
<1>3. poolAt' \in [PoolWorker -> PoolPlaces]
  BY <1>1
<1>4. QED BY <1>2, <1>3 DEF In

LEMMA PoolInit_Inv == PoolInit => PoolInv
<1> SUFFICES ASSUME PoolInit PROVE PoolInv
  OBVIOUS
<1>1. poolAt \in [PoolWorker -> PoolPlaces]
  BY DEF PoolInit, PoolPlaces
<1>2. m_nResource \in Nat /\ asleep = {}
  BY DEF PoolInit
<1>3. QED BY <1>1, <1>2 DEF PoolInv, NoWakeupOverslept

\* A wake-up more, and a sleeper fewer if anybody sleeps.
LEMMA Notify_Inv ==
  ASSUME PoolInv, Notify
  PROVE  PoolInv'
<1>1. poolAt' = poolAt /\ In({"wait"})' = In({"wait"}) /\ m_nResource' = m_nResource + 1
  BY DEF Notify, Counted, In
<1>2. m_nResource \in Nat /\ asleep \subseteq In({"wait"}) /\ poolAt \in [PoolWorker -> PoolPlaces]
  BY DEF PoolInv
<1>3. CASE asleep = {}
  <2>1. asleep' = {}
    BY <1>3 DEF Notify, Signals
  <2>2. NoWakeupOverslept'
    BY <2>1 DEF NoWakeupOverslept
  <2>3. QED BY <1>1, <1>2, <2>1, <2>2 DEF PoolInv
<1>4. CASE asleep # {}
  <2>1. PICK w \in asleep : asleep' = asleep \ {w}
    BY <1>4 DEF Notify, Signals
  <2>2. (In({"wait"}) \ asleep)' = (In({"wait"}) \ asleep) \cup {w} /\ w \notin In({"wait"}) \ asleep
    BY <1>1, <1>2, <2>1
  <2>3. Cardinality(In({"wait"}) \ asleep)' = Cardinality(In({"wait"}) \ asleep) + 1
    <3>1. IsFiniteSet(In({"wait"}) \ asleep)
      BY WaitersCount
    <3>2. Cardinality((In({"wait"}) \ asleep) \cup {w}) = Cardinality(In({"wait"}) \ asleep) + 1
      BY <2>2, <3>1, FS_AddElement
    <3>3. QED BY <2>2, <3>2
  <2>4. m_nResource <= Cardinality(In({"wait"}) \ asleep)
    BY <1>4 DEF PoolInv, NoWakeupOverslept
  <2>5. m_nResource' <= Cardinality(In({"wait"}) \ asleep)'
    BY <1>1, <1>2, <2>3, <2>4, WaitersCount
  <2>6. NoWakeupOverslept'
    BY <2>5 DEF NoWakeupOverslept
  <2>7. asleep' \subseteq In({"wait"})'
    BY <1>1, <1>2, <2>1
  <2>8. QED BY <1>1, <1>2, <2>6, <2>7 DEF PoolInv
<1>5. QED BY <1>3, <1>4

\* One that looks for wake-ups: it sleeps, or takes one, or all if nobody else waits.
LEMMA Wait_Inv ==
  ASSUME PoolInv, NEW w \in PoolWorker, Wait(w)
  PROVE  PoolInv'
<1>1. m_nResource \in Nat /\ asleep \subseteq In({"wait"}) /\ poolAt \in [PoolWorker -> PoolPlaces]
  BY DEF PoolInv
<1>2. w \in In({"wait"}) /\ w \notin asleep
  BY DEF Wait, In
<1>3. CASE m_nResource = 0
  <2>1. asleep' = asleep \cup {w} /\ poolAt' = poolAt /\ m_nResource' = 0 /\ In({"wait"})' = In({"wait"})
    BY <1>3 DEF Wait, In
  <2>2. Cardinality(In({"wait"}) \ asleep)' \in Nat
    BY <2>1, WaitersCount
  <2>3. NoWakeupOverslept'
    BY <2>1, <2>2 DEF NoWakeupOverslept
  <2>4. QED BY <1>1, <1>2, <2>1, <2>3 DEF PoolInv
<1>4. CASE m_nResource # 0
  <2>1. Goes(w, "take") /\ m_nResource' = Taken /\ asleep' = asleep
    BY <1>4 DEF Wait
  <2>2. /\ poolAt' \in [PoolWorker -> PoolPlaces]
        /\ In({"wait"})' = In({"wait"}) \ {w}
    BY <1>1, <2>1, WorkerGoes DEF PoolPlaces
  <2>3. asleep' \subseteq In({"wait"})'
    BY <1>1, <1>2, <2>1, <2>2
  <2>4. CASE nWaitThreads = 1
    <3>1. PICK v : In({"wait"}) = {v}
      BY <2>4, WaitersCount, FS_Singleton DEF nWaitThreads
    <3>2. asleep' = {}
      BY <1>1, <1>2, <2>1, <3>1
    <3>3. m_nResource' = 0
      BY <2>1, <2>4 DEF Taken
    <3>4. QED BY <2>2, <2>3, <3>2, <3>3 DEF PoolInv, NoWakeupOverslept
  <2>5. CASE nWaitThreads # 1
    <3>1. m_nResource' = m_nResource - 1 /\ m_nResource' \in Nat
      BY <1>1, <1>4, <2>1, <2>5 DEF Taken
    <3>2. (In({"wait"}) \ asleep)' = (In({"wait"}) \ asleep) \ {w} /\ w \in In({"wait"}) \ asleep
      BY <1>2, <2>1, <2>2
    <3>3. Cardinality(In({"wait"}) \ asleep)' = Cardinality(In({"wait"}) \ asleep) - 1
      <4>1. IsFiniteSet(In({"wait"}) \ asleep)
        BY WaitersCount
      <4>2. Cardinality((In({"wait"}) \ asleep) \ {w}) = Cardinality(In({"wait"}) \ asleep) - 1
        BY <3>2, <4>1, FS_RemoveElement
      <4>3. QED BY <3>2, <4>2
    <3>4. asleep # {} => m_nResource <= Cardinality(In({"wait"}) \ asleep)
      BY DEF PoolInv, NoWakeupOverslept
    <3>5. Cardinality(In({"wait"}) \ asleep) \in Nat
      BY WaitersCount
    <3>6. asleep' # {} => m_nResource' <= Cardinality(In({"wait"}) \ asleep)'
      BY <1>1, <2>1, <3>1, <3>3, <3>4, <3>5
    <3>7. QED BY <2>2, <2>3, <3>1, <3>6 DEF PoolInv, NoWakeupOverslept
  <2>6. QED BY <2>4, <2>5
<1>5. QED BY <1>3, <1>4

\* One that comes to wait: it has not slept yet.
LEMMA EnterWait_Inv ==
  ASSUME PoolInv, NEW w \in PoolWorker, EnterWait(w)
  PROVE  PoolInv'
<1>1. m_nResource \in Nat /\ asleep \subseteq In({"wait"}) /\ poolAt \in [PoolWorker -> PoolPlaces]
  BY DEF PoolInv
<1>2. w \notin In({"wait"}) /\ asleep' = asleep /\ m_nResource' = m_nResource
  BY DEF EnterWait, In
<1>3. CASE w \in stopped
  <2>1. Goes(w, "ended")
    BY <1>3 DEF EnterWait
  <2>2. poolAt' \in [PoolWorker -> PoolPlaces] /\ In({"wait"})' = In({"wait"}) \ {w}
    BY <1>1, <2>1, WorkerGoes DEF PoolPlaces
  <2>3. In({"wait"})' = In({"wait"})
    BY <1>2, <2>2
  <2>4. QED BY <1>2, <2>2, <2>3, WaitersStay
<1>4. CASE w \notin stopped
  <2>1. Goes(w, "wait")
    BY <1>4 DEF EnterWait
  <2>2. poolAt' \in [PoolWorker -> PoolPlaces] /\ In({"wait"})' = In({"wait"}) \cup {w}
    BY <1>1, <2>1, WorkerGoes DEF PoolPlaces
  <2>3. (In({"wait"}) \ asleep)' = (In({"wait"}) \ asleep) \cup {w} /\ w \notin In({"wait"}) \ asleep
    BY <1>1, <1>2, <2>2
  <2>4. Cardinality(In({"wait"}) \ asleep)' = Cardinality(In({"wait"}) \ asleep) + 1
    <3>1. IsFiniteSet(In({"wait"}) \ asleep)
      BY WaitersCount
    <3>2. Cardinality((In({"wait"}) \ asleep) \cup {w}) = Cardinality(In({"wait"}) \ asleep) + 1
      BY <2>3, <3>1, FS_AddElement
    <3>3. QED BY <2>3, <3>2
  <2>5. asleep # {} => m_nResource <= Cardinality(In({"wait"}) \ asleep)
    BY DEF PoolInv, NoWakeupOverslept
  <2>6. Cardinality(In({"wait"}) \ asleep) \in Nat
    BY WaitersCount
  <2>7. asleep' # {} => m_nResource' <= Cardinality(In({"wait"}) \ asleep)'
    BY <1>1, <1>2, <2>4, <2>5, <2>6
  <2>8. asleep' \subseteq In({"wait"})'
    BY <1>1, <1>2, <2>2
  <2>9. QED BY <1>1, <1>2, <2>2, <2>7, <2>8 DEF PoolInv, NoWakeupOverslept
<1>5. QED BY <1>3, <1>4

\* A worker whose step has nothing to do with waiting.
LEMMA Elsewhere_Inv ==
  ASSUME PoolInv, NEW w \in PoolWorker, NEW place \in PoolPlaces \ {"wait"},
         Goes(w, place), poolAt[w] # "wait", UNCHANGED <<m_nResource, asleep>>
  PROVE  PoolInv'
<1>1. poolAt \in [PoolWorker -> PoolPlaces]
  BY DEF PoolInv
<1>2. poolAt' \in [PoolWorker -> PoolPlaces] /\ In({"wait"})' = In({"wait"}) \ {w}
  BY <1>1, WorkerGoes
<1>3. w \notin In({"wait"})
  BY DEF In
<1>4. QED BY <1>2, <1>3, WaitersStay

LEMMA ManagePool_Inv ==
  ASSUME PoolInv, ManagePool
  PROVE  PoolInv'
<1>1. UNCHANGED <<m_nResource, asleep>>
  BY DEF ManagePool
<1>2. CASE UNCHANGED poolAt
  <2>1. In({"wait"})' = In({"wait"}) /\ poolAt' \in [PoolWorker -> PoolPlaces]
    BY <1>2 DEF In, PoolInv
  <2>2. QED BY <1>1, <2>1, WaitersStay
<1>3. CASE NeedsWorker
  <2>1. PICK w : w \in In({"none", "ended"}) /\ Goes(w, "starting")
    BY <1>3 DEF ManagePool
  <2>2. w \in PoolWorker /\ poolAt[w] # "wait"
    BY <2>1 DEF In
  <2>3. QED BY <1>1, <2>1, <2>2, Elsewhere_Inv DEF PoolPlaces
<1>4. QED BY <1>2, <1>3 DEF ManagePool

LEMMA PoolNext_Inv == PoolInv /\ [PoolNext]_poolVars => PoolInv'
<1> SUFFICES ASSUME PoolInv, [PoolNext]_poolVars PROVE PoolInv'
  OBVIOUS
<1>1. CASE AddRequest \/ UNCHANGED poolVars
  <2>1. poolAt' = poolAt /\ UNCHANGED <<m_nResource, asleep>>
    BY <1>1 DEF AddRequest, poolVars
  <2>2. In({"wait"})' = In({"wait"}) /\ poolAt' \in [PoolWorker -> PoolPlaces]
    BY <2>1 DEF In, PoolInv
  <2>3. QED BY <2>1, <2>2, WaitersStay
<1>2. CASE Notify
  BY <1>2, Notify_Inv
<1>3. CASE ManagePool
  BY <1>3, ManagePool_Inv
<1>4. ASSUME NEW w \in PoolWorker, WorkerRuns(w) PROVE PoolInv'
  <2>1. CASE WorkerBegins(w)
    BY <2>1, Elsewhere_Inv DEF WorkerBegins, PoolPlaces
  <2>2. CASE EnterWait(w)
    BY <2>2, EnterWait_Inv
  <2>3. CASE Wait(w)
    BY <2>3, Wait_Inv
  <2>4. CASE Take(w)
    BY <2>4, Elsewhere_Inv DEF Take, PoolPlaces
  <2>5. CASE DoWork(w)
    BY <2>5, Elsewhere_Inv DEF DoWork, PoolPlaces
  <2>6. QED BY <1>4, <2>1, <2>2, <2>3, <2>4, <2>5 DEF WorkerRuns
<1>5. QED BY <1>1, <1>2, <1>3, <1>4 DEF PoolNext

(* While a worker of the pool sleeps there are no more wake-ups than       *)
(* workers that have been woken and have not looked yet (Resource::Wait    *)
(* and Notify, ThreadPool.cpp), for any number of workers and requests.    *)
THEOREM WakeupsAreNotOverslept == PoolSpec => []NoWakeupOverslept
<1>1. PoolInit => PoolInv
  BY PoolInit_Inv
<1>2. PoolInv /\ [PoolNext]_poolVars => PoolInv'
  BY PoolNext_Inv
<1>3. PoolInv => NoWakeupOverslept
  BY DEF PoolInv
<1>4. QED BY <1>1, <1>2, <1>3, PTL DEF PoolSpec

-----------------------------------------------------------------------------
(* What is sorted.                                                         *)

\* r puts one of any two elements of s before the other.
OrderOf(s, r) ==
    /\ \A a \in s : <<a, a>> \notin r
    /\ \A a, b, c \in s : <<a, b>> \in r /\ <<b, c>> \in r => <<a, c>> \in r
    /\ \A a, b \in s : a # b => <<a, b>> \in r \/ <<b, a>> \in r

\* The numbers from one on.
LEMMA CountTo ==
  ASSUME NEW n \in Nat
  PROVE  IsFiniteSet(1 .. n) /\ Cardinality(1 .. n) = n
<1>1. IsFiniteSet(1 .. n) /\ Cardinality(1 .. n) = IF 1 > n THEN 0 ELSE n - 1 + 1
  BY FS_Interval
<1>2. QED BY <1>1

\* The elements of a finite set can be put in their order: each after those before it.
LEMMA CanBeSorted ==
  ASSUME NEW S, IsFiniteSet(S), NEW R, OrderOf(S, R)
  PROVE  \E s \in [1 .. Cardinality(S) -> S] : \A i, j \in 1 .. Cardinality(S) : i < j => <<s[i], s[j]>> \in R
<1> DEFINE below(x) == {y \in S : <<y, x>> \in R}
           n == Cardinality(S)
           rank == [x \in S |-> Cardinality(below(x)) + 1]
<1>1. n \in Nat
  BY FS_CardinalityType
<1>2. ASSUME NEW x \in S
      PROVE  IsFiniteSet(below(x)) /\ Cardinality(below(x)) \in Nat /\ Cardinality(below(x)) + 1 <= n
  <2>1. below(x) \in SUBSET S /\ x \notin below(x)
    BY DEF OrderOf
  <2>2. IsFiniteSet(below(x))
    BY <2>1, FS_Subset
  <2>3. below(x) \cup {x} \in SUBSET S
    BY <2>1
  <2>4. Cardinality(below(x) \cup {x}) = Cardinality(below(x)) + 1
    BY <2>1, <2>2, FS_AddElement
  <2>5. Cardinality(below(x) \cup {x}) <= n
    BY <2>3, FS_Subset
  <2>6. Cardinality(below(x)) \in Nat
    BY <2>2, FS_CardinalityType
  <2>7. QED BY <2>2, <2>4, <2>5, <2>6
<1>3. ASSUME NEW x \in S, NEW y \in S, <<x, y>> \in R
      PROVE  Cardinality(below(x)) < Cardinality(below(y))
  <2>1. below(x) \cup {x} \in SUBSET below(y) /\ x \notin below(x)
    BY <1>3 DEF OrderOf
  <2>2. Cardinality(below(x) \cup {x}) = Cardinality(below(x)) + 1
    BY <1>2, <2>1, FS_AddElement
  <2>3. Cardinality(below(x) \cup {x}) <= Cardinality(below(y))
    BY <1>2, <2>1, FS_Subset
  <2>4. Cardinality(below(x)) \in Nat /\ Cardinality(below(y)) \in Nat
    BY <1>2
  <2>5. QED BY <2>2, <2>3, <2>4
<1>4. \A x \in S : rank[x] = Cardinality(below(x)) + 1
  OBVIOUS
<1>5. rank \in [S -> 1 .. n]
  <2>1. \A x \in S : Cardinality(below(x)) + 1 \in 1 .. n
    BY <1>1, <1>2
  <2>2. QED BY <2>1
<1>6. \A x, y \in S : <<x, y>> \in R => rank[x] < rank[y]
  <2> SUFFICES ASSUME NEW x \in S, NEW y \in S, <<x, y>> \in R PROVE rank[x] < rank[y]
    OBVIOUS
  <2>1. Cardinality(below(x)) < Cardinality(below(y))
    BY <1>3
  <2>2. Cardinality(below(x)) \in Nat /\ Cardinality(below(y)) \in Nat
    BY <1>2
  <2>3. QED BY <1>4, <2>1, <2>2
<1> HIDE DEF rank
<1>7. \A x, y \in S : rank[x] = rank[y] => x = y
  <2> SUFFICES ASSUME NEW x \in S, NEW y \in S, rank[x] = rank[y], x # y PROVE FALSE
    OBVIOUS
  <2>1. <<x, y>> \in R \/ <<y, x>> \in R
    BY DEF OrderOf
  <2>2. rank[x] < rank[y] \/ rank[y] < rank[x]
    BY <1>6, <2>1
  <2>3. rank[x] \in 1 .. n /\ rank[y] \in 1 .. n
    BY <1>5
  <2>4. QED BY <1>1, <2>2, <2>3
<1>8. rank \in Injection(S, 1 .. n)
  BY <1>5, <1>7, Zenon DEF Injection, IsInjective
<1>9. IsFiniteSet(1 .. n) /\ Cardinality(1 .. n) = n
  BY <1>1, CountTo
<1>10. rank \in Surjection(S, 1 .. n)
  BY <1>8, <1>9, FS_Injection
<1>11. \A i \in 1 .. n : \E x \in S : rank[x] = i
  BY <1>10 DEF Surjection
<1> DEFINE s == [i \in 1 .. n |-> CHOOSE x \in S : rank[x] = i]
<1>12. \A i \in 1 .. n : s[i] \in S /\ rank[s[i]] = i
  BY <1>11
<1>13. s \in [1 .. n -> S]
  BY <1>12
<1> HIDE DEF s
<1>14. ASSUME NEW i \in 1 .. n, NEW j \in 1 .. n, i < j
       PROVE  <<s[i], s[j]>> \in R
  <2>1. s[i] \in S /\ s[j] \in S /\ rank[s[i]] = i /\ rank[s[j]] = j
    BY <1>12
  <2>2. s[i] # s[j]
    BY <1>1, <1>14, <2>1
  <2>3. ~(rank[s[j]] < rank[s[i]])
    BY <1>1, <1>14, <2>1
  <2>4. <<s[j], s[i]>> \notin R
    BY <1>6, <2>1, <2>3
  <2>5. QED BY <2>1, <2>2, <2>4 DEF OrderOf
<1>15. QED BY <1>13, <1>14

-----------------------------------------------------------------------------
(* The timer.                                                              *)

TimerRequest == [id : Nat, nTimestamp : Nat]

TimerTypes ==
    /\ time \in Nat /\ timers \in Nat
    /\ list \in Seq(TimerRequest) /\ ran \in Seq(TimerRequest)

(* The requests of the list are told apart by their ids.                   *)
TimerInv ==
    /\ TimerTypes
    /\ \A i \in DOMAIN list : list[i].id <= timers
    /\ \A i, j \in DOMAIN list : list[i].id = list[j].id => i = j

(* The list when it is sorted: the same requests, the one that is due      *)
(* first in front.                                                         *)
LEMMA SortedFacts ==
  ASSUME TimerInv
  PROVE  /\ Sorted \in Seq(TimerRequest) /\ Len(Sorted) = Len(list) /\ Range(Sorted) = Range(list)
         /\ \A i, j \in DOMAIN Sorted : i < j => Before(Sorted[i], Sorted[j])
<1> DEFINE n == Len(list)
           S == Range(list)
           R == {p \in S \X S : Before(p[1], p[2])}
<1>1. list \in [1 .. n -> TimerRequest] /\ n \in Nat /\ DOMAIN list = 1 .. n
  BY DEF TimerInv, TimerTypes
<1>2. S = {list[i] : i \in 1 .. n} /\ S \subseteq TimerRequest
  BY <1>1 DEF Range
<1>3. \A i, j \in 1 .. n : list[i] = list[j] => i = j
  BY <1>1 DEF TimerInv
<1>4. IsFiniteSet(S) /\ Cardinality(S) = n
  <2>1. list \in [1 .. n -> S]
    BY <1>1, <1>2
  <2>2. list \in Injection(1 .. n, S)
    BY <1>3, <2>1, Zenon DEF Injection, IsInjective
  <2>3. list \in Surjection(1 .. n, S)
    BY <1>2, <2>1 DEF Surjection
  <2>4. list \in Bijection(1 .. n, S)
    BY <2>2, <2>3 DEF Bijection
  <2>5. IsFiniteSet(1 .. n) /\ Cardinality(1 .. n) = n
    BY <1>1, CountTo
  <2>6. ExistsBijection(1 .. n, S)
    BY <2>4 DEF ExistsBijection
  <2>7. QED BY <2>5, <2>6, FS_Bijection
<1>5. \A a, b \in S : <<a, b>> \in R <=> Before(a, b)
  OBVIOUS
<1>6. \A a, b \in S : a.id = b.id => a = b
  BY <1>1, <1>2 DEF TimerInv
<1>7. OrderOf(S, R)
  <2>1. \A a \in S : a.id \in Nat /\ a.nTimestamp \in Nat
    BY <1>2 DEF TimerRequest
  <2>2. \A a \in S : ~Before(a, a)
    BY <2>1 DEF Before
  <2>3. \A a, b, c \in S : Before(a, b) /\ Before(b, c) => Before(a, c)
    BY <2>1 DEF Before
  <2>4. \A a, b \in S : a # b => Before(a, b) \/ Before(b, a)
    BY <1>6, <2>1 DEF Before
  <2> HIDE DEF R, S
  <2>5. QED BY <1>5, <2>2, <2>3, <2>4 DEF OrderOf
<1> HIDE DEF R
<1>8. PICK s \in [1 .. n -> S] : \A i, j \in 1 .. n : i < j => <<s[i], s[j]>> \in R
  BY <1>4, <1>7, CanBeSorted
<1>9. \A i, j \in DOMAIN s : i < j => Before(s[i], s[j])
  BY <1>5, <1>8
<1>10. Sorted \in [1 .. n -> S] /\ \A i, j \in DOMAIN Sorted : i < j => Before(Sorted[i], Sorted[j])
  BY <1>1, <1>9 DEF Sorted
<1>11. \A a \in S : ~Before(a, a)
  BY <1>2 DEF Before, TimerRequest
<1>12. \A i, j \in 1 .. n : Sorted[i] = Sorted[j] => i = j
  <2> SUFFICES ASSUME NEW i \in 1 .. n, NEW j \in 1 .. n, Sorted[i] = Sorted[j], i # j PROVE FALSE
    OBVIOUS
  <2>1. i < j \/ j < i
    BY <1>1
  <2>2. Before(Sorted[i], Sorted[j]) \/ Before(Sorted[j], Sorted[i])
    BY <1>10, <2>1
  <2>3. QED BY <1>10, <1>11, <2>2
<1>13. Range(Sorted) = S
  <2>1. Sorted \in Injection(1 .. n, S)
    BY <1>10, <1>12, Zenon DEF Injection, IsInjective
  <2>2. IsFiniteSet(1 .. n) /\ Cardinality(1 .. n) = n
    BY <1>1, CountTo
  <2>3. Sorted \in Surjection(1 .. n, S)
    BY <1>4, <2>1, <2>2, FS_Injection
  <2>4. QED BY <1>10, <2>3 DEF Surjection, Range
<1>14. Sorted \in Seq(TimerRequest) /\ Len(Sorted) = n
  BY <1>1, <1>2, <1>10
<1>15. QED BY <1>10, <1>13, <1>14

\* A list that has lost its first element, or one like it.
LEMMA TailFacts ==
  ASSUME NEW s \in Seq(TimerRequest), s # <<>>
  PROVE  /\ Tail(s) \in Seq(TimerRequest) /\ Head(s) = s[1] /\ 1 \in DOMAIN s
         /\ \A i \in DOMAIN Tail(s) : i + 1 \in DOMAIN s /\ Tail(s)[i] = s[i + 1]
OBVIOUS

LEMMA TimerInit_Inv == TimerInit => TimerInv
<1> SUFFICES ASSUME TimerInit PROVE TimerInv
  OBVIOUS
<1>1. time = 0 /\ list = <<>> /\ timers = 0 /\ ran = <<>>
  BY DEF TimerInit
<1>2. <<>> \in Seq(TimerRequest) /\ DOMAIN <<>> = {}
  OBVIOUS
<1>3. QED BY <1>1, <1>2 DEF TimerInv, TimerTypes

\* A list sorted is as good as it was.
LEMMA SortedInv ==
  ASSUME TimerInv
  PROVE  /\ \A i \in DOMAIN Sorted : Sorted[i].id <= timers
         /\ \A i, j \in DOMAIN Sorted : Sorted[i].id = Sorted[j].id => i = j
<1>1. /\ Sorted \in Seq(TimerRequest) /\ Range(Sorted) = Range(list)
      /\ \A i, j \in DOMAIN Sorted : i < j => Before(Sorted[i], Sorted[j])
  BY SortedFacts
<1>2. \A i \in DOMAIN Sorted : \E k \in DOMAIN list : Sorted[i] = list[k]
  BY <1>1 DEF Range
<1>3. \A i \in DOMAIN Sorted : Sorted[i].id <= timers
  BY <1>2 DEF TimerInv
<1>4. \A i, j \in DOMAIN Sorted : Sorted[i].id = Sorted[j].id => Sorted[i] = Sorted[j]
  BY <1>2 DEF TimerInv
<1>5. \A i \in DOMAIN Sorted : ~Before(Sorted[i], Sorted[i])
  <2> SUFFICES ASSUME NEW i \in DOMAIN Sorted PROVE ~Before(Sorted[i], Sorted[i])
    OBVIOUS
  <2>1. Sorted[i] \in TimerRequest
    BY <1>1
  <2>2. QED BY <2>1 DEF Before, TimerRequest
<1>6. ASSUME NEW i \in DOMAIN Sorted, NEW j \in DOMAIN Sorted, Sorted[i].id = Sorted[j].id, i # j PROVE FALSE
  <2>1. i < j \/ j < i
    BY <1>1, <1>6
  <2>2. Before(Sorted[i], Sorted[j]) \/ Before(Sorted[j], Sorted[i])
    BY <1>1, <2>1
  <2>3. QED BY <1>4, <1>5, <1>6, <2>2
<1>7. QED BY <1>3, <1>6

\* The thread's look at the list.
LEMMA LookAtList_Inv ==
  ASSUME TimerInv, LookAtList
  PROVE  /\ TimerInv'
         /\ \A r \in Range(list) : Len(ran') > Len(ran) => Last(ran').nTimestamp <= time /\ Last(ran').nTimestamp <= r.nTimestamp
<1>1. UNCHANGED <<time, timers>> /\ TimerTypes
  BY DEF LookAtList, TimerInv
<1>2. /\ Sorted \in Seq(TimerRequest) /\ Range(Sorted) = Range(list)
      /\ \A i, j \in DOMAIN Sorted : i < j => Before(Sorted[i], Sorted[j])
  BY SortedFacts
<1>3. /\ \A i \in DOMAIN Sorted : Sorted[i].id <= timers
      /\ \A i, j \in DOMAIN Sorted : Sorted[i].id = Sorted[j].id => i = j
  BY SortedInv
<1>4. CASE UNCHANGED <<list, ran>>
  <2>1. TimerInv'
    BY <1>1, <1>4 DEF TimerInv, TimerTypes
  <2>2. ~(Len(ran') > Len(ran))
    BY <1>1, <1>4 DEF TimerTypes
  <2>3. QED BY <2>1, <2>2
<1>5. CASE list' = Sorted /\ UNCHANGED ran
  <2>1. TimerInv'
    BY <1>1, <1>2, <1>3, <1>5 DEF TimerInv, TimerTypes
  <2>2. ~(Len(ran') > Len(ran))
    BY <1>1, <1>5 DEF TimerTypes
  <2>3. QED BY <2>1, <2>2
<1>6. CASE Sorted # <<>> /\ time >= Head(Sorted).nTimestamp /\ list' = Tail(Sorted) /\ ran' = Append(ran, Head(Sorted))
  <2>1. /\ Tail(Sorted) \in Seq(TimerRequest) /\ Head(Sorted) = Sorted[1] /\ 1 \in DOMAIN Sorted
        /\ \A i \in DOMAIN Tail(Sorted) : i + 1 \in DOMAIN Sorted /\ Tail(Sorted)[i] = Sorted[i + 1]
    BY <1>2, <1>6, TailFacts
  <2>2. Head(Sorted) \in TimerRequest
    BY <1>2, <2>1
  <2>3. ran' \in Seq(TimerRequest) /\ Last(ran') = Head(Sorted)
    <3>1. ran \in Seq(TimerRequest)
      BY <1>1 DEF TimerTypes
    <3>2. QED BY <1>6, <2>2, <3>1 DEF Last
  <2>4. \A i \in DOMAIN Tail(Sorted) : Tail(Sorted)[i].id <= timers
    BY <1>3, <2>1
  <2>5. \A i, j \in DOMAIN Tail(Sorted) : Tail(Sorted)[i].id = Tail(Sorted)[j].id => i = j
    <3> SUFFICES ASSUME NEW i \in DOMAIN Tail(Sorted), NEW j \in DOMAIN Tail(Sorted),
                        Tail(Sorted)[i].id = Tail(Sorted)[j].id
                 PROVE  i = j
      OBVIOUS
    <3>1. i + 1 = j + 1
      BY <1>3, <2>1
    <3>2. i \in Nat /\ j \in Nat
      BY <2>1
    <3>3. QED BY <3>1, <3>2
  <2>6. TimerInv'
    BY <1>1, <1>6, <2>1, <2>3, <2>4, <2>5 DEF TimerInv, TimerTypes
  <2>7. ASSUME NEW r \in Range(list) PROVE Head(Sorted).nTimestamp <= r.nTimestamp
    <3>1. PICK k \in DOMAIN Sorted : Sorted[k] = r
      BY <1>2 DEF Range
    <3>2. k = 1 \/ 1 < k
      BY <1>2, <3>1
    <3>3. Sorted[1] = r \/ Before(Sorted[1], r)
      BY <1>2, <2>1, <3>1, <3>2
    <3>4. r \in TimerRequest
      BY <1>2, <3>1
    <3>5. Head(Sorted).nTimestamp \in Nat /\ r.nTimestamp \in Nat
      BY <2>2, <3>4 DEF TimerRequest
    <3>6. QED BY <2>1, <3>3, <3>5 DEF Before
  <2>8. Last(ran').nTimestamp <= time
    <3>1. Head(Sorted).nTimestamp \in Nat /\ time \in Nat
      BY <1>1, <2>2 DEF TimerRequest, TimerTypes
    <3>2. QED BY <1>6, <2>3, <3>1
  <2>9. QED BY <2>3, <2>6, <2>7, <2>8
<1>7. QED BY <1>4, <1>5, <1>6 DEF LookAtList

\* A request more.
LEMMA AddTimerRequest_Inv ==
  ASSUME TimerInv, AddTimerRequest
  PROVE  TimerInv' /\ ran' = ran
<1>1. timers' = timers + 1 /\ UNCHANGED <<time, ran>> /\ TimerTypes
  BY DEF AddTimerRequest, TimerInv
<1>2. PICK d \in Delay : list' = Append(list, [id |-> timers', nTimestamp |-> time + d])
  BY DEF AddTimerRequest
<1> DEFINE r == [id |-> timers', nTimestamp |-> time + d]
<1>3. timers \in Nat /\ time \in Nat /\ d \in Nat
  BY <1>1, TimerAssumption DEF TimerTypes
<1>4. r \in TimerRequest /\ r.id = timers + 1
  BY <1>1, <1>3 DEF TimerRequest
<1> HIDE DEF r
<1>5. list \in Seq(TimerRequest) /\ list' = Append(list, r)
  BY <1>1, <1>2 DEF TimerTypes, r
<1>6. /\ list' \in Seq(TimerRequest) /\ DOMAIN list' = 1 .. Len(list) + 1 /\ DOMAIN list = 1 .. Len(list)
      /\ list'[Len(list) + 1] = r /\ \A i \in 1 .. Len(list) : list'[i] = list[i]
      /\ Len(list) \in Nat
  BY <1>4, <1>5
<1>7. \A i \in 1 .. Len(list) : list[i].id <= timers /\ list[i].id \in Nat
  <2>1. \A i \in 1 .. Len(list) : list[i] \in TimerRequest
    BY <1>5
  <2>2. QED BY <1>6, <2>1 DEF TimerInv, TimerRequest
<1>8. \A i \in DOMAIN list' : list'[i].id <= timers'
  <2> SUFFICES ASSUME NEW i \in 1 .. Len(list) + 1 PROVE list'[i].id <= timers + 1
    BY <1>1, <1>6
  <2>1. CASE i = Len(list) + 1
    BY <1>3, <1>4, <1>6, <2>1
  <2>2. CASE i \in 1 .. Len(list)
    BY <1>3, <1>6, <1>7, <2>2
  <2>3. QED BY <1>6, <2>1, <2>2
<1>9. \A i, j \in DOMAIN list' : list'[i].id = list'[j].id => i = j
  <2> SUFFICES ASSUME NEW i \in 1 .. Len(list) + 1, NEW j \in 1 .. Len(list) + 1, list'[i].id = list'[j].id
               PROVE  i = j
    BY <1>6
  <2>1. \A k \in 1 .. Len(list) : list'[k].id # timers + 1
    BY <1>3, <1>6, <1>7
  <2>2. list'[Len(list) + 1].id = timers + 1
    BY <1>4, <1>6
  <2>3. i = Len(list) + 1 \/ i \in 1 .. Len(list)
    BY <1>6
  <2>4. j = Len(list) + 1 \/ j \in 1 .. Len(list)
    BY <1>6
  <2>5. \A k, l \in 1 .. Len(list) : list'[k].id = list'[l].id => k = l
    BY <1>6 DEF TimerInv
  <2>6. QED BY <2>1, <2>2, <2>3, <2>4, <2>5
<1>10. timers' \in Nat
  BY <1>1, <1>3
<1>11. QED BY <1>1, <1>6, <1>8, <1>9, <1>10 DEF TimerInv, TimerTypes

LEMMA TimerNext_Kept ==
  TimerInv /\ [TimerNext]_timerVars
    => /\ TimerInv'
       /\ \A r \in Range(list) : Len(ran') > Len(ran) => Last(ran').nTimestamp <= time /\ Last(ran').nTimestamp <= r.nTimestamp
<1> SUFFICES ASSUME TimerInv, [TimerNext]_timerVars
             PROVE  /\ TimerInv'
                    /\ \A r \in Range(list) : Len(ran') > Len(ran) => Last(ran').nTimestamp <= time /\ Last(ran').nTimestamp <= r.nTimestamp
  OBVIOUS
<1>1. Len(ran) \in Nat
  BY DEF TimerInv, TimerTypes
<1>2. CASE LookAtList
  BY <1>2, LookAtList_Inv
<1>3. CASE AddTimerRequest
  <2>1. TimerInv' /\ ran' = ran
    BY <1>3, AddTimerRequest_Inv
  <2>2. QED BY <1>1, <2>1
<1>4. CASE NotifyTimer \/ DoTimerRequest \/ BeginWait \/ Awake \/ TimedOut \/ UNCHANGED timerVars
  <2>1. UNCHANGED <<time, list, timers, ran>>
    BY <1>4 DEF NotifyTimer, DoTimerRequest, BeginWait, Awake, TimedOut, timerVars
  <2>2. TimerInv'
    BY <2>1 DEF TimerInv, TimerTypes
  <2>3. QED BY <1>1, <2>1, <2>2
<1>5. CASE Second
  <2>1. UNCHANGED <<list, timers, ran>> /\ time' = time + 1
    BY <1>5 DEF Second
  <2>2. TimerTypes'
    BY <2>1 DEF TimerInv, TimerTypes
  <2>3. TimerInv'
    BY <2>1, <2>2 DEF TimerInv
  <2>4. QED BY <1>1, <2>1, <2>3
<1>6. QED BY <1>2, <1>3, <1>4, <1>5 DEF TimerNext, TimerRuns

(* The timer carries out no request before its second, and none after one  *)
(* that is due later, for any number of requests in any order              *)
(* (TimerThread::Run, which sorts its list each time round).               *)
THEOREM TimerIsPunctual == TimerSpec => Punctual
<1>1. TimerInit => TimerInv
  BY TimerInit_Inv
<1>2. TimerInv /\ [TimerNext]_timerVars
        => /\ TimerInv'
           /\ [\A r \in Range(list) : Len(ran') > Len(ran)
                   => Last(ran').nTimestamp <= time /\ Last(ran').nTimestamp <= r.nTimestamp]_timerVars
  BY TimerNext_Kept
<1>3. QED BY <1>1, <1>2, PTL DEF TimerSpec, Punctual

-----------------------------------------------------------------------------
(* The event dispatcher.                                                   *)

EvPlaces == {"none", "created", "lock", "select", "serving", "served", "done"}

EvTypes ==
    /\ evAt \in [EvWorker -> EvPlaces]
    /\ evHand \in [EvWorker -> EvFd \cup {Nothing}]
    /\ evOpen \subseteq EvFd /\ m_setActiveFd \subseteq EvFd /\ IsFiniteSet(m_setActiveFd)
    /\ m_listReadableSocket \in Seq(EvFd) /\ self \in Seq(EvFd \cup {EvExit})

\* No client twice.
Once(s) == \A i, j \in DOMAIN s : s[i] = s[j] /\ s[i] \in EvFd => i = j
InHand == {evHand[w] : w \in EvWorker} \cap EvFd
OnTheWay == Range(self) \cap EvFd

(* Who serves a client has it in hand; nobody has the same; and each that  *)
(* is open is in one of the four places.                                   *)
EvInv ==
    /\ EvTypes
    /\ \A w \in EvWorker : evHand[w] \in EvFd <=> evAt[w] \in {"serving", "served"}
    /\ \A v, w \in EvWorker : evHand[v] = evHand[w] /\ evHand[v] \in EvFd => v = w
    /\ Once(m_listReadableSocket) /\ Once(self)
    /\ evOpen = m_setActiveFd \cup Range(m_listReadableSocket) \cup InHand \cup OnTheWay
    /\ m_setActiveFd \cap Range(m_listReadableSocket) = {}
    /\ m_setActiveFd \cap InHand = {} /\ m_setActiveFd \cap OnTheWay = {}
    /\ Range(m_listReadableSocket) \cap InHand = {} /\ Range(m_listReadableSocket) \cap OnTheWay = {}
    /\ InHand \cap OnTheWay = {}

\* Lists without a client twice, and what they hold.
LEMMA OnceAppend ==
  ASSUME NEW s \in Seq(EvFd \cup {0}), NEW x \in EvFd \cup {0}, Once(s), x \in EvFd => x \notin Range(s)
  PROVE  /\ Append(s, x) \in Seq(EvFd \cup {0}) /\ Once(Append(s, x))
         /\ Range(Append(s, x)) = Range(s) \cup {x}
<1> DEFINE t == Append(s, x)
           n == Len(s)
<1>1. t \in Seq(EvFd \cup {0}) /\ Len(t) = n + 1 /\ n \in Nat /\ DOMAIN t = 1 .. n + 1 /\ DOMAIN s = 1 .. n
  OBVIOUS
<1>2. t[n + 1] = x /\ \A i \in 1 .. n : t[i] = s[i]
  OBVIOUS
<1> HIDE DEF t, n
<1>3. Range(t) = Range(s) \cup {x}
  <2>1. \A i \in 1 .. n + 1 : i \in 1 .. n \/ i = n + 1
    BY <1>1
  <2>2. 1 .. n \subseteq 1 .. n + 1 /\ n + 1 \in 1 .. n + 1
    BY <1>1
  <2>3. QED BY <1>1, <1>2, <2>1, <2>2 DEF Range
<1>4. \A i \in 1 .. n : x \in EvFd => s[i] # x
  BY <1>1 DEF Range
<1>5. Once(t)
  <2> SUFFICES ASSUME NEW i \in 1 .. n + 1, NEW j \in 1 .. n + 1, t[i] = t[j], t[i] \in EvFd PROVE i = j
    BY <1>1 DEF Once
  <2>1. (i \in 1 .. n \/ i = n + 1) /\ (j \in 1 .. n \/ j = n + 1)
    BY <1>1
  <2>2. QED BY <1>1, <1>2, <1>4, <2>1 DEF Once
<1>6. QED BY <1>1, <1>3, <1>5 DEF t

LEMMA OnceTail ==
  ASSUME NEW s \in Seq(EvFd \cup {0}), s # <<>>, Once(s)
  PROVE  /\ Tail(s) \in Seq(EvFd \cup {0}) /\ Once(Tail(s)) /\ Head(s) \in Range(s) /\ Head(s) \in EvFd \cup {0}
         /\ Range(Tail(s)) \cap EvFd = (Range(s) \cap EvFd) \ {Head(s)}
<1> DEFINE t == Tail(s)
           n == Len(s)
<1>1. /\ t \in Seq(EvFd \cup {0}) /\ n \in Nat /\ n >= 1 /\ DOMAIN t = 1 .. n - 1 /\ DOMAIN s = 1 .. n
      /\ Head(s) = s[1] /\ \A i \in 1 .. n - 1 : t[i] = s[i + 1]
  OBVIOUS
<1> HIDE DEF t, n
<1>2. \A i \in 1 .. n - 1 : i + 1 \in 1 .. n
  BY <1>1
<1>3. \A i \in 1 .. n : i = 1 \/ (i - 1 \in 1 .. n - 1 /\ i = (i - 1) + 1)
  BY <1>1
<1>4. Once(t)
  <2> SUFFICES ASSUME NEW i \in 1 .. n - 1, NEW j \in 1 .. n - 1, t[i] = t[j], t[i] \in EvFd PROVE i = j
    BY <1>1 DEF Once
  <2>1. i + 1 = j + 1
    BY <1>1, <1>2 DEF Once
  <2>2. QED BY <1>1, <2>1
<1>5. 1 \in 1 .. n
  BY <1>1
<1>6. Head(s) \in Range(s) /\ Head(s) \in EvFd \cup {0}
  <2>1. s[1] \in EvFd \cup {0}
    BY <1>1, <1>5
  <2>2. QED BY <1>1, <1>5, <2>1 DEF Range
<1>7. \A x \in Range(t) : x \in Range(s)
  <2> SUFFICES ASSUME NEW i \in 1 .. n - 1 PROVE t[i] \in Range(s)
    BY <1>1 DEF Range
  <2>1. i + 1 \in 1 .. n /\ t[i] = s[i + 1]
    BY <1>1, <1>2
  <2>2. QED BY <1>1, <2>1 DEF Range
<1>8. \A x \in Range(s) : x = Head(s) \/ x \in Range(t)
  <2> SUFFICES ASSUME NEW i \in 1 .. n, s[i] # Head(s) PROVE s[i] \in Range(t)
    BY <1>1 DEF Range
  <2>1. i - 1 \in 1 .. n - 1 /\ i = (i - 1) + 1
    BY <1>1, <1>3
  <2>2. t[i - 1] = s[i]
    BY <1>1, <2>1
  <2>3. QED BY <1>1, <2>1, <2>2 DEF Range
<1>9. Head(s) \in EvFd => Head(s) \notin Range(t)
  <2> SUFFICES ASSUME s[1] \in EvFd, NEW i \in 1 .. n - 1, t[i] = s[1] PROVE FALSE
    BY <1>1 DEF Range
  <2>1. i + 1 = 1
    BY <1>1, <1>2, <1>5 DEF Once
  <2>2. QED BY <1>1, <2>1
<1>10. QED BY <1>1, <1>4, <1>6, <1>7, <1>8, <1>9 DEF t

LEMMA OnceFront ==
  ASSUME NEW s \in Seq(EvFd), s # <<>>, Once(s)
  PROVE  /\ Front(s) \in Seq(EvFd) /\ Once(Front(s)) /\ Last(s) \in Range(s) /\ Last(s) \in EvFd
         /\ Range(Front(s)) = Range(s) \ {Last(s)}
<1> DEFINE t == Front(s)
           n == Len(s)
<1>1. n \in Nat /\ n >= 1 /\ DOMAIN s = 1 .. n /\ Last(s) = s[n] /\ n \in 1 .. n
  BY DEF Last
<1>2. t \in Seq(EvFd) /\ DOMAIN t = 1 .. n - 1 /\ \A i \in 1 .. n - 1 : t[i] = s[i]
  BY <1>1 DEF Front
<1> HIDE DEF t, n
<1>3. \A i \in 1 .. n - 1 : i \in 1 .. n /\ i # n
  BY <1>1
<1>4. \A i \in 1 .. n : i = n \/ i \in 1 .. n - 1
  BY <1>1
<1>5. \A i \in 1 .. n : s[i] \in EvFd
  BY <1>1
<1>6. \A i, j \in 1 .. n : s[i] = s[j] => i = j
  BY <1>1, <1>5 DEF Once
<1>7. Once(t)
  BY <1>2, <1>3, <1>6 DEF Once
<1>8. Range(t) = Range(s) \ {s[n]}
  BY <1>1, <1>2, <1>3, <1>4, <1>6 DEF Range
<1>9. Last(s) \in Range(s) /\ Last(s) \in EvFd
  BY <1>1, <1>5 DEF Range
<1>10. QED BY <1>1, <1>2, <1>7, <1>8, <1>9 DEF t

LEMMA OnceConcat ==
  ASSUME NEW s \in Seq(EvFd), NEW t \in Seq(EvFd), Once(s), Once(t), Range(s) \cap Range(t) = {}
  PROVE  s \o t \in Seq(EvFd) /\ Once(s \o t) /\ Range(s \o t) = Range(s) \cup Range(t)
<1> DEFINE u == s \o t
           m == Len(s)
           n == Len(t)
<1>1. /\ u \in Seq(EvFd) /\ m \in Nat /\ n \in Nat /\ DOMAIN u = 1 .. m + n /\ DOMAIN s = 1 .. m /\ DOMAIN t = 1 .. n
      /\ \A i \in 1 .. m + n : u[i] = IF i <= m THEN s[i] ELSE t[i - m]
  OBVIOUS
<1> HIDE DEF u, m, n
<1>2. \A i \in 1 .. m + n : (i \in 1 .. m /\ u[i] = s[i]) \/ (i - m \in 1 .. n /\ u[i] = t[i - m])
  BY <1>1
<1>3. \A i \in 1 .. m : i \in 1 .. m + n /\ u[i] = s[i]
  BY <1>1
<1>4. \A i \in 1 .. n : m + i \in 1 .. m + n /\ u[m + i] = t[i]
  <2> TAKE i \in 1 .. n
  <2>1. m + i \in 1 .. m + n /\ ~(m + i <= m) /\ (m + i) - m = i
    BY <1>1
  <2>2. u[m + i] = t[(m + i) - m]
    BY <1>1, <2>1
  <2>3. QED BY <2>1, <2>2
<1>5. Range(u) = Range(s) \cup Range(t)
  <2>1. Range(u) \subseteq Range(s) \cup Range(t)
    BY <1>1, <1>2 DEF Range
  <2>2. Range(s) \subseteq Range(u)
    BY <1>1, <1>3 DEF Range
  <2>3. Range(t) \subseteq Range(u)
    <3> SUFFICES ASSUME NEW i \in 1 .. n PROVE t[i] \in Range(u)
      BY <1>1 DEF Range
    <3>1. m + i \in 1 .. m + n /\ t[i] = u[m + i]
      BY <1>4
    <3>2. QED BY <1>1, <3>1 DEF Range
  <2>4. QED BY <2>1, <2>2, <2>3
<1>6. \A i \in 1 .. m, j \in 1 .. n : s[i] # t[j]
  BY <1>1 DEF Range
<1>7. Once(u)
  <2> SUFFICES ASSUME NEW i \in 1 .. m + n, NEW j \in 1 .. m + n, u[i] = u[j], u[i] \in EvFd PROVE i = j
    BY <1>1 DEF Once
  <2>1. CASE i \in 1 .. m /\ u[i] = s[i] /\ j \in 1 .. m /\ u[j] = s[j]
    BY <1>1, <2>1 DEF Once
  <2>2. CASE i - m \in 1 .. n /\ u[i] = t[i - m] /\ j - m \in 1 .. n /\ u[j] = t[j - m]
    <3>1. i - m = j - m
      BY <1>1, <2>2 DEF Once
    <3>2. QED BY <1>1, <3>1
  <2>3. QED BY <1>2, <1>6, <2>1, <2>2
<1>8. QED BY <1>1, <1>5, <1>7 DEF u

\* The clients that are ready, in order.
LEMMA InOrderFacts ==
  ASSUME NEW fds \in SUBSET EvFd, IsFiniteSet(fds)
  PROVE  /\ InOrder(fds) \in Seq(EvFd) /\ Once(InOrder(fds)) /\ Range(InOrder(fds)) = fds
<1> DEFINE n == Cardinality(fds)
           R == {p \in fds \X fds : p[1] < p[2]}
           s == InOrder(fds)
<1>1. n \in Nat /\ fds \subseteq Nat
  BY EventAssumption, FS_CardinalityType
<1>2. \A a, b \in fds : <<a, b>> \in R <=> a < b
  OBVIOUS
<1> HIDE DEF R
<1>3. OrderOf(fds, R)
  <2>1. \A a, b \in fds : a # b => a < b \/ b < a
    BY <1>1
  <2>2. \A a, b, c \in fds : a < b /\ b < c => a < c
    BY <1>1
  <2>3. \A a \in fds : ~(a < a)
    BY <1>1
  <2>4. QED BY <1>2, <2>1, <2>2, <2>3 DEF OrderOf
<1>4. PICK q \in [1 .. n -> fds] : \A i, j \in 1 .. n : i < j => <<q[i], q[j]>> \in R
  BY <1>3, CanBeSorted
<1>5. \A i, j \in DOMAIN q : i < j => q[i] < q[j]
  BY <1>2, <1>4
<1>6. s \in [1 .. n -> fds] /\ \A i, j \in DOMAIN s : i < j => s[i] < s[j]
  BY <1>5 DEF InOrder
<1> HIDE DEF s, n
<1>7. s \in Seq(EvFd) /\ DOMAIN s = 1 .. n
  <2>1. DOMAIN s = 1 .. n /\ \A i \in 1 .. n : s[i] \in fds
    BY <1>6
  <2>2. \A i \in 1 .. n : s[i] \in EvFd
    BY <2>1
  <2>3. s \in [1 .. n -> EvFd]
    BY <1>6, <2>1, <2>2
  <2>4. QED BY <1>1, <2>1, <2>3
<1>8. \A i, j \in 1 .. n : s[i] = s[j] => i = j
  <2> SUFFICES ASSUME NEW i \in 1 .. n, NEW j \in 1 .. n, s[i] = s[j], i # j PROVE FALSE
    OBVIOUS
  <2>1. i < j \/ j < i
    BY <1>1
  <2>2. s[i] \in Nat /\ s[j] \in Nat
    BY <1>1, <1>6
  <2>3. QED BY <1>6, <1>7, <2>1, <2>2
<1>9. Range(s) = fds
  <2>1. s \in Injection(1 .. n, fds)
    BY <1>6, <1>8, Zenon DEF Injection, IsInjective
  <2>2. IsFiniteSet(1 .. n) /\ Cardinality(1 .. n) = n
    BY <1>1, CountTo
  <2>3. s \in Surjection(1 .. n, fds)
    BY <2>1, <2>2, FS_Injection DEF n
  <2>4. QED BY <1>6, <2>3 DEF Surjection, Range
<1>10. QED BY <1>7, <1>8, <1>9 DEF Once, s

\* The clients that threads have in hand, when one of them is given or leaves one.
LEMMA HandsAfter ==
  ASSUME EvInv, NEW w \in EvWorker, NEW x \in EvFd \cup {Nothing}, evHand' = [evHand EXCEPT ![w] = x],
         x \in EvFd => x \notin InHand
  PROVE  /\ evHand' \in [EvWorker -> EvFd \cup {Nothing}]
         /\ \A u, v \in EvWorker : evHand'[u] = evHand'[v] /\ evHand'[u] \in EvFd => u = v
         /\ InHand' = (InHand \ {evHand[w]}) \cup ({x} \cap EvFd)
<1>1. evHand \in [EvWorker -> EvFd \cup {Nothing}] /\ \A u, v \in EvWorker : evHand[u] = evHand[v] /\ evHand[u] \in EvFd => u = v
  BY DEF EvInv, EvTypes
<1>2. evHand' \in [EvWorker -> EvFd \cup {Nothing}]
  BY <1>1
<1>3. evHand'[w] = x /\ \A v \in EvWorker \ {w} : evHand'[v] = evHand[v]
  BY <1>1
<1>4. \A v \in EvWorker : x \in EvFd => evHand[v] # x
  BY DEF InHand
<1>5. \A u, v \in EvWorker : evHand'[u] = evHand'[v] /\ evHand'[u] \in EvFd => u = v
  BY <1>1, <1>3, <1>4
<1>6. InHand' = (InHand \ {evHand[w]}) \cup ({x} \cap EvFd)
  BY <1>1, <1>3 DEF InHand
<1>7. QED BY <1>2, <1>5, <1>6

LEMMA EvInit_Inv == EvInit => EvInv
<1> SUFFICES ASSUME EvInit PROVE EvInv
  OBVIOUS
<1>1. evAt \in [EvWorker -> EvPlaces] /\ \A w \in EvWorker : evAt[w] \in {"created", "none"}
  BY DEF EvInit, EvPlaces
<1>2. /\ evHand = [w \in EvWorker |-> Nothing] /\ evOpen = {} /\ m_setActiveFd = {}
      /\ m_listReadableSocket = <<>> /\ self = <<>>
  BY DEF EvInit
<1>3. Nothing \notin EvFd
  BY EventAssumption DEF Nothing
<1>4. InHand = {} /\ OnTheWay = {} /\ Range(m_listReadableSocket) = {}
  BY <1>2, <1>3 DEF InHand, OnTheWay, Range
<1>5. EvTypes
  BY <1>1, <1>2, FS_EmptySet DEF EvTypes
<1>6. Once(m_listReadableSocket) /\ Once(self)
  BY <1>2 DEF Once
<1>7. \A w \in EvWorker : evHand[w] \notin EvFd
  BY <1>2, <1>3
<1>8. \A w \in EvWorker : evHand[w] \in EvFd <=> evAt[w] \in {"serving", "served"}
  BY <1>1, <1>7
<1>9. QED BY <1>2, <1>4, <1>5, <1>6, <1>7, <1>8 DEF EvInv

\* A step of a thread, or the manager's, that leaves every client where it is.
LEMMA ClientsStay ==
  ASSUME EvInv, UNCHANGED <<evHand, evOpen, m_setActiveFd, m_listReadableSocket, self>>,
         evAt' \in [EvWorker -> EvPlaces],
         \A w \in EvWorker : evAt'[w] \in {"serving", "served"} <=> evAt[w] \in {"serving", "served"}
  PROVE  EvInv'
<1>1. InHand' = InHand /\ OnTheWay' = OnTheWay /\ Range(m_listReadableSocket)' = Range(m_listReadableSocket)
  BY DEF InHand, OnTheWay
<1>2. EvTypes'
  BY DEF EvInv, EvTypes
<1>3. Once(m_listReadableSocket)' /\ Once(self)'
  BY DEF EvInv
<1>4. \A w \in EvWorker : evHand'[w] \in EvFd <=> evAt'[w] \in {"serving", "served"}
  BY DEF EvInv
<1>5. QED BY <1>1, <1>2, <1>3, <1>4 DEF EvInv

\* A thread goes on.
LEMMA ThreadGoes ==
  ASSUME EvInv, NEW w \in EvWorker, NEW to \in EvPlaces, EvGo(w, to)
  PROVE  /\ evAt' \in [EvWorker -> EvPlaces] /\ evAt'[w] = to
         /\ \A v \in EvWorker \ {w} : evAt'[v] = evAt[v]
BY DEF EvInv, EvTypes, EvGo

LEMMA EvBegin_Inv ==
  ASSUME EvInv, NEW w \in EvWorker, EvBegin(w)
  PROVE  EvInv'
<1>1. PICK to \in {"done", "lock"} : EvGo(w, to)
  BY DEF EvBegin, EvLoop
<1>2. evAt' \in [EvWorker -> EvPlaces] /\ evAt'[w] = to /\ \A v \in EvWorker \ {w} : evAt'[v] = evAt[v]
  BY <1>1, ThreadGoes DEF EvPlaces
<1>3. evAt[w] = "created" /\ UNCHANGED <<evHand, evOpen, m_setActiveFd, m_listReadableSocket, self>>
  BY DEF EvBegin
<1>4. QED BY <1>1, <1>2, <1>3, ClientsStay

\* The last of the list is taken; or the thread goes to select, or ends.
LEMMA EvLook_Inv ==
  ASSUME EvInv, NEW w \in EvWorker, EvLook(w)
  PROVE  EvInv'
<1>1. evAt[w] = "lock" /\ UNCHANGED <<evOpen, m_setActiveFd, self>>
  BY DEF EvLook
<1>2. CASE m_listReadableSocket # <<>>
  <2> DEFINE x == Last(m_listReadableSocket)
             was == Range(m_listReadableSocket)
  <2>1. evHand' = [evHand EXCEPT ![w] = x] /\ m_listReadableSocket' = Front(m_listReadableSocket) /\ EvGo(w, "serving")
    BY <1>2 DEF EvLook
  <2>2. /\ Front(m_listReadableSocket) \in Seq(EvFd) /\ Once(Front(m_listReadableSocket)) /\ x \in was /\ x \in EvFd
        /\ Range(Front(m_listReadableSocket)) = was \ {x}
    BY <1>2, OnceFront DEF EvInv, EvTypes
  <2>3. x \notin InHand
    BY <2>2 DEF EvInv
  <2>4. evHand[w] \notin EvFd
    BY <1>1 DEF EvInv
  <2> HIDE DEF x
  <2>5. /\ evHand' \in [EvWorker -> EvFd \cup {Nothing}]
        /\ \A u, v \in EvWorker : evHand'[u] = evHand'[v] /\ evHand'[u] \in EvFd => u = v
        /\ InHand' = (InHand \ {evHand[w]}) \cup ({x} \cap EvFd)
    BY <2>1, <2>2, <2>3, HandsAfter
  <2>6. InHand' = InHand \cup {x}
    BY <2>2, <2>4, <2>5 DEF InHand
  <2>7. Range(m_listReadableSocket)' = was \ {x} /\ OnTheWay' = OnTheWay
    BY <1>1, <2>1, <2>2 DEF OnTheWay
  <2>8. evAt' \in [EvWorker -> EvPlaces] /\ evAt'[w] = "serving" /\ \A v \in EvWorker \ {w} : evAt'[v] = evAt[v]
    BY <2>1, ThreadGoes DEF EvPlaces
  <2>9. EvTypes'
    BY <1>1, <2>1, <2>2, <2>5, <2>8 DEF EvInv, EvTypes
  <2>10. evHand'[w] = x /\ \A v \in EvWorker \ {w} : evHand'[v] = evHand[v]
    BY <2>1 DEF EvInv, EvTypes
  <2>11. \A v \in EvWorker : evHand'[v] \in EvFd <=> evAt'[v] \in {"serving", "served"}
    BY <2>2, <2>8, <2>10 DEF EvInv
  <2>12. Once(m_listReadableSocket)' /\ Once(self)'
    BY <1>1, <2>1, <2>2 DEF EvInv
  <2>13. /\ m_setActiveFd' \cap Range(m_listReadableSocket)' = {} /\ m_setActiveFd' \cap InHand' = {}
         /\ m_setActiveFd' \cap OnTheWay' = {} /\ Range(m_listReadableSocket)' \cap InHand' = {}
         /\ Range(m_listReadableSocket)' \cap OnTheWay' = {} /\ InHand' \cap OnTheWay' = {}
    BY <1>1, <2>2, <2>6, <2>7 DEF EvInv
  <2>14. evOpen' = m_setActiveFd' \cup Range(m_listReadableSocket)' \cup InHand' \cup OnTheWay'
    BY <1>1, <2>2, <2>6, <2>7 DEF EvInv
  <2>15. QED BY <2>5, <2>9, <2>11, <2>12, <2>13, <2>14 DEF EvInv
<1>3. CASE m_listReadableSocket = <<>>
  <2>1. UNCHANGED <<evHand, m_listReadableSocket>> /\ \E to \in {"done", "select"} : EvGo(w, to)
    BY <1>3 DEF EvLook
  <2>2. PICK to \in {"done", "select"} : EvGo(w, to)
    BY <2>1
  <2>3. evAt' \in [EvWorker -> EvPlaces] /\ evAt'[w] = to /\ \A v \in EvWorker \ {w} : evAt'[v] = evAt[v]
    BY <2>2, ThreadGoes DEF EvPlaces
  <2>4. QED BY <1>1, <2>1, <2>2, <2>3, ClientsStay
<1>4. QED BY <1>2, <1>3

\* What select has found is divided: the first for this thread, the others for the list.
LEMMA Divided ==
  ASSUME EvInv, NEW ready, ready = ReadyClients
  PROVE  /\ InOrder(ready) = <<>> => ready = {}
         /\ InOrder(ready) # <<>> =>
              /\ Head(InOrder(ready)) \in ready /\ Tail(InOrder(ready)) \in Seq(EvFd) /\ Once(Tail(InOrder(ready)))
              /\ Range(Tail(InOrder(ready))) = ready \ {Head(InOrder(ready))}
<1> DEFINE c == InOrder(ready)
<1>1. ready \in SUBSET EvFd /\ IsFiniteSet(ready)
  <2>1. ready \in SUBSET m_setActiveFd /\ m_setActiveFd \subseteq EvFd /\ IsFiniteSet(m_setActiveFd)
    BY DEF ReadyClients, EvInv, EvTypes
  <2>2. QED BY <2>1, FS_Subset
<1>2. c \in Seq(EvFd) /\ Once(c) /\ Range(c) = ready
  BY <1>1, InOrderFacts
<1> HIDE DEF c
<1>3. CASE c = <<>>
  BY <1>2, <1>3 DEF Range, c
<1>4. CASE c # <<>>
  <2>1. c \in Seq(EvFd \cup {0}) /\ Tail(c) \in Seq(EvFd)
    BY <1>2, <1>4
  <2>2. /\ Once(Tail(c)) /\ Head(c) \in Range(c)
        /\ Range(Tail(c)) \cap EvFd = (Range(c) \cap EvFd) \ {Head(c)}
    BY <1>2, <1>4, <2>1, OnceTail
  <2>3. Range(Tail(c)) \subseteq EvFd
    BY <2>1 DEF Range
  <2>4. Range(Tail(c)) = ready \ {Head(c)}
    BY <1>1, <1>2, <2>2, <2>3
  <2>5. QED BY <1>2, <1>4, <2>1, <2>2, <2>4 DEF c
<1>5. QED BY <1>3, <1>4

\* The message that is read from the server's connection to itself.
LEMMA SelfRead ==
  ASSUME EvInv, self' = IF SelfReady THEN Tail(self) ELSE self
  PROVE  /\ self' \in Seq(EvFd \cup {EvExit}) /\ Once(self)' /\ OnTheWay' = OnTheWay \ AddedFd
         /\ AddedFd \subseteq OnTheWay /\ IsFiniteSet(AddedFd)
<1>1. self \in Seq(EvFd \cup {0}) /\ Once(self) /\ 0 \notin EvFd
  BY EventAssumption DEF EvInv, EvTypes, EvExit
<1>2. CASE SelfReady
  <2>1. self # <<>> /\ self' = Tail(self)
    BY <1>2 DEF SelfReady
  <2>2. /\ Tail(self) \in Seq(EvFd \cup {0}) /\ Once(Tail(self)) /\ Head(self) \in Range(self) /\ Head(self) \in EvFd \cup {0}
        /\ Range(Tail(self)) \cap EvFd = (Range(self) \cap EvFd) \ {Head(self)}
    BY <1>1, <2>1, OnceTail
  <2>3. OnTheWay' = OnTheWay \ {Head(self)} /\ self' \in Seq(EvFd \cup {EvExit}) /\ Once(self)'
    BY <2>1, <2>2 DEF OnTheWay, EvExit
  <2>4. CASE Head(self) # 0
    <3>1. AddedFd = {Head(self)}
      BY <1>2, <2>4 DEF AddedFd, EvExit
    <3>2. Head(self) \in OnTheWay
      BY <2>2, <2>4 DEF OnTheWay
    <3>3. QED BY <2>3, <3>1, <3>2, FS_Singleton
  <2>5. CASE Head(self) = 0
    <3>1. AddedFd = {}
      BY <1>2, <2>5 DEF AddedFd, EvExit
    <3>2. Head(self) \notin OnTheWay
      BY <1>1, <2>5 DEF OnTheWay
    <3>3. QED BY <2>3, <3>1, <3>2, FS_EmptySet
  <2>6. QED BY <2>4, <2>5
<1>3. CASE ~SelfReady
  <2>1. self' = self /\ AddedFd = {}
    BY <1>3 DEF AddedFd
  <2>2. OnTheWay' = OnTheWay
    BY <2>1 DEF OnTheWay
  <2>3. QED BY <1>1, <2>1, <2>2, FS_EmptySet DEF EvExit
<1>4. QED BY <1>2, <1>3

\* Select returns.
LEMMA EvSelected_Inv ==
  ASSUME EvInv, NEW w \in EvWorker, EvSelected(w)
  PROVE  EvInv'
<1> DEFINE ready == ReadyClients
           c == InOrder(ready)
           rest == IF c = <<>> THEN <<>> ELSE Tail(c)
           first == IF c = <<>> THEN Nothing ELSE Head(c)
           listed == Range(m_listReadableSocket)
<1>1. PICK new \in {{}} \cup {{fd} : fd \in IF evState = "up" THEN EvFd \ evOpen ELSE {}} :
         /\ evOpen' = evOpen \cup new
         /\ m_setActiveFd' = ((m_setActiveFd \ ready) \cup new) \cup AddedFd
         /\ m_listReadableSocket' = m_listReadableSocket \o rest
         /\ evHand' = [evHand EXCEPT ![w] = first]
         /\ EvGo(w, IF c # <<>> THEN "serving" ELSE IF evState = "halted" THEN "done" ELSE "select")
  BY DEF EvSelected
<1>2. evAt[w] = "select" /\ self' = IF SelfReady THEN Tail(self) ELSE self
  BY DEF EvSelected
<1>3. new \in SUBSET (EvFd \ evOpen) /\ IsFiniteSet(new)
  <2>1. CASE new = {}
    BY <2>1, FS_EmptySet
  <2>2. ASSUME NEW fd \in EvFd \ evOpen, new = {fd} PROVE new \in SUBSET (EvFd \ evOpen) /\ IsFiniteSet(new)
    BY <2>2, FS_Singleton
  <2>3. new = {} \/ \E fd \in EvFd \ evOpen : new = {fd}
    OBVIOUS
  <2>4. QED BY <2>1, <2>2, <2>3
<1>4. ready \subseteq m_setActiveFd /\ m_setActiveFd \subseteq EvFd /\ Nothing \notin EvFd
  BY EventAssumption DEF ReadyClients, EvInv, EvTypes, Nothing
<1>5. /\ rest \in Seq(EvFd) /\ Once(rest) /\ Range(rest) = ready \ {first}
      /\ IF c = <<>> THEN first = Nothing /\ ready = {} ELSE first \in ready
  <2>1. CASE c = <<>>
    <3>1. ready = {} /\ rest = <<>> /\ first = Nothing
      BY <2>1, Divided
    <3>2. <<>> \in Seq(EvFd) /\ Once(<<>>) /\ Range(<<>>) = {}
      BY DEF Once, Range
    <3>3. QED BY <2>1, <3>1, <3>2
  <2>2. CASE c # <<>>
    BY <2>2, Divided
  <2>3. QED BY <2>1, <2>2
<1>6. EvGo(w, IF c # <<>> THEN "serving" ELSE IF evState = "halted" THEN "done" ELSE "select")
  BY <1>1
<1>7. /\ evAt' \in [EvWorker -> EvPlaces]
      /\ evAt'[w] \in {"serving", "served"} <=> first \in EvFd
      /\ \A v \in EvWorker \ {w} : evAt'[v] = evAt[v]
  <2>1. CASE c = <<>>
    <3>1. PICK to \in {"done", "select"} : EvGo(w, to)
      BY <1>6, <2>1
    <3>2. evAt' \in [EvWorker -> EvPlaces] /\ evAt'[w] = to /\ \A v \in EvWorker \ {w} : evAt'[v] = evAt[v]
      BY <3>1, ThreadGoes DEF EvPlaces
    <3>3. QED BY <1>4, <1>5, <2>1, <3>1, <3>2
  <2>2. CASE c # <<>>
    <3>1. EvGo(w, "serving")
      BY <1>6, <2>2
    <3>2. evAt' \in [EvWorker -> EvPlaces] /\ evAt'[w] = "serving" /\ \A v \in EvWorker \ {w} : evAt'[v] = evAt[v]
      BY <3>1, ThreadGoes DEF EvPlaces
    <3>3. QED BY <1>4, <1>5, <2>2, <3>2
  <2>3. QED BY <2>1, <2>2
<1> HIDE DEF ready, c, rest, first, listed
<1>8. first \in EvFd \cup {Nothing} /\ (first \in EvFd <=> first \in ready) /\ ready \subseteq EvFd
      /\ (first \notin ready => ready = {})
  BY <1>4, <1>5
<1>9. first \in EvFd => first \notin InHand
  BY <1>4, <1>8 DEF EvInv
<1>10. evHand[w] \notin EvFd
  BY <1>2 DEF EvInv
<1>11. /\ evHand' \in [EvWorker -> EvFd \cup {Nothing}]
       /\ \A u, v \in EvWorker : evHand'[u] = evHand'[v] /\ evHand'[u] \in EvFd => u = v
       /\ InHand' = (InHand \ {evHand[w]}) \cup ({first} \cap EvFd)
  BY <1>1, <1>8, <1>9, HandsAfter
<1>12. InHand' = InHand \cup ({first} \cap EvFd)
  BY <1>10, <1>11 DEF InHand
<1>13. /\ self' \in Seq(EvFd \cup {EvExit}) /\ Once(self)' /\ OnTheWay' = OnTheWay \ AddedFd
       /\ AddedFd \subseteq OnTheWay /\ IsFiniteSet(AddedFd)
  BY <1>2, SelfRead
<1>14. /\ m_listReadableSocket' \in Seq(EvFd) /\ Once(m_listReadableSocket)'
       /\ Range(m_listReadableSocket)' = listed \cup (ready \ {first})
  <2>1. m_listReadableSocket \in Seq(EvFd) /\ Once(m_listReadableSocket) /\ listed \cap Range(rest) = {}
    BY <1>4, <1>5 DEF EvInv, EvTypes, listed
  <2>2. /\ m_listReadableSocket \o rest \in Seq(EvFd) /\ Once(m_listReadableSocket \o rest)
        /\ Range(m_listReadableSocket \o rest) = listed \cup Range(rest)
    BY <1>5, <2>1, OnceConcat DEF listed
  <2>3. QED BY <1>1, <1>5, <2>2
<1>15. OnTheWay \subseteq EvFd /\ InHand \subseteq EvFd
  BY DEF OnTheWay, InHand
<1>16. m_setActiveFd' \subseteq EvFd /\ IsFiniteSet(m_setActiveFd') /\ evOpen' \subseteq EvFd
  <2>1. IsFiniteSet(m_setActiveFd \ ready)
    <3>1. IsFiniteSet(m_setActiveFd) /\ m_setActiveFd \ ready \in SUBSET m_setActiveFd
      BY DEF EvInv, EvTypes
    <3>2. QED BY <3>1, FS_Subset
  <2>2. IsFiniteSet((m_setActiveFd \ ready) \cup new)
    BY <1>3, <2>1, FS_Union
  <2>3. IsFiniteSet(((m_setActiveFd \ ready) \cup new) \cup AddedFd)
    BY <1>13, <2>2, FS_Union
  <2>4. evOpen \subseteq EvFd
    BY DEF EvInv, EvTypes
  <2>5. QED BY <1>1, <1>3, <1>4, <1>13, <1>15, <2>3, <2>4
<1>17. EvTypes'
  BY <1>7, <1>11, <1>13, <1>14, <1>16 DEF EvTypes
<1>18. evHand'[w] = first /\ \A v \in EvWorker \ {w} : evHand'[v] = evHand[v]
  BY <1>1 DEF EvInv, EvTypes
<1>19. \A v \in EvWorker : evHand'[v] \in EvFd <=> evAt'[v] \in {"serving", "served"}
  BY <1>7, <1>18 DEF EvInv
<1>20. /\ evOpen = m_setActiveFd \cup listed \cup InHand \cup OnTheWay
       /\ m_setActiveFd \cap listed = {} /\ m_setActiveFd \cap InHand = {} /\ m_setActiveFd \cap OnTheWay = {}
       /\ listed \cap InHand = {} /\ listed \cap OnTheWay = {} /\ InHand \cap OnTheWay = {}
  BY DEF EvInv, listed
<1>21. new \cap evOpen = {} /\ new \cap m_setActiveFd = {} /\ new \cap listed = {} /\ new \cap InHand = {} /\ new \cap OnTheWay = {}
  BY <1>3, <1>20
<1>22. m_setActiveFd' = ((m_setActiveFd \ ready) \cup new) \cup AddedFd
  BY <1>1
<1>23. evOpen' = m_setActiveFd' \cup Range(m_listReadableSocket)' \cup InHand' \cup OnTheWay'
  BY <1>1, <1>4, <1>8, <1>12, <1>13, <1>14, <1>20, <1>22
<1>24. m_setActiveFd' \cap Range(m_listReadableSocket)' = {}
  BY <1>4, <1>13, <1>14, <1>20, <1>21, <1>22
<1>25. m_setActiveFd' \cap InHand' = {}
  BY <1>4, <1>8, <1>12, <1>13, <1>20, <1>21, <1>22
<1>26. m_setActiveFd' \cap OnTheWay' = {}
  BY <1>13, <1>20, <1>21, <1>22
<1>27. Range(m_listReadableSocket)' \cap InHand' = {}
  BY <1>4, <1>8, <1>12, <1>14, <1>20
<1>28. Range(m_listReadableSocket)' \cap OnTheWay' = {}
  BY <1>4, <1>13, <1>14, <1>20
<1>29. InHand' \cap OnTheWay' = {}
  BY <1>4, <1>8, <1>12, <1>13, <1>20
<1>30. QED BY <1>11, <1>13, <1>14, <1>17, <1>19, <1>23, <1>24, <1>25, <1>26, <1>27, <1>28, <1>29 DEF EvInv

\* The silent ones are closed.
LEMMA EvExpire_Inv ==
  ASSUME EvInv, NEW w \in EvWorker, EvExpire(w)
  PROVE  EvInv'
<1>1. PICK silent \in SUBSET m_setActiveFd : m_setActiveFd' = m_setActiveFd \ silent /\ evOpen' = evOpen \ silent
  BY DEF EvExpire
<1>2. UNCHANGED <<evAt, evHand, m_listReadableSocket, self>>
  BY DEF EvExpire
<1>3. InHand' = InHand /\ OnTheWay' = OnTheWay /\ Range(m_listReadableSocket)' = Range(m_listReadableSocket)
  BY <1>2 DEF InHand, OnTheWay
<1>4. IsFiniteSet(m_setActiveFd')
  <2>1. IsFiniteSet(m_setActiveFd) /\ m_setActiveFd' \in SUBSET m_setActiveFd
    BY <1>1 DEF EvInv, EvTypes
  <2>2. QED BY <2>1, FS_Subset
<1>5. EvTypes'
  BY <1>1, <1>2, <1>4 DEF EvInv, EvTypes
<1>6. Once(m_listReadableSocket)' /\ Once(self)'
  BY <1>2 DEF EvInv
<1>7. /\ \A v \in EvWorker : evHand'[v] \in EvFd <=> evAt'[v] \in {"serving", "served"}
      /\ \A u, v \in EvWorker : evHand'[u] = evHand'[v] /\ evHand'[u] \in EvFd => u = v
  BY <1>2 DEF EvInv
<1>8. evOpen' = m_setActiveFd' \cup Range(m_listReadableSocket)' \cup InHand' \cup OnTheWay'
  BY <1>1, <1>3 DEF EvInv
<1>9. m_setActiveFd' \subseteq m_setActiveFd
  BY <1>1
<1>10. QED BY <1>3, <1>5, <1>6, <1>7, <1>8, <1>9 DEF EvInv

LEMMA EvReceive_Inv ==
  ASSUME EvInv, NEW w \in EvWorker, EvReceive(w)
  PROVE  EvInv'
<1>1. evAt[w] = "serving" /\ EvGo(w, "served") /\ UNCHANGED <<evHand, evOpen, m_setActiveFd, m_listReadableSocket, self>>
  BY DEF EvReceive
<1>2. evAt' \in [EvWorker -> EvPlaces] /\ evAt'[w] = "served" /\ \A v \in EvWorker \ {w} : evAt'[v] = evAt[v]
  BY <1>1, ThreadGoes DEF EvPlaces
<1>3. QED BY <1>1, <1>2, ClientsStay

\* The client that has been served is closed, or sent back.
LEMMA EvServed_Inv ==
  ASSUME EvInv, NEW w \in EvWorker, EvServed(w)
  PROVE  EvInv'
<1> DEFINE fd == evHand[w]
<1>1. evAt[w] = "served" /\ evHand' = [evHand EXCEPT ![w] = Nothing] /\ UNCHANGED <<m_setActiveFd, m_listReadableSocket>>
  BY DEF EvServed
<1>2. PICK to \in {"done", "lock"} : EvGo(w, to)
  BY DEF EvServed, EvLoop
<1>3. evAt' \in [EvWorker -> EvPlaces] /\ evAt'[w] = to /\ \A v \in EvWorker \ {w} : evAt'[v] = evAt[v]
  BY <1>2, ThreadGoes DEF EvPlaces
<1>4. fd \in EvFd /\ fd \in InHand
  BY <1>1 DEF EvInv, InHand
<1>5. Nothing \notin EvFd
  BY EventAssumption DEF Nothing
<1>6. /\ evHand' \in [EvWorker -> EvFd \cup {Nothing}]
      /\ \A u, v \in EvWorker : evHand'[u] = evHand'[v] /\ evHand'[u] \in EvFd => u = v
      /\ InHand' = (InHand \ {fd}) \cup ({Nothing} \cap EvFd)
  BY <1>1, <1>5, HandsAfter
<1>7. InHand' = InHand \ {fd}
  BY <1>5, <1>6
<1>8. evHand'[w] = Nothing /\ \A v \in EvWorker \ {w} : evHand'[v] = evHand[v]
  BY <1>1 DEF EvInv, EvTypes
<1>9. \A v \in EvWorker : evHand'[v] \in EvFd <=> evAt'[v] \in {"serving", "served"}
  BY <1>2, <1>3, <1>5, <1>8 DEF EvInv
<1>10. Range(m_listReadableSocket)' = Range(m_listReadableSocket) /\ Once(m_listReadableSocket)'
  BY <1>1 DEF EvInv
<1>11. CASE evOpen' = evOpen \ {fd} /\ UNCHANGED self
  <2>1. OnTheWay' = OnTheWay /\ Once(self)'
    BY <1>11 DEF OnTheWay, EvInv
  <2>2. EvTypes'
    BY <1>1, <1>3, <1>6, <1>11 DEF EvInv, EvTypes
  <2>3. evOpen' = m_setActiveFd' \cup Range(m_listReadableSocket)' \cup InHand' \cup OnTheWay'
    BY <1>1, <1>4, <1>7, <1>10, <1>11, <2>1 DEF EvInv
  <2>4. QED BY <1>1, <1>6, <1>7, <1>9, <1>10, <2>1, <2>2, <2>3 DEF EvInv
<1>12. CASE self' = Append(self, fd) /\ UNCHANGED evOpen
  <2>1. self \in Seq(EvFd \cup {0}) /\ Once(self) /\ fd \notin Range(self)
    BY <1>4 DEF EvInv, EvTypes, EvExit, OnTheWay
  <2>2. /\ Append(self, fd) \in Seq(EvFd \cup {0}) /\ Once(Append(self, fd))
        /\ Range(Append(self, fd)) = Range(self) \cup {fd}
    BY <1>4, <2>1, OnceAppend
  <2>3. OnTheWay' = OnTheWay \cup {fd} /\ Once(self)' /\ self' \in Seq(EvFd \cup {EvExit})
    BY <1>4, <1>12, <2>2 DEF OnTheWay, EvExit
  <2>4. EvTypes'
    BY <1>1, <1>3, <1>6, <1>12, <2>3 DEF EvInv, EvTypes
  <2>5. evOpen' = m_setActiveFd' \cup Range(m_listReadableSocket)' \cup InHand' \cup OnTheWay'
    BY <1>1, <1>4, <1>7, <1>10, <1>12, <2>3 DEF EvInv
  <2>6. /\ m_setActiveFd' \cap OnTheWay' = {} /\ Range(m_listReadableSocket)' \cap OnTheWay' = {}
        /\ InHand' \cap OnTheWay' = {}
    BY <1>1, <1>4, <1>7, <1>10, <2>3 DEF EvInv
  <2>7. QED BY <1>1, <1>6, <1>7, <1>9, <1>10, <2>3, <2>4, <2>5, <2>6 DEF EvInv
<1>13. QED BY <1>11, <1>12 DEF EvServed, CloseSocket, MakeSocketDispatching

\* The manager makes threads and tells others to stop.
LEMMA EvManage_Inv ==
  ASSUME EvInv, EvManage
  PROVE  EvInv'
<1>1. /\ evAt' = [w \in EvWorker |-> IF w \in Created THEN "created" ELSE evAt[w]]
      /\ UNCHANGED <<evHand, evOpen, m_setActiveFd, m_listReadableSocket, self>>
  BY DEF EvManage
<1>2. \A w \in EvWorker : w \in Created => evAt[w] \in {"none", "done"}
  <2>1. Created \subseteq Fresh
    BY DEF Created
  <2>2. \A w \in Fresh : evAt[w] \in {"none", "done"}
    BY DEF Fresh
  <2>3. QED BY <2>1, <2>2
<1>3. evAt' \in [EvWorker -> EvPlaces]
  BY <1>1 DEF EvInv, EvTypes, EvPlaces
<1>4. \A w \in EvWorker : evAt'[w] \in {"serving", "served"} <=> evAt[w] \in {"serving", "served"}
  BY <1>1, <1>2
<1>5. QED BY <1>1, <1>3, <1>4, ClientsStay

LEMMA EvHalt_Inv ==
  ASSUME EvInv, EvHalt
  PROVE  EvInv'
<1>1. UNCHANGED <<evAt, evHand, evOpen, m_setActiveFd, m_listReadableSocket>>
  BY DEF EvHalt
<1>2. CASE UNCHANGED self
  BY <1>1, <1>2, ClientsStay DEF EvInv, EvTypes
<1>3. CASE self' = Append(self, EvExit)
  <2>1. self \in Seq(EvFd \cup {0}) /\ Once(self) /\ 0 \notin EvFd
    BY EventAssumption DEF EvInv, EvTypes, EvExit
  <2>2. /\ Append(self, 0) \in Seq(EvFd \cup {0}) /\ Once(Append(self, 0))
        /\ Range(Append(self, 0)) = Range(self) \cup {0}
    BY <2>1, OnceAppend
  <2>3. self' \in Seq(EvFd \cup {EvExit}) /\ Once(self)' /\ OnTheWay' = OnTheWay
    BY <1>3, <2>1, <2>2 DEF EvExit, OnTheWay
  <2>4. InHand' = InHand
    BY <1>1 DEF InHand
  <2>5. EvTypes'
    BY <1>1, <2>3 DEF EvInv, EvTypes
  <2>6. Once(m_listReadableSocket)' /\ Range(m_listReadableSocket)' = Range(m_listReadableSocket)
    BY <1>1 DEF EvInv
  <2>7. QED BY <1>1, <2>3, <2>4, <2>5, <2>6 DEF EvInv
<1>4. QED BY <1>2, <1>3 DEF EvHalt

LEMMA EvNext_Inv == EvInv /\ [EvNext]_evVars => EvInv'
<1> SUFFICES ASSUME EvInv, [EvNext]_evVars PROVE EvInv'
  OBVIOUS
<1>1. CASE EvManage
  BY <1>1, EvManage_Inv
<1>2. CASE EvHalt
  BY <1>2, EvHalt_Inv
<1>3. CASE EvCrash \/ (\E fd \in EvFd : EvSend(fd)) \/ UNCHANGED evVars
  <2>1. UNCHANGED <<evAt, evHand, evOpen, m_setActiveFd, m_listReadableSocket, self>>
    BY <1>3 DEF EvCrash, EvSend, evPool, evVars
  <2>2. QED BY <2>1, ClientsStay DEF EvInv, EvTypes
<1>4. ASSUME NEW w \in EvWorker, EvRuns(w) \/ EvExpire(w) PROVE EvInv'
  <2>1. CASE EvBegin(w)
    BY <2>1, EvBegin_Inv
  <2>2. CASE EvLook(w)
    BY <2>2, EvLook_Inv
  <2>3. CASE EvSelected(w)
    BY <2>3, EvSelected_Inv
  <2>4. CASE EvReceive(w)
    BY <2>4, EvReceive_Inv
  <2>5. CASE EvServed(w)
    BY <2>5, EvServed_Inv
  <2>6. CASE EvExpire(w)
    BY <2>6, EvExpire_Inv
  <2>7. QED BY <1>4, <2>1, <2>2, <2>3, <2>4, <2>5, <2>6 DEF EvRuns
<1>5. QED BY <1>1, <1>2, <1>3, <1>4 DEF EvNext

\* Of the places of which there is one or none, one.
LEMMA OneOrNone ==
  ASSUME NEW S, NEW yes \in BOOLEAN, \A a, b \in S : a = b, yes <=> S # {}
  PROVE  Cardinality(S) = IF yes THEN 1 ELSE 0
<1>1. CASE S = {}
  BY <1>1, FS_EmptySet
<1>2. CASE S # {}
  <2>1. PICK a : S = {a}
    BY <1>2
  <2>2. QED BY <1>2, <2>1, FS_Singleton
<1>3. QED BY <1>1, <1>2

LEMMA EvInv_InOnePlace == EvInv => InOnePlace
<1> SUFFICES ASSUME EvInv, NEW fd \in EvFd PROVE PlacesOf(fd) = IF fd \in evOpen THEN 1 ELSE 0
  BY DEF InOnePlace
<1> DEFINE a == fd \in m_setActiveFd
           l == fd \in Range(m_listReadableSocket)
           h == fd \in InHand
           s == fd \in OnTheWay
           L == {i \in DOMAIN m_listReadableSocket : m_listReadableSocket[i] = fd}
           H == {w \in EvWorker : evHand[w] = fd}
           S == {i \in DOMAIN self : self[i] = fd}
<1>1. Cardinality(L) = IF l THEN 1 ELSE 0
  <2>1. \A i, j \in L : i = j
    BY DEF EvInv, Once
  <2>2. l <=> L # {}
    BY DEF Range
  <2> HIDE DEF L, l
  <2>3. l \in BOOLEAN
    BY DEF l
  <2>4. QED BY <2>1, <2>2, <2>3, OneOrNone
<1>2. Cardinality(H) = IF h THEN 1 ELSE 0
  <2>1. \A v, w \in H : v = w
    BY DEF EvInv
  <2>2. h <=> H # {}
    BY DEF InHand
  <2> HIDE DEF H, h
  <2>3. h \in BOOLEAN
    BY DEF h
  <2>4. QED BY <2>1, <2>2, <2>3, OneOrNone
<1>3. Cardinality(S) = IF s THEN 1 ELSE 0
  <2>1. \A i, j \in S : i = j
    BY DEF EvInv, Once
  <2>2. s <=> S # {}
    BY DEF Range, OnTheWay
  <2> HIDE DEF S, s
  <2>3. s \in BOOLEAN
    BY DEF s
  <2>4. QED BY <2>1, <2>2, <2>3, OneOrNone
<1>4. PlacesOf(fd) = (IF a THEN 1 ELSE 0) + Cardinality(L) + Cardinality(H) + Cardinality(S)
  BY DEF PlacesOf
<1>5. /\ fd \in evOpen <=> a \/ l \/ h \/ s
      /\ ~(a /\ l) /\ ~(a /\ h) /\ ~(a /\ s) /\ ~(l /\ h) /\ ~(l /\ s) /\ ~(h /\ s)
  BY DEF EvInv
<1> HIDE DEF a, l, h, s, L, H, S
<1>6. QED BY <1>1, <1>2, <1>3, <1>4, <1>5

(* No client of the event dispatcher is lost or served by two threads: each *)
(* that is connected is selected, listed, in the hands of one thread, or    *)
(* on its way back through the server's connection to itself, for any       *)
(* number of threads and clients (EventNetDispatch.cpp).                    *)
THEOREM ClientsAreInOnePlace == EvSpec => []InOnePlace
<1>1. EvInit => EvInv
  BY EvInit_Inv
<1>2. EvInv /\ [EvNext]_evVars => EvInv'
  BY EvNext_Inv
<1>3. EvInv => InOnePlace
  BY EvInv_InOnePlace
<1>4. QED BY <1>1, <1>2, <1>3, PTL DEF EvSpec

-----------------------------------------------------------------------------
(* The WSHs of a gate. *)

USE PoolAssumption, NoPidAssumption

(* What the housekeeping has written down is still so when it acts on it:  *)
(* a slot it copied has the same owner, and a slot it condemned is in use  *)
(* by no running WSH.                                                      *)
CopyIsCurrent ==
  \A w \in wshs : tblWSH[w.index].state = "INUSE" /\ tblWSH[w.index].pid = w.pid
CondemnedIsDead ==
  \A i \in exited :
    tblWSH[i].state = "INUSE" /\ \A p \in Running : wshIndex[p] # i
UsedSlotHasPid == \A i \in Index : tblWSH[i].state = "INUSE" => tblWSH[i].pid \in Pid

(* What the sockets of a WSH and its count have to do with each other.     *)
SocketsAgree ==
  \A p \in Pid :
    /\ expired[p] <= conns[p]
    /\ p \notin Running => conns[p] = 0 /\ expired[p] = 0 /\ stray[p] = 0
CountBelow ==
  \A p \in Running : tblWSH[wshIndex[p]].conn <= conns[p] - expired[p] - stray[p]

SlotInv == RunningWshOwnsSlot /\ CopyIsCurrent /\ CondemnedIsDead /\ UsedSlotHasPid
IInv == TypeOK /\ SlotInv /\ SocketsAgree /\ CountBelow

LEMMA InitIInv == Init => IInv
BY DEF Init, IInv, TypeOK, SlotInv, RunningWshOwnsSlot, CopyIsCurrent, CondemnedIsDead,
       UsedSlotHasPid, SocketsAgree, CountBelow, Running, WshSlot, Index

LEMMA RegisterKeeps ==
  ASSUME IInv, NEW p \in Pid, RegisterWSH(p)
  PROVE  IInv'
<1> USE DEF IInv, SlotInv
<1>1. PICK i \in Index :
        /\ tblWSH[i].state = "IDLE"
        /\ tblWSH' = [tblWSH EXCEPT ![i] = SlotOf(i, p)]
        /\ wshIndex' = [wshIndex EXCEPT ![p] = i]
  BY DEF RegisterWSH, Vacant
<1>2. /\ proc[p] = "forked" /\ proc' = [proc EXCEPT ![p] = "wsh"]
      /\ UNCHANGED <<sockets, daemon, budgets>>
  BY DEF RegisterWSH
<1>3. TypeOK'
  BY <1>1, <1>2 DEF TypeOK, SlotOf, WshSlot, sockets, daemon, budgets
<1>4. /\ Running' = Running \cup {p} /\ p \notin Running
      /\ tblWSH'[i] = [pid |-> p, conn |-> 0, state |-> "INUSE"]
      /\ wshIndex'[p] = i
      /\ \A k \in Index : k # i => tblWSH'[k] = tblWSH[k]
      /\ \A q \in Pid : q # p => wshIndex'[q] = wshIndex[q]
  BY <1>1, <1>2 DEF TypeOK, SlotOf, Running
<1>5. \A q \in Running : wshIndex[q] \in Index /\ wshIndex[q] # i
  BY <1>1 DEF RunningWshOwnsSlot
<1>6. RunningWshOwnsSlot'
  BY <1>4, <1>5 DEF RunningWshOwnsSlot, Running
<1>7. CopyIsCurrent'
  BY <1>1, <1>2, <1>4 DEF CopyIsCurrent, TypeOK, WshRef, daemon
<1>8. CondemnedIsDead'
  BY <1>1, <1>2, <1>4 DEF CondemnedIsDead, TypeOK, daemon, Running
<1>9. UsedSlotHasPid'
  BY <1>4 DEF UsedSlotHasPid
<1>10. SocketsAgree'
  BY <1>2, <1>4 DEF SocketsAgree, sockets
<1>11. CountBelow'
  <2>1. tblWSH'[wshIndex'[p]].conn <= conns'[p] - expired'[p] - stray'[p]
    BY <1>2, <1>4 DEF SocketsAgree, sockets
  <2>2. ASSUME NEW q \in Running
        PROVE  tblWSH'[wshIndex'[q]].conn <= conns'[q] - expired'[q] - stray'[q]
    BY <1>2, <1>4, <1>5 DEF CountBelow, sockets, Running
  <2>3. QED BY <1>4, <2>1, <2>2 DEF CountBelow
<1>12. QED BY <1>3, <1>6, <1>7, <1>8, <1>9, <1>10, <1>11

(* Whatever Count is used for: the sockets stay consistent and the count   *)
(* goes up by no more than they do.                                        *)
LEMMA CountKeeps ==
  ASSUME IInv, NEW p \in Running,
         NEW d \in Int, NEW dc \in Int, NEW de \in Int, NEW ds \in Int,
         Count(p, d, dc, de, ds),
         0 <= expired[p] + de, expired[p] + de <= conns[p] + dc, 0 <= stray[p] + ds,
         d <= dc - de - ds
  PROVE  IInv'
<1> USE DEF IInv, SlotInv
<1> DEFINE i == wshIndex[p]
<1>1. p \in Pid /\ i \in Index
  BY DEF Running, RunningWshOwnsSlot
<1>2. /\ conns[p] \in Nat /\ expired[p] \in Nat /\ stray[p] \in Nat
      /\ tblWSH[i] \in WshSlot
  BY <1>1 DEF TypeOK
<1>3. /\ tblWSH' = [tblWSH EXCEPT ![i] = [pid |-> tblWSH[i].pid, conn |-> tblWSH[i].conn + d,
                                         state |-> tblWSH[i].state]]
      /\ conns' = [conns EXCEPT ![p] = conns[p] + dc]
      /\ expired' = [expired EXCEPT ![p] = expired[p] + de]
      /\ stray' = [stray EXCEPT ![p] = stray[p] + ds]
      /\ UNCHANGED <<proc, wshIndex, daemon, budgets>>
  BY DEF Count
<1>4. tblWSH' \in [Index -> WshSlot]
  BY <1>1, <1>2, <1>3 DEF TypeOK, WshSlot
<1>5. conns' \in [Pid -> Nat] /\ expired' \in [Pid -> Nat] /\ stray' \in [Pid -> Nat]
  BY <1>1, <1>2, <1>3 DEF TypeOK
<1>6. TypeOK'
  BY <1>3, <1>4, <1>5 DEF TypeOK, daemon, budgets
<1>7. /\ Running' = Running
      /\ \A k \in Index : tblWSH'[k].pid = tblWSH[k].pid /\ tblWSH'[k].state = tblWSH[k].state
      /\ \A k \in Index : k # i => tblWSH'[k].conn = tblWSH[k].conn
      /\ tblWSH'[i].conn = tblWSH[i].conn + d
  BY <1>1, <1>3 DEF TypeOK, Running
<1>8. RunningWshOwnsSlot'
  BY <1>3, <1>7 DEF RunningWshOwnsSlot
<1>9. CopyIsCurrent' /\ UsedSlotHasPid'
  BY <1>3, <1>7 DEF CopyIsCurrent, UsedSlotHasPid, TypeOK, WshRef, daemon
<1>10. CondemnedIsDead'
  BY <1>3, <1>7 DEF CondemnedIsDead, TypeOK, daemon
<1>11. SocketsAgree'
  BY <1>1, <1>2, <1>3, <1>7 DEF SocketsAgree, TypeOK
<1>12. CountBelow'
  <2>1. tblWSH[i].conn <= conns[p] - expired[p] - stray[p]
    BY DEF CountBelow
  <2>2. tblWSH'[i].conn <= conns'[p] - expired'[p] - stray'[p]
    BY <1>1, <1>2, <1>3, <1>7, <2>1 DEF TypeOK, WshSlot
  <2>3. ASSUME NEW q \in Running, q # p
        PROVE  tblWSH'[wshIndex[q]].conn <= conns'[q] - expired'[q] - stray'[q]
    <3>1. q \in Pid /\ wshIndex[q] \in Index /\ wshIndex[q] # i
      BY <2>3 DEF RunningWshOwnsSlot, Running
    <3>2. QED BY <1>3, <1>7, <3>1 DEF CountBelow, TypeOK
  <2>4. QED BY <1>3, <1>7, <2>2, <2>3 DEF CountBelow
<1>13. QED BY <1>6, <1>8, <1>9, <1>10, <1>11, <1>12

(* A step that starts no WSH, and touches the board and the notes of the   *)
(* housekeeping not at all, keeps everything: fewer processes own slots.   *)
LEMMA FewerRunningKeeps ==
  ASSUME IInv, TypeOK', Running' \in SUBSET Running,
         UNCHANGED tblWSH, wshs' \in SUBSET wshs, UNCHANGED exited,
         \A p \in Running' : /\ wshIndex'[p] = wshIndex[p] /\ conns'[p] = conns[p]
                             /\ expired'[p] = expired[p] /\ stray'[p] = stray[p],
         SocketsAgree'
  PROVE  IInv'
<1> USE DEF IInv, SlotInv
<1>1. RunningWshOwnsSlot'
  BY DEF RunningWshOwnsSlot
<1>2. CopyIsCurrent' /\ UsedSlotHasPid'
  BY DEF CopyIsCurrent, UsedSlotHasPid
<1>3. CondemnedIsDead'
  BY DEF CondemnedIsDead
<1>4. CountBelow'
  BY DEF CountBelow
<1>5. QED BY <1>1, <1>2, <1>3, <1>4

LEMMA EndedKeeps ==
  ASSUME IInv, NEW P, Ended(P), UNCHANGED <<tblWSH, wshIndex, exited>>,
         wshs' \in SUBSET wshs, UNCHANGED <<forks, syncPID, foreigns>>,
         main' \in {main, "destroy"}, crashes' \in 0 .. CrashMax
  PROVE  IInv'
<1>1. TypeOK'
  BY DEF IInv, TypeOK, Ended
<1>2. Running' = Running \ P
  BY DEF Running, Ended
<1>3. SocketsAgree'
  BY <1>2 DEF SocketsAgree, IInv, Ended, Running
<1>4. QED BY <1>1, <1>2, <1>3, FewerRunningKeeps DEF Ended, Running

(* A process that becomes anything but a running WSH, under a free pid or  *)
(* from a fork that could not register.                                    *)
LEMMA NewProcessKeeps ==
  ASSUME IInv, NEW p \in Pid, p \notin Running, NEW what \in {"none", "forked", "sync", "foreign"},
         proc' = [proc EXCEPT ![p] = what],
         \A q \in Running : wshIndex'[q] = wshIndex[q],
         UNCHANGED <<tblWSH, sockets, wshs, exited>>, TypeOK'
  PROVE  IInv'
<1>1. Running' = Running
  BY DEF Running, IInv, TypeOK
<1>2. SocketsAgree'
  BY <1>1 DEF SocketsAgree, IInv, sockets
<1>3. QED BY <1>1, <1>2, FewerRunningKeeps DEF sockets

LEMMA CreateWSHKeeps ==
  ASSUME IInv, CreateWSH, UNCHANGED <<tblWSH, sockets, wshs, exited, syncPID, budgets>>,
         main' \in {main, "select"}, forks' \in 0 .. WshMin
  PROVE  IInv'
<1>1. ASSUME UNCHANGED <<proc, wshIndex>>
      PROVE  IInv'
  <2>1. TypeOK'
    BY <1>1 DEF IInv, TypeOK, sockets, budgets
  <2>2. Running' = Running
    BY <1>1 DEF Running
  <2>3. SocketsAgree'
    BY <2>2 DEF IInv, SocketsAgree, sockets
  <2>4. QED BY <1>1, <2>1, <2>2, <2>3, FewerRunningKeeps DEF sockets
<1>2. ASSUME NEW p \in Unused, proc' = [proc EXCEPT ![p] = "forked"],
             wshIndex' = [wshIndex EXCEPT ![p] = -1]
      PROVE  IInv'
  <2>1. p \in Pid /\ p \notin Running
    BY DEF Unused, Running
  <2>2. TypeOK'
    BY <1>2, <2>1 DEF IInv, TypeOK, sockets, budgets
  <2>3. \A q \in Running : wshIndex'[q] = wshIndex[q]
    BY <1>2, <2>1 DEF IInv, TypeOK, Running
  <2>4. QED BY <1>2, <2>1, <2>2, <2>3, NewProcessKeeps
<1>3. QED BY <1>1, <1>2 DEF CreateWSH

LEMMA SocketStepKeeps ==
  ASSUME IInv, NEW p \in Pid,
         \/ Connect(p) \/ Disconnect(p)
         \/ Expire(p) \/ CloseExpired(p) \/ DisconnectExpired(p) \/ CloseStray(p)
  PROVE  IInv'
<1>1. p \in Running
  BY DEF Connect, Disconnect, Expire, CloseExpired, DisconnectExpired, CloseStray
<1>2. /\ conns[p] \in Nat /\ expired[p] \in Nat /\ stray[p] \in Nat
      /\ expired[p] <= conns[p]
  BY DEF IInv, TypeOK, SocketsAgree
<1> DEFINE less == -1
<1>a. less \in Int /\ less + 1 = 0
  OBVIOUS
<1> HIDE DEF less
<1>3. CASE Connect(p)
  <2>1. Count(p, 1, 1, 0, 0)
    BY <1>3 DEF Connect
  <2>2. QED BY <1>1, <1>2, <2>1, CountKeeps
<1>4. CASE Disconnect(p)
  <2>1. conns[p] > expired[p]
    BY <1>4 DEF Disconnect
  <2>2. Count(p, less, less, 0, 0)
    BY <1>4 DEF Disconnect, less
  <2>3. /\ 0 <= expired[p] + 0 /\ expired[p] + 0 <= conns[p] + less
        /\ 0 <= stray[p] + 0 /\ less <= less - 0 - 0
    BY <1>2, <1>a, <2>1
  <2>4. QED BY <1>1, <1>a, <2>2, <2>3, CountKeeps
<1>5. CASE Expire(p)
  <2>1. conns[p] > expired[p]
    BY <1>5 DEF Expire
  <2>2. Count(p, less, 0, 1, 0)
    BY <1>5 DEF Expire, less
  <2>3. QED BY <1>1, <1>2, <1>a, <2>1, <2>2, CountKeeps
<1>6. CASE CloseExpired(p)
  <2>1. expired[p] > 0
    BY <1>6 DEF CloseExpired
  <2>2. Count(p, 0, less, less, 0)
    BY <1>6 DEF CloseExpired, less
  <2>3. QED BY <1>1, <1>2, <1>a, <2>1, <2>2, CountKeeps
<1>7. CASE DisconnectExpired(p)
  <2>1. expired[p] > 0
    BY <1>7 DEF DisconnectExpired
  <2>2. Count(p, less, less, less, 1)
    BY <1>7 DEF DisconnectExpired, less
  <2>3. QED BY <1>1, <1>2, <1>a, <2>1, <2>2, CountKeeps
<1>8. CASE CloseStray(p)
  <2>1. stray[p] > 0
    BY <1>8 DEF CloseStray
  <2>2. CASE Count(p, 0, 0, 0, less)
    BY <1>1, <1>2, <1>a, <2>1, <2>2, CountKeeps
  <2>3. ASSUME NEW d \in {0, less}, Count(p, d, less, 0, less), conns[p] > expired[p]
        PROVE  IInv'
    BY <1>1, <1>2, <1>a, <2>1, <2>3, CountKeeps
  <2>4. CASE Count(p, 0, less, less, 0) /\ expired[p] > 0
    BY <1>1, <1>2, <1>a, <2>1, <2>4, CountKeeps
  <2>5. QED BY <1>8, <2>2, <2>3, <2>4 DEF CloseStray, less
<1>9. QED BY <1>3, <1>4, <1>5, <1>6, <1>7, <1>8

LEMMA ProcessStepKeeps ==
  ASSUME IInv, NEW p \in Pid, RegisterFails(p) \/ Crash(p) \/ Foreign(p)
  PROVE  IInv'
<1>1. CASE RegisterFails(p)
  <2>1. /\ proc[p] = "forked" /\ proc' = [proc EXCEPT ![p] = "none"]
        /\ UNCHANGED <<table, daemon, budgets>>
    BY <1>1 DEF RegisterFails
  <2>2. p \notin Running /\ TypeOK'
    BY <2>1 DEF IInv, TypeOK, Running, table, sockets, daemon, budgets
  <2>3. QED BY <2>1, <2>2, NewProcessKeeps DEF table, sockets, daemon
<1>2. CASE Crash(p)
  <2>1. crashes' \in 0 .. CrashMax
    BY <1>2 DEF Crash, IInv, TypeOK
  <2>2. QED BY <1>2, <2>1, EndedKeeps DEF Crash, daemon
<1>3. CASE Foreign(p)
  <2>1. PICK what \in {"none", "foreign"} : proc' = [proc EXCEPT ![p] = what]
    BY <1>3 DEF Foreign
  <2>2. /\ proc[p] \in {"none", "foreign"} /\ foreigns' \in 0 .. ForeignMax
        /\ UNCHANGED <<table, daemon, crashes>>
    BY <1>3 DEF Foreign, IInv, TypeOK
  <2>3. p \notin Running /\ TypeOK'
    BY <2>1, <2>2 DEF IInv, TypeOK, Running, table, sockets, daemon
  <2>4. QED BY <2>1, <2>2, <2>3, NewProcessKeeps DEF table, sockets, daemon
<1>4. QED BY <1>1, <1>2, <1>3

(* The copy of the table is exact when it is taken.                        *)
LEMMA CopyKeeps ==
  ASSUME IInv, Housekeep \/ Terminate
  PROVE  IInv'
<1>1. /\ wshs' = GetAllWSH /\ exited' \in {exited, {}} /\ main' \in {"probe", "kill"}
      /\ UNCHANGED <<table, proc, forks, syncPID, budgets>>
  BY DEF Housekeep, Terminate
<1>2. TypeOK'
  BY <1>1 DEF IInv, TypeOK, SlotInv, UsedSlotHasPid, GetAllWSH, WshRef, table, sockets, budgets
<1>3. CopyIsCurrent'
  BY <1>1 DEF CopyIsCurrent, GetAllWSH, table
<1>4. CondemnedIsDead' /\ UsedSlotHasPid' /\ RunningWshOwnsSlot'
  BY <1>1 DEF IInv, SlotInv, CondemnedIsDead, UsedSlotHasPid, RunningWshOwnsSlot, Running, table
<1>5. SocketsAgree' /\ CountBelow'
  BY <1>1 DEF IInv, SocketsAgree, CountBelow, Running, table, sockets
<1>6. QED BY <1>2, <1>3, <1>4, <1>5 DEF IInv, SlotInv

(* A slot whose pid has no process is not the slot of a running WSH, whose *)
(* pid it would hold; and it cannot become one while it is in use.         *)
LEMMA ProbeKeeps ==
  ASSUME IInv, Probe
  PROVE  IInv'
<1>1. PICK w \in wshs :
        /\ exited' = IF IsProcessExist(w.pid) THEN exited ELSE exited \cup {w.index}
        /\ wshs' = wshs \ {w}
  BY DEF Probe
<1>2. UNCHANGED <<table, proc, main, forks, syncPID, budgets>> /\ Running' = Running
  BY DEF Probe, Running
<1>3. w.index \in Index /\ w.pid \in Pid
  BY DEF IInv, TypeOK, WshRef
<1>4. TypeOK'
  BY <1>1, <1>2, <1>3 DEF IInv, TypeOK, table, sockets, budgets
<1>5. ASSUME ~IsProcessExist(w.pid), NEW q \in Running, wshIndex[q] = w.index
      PROVE  FALSE
  <2>1. tblWSH[w.index].pid = q /\ tblWSH[w.index].pid = w.pid
    BY <1>5 DEF IInv, SlotInv, RunningWshOwnsSlot, CopyIsCurrent
  <2>2. QED BY <1>5, <2>1 DEF IsProcessExist, Running
<1>6. CondemnedIsDead'
  BY <1>1, <1>2, <1>5 DEF IInv, SlotInv, CondemnedIsDead, CopyIsCurrent, table
<1>7. CopyIsCurrent' /\ UsedSlotHasPid' /\ RunningWshOwnsSlot'
  BY <1>1, <1>2 DEF IInv, SlotInv, CopyIsCurrent, UsedSlotHasPid, RunningWshOwnsSlot, table
<1>8. SocketsAgree' /\ CountBelow'
  BY <1>2 DEF IInv, SocketsAgree, CountBelow, table, sockets
<1>9. QED BY <1>4, <1>6, <1>7, <1>8 DEF IInv, SlotInv

LEMMA CleanupKeeps ==
  ASSUME IInv, CleanupWSHByIndex
  PROVE  IInv'
<1>1. /\ tblWSH' = [i \in Index |-> IF i \in exited THEN Released(tblWSH[i]) ELSE tblWSH[i]]
      /\ exited' = {} /\ wshs = {} /\ main' = "count"
      /\ UNCHANGED <<wshIndex, sockets, proc, forks, wshs, syncPID, budgets>>
  BY DEF CleanupWSHByIndex
<1>2. TypeOK' /\ Running' = Running
  BY <1>1 DEF IInv, TypeOK, Released, WshSlot, sockets, budgets, Running
<1>3. \A p \in Running : wshIndex[p] \in Index /\ tblWSH'[wshIndex[p]] = tblWSH[wshIndex[p]]
  BY <1>1 DEF IInv, SlotInv, CondemnedIsDead, RunningWshOwnsSlot
<1>4. RunningWshOwnsSlot' /\ CountBelow'
  BY <1>1, <1>2, <1>3 DEF IInv, SlotInv, RunningWshOwnsSlot, CountBelow, sockets
<1>5. CopyIsCurrent' /\ CondemnedIsDead'
  BY <1>1 DEF CopyIsCurrent, CondemnedIsDead
<1>6. UsedSlotHasPid'
  BY <1>1 DEF IInv, SlotInv, UsedSlotHasPid, Released
<1>7. SocketsAgree'
  BY <1>1, <1>2 DEF IInv, SocketsAgree, sockets
<1>8. QED BY <1>2, <1>4, <1>5, <1>6, <1>7 DEF IInv, SlotInv

LEMMA TxGateKeeps ==
  ASSUME IInv, TxGate \/ Terminate
  PROVE  IInv'
<1>1. CASE ForkFirst
  <2>1. forks' \in 0 .. WshMin
    BY <1>1 DEF ForkFirst, IInv, TypeOK
  <2>2. QED BY <1>1, <2>1, CreateWSHKeeps DEF ForkFirst
<1>2. CASE ForkSync
  <2>1. ASSUME UNCHANGED proc
        PROVE  IInv'
    <3>1. TypeOK' /\ Running' = Running
      BY <1>2, <2>1 DEF ForkSync, CreateSYNC, Unused, IInv, TypeOK, Running, table, sockets, budgets
    <3>2. SocketsAgree'
      BY <1>2, <3>1 DEF ForkSync, IInv, SocketsAgree, table, sockets
    <3>3. QED BY <1>2, <3>1, <3>2, FewerRunningKeeps DEF ForkSync, table, sockets
  <2>2. ASSUME NEW p \in Unused, syncPID' = p, proc' = [proc EXCEPT ![p] = "sync"]
        PROVE  IInv'
    <3>1. p \in Pid /\ p \notin Running
      BY DEF Unused, Running
    <3>2. TypeOK'
      BY <1>2, <2>2, <3>1 DEF ForkSync, IInv, TypeOK, table, sockets, budgets
    <3>3. QED BY <1>2, <2>2, <3>1, <3>2, NewProcessKeeps DEF ForkSync, table, sockets
  <2>3. QED BY <1>2, <2>1, <2>2 DEF ForkSync, CreateSYNC
<1>3. CASE Housekeep \/ Terminate
  BY <1>3, CopyKeeps
<1>4. CASE Probe
  BY <1>4, ProbeKeeps
<1>5. CASE CleanupWSHByIndex
  BY <1>5, CleanupKeeps
<1>6. CASE Balance
  <2>1. /\ main' = "select" /\ forks' \in 0 .. WshMin
        /\ UNCHANGED <<tblWSH, sockets, forks, wshs, exited, syncPID, budgets>>
    BY <1>6 DEF Balance, IInv, TypeOK
  <2>2. CASE CreateWSH
    BY <2>1, <2>2, CreateWSHKeeps
  <2>3. CASE UNCHANGED <<proc, wshIndex>>
    <3>1. TypeOK' /\ Running' = Running
      BY <2>1, <2>3 DEF IInv, TypeOK, Running, sockets, budgets
    <3>2. SocketsAgree'
      BY <2>1, <3>1 DEF IInv, SocketsAgree, sockets
    <3>3. QED BY <2>1, <2>3, <3>1, <3>2, FewerRunningKeeps DEF sockets
  <2>4. QED BY <1>6, <2>2, <2>3 DEF Balance
<1>7. CASE KillAll
  <2>1. PICK P : Ended(P)
    BY <1>7 DEF KillAll
  <2>2. crashes' \in 0 .. CrashMax
    BY <1>7 DEF KillAll, budgets, IInv, TypeOK
  <2>3. QED BY <1>7, <2>1, <2>2, EndedKeeps DEF KillAll, budgets
<1>8. CASE Destroy
  <2>1. TypeOK' /\ Running' = Running
    BY <1>8 DEF Destroy, IInv, TypeOK, Running, table, sockets, budgets
  <2>2. SocketsAgree'
    BY <1>8, <2>1 DEF Destroy, IInv, SocketsAgree, table, sockets
  <2>3. QED BY <1>8, <2>1, <2>2, FewerRunningKeeps DEF Destroy, table, sockets
<1>9. QED
  BY <1>1, <1>2, <1>3, <1>4, <1>5, <1>6, <1>7, <1>8 DEF TxGate

LEMMA NextIInv ==
  ASSUME IInv, [Next]_vars
  PROVE  IInv'
<1>1. CASE UNCHANGED vars
  BY <1>1 DEF vars, IInv, TypeOK, SlotInv, RunningWshOwnsSlot, CopyIsCurrent, CondemnedIsDead,
              UsedSlotHasPid, SocketsAgree, CountBelow, Running
<1>2. QED
  BY <1>1, TxGateKeeps, RegisterKeeps, SocketStepKeeps, ProcessStepKeeps DEF Next

LEMMA AlwaysIInv == Spec => []IInv
BY InitIInv, NextIInv, PTL DEF Spec

(* The table, the processes and txgate's notes keep their types.           *)
THEOREM TypeCorrect == Spec => []TypeOK
<1>1. IInv => TypeOK
  BY DEF IInv
<1>2. QED BY <1>1, AlwaysIInv, PTL

(* The unlocked gap between the copy of the table, the probes and the      *)
(* clean-up is harmless, with any table and however pids are reused: only  *)
(* txgate releases slots, so a slot it found dead stays in use and cannot  *)
(* be taken until it has been released.                                    *)
THEOREM SlotsAreOwned == Spec => []RunningWshOwnsSlot
<1>1. IInv => RunningWshOwnsSlot
  BY DEF IInv, SlotInv
<1>2. QED BY <1>1, AlwaysIInv, PTL

(* However often closes are counted twice, the count of a running WSH      *)
(* never exceeds the connections it has.                                   *)
THEOREM CountsAreSafe == Spec => []CountNeverTooHigh
<1>1. IInv => CountNeverTooHigh
  <2>1. SUFFICES ASSUME IInv, NEW p \in Running
                 PROVE  tblWSH[wshIndex[p]].conn <= conns[p] - expired[p]
    BY DEF CountNeverTooHigh
  <2>2. /\ conns[p] \in Nat /\ expired[p] \in Nat /\ stray[p] \in Nat
        /\ tblWSH[wshIndex[p]].conn \in Int
    BY <2>1 DEF IInv, TypeOK, SlotInv, RunningWshOwnsSlot, Running, WshSlot
  <2>3. QED BY <2>1, <2>2 DEF IInv, CountBelow
<1>2. QED BY <1>1, AlwaysIInv, PTL

(* Both together, for any number of slots, WSHs and connections: a running *)
(* WSH is in the table, at its slot, and is not taken for fuller than it   *)
(* is, whatever txgate cleans up on old news meanwhile.                    *)
THEOREM TableIsKept == Spec => []TableKept
BY SlotsAreOwned, CountsAreSafe, PTL DEF TableKept

=============================================================================
