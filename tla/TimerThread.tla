----------------------------- MODULE TimerThread -----------------------------
(***************************************************************************)
(* LWPR's timer: requests with the second they are due, in a list sorted   *)
(* each time round, and a Resource on which the thread waits, for the      *)
(* seconds that are left or, without a request, until it is notified.      *)
(***************************************************************************)
EXTENDS Integers, Sequences, SequencesExt

CONSTANTS Delay,           \* the seconds of AddTimerRequest
          TimerRequestMax, \* bound: requests
          TimeMax          \* bound: time goes further only to the end of a wait

ASSUME TimerAssumption == Delay \subseteq Nat /\ {TimerRequestMax, TimeMax} \subseteq Nat

VARIABLES time, list,      \* m_TimerRequestList
          timers,          \* requests so far
          untold,          \* those whose Notify is still to come
          tickets,         \* m_nResource
          timerAt,         \* where the thread is: "look", "enter", "wait" or "work"
          seconds,         \* what it waits for, Forever without a request
          deadline, woken, \* of pthread_cond_timedwait
          ran              \* the requests carried out

timerVars == <<time, list, timers, untold, tickets, timerAt, seconds, deadline, woken, ran>>
Forever == -1

TimerInit ==
    /\ time = 0 /\ list = <<>> /\ timers = 0 /\ untold = 0 /\ tickets = 0
    /\ timerAt = "look" /\ seconds = Forever /\ deadline = Forever /\ woken = FALSE
    /\ ran = <<>>

Second ==
    /\ time < TimeMax \/ time < deadline
    /\ time' = time + 1
    /\ UNCHANGED <<list, timers, untold, tickets, timerAt, seconds, deadline, woken, ran>>

-----------------------------------------------------------------------------
(* Other threads.                                                          *)

AddTimerRequest ==
    /\ timers < TimerRequestMax /\ timers' = timers + 1
    /\ \E d \in Delay : list' = Append(list, [id |-> timers', nTimestamp |-> time + d])
    /\ untold' = untold + 1
    /\ UNCHANGED <<time, tickets, timerAt, seconds, deadline, woken, ran>>

(* A mistake: only a thread that waits is notified. *)
NotedIfWaiting == IF timerAt = "wait" THEN tickets + 1 ELSE tickets

Noted == tickets + 1

\* Resource::Notify.
NotifyTimer ==
    /\ untold > 0 /\ untold' = untold - 1
    /\ tickets' = Noted /\ woken' = (timerAt = "wait")
    /\ UNCHANGED <<time, list, timers, timerAt, seconds, deadline, ran>>

-----------------------------------------------------------------------------
(* The thread.                                                             *)

\* list::sort keeps the order of those that are due at the same time.
Before(r, s) == r.nTimestamp < s.nTimestamp \/ (r.nTimestamp = s.nTimestamp /\ r.id < s.id)
Sorted == CHOOSE s \in [DOMAIN list -> Range(list)] : \A i, j \in DOMAIN s : i < j => Before(s[i], s[j])

\* The first request is carried out if it is due, or waited for.
LookAtList ==
    /\ timerAt = "look"
    /\ IF Sorted = <<>> THEN timerAt' = "enter" /\ seconds' = Forever /\ UNCHANGED <<list, ran>>
       ELSE LET first == Head(Sorted) IN
            IF time >= first.nTimestamp
            THEN /\ timerAt' = "work" /\ list' = Tail(Sorted)
                 /\ ran' = Append(ran, first)
                 /\ UNCHANGED seconds
            ELSE /\ timerAt' = "enter" /\ list' = Sorted
                 /\ seconds' = first.nTimestamp - time /\ UNCHANGED ran
    /\ UNCHANGED <<time, timers, untold, tickets, deadline, woken>>

DoTimerRequest ==
    /\ timerAt = "work" /\ timerAt' = "look"
    /\ UNCHANGED <<time, list, timers, untold, tickets, seconds, deadline, woken, ran>>

\* Wait: the deadline is taken from the time it begins to sleep, each time round.
Sleeps ==
    /\ tickets = 0
    /\ timerAt' = "wait" /\ woken' = FALSE
    /\ deadline' = IF seconds = Forever THEN Forever ELSE time + seconds
    /\ UNCHANGED tickets

\* The only thread that waits takes every ticket.
TakesAll ==
    /\ tickets > 0 /\ tickets' = 0
    /\ timerAt' = "look" /\ deadline' = Forever /\ woken' = FALSE

BeginWait ==
    /\ timerAt = "enter" /\ (Sleeps \/ TakesAll)
    /\ UNCHANGED <<time, list, timers, untold, seconds, ran>>

\* pthread_cond_wait or timedwait has returned, notified.  (If it did so for no reason
\* the thread would wait the whole time again: left out.)
Awake ==
    /\ timerAt = "wait" /\ woken
    /\ Sleeps \/ TakesAll
    /\ UNCHANGED <<time, list, timers, untold, seconds, ran>>

\* ETIMEDOUT: the tickets stay as they are.
TimedOut ==
    /\ timerAt = "wait" /\ deadline # Forever /\ time >= deadline
    /\ timerAt' = "look" /\ deadline' = Forever /\ woken' = FALSE
    /\ UNCHANGED <<time, list, timers, untold, tickets, seconds, ran>>

TimerRuns == LookAtList \/ DoTimerRequest \/ BeginWait \/ Awake \/ TimedOut
TimerNext == Second \/ AddTimerRequest \/ NotifyTimer \/ TimerRuns
TimerSpec == TimerInit /\ [][TimerNext]_timerVars
TimerFairness == WF_timerVars(TimerRuns) /\ WF_timerVars(NotifyTimer) /\ WF_timerVars(Second)

-----------------------------------------------------------------------------
(* A request is carried out when its second has come, and before all that  *)
(* are due after it, in whatever order they were added.                    *)
Punctual ==
    [][\A r \in Range(list) :
          Len(ran') > Len(ran) => Last(ran').nTimestamp <= time /\ Last(ran').nTimestamp <= r.nTimestamp]_timerVars

(* Every request is carried out in the end, although the thread does not    *)
(* hold m_Mutex between its look at the list and its wait.                 *)
TimersRun ==
    \A n \in 1 .. TimerRequestMax :
        (\E r \in Range(list) : r.id = n) ~> (\E i \in DOMAIN ran : ran[i].id = n)

(* Each in its time, and each some time. *)
TimersKept == Punctual /\ TimersRun
=============================================================================
