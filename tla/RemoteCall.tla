----------------------------- MODULE RemoteCall -----------------------------
(***************************************************************************)
(* What tpcall promises, whatever server answers and over whatever         *)
(* connection: a request is executed at most once, an answer is the answer *)
(* of an execution, "no entry" (TPENOENT) means that it was not and will   *)
(* not be executed, an error (TPESVCERR) that it will not be any more, and *)
(* only a time-out (TPETIME) leaves everything open.                       *)
(***************************************************************************)
EXTENDS Naturals

CONSTANT Call      \* the calls of all threads of a process

VARIABLES status,  \* where each call is
          times    \* how often a service has been executed for it

vars == <<status, times>>

Init == /\ status = [c \in Call |-> "unborn"]
        /\ times = [c \in Call |-> 0]

To(c, old, new) == status[c] = old /\ status' = [status EXCEPT ![c] = new]

Ask(c) == To(c, "unborn", "asked") /\ UNCHANGED times

\* A service may well begin after its caller has given up.
Execute(c) == /\ status[c] \in {"asked", "timeout"}
              /\ times[c] = 0
              /\ times' = [times EXCEPT ![c] = 1]
              /\ UNCHANGED status

Answer(c) == To(c, "asked", "answered") /\ times[c] = 1 /\ UNCHANGED times

NoEntry(c) == To(c, "asked", "noentry") /\ times[c] = 0 /\ UNCHANGED times

\* The service has failed, or the server could not even make its request.
Fail(c) == To(c, "asked", "failed") /\ UNCHANGED times

GiveUp(c) == To(c, "asked", "timeout") /\ UNCHANGED times

Next == \E c \in Call :
           Ask(c) \/ Execute(c) \/ Answer(c) \/ NoEntry(c) \/ Fail(c) \/ GiveUp(c)

Spec == Init /\ [][Next]_vars
=============================================================================
