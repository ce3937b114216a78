------------------------------- MODULE WshPool -------------------------------
(***************************************************************************)
(* The processes of a gate: txgate forks the WSH processes that serve the  *)
(* applications and one SYNC process, watches them from its housekeeping   *)
(* loop, and kills them when it stops (txgate/txgate.cpp). The WSH half of *)
(* the bulletin board is how it knows them: every WSH registers a slot     *)
(* with its pid and counts its connections there (libtmb/BulletinBoard.cpp,*)
(* txgate/txwsh.cpp).                                                      *)
(*                                                                         *)
(* Calls on the board run under its semaphore and are one step each; the   *)
(* system calls between them are steps of their own. A pid is free as soon *)
(* as its process has ended, and may be given to a process that has        *)
(* nothing to do with the gate.                                            *)
(***************************************************************************)
EXTENDS Integers, FiniteSets, FiniteSetsExt

CONSTANTS
  Pid,       \* process ids
  WshMax,    \* tuxone.gate.wsh.max, the length of the WSH table
  WshMin,    \* tuxone.gate.wsh.min, the WSHs forked at the start
  AccessMax, \* tuxone.gate.wsh.accessMax, the connections a WSH accepts (taken
             \* to be below FD_SETSIZE, where txgate uses it as it is)
  LowWater,  \* tuxone.gate.concurrent.lowWater
  ConnMax,   \* bound: connections a WSH has open at once
  DriftMax,  \* bound: how far the count of a WSH is below its connections
  CrashMax,  \* bound: how many WSH and SYNC processes end by themselves
  ForeignMax \* bound: how many unrelated processes take a free pid

ASSUME PoolAssumption ==
  /\ WshMax \in Nat \ {0} /\ WshMin \in Nat \ {0}
  /\ AccessMax \in Nat \ {0} /\ LowWater \in Nat \ {0}
  /\ ConnMax \in Nat /\ DriftMax \in Nat /\ CrashMax \in Nat /\ ForeignMax \in Nat

Index  == 0 .. WshMax - 1
NoPid  == -1
ASSUME NoPidAssumption == NoPid \notin Pid

VARIABLES
  tblWSH,   \* the WSH table of the board
  proc,     \* what runs under each pid
  wshIndex, \* m_nWSHIndex of each process
  conns,    \* the connections each WSH has open
  expired,  \* of these, the ones its housekeeping thread has given up: already
            \* counted as closed, the order to close them still in the pipe
  stray,    \* orders in the pipe for connections that were closed meanwhile
  main,     \* where txgate is
  forks,    \* how many WSHs DoDaemon still has to fork at the start
  wshs,     \* the WSHs txgate copied from the table and has not looked at yet
  exited,   \* the slots of those it found dead
  syncPID,  \* g_nSyncPID
  crashes, foreigns \* spent of CrashMax and ForeignMax

vars == <<tblWSH, proc, wshIndex, conns, expired, stray, main, forks, wshs, exited,
          syncPID, crashes, foreigns>>
sockets == <<conns, expired, stray>>
table   == <<tblWSH, wshIndex, sockets>>
daemon  == <<main, forks, wshs, exited, syncPID>>
budgets == <<crashes, foreigns>>

WshSlot == [pid : Pid \cup {NoPid}, conn : Int, state : {"IDLE", "INUSE"}]
WshRef  == [index : Index, pid : Pid]
Running == {p \in Pid : proc[p] = "wsh"}

Init ==
  /\ tblWSH = [i \in Index |-> [pid |-> NoPid, conn |-> 0, state |-> "IDLE"]]
  /\ proc = [p \in Pid |-> "none"]
  /\ wshIndex = [p \in Pid |-> -1]
  /\ conns = [p \in Pid |-> 0] /\ expired = conns /\ stray = conns
  /\ main = "start"
  /\ forks = WshMin
  /\ wshs = {} /\ exited = {}
  /\ syncPID = NoPid
  /\ crashes = 0 /\ foreigns = 0

-----------------------------------------------------------------------------
(* The board. *)

(* GetAllWSH: the slots in use. *)
GetAllWSH == {[index |-> i, pid |-> tblWSH[i].pid] : i \in {k \in Index : tblWSH[k].state = "INUSE"}}

(* A mistake: a slot whose process is dead is as good as an idle one.      *)
VacantOrDead(i) ==
  tblWSH[i].state = "IDLE" \/ tblWSH[i].pid \in {p \in Pid : proc[p] = "none"}
Vacant(i) == tblWSH[i].state = "IDLE"

SlotOf(i, p) == [pid |-> p, conn |-> 0, state |-> "INUSE"]

(* A forked WSH registers: the first idle slot becomes its own.            *)
RegisterWSH(p) ==
  /\ proc[p] = "forked" /\ main # "gone"
  /\ \E i \in Index :
       /\ Vacant(i)
       /\ \A k \in Index : k < i => ~Vacant(k)
       /\ tblWSH' = [tblWSH EXCEPT ![i] = SlotOf(i, p)]
       /\ wshIndex' = [wshIndex EXCEPT ![p] = i]
  /\ proc' = [proc EXCEPT ![p] = "wsh"]
  /\ UNCHANGED <<sockets, daemon, budgets>>

(* No slot, or no board any more (its semaphore is removed, and Lock       *)
(* throws): the new WSH exits.                                             *)
RegisterFails(p) ==
  /\ proc[p] = "forked"
  /\ main = "gone" \/ \A i \in Index : ~Vacant(i)
  /\ proc' = [proc EXCEPT ![p] = "none"]
  /\ UNCHANGED <<table, daemon, budgets>>

(* UpdateWSHConnectionTotal adds d to the count in the slot, as MTNetServer *)
(* does to its m_nTotalClient; dc, de and ds are what happens to the       *)
(* sockets.                                                                *)
Count(p, d, dc, de, ds) ==
  /\ tblWSH' = [tblWSH EXCEPT ![wshIndex[p]] =
                  [pid |-> @.pid, conn |-> @.conn + d, state |-> @.state]]
  /\ conns' = [conns EXCEPT ![p] = @ + dc]
  /\ expired' = [expired EXCEPT ![p] = @ + de]
  /\ stray' = [stray EXCEPT ![p] = @ + ds]
  /\ UNCHANGED <<proc, wshIndex, daemon, budgets>>

(* The selecting thread accepts a connection, and counts it. *)
Connect(p) ==
  /\ p \in Running
  /\ tblWSH[wshIndex[p]].conn < AccessMax /\ conns[p] < ConnMax
  /\ Count(p, 1, 1, 0, 0)

(* A thread finds the peer gone, and closes: DestroySocketInternal. *)
Disconnect(p) == p \in Running /\ conns[p] > expired[p] /\ Count(p, -1, -1, 0, 0)

(* The housekeeping thread gives an application up: DestroySocket writes   *)
(* the order to close into the pipe and counts.                            *)
Expire(p) == p \in Running /\ conns[p] > expired[p] /\ Count(p, -1, 0, 1, 0)

(* The selecting thread reads the order and closes. *)
CloseExpired(p) == p \in Running /\ expired[p] > 0 /\ Count(p, 0, -1, -1, 0)

(* A thread that is serving the connection finds the peer gone before the  *)
(* order is read: it closes, and counts a second time.                     *)
DisconnectExpired(p) ==
  /\ p \in Running /\ expired[p] > 0
  /\ conns[p] - expired[p] - tblWSH[wshIndex[p]].conn < DriftMax
  /\ Count(p, -1, -1, -1, 1)

(* The order then finds the descriptor free, or closes whatever connection *)
(* has it now: one that is idle, uncounted; one that a thread is serving,  *)
(* which that thread may count; or one given up in its turn.               *)
CloseStray(p) ==
  /\ p \in Running /\ stray[p] > 0
  /\ \/ Count(p, 0, 0, 0, -1)
     \/ conns[p] > expired[p] /\ \E d \in {0, -1} : Count(p, d, -1, 0, -1)
     \/ expired[p] > 0 /\ Count(p, 0, -1, -1, 0)

-----------------------------------------------------------------------------
(* Processes end: nothing calls UnregisterWSH, so a WSH that stops for any *)
(* reason leaves its slot in use.                                          *)

Ended(P) ==
  /\ proc' = [p \in Pid |-> IF p \in P THEN "none" ELSE proc[p]]
  /\ conns' = [p \in Pid |-> IF p \in P THEN 0 ELSE conns[p]]
  /\ expired' = [p \in Pid |-> IF p \in P THEN 0 ELSE expired[p]]
  /\ stray' = [p \in Pid |-> IF p \in P THEN 0 ELSE stray[p]]

Crash(p) ==
  /\ proc[p] \in {"forked", "wsh", "sync"} /\ crashes < CrashMax
  /\ Ended({p})
  /\ crashes' = crashes + 1
  /\ UNCHANGED <<tblWSH, wshIndex, daemon, foreigns>>

Foreign(p) ==
  /\ \/ /\ proc[p] = "none" /\ foreigns < ForeignMax
        /\ proc' = [proc EXCEPT ![p] = "foreign"]
        /\ foreigns' = foreigns + 1
     \/ /\ proc[p] = "foreign"
        /\ proc' = [proc EXCEPT ![p] = "none"]
        /\ UNCHANGED foreigns
  /\ UNCHANGED <<table, daemon, crashes>>

-----------------------------------------------------------------------------
(* txgate. *)

Unused == {p \in Pid : proc[p] = "none"}

(* CreateWSH: the child starts with its parent's m_nWSHIndex, which is -1. *)
CreateWSH ==
  \/ Unused = {} /\ UNCHANGED <<proc, wshIndex>>
  \/ \E p \in Unused :
       /\ proc' = [proc EXCEPT ![p] = "forked"]
       /\ wshIndex' = [wshIndex EXCEPT ![p] = -1]

CreateSYNC ==
  \/ Unused = {} /\ syncPID' = NoPid /\ UNCHANGED proc
  \/ \E p \in Unused : syncPID' = p /\ proc' = [proc EXCEPT ![p] = "sync"]

(* DoDaemon forks tuxone.gate.wsh.min WSHs, then SYNC. *)
ForkFirst ==
  /\ main = "start" /\ forks > 0
  /\ CreateWSH
  /\ forks' = forks - 1
  /\ UNCHANGED <<tblWSH, sockets, main, wshs, exited, syncPID, budgets>>

ForkSync ==
  /\ main = "start" /\ forks = 0
  /\ CreateSYNC
  /\ main' = "select"
  /\ UNCHANGED <<table, forks, wshs, exited, budgets>>

(* DoHousekeeping, on a UDP message or after the interval. SIGCHLD is      *)
(* ignored, so the kernel keeps no ended child for waitpid to return: the  *)
(* branch that creates SYNC again and CleanupWSHByPID have nothing to do.  *)
(* What remains is to copy the table ...                                   *)
Housekeep ==
  /\ main = "select"
  /\ wshs' = GetAllWSH
  /\ exited' = {}
  /\ main' = "probe"
  /\ UNCHANGED <<table, proc, forks, syncPID, budgets>>

IsProcessExist(p) == proc[p] # "none"

(* ... to ask of each pid in it whether there is such a process ...        *)
Probe ==
  /\ main = "probe"
  /\ \E w \in wshs :
       /\ \A v \in wshs : w.index <= v.index
       /\ exited' = IF IsProcessExist(w.pid) THEN exited ELSE exited \cup {w.index}
       /\ wshs' = wshs \ {w}
  /\ UNCHANGED <<table, proc, main, forks, syncPID, budgets>>

(* A mistake: a slot with connections is spared.                           *)
ReleasedIfUnused(slot) ==
  IF slot.conn > 0 THEN slot ELSE [pid |-> slot.pid, conn |-> slot.conn, state |-> "IDLE"]
Released(slot) == [pid |-> slot.pid, conn |-> slot.conn, state |-> "IDLE"]

(* ... to release the slots of those that are gone ...                     *)
CleanupWSHByIndex ==
  /\ main = "probe" /\ wshs = {}
  /\ tblWSH' = [i \in Index |-> IF i \in exited THEN Released(tblWSH[i]) ELSE tblWSH[i]]
  /\ exited' = {}
  /\ main' = "count"
  /\ UNCHANGED <<wshIndex, sockets, proc, forks, wshs, syncPID, budgets>>

ConnectionTotal ==
  MapThenSumSet(LAMBDA i : tblWSH[i].conn, {i \in Index : tblWSH[i].state = "INUSE"})

(* A mistake: without a WSH there is nothing to compute a reserve from.    *)
NeedWSHIfAny(count, total) ==
  count * AccessMax - total <= LowWater /\ count \in 1 .. WshMax - 1
NeedWSH(count, total) ==
  count * AccessMax - total <= LowWater /\ count < WshMax

(* ... and to fork one more WSH if the connections left are few. (Above    *)
(* the high water mark nothing is done.)                                   *)
Balance ==
  /\ main = "count"
  /\ IF NeedWSH(Cardinality(GetAllWSH), ConnectionTotal)
       THEN CreateWSH ELSE UNCHANGED <<proc, wshIndex>>
  /\ main' = "select"
  /\ UNCHANGED <<tblWSH, sockets, forks, wshs, exited, syncPID, budgets>>

(* A signal sets g_bTerminated, which the loops of DoDaemon look at; the   *)
(* board is read for the WSHs to kill ...                                  *)
Terminate ==
  /\ main = "select"
  /\ wshs' = GetAllWSH
  /\ main' = "kill"
  /\ UNCHANGED <<table, proc, forks, exited, syncPID, budgets>>

(* ... they and SYNC get SIGKILL, by pid, which a process of another user  *)
(* that has the pid by now survives ...                                    *)
KillAll ==
  /\ main = "kill"
  /\ \E spared \in SUBSET {p \in Pid : proc[p] = "foreign"} :
       Ended(({w.pid : w \in wshs} \cup {syncPID}) \ spared)
  /\ wshs' = {}
  /\ main' = "destroy"
  /\ UNCHANGED <<tblWSH, wshIndex, forks, exited, syncPID, budgets>>

(* ... and the board's semaphore and segment are removed.                  *)
Destroy ==
  /\ main = "destroy"
  /\ main' = "gone"
  /\ UNCHANGED <<table, proc, forks, wshs, exited, syncPID, budgets>>

TxGate ==
  \/ ForkFirst \/ ForkSync
  \/ Housekeep \/ Probe \/ CleanupWSHByIndex \/ Balance
  \/ KillAll \/ Destroy

Next ==
  \/ TxGate \/ Terminate
  \/ \E p \in Pid :
       \/ RegisterWSH(p) \/ RegisterFails(p)
       \/ Connect(p) \/ Disconnect(p)
       \/ Expire(p) \/ CloseExpired(p) \/ DisconnectExpired(p) \/ CloseStray(p)
       \/ Crash(p) \/ Foreign(p)

Spec == Init /\ [][Next]_vars

(* txgate's loop and a forked process keep running while they are alive.   *)
Fairness ==
  /\ WF_vars(TxGate)
  /\ \A p \in Pid : WF_vars(RegisterWSH(p) \/ RegisterFails(p))
LiveSpec == Spec /\ Fairness

-----------------------------------------------------------------------------

TypeOK ==
  /\ tblWSH \in [Index -> WshSlot]
  /\ proc \in [Pid -> {"none", "forked", "wsh", "sync", "foreign"}]
  /\ wshIndex \in [Pid -> Index \cup {-1}]
  /\ conns \in [Pid -> Nat] /\ expired \in [Pid -> Nat] /\ stray \in [Pid -> Nat]
  /\ main \in {"start", "select", "probe", "count", "kill", "destroy", "gone"}
  /\ forks \in 0 .. WshMin
  /\ wshs \in SUBSET WshRef
  /\ exited \in SUBSET Index
  /\ syncPID \in Pid \cup {NoPid}
  /\ crashes \in 0 .. CrashMax /\ foreigns \in 0 .. ForeignMax

(* Housekeeping never takes the slot of a WSH that is running: between the *)
(* copy of the table, the probes and the clean-up other processes end,     *)
(* register and are given the same pids again, and yet a slot condemned on *)
(* old news is never one that has a new owner.                             *)
RunningWshOwnsSlot ==
  \A p \in Running :
    /\ wshIndex[p] \in Index
    /\ tblWSH[wshIndex[p]].state = "INUSE" /\ tblWSH[wshIndex[p]].pid = p

(* The count in the slot of a running WSH, from which txgate computes the  *)
(* reserve, is never above the connections it really has: txgate forks too *)
(* late at worst, never because of connections that do not exist.          *)
CountNeverTooHigh ==
  \A p \in Running : tblWSH[wshIndex[p]].conn <= conns[p] - expired[p]

(* The table says of the running WSHs what is so: both of these.           *)
TableKept == RunningWshOwnsSlot /\ CountNeverTooHigh

Stopping == main \in {"kill", "destroy", "gone"}

(* A dead WSH's slot is released in the end, unless its pid is in use by   *)
(* some other process by then.                                             *)
DeadSlotReleased ==
  \A i \in Index :
    (tblWSH[i].state = "INUSE" /\ ~IsProcessExist(tblWSH[i].pid))
      ~> (tblWSH[i].state = "IDLE" \/ IsProcessExist(tblWSH[i].pid) \/ Stopping)

(* The housekeeping only knows the pid: a foreign process that has it, or  *)
(* SYNC, passes for the WSH.                                               *)
TakenForWsh ==
  \E i \in Index : tblWSH[i].state = "INUSE" /\ proc[tblWSH[i].pid] \in {"foreign", "sync"}

(* After any crashes the gate serves again: a WSH runs, forked and         *)
(* registered anew if need be, or a process that is not a WSH is taken for *)
(* one.                                                                    *)
ServiceRestored == (Running = {}) ~> (Running # {} \/ Stopping \/ TakenForWsh)

=============================================================================
