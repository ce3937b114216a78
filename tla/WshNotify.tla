------------------------------ MODULE WshNotify ------------------------------
(***************************************************************************)
(* How a change of the board reaches the clients of every WSH of a gate:   *)
(* the housekeeping thread of each WSH compares the board's sequence       *)
(* number with the one it saw last (txgate/HousekeepingThread.cpp), woken  *)
(* by the threads that serve applications, by its own interval, or by the  *)
(* thread that waits for datagrams from other processes of the gate        *)
(* (txgate/WaitNotifyThread.cpp). SYNC changes the board too, and sends    *)
(* such datagrams (txgate/GateProxy.cpp).                                  *)
(*                                                                         *)
(* Resource::Notify counts, but the one thread that waits takes all that   *)
(* has been notified at once: resource says whether there is something.    *)
(* Datagrams that wait are read together, and stay until then: udp says    *)
(* whether there is one.                                                   *)
(***************************************************************************)
EXTENDS Integers

CONSTANTS
  Wsh,      \* the WSH processes of the gate
  ChangeMax \* bound: changes of the board

ASSUME ChangeAssumption == ChangeMax \in Nat

VARIABLES
  seq,      \* nSVCUpdateSeq in the board's header (its width does not matter here)
  saved,    \* m_nSVCUpdateSeq of each WSH
  handler,  \* where a thread of the WSH that serves applications is
  bySelf,   \* m_bWakeupSelf
  resource, \* m_nResource of the housekeeping thread is not 0
  keeper,   \* where the housekeeping thread is
  waiter,   \* where the WaitNotifyThread is
  udp,      \* a datagram waits at the WSH's port
  sync, syncSaved, \* where SYNC is, and its m_nSVCUpdateSeq
  told      \* history: the number when the WSH last told its clients to look

housekeeping == <<saved, bySelf, resource, keeper, waiter, udp>>
syncing == <<sync, syncSaved>>
vars == <<seq, handler, housekeeping, syncing, told>>

All(v) == [w \in Wsh |-> v]

Init ==
  /\ seq = 0
  /\ saved = All(0) /\ told = All(0)
  /\ handler = All("idle")
  /\ bySelf = All(FALSE) /\ resource = All(FALSE) /\ udp = All(FALSE)
  /\ keeper = All("wait") /\ waiter = All("select")
  /\ sync = "idle" /\ syncSaved = 0

Changed ==
  /\ seq < ChangeMax
  /\ seq' = seq + 1

-----------------------------------------------------------------------------
(* A thread that serves applications: RegisterApp, and DoClientAmountUpdate *)
(* for an application that has gone.                                       *)

Serve(w) ==
  /\ handler[w] \in {"idle", "changed"}
  /\ Changed
  /\ handler' = [handler EXCEPT ![w] = "changed"]
  /\ UNCHANGED <<housekeeping, syncing, told>>

(* Wakeup(true): the flag first ... *)
MarkSelf(w) ==
  /\ handler[w] = "changed"
  /\ bySelf' = [bySelf EXCEPT ![w] = TRUE]
  /\ handler' = [handler EXCEPT ![w] = "marked"]
  /\ UNCHANGED <<seq, saved, resource, keeper, waiter, udp, syncing, told>>

(* ... then the thread. *)
Notify(w) ==
  /\ handler[w] = "marked"
  /\ resource' = [resource EXCEPT ![w] = TRUE]
  /\ handler' = [handler EXCEPT ![w] = "idle"]
  /\ UNCHANGED <<seq, saved, bySelf, keeper, waiter, udp, syncing, told>>

-----------------------------------------------------------------------------
(* The housekeeping thread. *)

Keeper(w, from, to) == keeper[w] = from /\ keeper' = [keeper EXCEPT ![w] = to]

(* Wait(interval) ends, notified or not. *)
Wait(w) ==
  /\ Keeper(w, "wait", "awake")
  /\ resource' = [resource EXCEPT ![w] = FALSE]
  /\ UNCHANGED <<seq, handler, saved, bySelf, waiter, udp, syncing, told>>

(* Applications that have been silent too long lose their services.        *)
Expire(w) ==
  /\ Keeper(w, "awake", "awake")
  /\ Changed
  /\ UNCHANGED <<handler, saved, bySelf, resource, waiter, udp, syncing, told>>

(* A mistake: the number is saved when the round is over. *)
SavedAtTheEnd == "notify"
(* IsSvcUpdated saves the number it has compared. *)
SavedAt == "awake"

Save(w) == saved' = IF keeper[w] = SavedAt THEN [saved EXCEPT ![w] = seq] ELSE saved

IsSvcUpdated(w) ==
  /\ keeper[w] = "awake"
  /\ keeper' = [keeper EXCEPT ![w] = IF seq # saved[w] THEN "broadcast" ELSE "wait"]
  /\ Save(w)
  /\ UNCHANGED <<seq, handler, bySelf, resource, waiter, udp, syncing, told>>

(* BroadcastNotice: the clients will ask for the number from now on.       *)
BroadcastNotice(w) ==
  /\ Keeper(w, "broadcast", "notify")
  /\ told' = [told EXCEPT ![w] = seq]
  /\ UNCHANGED <<seq, handler, saved, bySelf, resource, waiter, udp, syncing>>

(* NotifyOtherWSH, if the flag says that this WSH was the cause.           *)
NotifyOtherWSH(w) ==
  /\ Keeper(w, "notify", "wait")
  /\ Save(w)
  /\ bySelf' = [bySelf EXCEPT ![w] = FALSE]
  /\ udp' = IF bySelf[w] THEN [v \in Wsh |-> v # w \/ udp[v]] ELSE udp
  /\ UNCHANGED <<seq, handler, resource, waiter, syncing, told>>

-----------------------------------------------------------------------------
(* The WaitNotifyThread: on a datagram, or after the interval, it wakes    *)
(* the housekeeping thread ...                                             *)
Select(w) ==
  /\ waiter[w] = "select"
  /\ resource' = [resource EXCEPT ![w] = TRUE]
  /\ waiter' = [waiter EXCEPT ![w] = IF udp[w] THEN "clear" ELSE "select"]
  /\ UNCHANGED <<seq, handler, saved, bySelf, keeper, udp, syncing, told>>

(* ... and only then reads what is there, which may be more by now.        *)
ClearUDPSocket(w) ==
  /\ waiter[w] = "clear"
  /\ udp' = [udp EXCEPT ![w] = FALSE]
  /\ waiter' = [waiter EXCEPT ![w] = "select"]
  /\ UNCHANGED <<seq, handler, saved, bySelf, resource, keeper, syncing, told>>

-----------------------------------------------------------------------------
(* SYNC: a gate is lost, and its services with it (ClearBB) ...            *)
SyncClears ==
  /\ sync = "idle" /\ seq < ChangeMax
  /\ seq' = seq + 1
  /\ UNCHANGED <<handler, housekeeping, syncing, told>>

(* ... or its board is copied, whether or not it differs (SynBB); then     *)
(* SYNC looks at the number ...                                            *)
SyncService ==
  /\ sync = "idle"
  /\ \/ seq < ChangeMax /\ seq' = seq + 1
     \/ UNCHANGED seq
  /\ sync' = "synced"
  /\ UNCHANGED <<handler, housekeeping, syncSaved, told>>

(* ... and tells every WSH of any change there has been.                   *)
SyncTells ==
  /\ sync = "synced"
  /\ sync' = "idle"
  /\ syncSaved' = seq
  /\ udp' = IF seq # syncSaved THEN All(TRUE) ELSE udp
  /\ UNCHANGED <<seq, handler, saved, bySelf, resource, keeper, waiter, told>>

Threads(w) ==
  \/ MarkSelf(w) \/ Notify(w)
  \/ Wait(w) \/ IsSvcUpdated(w) \/ BroadcastNotice(w) \/ NotifyOtherWSH(w)
  \/ Select(w) \/ ClearUDPSocket(w)

Next ==
  \/ \E w \in Wsh : Serve(w) \/ Expire(w) \/ Threads(w)
  \/ SyncClears \/ SyncService \/ SyncTells

Spec == Init /\ [][Next]_vars

(* The threads of a WSH run, and their intervals end. Nothing is said of   *)
(* applications and of SYNC.                                               *)
Fairness ==
  \A w \in Wsh :
    /\ WF_vars(MarkSelf(w)) /\ WF_vars(Notify(w))
    /\ WF_vars(Wait(w)) /\ WF_vars(IsSvcUpdated(w))
    /\ WF_vars(BroadcastNotice(w)) /\ WF_vars(NotifyOtherWSH(w))
    /\ WF_vars(Select(w)) /\ WF_vars(ClearUDPSocket(w))
LiveSpec == Spec /\ Fairness

-----------------------------------------------------------------------------

TypeOK ==
  /\ seq \in 0 .. ChangeMax /\ syncSaved \in 0 .. ChangeMax
  /\ saved \in [Wsh -> 0 .. ChangeMax] /\ told \in [Wsh -> 0 .. ChangeMax]
  /\ handler \in [Wsh -> {"idle", "changed", "marked"}]
  /\ bySelf \in [Wsh -> BOOLEAN] /\ resource \in [Wsh -> BOOLEAN]
  /\ udp \in [Wsh -> BOOLEAN]
  /\ keeper \in [Wsh -> {"wait", "awake", "broadcast", "notify"}]
  /\ waiter \in [Wsh -> {"select", "clear"}]
  /\ sync \in {"idle", "synced"}

(* A change the WSH has seen but not told its clients of is being told: a  *)
(* number is never taken for seen by a round that ends without a notice,   *)
(* whatever changes while the round is under way.                          *)
SeenIsTold ==
  \A w \in Wsh : saved[w] > told[w] => keeper[w] = "broadcast"

(* The clients of every WSH are told of every change in the end, although  *)
(* wake-ups are lost on the way: a datagram that comes between the wake-up *)
(* and the reading of the socket, a flag that is taken by another round.   *)
EveryWshTells == \A w \in Wsh : (told[w] # seq) ~> (told[w] = seq)

=============================================================================
