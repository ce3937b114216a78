------------------------------ MODULE Shutdown ------------------------------
(***************************************************************************)
(* The tools of the administrator: tmshutdown stops the gates of a host    *)
(* one after the other and removes what is left of them, tmadmin shows the *)
(* services on a bulletin board.  They find the boards by the magic code   *)
(* at the beginning of a segment of shared memory, and a gate by the pid   *)
(* in the header there, which may be another's by the time it is used.     *)
(* What txgate does with its processes is module WshPool.                  *)
(***************************************************************************)
EXTENDS Integers, Sequences, FiniteSets

CONSTANTS HostPid,  \* process ids
          Board,    \* ids of segments of shared memory, in the order they are given
          WaitMax,  \* MAX_WAIT_TIMES
          OtherMax  \* bound: processes that have nothing to do with a gate

ASSUME ShutdownAssumption ==
    Board \subseteq Nat /\ IsFiniteSet(Board) /\ WaitMax \in Nat \ {0} /\ OtherMax \in Nat

VARIABLES hostProc,     \* what runs under each pid: "none", "gate" or "other"
          gateBoard,    \* the board that the gate with a pid has made
          nGatePID,     \* in the header of each board
          terminated,   \* gates with g_bTerminated
          segment,      \* "none", "created", "header", "up"; "destroyed" by its gate, or "removed"
          sem,          \* boards of which the semaphore exists
          others,       \* spent of OtherMax
          tm,           \* where tmshutdown is
          suppressed,   \* -y
          headers,      \* the gates it has still to stop: [id, nGatePID, nSEMID]
          half,         \* headers that it copied before nSEMID was there
          foundGates,   \* all the gates it found, without those the administrator has spared
          polls,        \* how often it has waited
          admin, chosen,\* where tmadmin is; the board it is attached to
          adminSem,     \* m_nSEMID is that of the board
          shown         \* how the segment was when it last showed a board

toolsVars == <<hostProc, gateBoard, nGatePID, terminated, segment, sem, others,
               tm, suppressed, headers, half, foundGates, polls, admin, chosen, adminSem, shown>>
processes == <<hostProc, gateBoard, nGatePID, terminated, others>>
boards == <<segment, sem>>
tmshutdown == <<tm, suppressed, headers, half, foundGates, polls>>
tmadmin == <<admin, chosen, adminSem, shown>>
NoBoard == -1
NoProcess == -1

ToolsInit ==
    /\ hostProc = [p \in HostPid |-> "none"] /\ gateBoard = [p \in HostPid |-> NoBoard]
    /\ nGatePID = [b \in Board |-> NoProcess]
    /\ terminated = {} /\ others = 0
    /\ segment = [b \in Board |-> "none"] /\ sem = {}
    /\ tm = "start" /\ suppressed \in BOOLEAN
    /\ headers = <<>> /\ half = {} /\ foundGates = {} /\ polls = 0
    /\ admin = "start" /\ chosen = NoBoard /\ adminSem = FALSE /\ shown = "none"

SegmentGone(b) == segment[b] \in {"destroyed", "removed"}
ProcessExists(p) == hostProc[p] # "none"
GateWith(b) == {p \in HostPid : hostProc[p] = "gate" /\ gateBoard[p] = b}

-----------------------------------------------------------------------------
(* txgate and the rest of the host.                                        *)

\* BulletinBoard::Create.
Create(p, b) ==
    /\ hostProc[p] = "none" /\ segment[b] = "none" /\ \A c \in Board : c < b => segment[c] # "none"
    /\ hostProc' = [hostProc EXCEPT ![p] = "gate"] /\ gateBoard' = [gateBoard EXCEPT ![p] = b]
    /\ nGatePID' = [nGatePID EXCEPT ![b] = p]
    /\ segment' = [segment EXCEPT ![b] = "created"] /\ sem' = sem \cup {b}
    /\ UNCHANGED <<terminated, others, tmshutdown, tmadmin>>

\* SetHeader: what txgate has filled in, nSEMID not being among it; and then nSEMID.
SetHeader(p) ==
    /\ hostProc[p] = "gate"
    /\ LET b == gateBoard[p] IN
          \/ segment[b] = "created" /\ segment' = [segment EXCEPT ![b] = "header"]
          \/ segment[b] = "header" /\ segment' = [segment EXCEPT ![b] = "up"]
    /\ UNCHANGED <<processes, sem, tmshutdown, tmadmin>>

\* BulletinBoard::Destroy, and the end of the process.
DestroyBoard(p) ==
    /\ hostProc[p] = "gate" /\ p \in terminated
    /\ LET b == gateBoard[p] IN
          \/ /\ segment[b] = "up" /\ segment' = [segment EXCEPT ![b] = "destroyed"]
             /\ sem' = sem \ {b} /\ UNCHANGED processes
          \/ /\ SegmentGone(b) /\ UNCHANGED boards
             /\ hostProc' = [hostProc EXCEPT ![p] = "none"] /\ terminated' = terminated \ {p}
             /\ UNCHANGED <<gateBoard, nGatePID, others>>
    /\ UNCHANGED <<tmshutdown, tmadmin>>

\* A gate crashes, or the other process ends.
Ends(p) ==
    /\ hostProc[p] # "none" /\ hostProc' = [hostProc EXCEPT ![p] = "none"] /\ terminated' = terminated \ {p}
    /\ UNCHANGED <<gateBoard, nGatePID, others, boards, tmshutdown, tmadmin>>

OtherBegins(p) ==
    /\ hostProc[p] = "none" /\ others < OtherMax /\ others' = others + 1
    /\ hostProc' = [hostProc EXCEPT ![p] = "other"]
    /\ UNCHANGED <<gateBoard, nGatePID, terminated, boards, tmshutdown, tmadmin>>

-----------------------------------------------------------------------------
(* tmshutdown.                                                             *)

Header(b) == [id |-> b, nGatePID |-> nGatePID[b]]
\* A segment that is gone can be attached as long as a WSH has it.
Attachable == {{b \in Board : segment[b] \in {"header", "up"}} \cup kept : kept \in SUBSET {b \in Board : SegmentGone(b)}}

\* The ids of S in the order they are given.
InOrder(S) == {ids \in [1 .. Cardinality(S) -> S] :
                  /\ \A i, j \in DOMAIN ids : i < j => ids[i] < ids[j]
                  /\ \A b \in S : \E i \in DOMAIN ids : ids[i] = b}

\* FetchGateIPCID: a copy of each header.
FetchGateIPCID ==
    /\ tm = "start" /\ tm' = "next" /\ foundGates' \in Attachable
    /\ \E ids \in InOrder(foundGates') : headers' = [i \in DOMAIN ids |-> Header(ids[i])]
    /\ half' = {b \in Board : segment[b] = "header"}
    /\ UNCHANGED <<processes, boards, suppressed, polls, tmadmin>>

This == Head(headers)
To(place) == tm' = place /\ UNCHANGED <<suppressed, headers, half>>
NextGate == tm' = "next" /\ headers' = Tail(headers) /\ UNCHANGED <<suppressed, half>>

\* With -y, or for a gate that is dead, it does not ask.
Consider ==
    /\ tm = "next"
    /\ To(IF headers = <<>> THEN "done"
          ELSE IF suppressed \/ ~ProcessExists(This.nGatePID) THEN "term" ELSE "ask")
    /\ UNCHANGED <<processes, boards, foundGates, polls, tmadmin>>

\* It asks until the answer is one of the eight.
Ask ==
    /\ tm = "ask"
    /\ \/ To("term") /\ UNCHANGED foundGates
       \/ NextGate /\ foundGates' = foundGates \ {This.id}
    /\ UNCHANGED <<processes, boards, polls, tmadmin>>

\* SIGTERM: a gate stops when it comes to look; another process ends, or goes on.
SendTerm ==
    /\ tm = "term" /\ To("wait") /\ polls' = 0
    /\ LET p == This.nGatePID IN
          \/ hostProc[p] = "gate" /\ terminated' = terminated \cup {p} /\ UNCHANGED hostProc
          \/ hostProc[p] = "other" /\ hostProc' = [hostProc EXCEPT ![p] = "none"] /\ UNCHANGED terminated
          \/ hostProc[p] # "gate" /\ UNCHANGED <<hostProc, terminated>>
    /\ UNCHANGED <<gateBoard, nGatePID, others, boards, foundGates, tmadmin>>

(* A mistake: who is still there after the wait is left alone. *)
NotForced == "remove"

Forced == "kill"

\* Up to MAX_WAIT_TIMES looks, a second apart.
Poll ==
    /\ tm = "wait"
    /\ IF ~ProcessExists(This.nGatePID) THEN To("remove") /\ UNCHANGED polls
       ELSE IF polls < WaitMax THEN To("wait") /\ polls' = polls + 1
       ELSE To(Forced) /\ UNCHANGED polls
    /\ UNCHANGED <<processes, boards, foundGates, tmadmin>>

\* SIGKILL, to whoever has the pid.
Kill ==
    /\ tm = "kill" /\ To("remove")
    /\ hostProc' = [hostProc EXCEPT ![This.nGatePID] = "none"] /\ terminated' = terminated \ {This.nGatePID}
    /\ UNCHANGED <<gateBoard, nGatePID, others, boards, foundGates, polls, tmadmin>>

SemOf(b) == IF b \in half THEN {} ELSE {b}

\* ipcrm -m -s: what txgate has removed itself gives an error that nobody sees.
RemoveIPC ==
    /\ tm = "remove" /\ NextGate
    /\ segment' = [segment EXCEPT ![This.id] = IF @ = "destroyed" THEN @ ELSE "removed"]
    /\ sem' = sem \ SemOf(This.id)
    /\ UNCHANGED <<processes, foundGates, polls, tmadmin>>

-----------------------------------------------------------------------------
(* tmadmin.                                                                *)

\* The administrator takes one of those that are there, or there is none.
Choose ==
    /\ admin = "start"
    /\ \E ids \in Attachable :
          \/ ids = {} /\ admin' = "ended" /\ UNCHANGED chosen
          \/ admin' = "chosen" /\ chosen' \in ids
    /\ UNCHANGED <<processes, boards, tmshutdown, adminSem, shown>>

\* Mount throws when the segment is gone and nobody has it.  nSEMID is in the
\* header from then on.
AttachBoard ==
    /\ admin = "chosen"
    /\ \/ SegmentGone(chosen) /\ admin' = "ended" /\ UNCHANGED adminSem
       \/ admin' = "attached" /\ adminSem' = (segment[chosen] # "header")
    /\ UNCHANGED <<processes, boards, tmshutdown, chosen, shown>>

Locks == adminSem /\ chosen \in sem

\* bbs: GetBBStream, under the semaphore.  An exception ends the program.
Bbs ==
    /\ admin = "attached"
    /\ IF Locks THEN shown' = segment[chosen] /\ UNCHANGED admin
       ELSE admin' = "ended" /\ UNCHANGED shown
    /\ UNCHANGED <<processes, boards, tmshutdown, chosen, adminSem>>

Quit ==
    /\ admin = "attached" /\ admin' = "ended"
    /\ UNCHANGED <<processes, boards, tmshutdown, chosen, adminSem, shown>>

TmshutdownRuns == FetchGateIPCID \/ Consider \/ Ask \/ SendTerm \/ Poll \/ Kill \/ RemoveIPC
TmadminRuns == Choose \/ AttachBoard \/ Bbs \/ Quit
ToolsNext ==
    \/ TmshutdownRuns \/ TmadminRuns
    \/ \E p \in HostPid : SetHeader(p) \/ DestroyBoard(p) \/ Ends(p) \/ OtherBegins(p) \/ \E b \in Board : Create(p, b)
ToolsSpec == ToolsInit /\ [][ToolsNext]_toolsVars

-----------------------------------------------------------------------------
(* The board of a gate is not taken away beneath it: when tmshutdown has   *)
(* removed it, the gate has ended, although its pid may be another gate's. *)
GateGoneFirst == \A b \in Board : segment[b] = "removed" => GateWith(b) = {}

(* Of the gates it found, those that the administrator did not spare leave *)
(* nothing behind: no segment and no semaphore, unless tmshutdown read a   *)
(* header while it was being written.                                      *)
NothingLeft ==
    tm = "done" =>
        \A b \in foundGates : SegmentGone(b) /\ (b \in sem => b \in half)

(* tmadmin shows no board that has been removed, although it stays         *)
(* attached to the segment: the semaphore has gone with it.                *)
ShownStands == shown \in {"destroyed", "removed"} => half # {}

(* What tmshutdown and tmadmin never do, whatever becomes of the gates      *)
(* while they run: of the three above.                                     *)
ToolsSafe == GateGoneFirst /\ NothingLeft /\ ShownStands
=============================================================================
