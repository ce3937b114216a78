---------------------------- MODULE BulletinBoard ----------------------------
(***************************************************************************)
(* The service half of the bulletin board: the table of service slots and  *)
(* the update sequence number that a txgate keeps in shared memory         *)
(* (libtmb/BulletinBoard.cpp), and the clients that remember what they     *)
(* last read from it together with the sequence number they read.          *)
(*                                                                         *)
(* Every operation runs under the board's semaphore (Synchronized          *)
(* syn(m_nSEMID)) and is one action; IPCSem.tla is about that semaphore.   *)
(***************************************************************************)
EXTENDS Integers, FiniteSets

CONSTANTS
  SvcLen,  \* m_tblSVCLength: number of service slots
  GateLen, \* number of other gates this gate synchronises with
  SeqMod,  \* nSVCUpdateSeq is a UINT32: 2^32 in the program, small for TLC
  Name,    \* service names a server registers
  Addr,    \* server addresses
  Client,  \* processes that read the board and remember what they read
  NoName,  \* the zeroed strSvcName of a slot never used
  NoAddr   \* the zeroed tServerAddr of a slot never used

ASSUME SvcLenAssumption == SvcLen \in Nat
ASSUME GateLenAssumption == GateLen \in Nat
ASSUME SeqModAssumption == SeqMod \in Nat /\ SeqMod > 1
ASSUME BlankAssumption == NoName \notin Name /\ NoAddr \notin Addr

Slots == 0 .. SvcLen - 1
Gate  == 0 .. GateLen - 1
SELF  == -1                        \* BBSVC_ENTITY_BELONG_TO_SELF
SlotState == {"IDLE", "INUSE", "ISOLATED"}

Service == [name : Name, addr : Addr]
Slot == [name : Name \cup {NoName}, addr : Addr \cup {NoAddr},
         belongto : Gate \cup {0, SELF}, state : SlotState]
Entry == [owner : Gate \cup {0, SELF}, name : Name \cup {NoName}, addr : Addr \cup {NoAddr}]

VARIABLES
  tblSVC,        \* the service table
  nSVCUpdateSeq, \* the update sequence number in the board's header
  remembered,    \* what each client read last: sequence number, names, entries
  lag            \* history: board updates since that read, counted up to SeqMod

vars == <<tblSVC, nSVCUpdateSeq, remembered, lag>>

Busy(tbl) == {i \in Slots : tbl[i].state # "IDLE"}
Holds(slot, owner, svc) ==
  slot.belongto = owner /\ slot.name = svc.name /\ slot.addr = svc.addr

InUse(owner, svc) ==
  [name |-> svc.name, addr |-> svc.addr, belongto |-> owner, state |-> "INUSE"]
Freed(slot) == [slot EXCEPT !.state = "IDLE"]

EntryOf(slot) ==
  [owner |-> slot.belongto, name |-> slot.name, addr |-> slot.addr]

(* The entries GetAllSVC copies out for a list of names. *)
Lookup(tbl, names) ==
  {EntryOf(tbl[i]) : i \in {k \in Slots : tbl[k].state = "INUSE" /\ tbl[k].name \in names}}

(* A fresh shared memory segment is zeroed: nBelongto reads 0, state IDLE. *)
Init ==
  /\ tblSVC = [i \in Slots |->
                 [name |-> NoName, addr |-> NoAddr, belongto |-> 0, state |-> "IDLE"]]
  /\ nSVCUpdateSeq = 0
  /\ remembered = [c \in Client |-> [seq |-> 0, names |-> {}, view |-> {}]]
  /\ lag = [c \in Client |-> 0]

(* Mistakes a change here could make: the number grows past its width, or  *)
(* sticks at its largest value.                                            *)
SeqAfterUnbounded(s) == s + 1
SeqAfterSaturating(s) == IF s = SeqMod - 1 THEN s ELSE s + 1

(* nSVCUpdateSeq++ on a UINT32.                                            *)
SeqAfter(s) == IF s = SeqMod - 1 THEN 0 ELSE s + 1

(* nSVCUpdateSeq++ when the operation found something to change. *)
Announce(updated) ==
  /\ nSVCUpdateSeq' = IF updated THEN SeqAfter(nSVCUpdateSeq) ELSE nSVCUpdateSeq
  /\ lag' = [c \in Client |->
               IF updated /\ lag[c] < SeqMod THEN lag[c] + 1 ELSE lag[c]]

-----------------------------------------------------------------------------

(* A mistake: the search ends at the first idle slot.                      *)
RegisteredBeforeIdle(svc) ==
  {i \in Busy(tblSVC) : /\ Holds(tblSVC[i], SELF, svc)
                        /\ \A k \in Slots : k < i => k \in Busy(tblSVC)}

(* The slots a registration of svc at this gate already occupies.          *)
Registered(svc) == {i \in Busy(tblSVC) : Holds(tblSVC[i], SELF, svc)}

(* The first idle slot of the table. *)
FirstIdle(i) ==
  /\ tblSVC[i].state = "IDLE"
  /\ \A k \in Slots : k < i => tblSVC[k].state # "IDLE"

(* RegisterService finds the service already there: the slot is made INUSE *)
(* again, which counts as an update only if it was not.                    *)
ConfirmService(svc) ==
  /\ \E i \in Registered(svc) :
       /\ \A k \in Registered(svc) : i <= k
       /\ tblSVC' = [tblSVC EXCEPT ![i] = InUse(SELF, svc)]
       /\ Announce(tblSVC[i].state # "INUSE")
  /\ UNCHANGED remembered

(* RegisterService takes the first idle slot for a new service. *)
PlaceService(svc) ==
  /\ Registered(svc) = {}
  /\ \E i \in Slots :
       /\ FirstIdle(i)
       /\ tblSVC' = [tblSVC EXCEPT ![i] = InUse(SELF, svc)]
  /\ Announce(TRUE)
  /\ UNCHANGED remembered

(* With no idle slot RegisterService returns false and changes nothing.    *)
RegisterService(svc) == ConfirmService(svc) \/ PlaceService(svc)

Release(hit) ==
  /\ tblSVC' = [i \in Slots |-> IF i \in hit THEN Freed(tblSVC[i]) ELSE tblSVC[i]]
  /\ Announce(hit # {})
  /\ UNCHANGED remembered

(* A mistake: the owner of the slot is not looked at.                      *)
SlotsAtOfAnyGate(addr) == {i \in Slots : tblSVC[i].addr = addr}

(* The slots of this gate with the address; their state is not looked at,  *)
(* so a slot released before counts as an update again.                    *)
SlotsAt(addr) == {i \in Slots : tblSVC[i].addr = addr /\ tblSVC[i].belongto = SELF}

(* UnregisterService for the address of a server that has gone.            *)
UnregisterServer(addr) == Release(SlotsAt(addr))

(* The slots copied from gate g that the stream still reports, and those   *)
(* it does not; the services of the stream that have no slot yet; and the  *)
(* slots that can take them once the unreported ones are released.         *)
Same(g, stream) ==
  {i \in Busy(tblSVC) : tblSVC[i].belongto = g /\ \E s \in stream : Holds(tblSVC[i], g, s)}
Gone(g, stream) ==
  {i \in Busy(tblSVC) : tblSVC[i].belongto = g} \ Same(g, stream)
Diff(g, stream) ==
  {s \in stream : \A i \in Same(g, stream) : ~Holds(tblSVC[i], g, s)}
Free(g, stream) == (Slots \ Busy(tblSVC)) \cup Gone(g, stream)

(* New services take the free slots from the front, one each; those that   *)
(* find no slot are dropped.                                               *)
Fits(g, stream, used, place) ==
  /\ \A i \in used, k \in Free(g, stream) \ used : i < k
  /\ \A i, k \in used : place[i] = place[k] => i = k
  /\ used = Free(g, stream) \/ \A s \in Diff(g, stream) : \E i \in used : place[i] = s

Synced(g, stream, used, place) ==
  [i \in Slots |-> IF i \in used THEN InUse(g, place[i])
                   ELSE IF i \in Gone(g, stream) THEN Freed(tblSVC[i])
                   ELSE tblSVC[i]]

(* The table copied from gate g becomes what g reports. The order in which *)
(* the stream lists its services, which decides who gets which slot, is    *)
(* left open.                                                              *)
SynBB(g, stream) ==
  /\ \E used \in SUBSET Free(g, stream) : \E place \in [used -> Diff(g, stream)] :
       /\ Fits(g, stream, used, place)
       /\ tblSVC' = Synced(g, stream, used, place)
       /\ Announce(Gone(g, stream) # {} \/ used # {})
  /\ UNCHANGED remembered

(* A client's subscription: the entries for its names and the sequence     *)
(* number, read together under the semaphore.                              *)
GetAllSVC(c, names) ==
  /\ remembered' = [remembered EXCEPT ![c] =
       [seq |-> nSVCUpdateSeq, names |-> names, view |-> Lookup(tblSVC, names)]]
  /\ lag' = [lag EXCEPT ![c] = 0]
  /\ UNCHANGED <<tblSVC, nSVCUpdateSeq>>

Next ==
  \/ \E svc \in Service : RegisterService(svc)
  \/ \E addr \in Addr : UnregisterServer(addr)
  \/ \E g \in Gate, stream \in SUBSET Service : SynBB(g, stream)
  \/ \E c \in Client, names \in SUBSET Name : GetAllSVC(c, names)

Spec == Init /\ [][Next]_vars

-----------------------------------------------------------------------------

TypeOK ==
  /\ tblSVC \in [Slots -> Slot]
  /\ nSVCUpdateSeq \in 0 .. SeqMod - 1
  /\ remembered \in [Client ->
       [seq : 0 .. SeqMod - 1, names : SUBSET Name, view : SUBSET Entry]]
  /\ lag \in [Client -> 0 .. SeqMod]

(* No service is on the board twice for one owner, whatever mixture of     *)
(* registrations, withdrawals and synchronisations led here: RegisterService *)
(* and SynBB both search the table before they take a slot.                *)
UniqueEntries ==
  \A i, k \in Busy(tblSVC) : EntryOf(tblSVC[i]) = EntryOf(tblSVC[k]) => i = k

(* The promise the whole notification protocol rests on (heartbeats and    *)
(* IsSvcUpdated only compare numbers): a client whose number still equals  *)
(* the board's holds exactly what the board would tell it now. It is       *)
(* limited by the 32 bits of the number: a client that SeqMod updates      *)
(* passed by proves nothing.                                               *)
EqualSeqMeansFreshView ==
  \A c \in Client :
    (lag[c] < SeqMod /\ remembered[c].seq = nSVCUpdateSeq)
      => remembered[c].view = Lookup(tblSVC, remembered[c].names)

(* The board as a ServiceDirectory: a slot in use is a registration.       *)
Directory == INSTANCE ServiceDirectory WITH
  directory <- {EntryOf(tblSVC[i]) : i \in Busy(tblSVC)},
  version   <- nSVCUpdateSeq,
  Capacity  <- SvcLen,
  Version   <- 0 .. SeqMod - 1

(* Seen from outside the board is that directory: registering, withdrawing *)
(* and synchronising change exactly the entries they should, one owner     *)
(* never disturbs another's, entries are dropped only when the table is    *)
(* full, and no change goes by without a new number.                       *)
ImplementsDirectory == Directory!Spec

=============================================================================
