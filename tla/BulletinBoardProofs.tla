------------------------- MODULE BulletinBoardProofs -------------------------
(***************************************************************************)
(* Theorems about BulletinBoard, for every size of the tables, every set   *)
(* of names, addresses and clients, and every width of the sequence number;*)
(* and about the tools that work on the boards of a host (Shutdown), for   *)
(* any gates, pids and boards.                                             *)
(***************************************************************************)
EXTENDS BulletinBoard, Shutdown, SequenceTheorems, FiniteSetTheorems, TLAPS

USE SvcLenAssumption, GateLenAssumption, SeqModAssumption

LEMMA FreedSlot ==
  ASSUME NEW slot \in Slot
  PROVE  /\ Freed(slot) \in Slot
         /\ Freed(slot).state = "IDLE"
         /\ EntryOf(Freed(slot)) = EntryOf(slot)
BY DEF Freed, Slot, SlotState, EntryOf

LEMMA InUseSlot ==
  ASSUME NEW svc \in Service, NEW owner \in Gate \cup {0, SELF}
  PROVE  /\ InUse(owner, svc) \in Slot
         /\ InUse(owner, svc).state = "INUSE"
         /\ InUse(owner, svc).belongto = owner
         /\ InUse(owner, svc).name = svc.name
         /\ InUse(owner, svc).addr = svc.addr
BY DEF InUse, Slot, SlotState, Service

(* A slot in use that holds a service is as RegisterService would write it. *)
LEMMA HeldIsInUse ==
  ASSUME NEW slot \in Slot, NEW svc \in Service, Holds(slot, SELF, svc), slot.state = "INUSE"
  PROVE  slot = InUse(SELF, svc)
BY DEF Holds, InUse, Slot

LEMMA ServiceFields ==
  ASSUME NEW s \in Service, NEW t \in Service, s.name = t.name, s.addr = t.addr
  PROVE  s = t
BY DEF Service

LEMMA EntryFields ==
  ASSUME NEW x, NEW y, EntryOf(x) = EntryOf(y)
  PROVE  x.belongto = y.belongto /\ x.name = y.name /\ x.addr = y.addr
<1>1. /\ EntryOf(x).owner = x.belongto /\ EntryOf(y).owner = y.belongto
      /\ EntryOf(x).name = x.name /\ EntryOf(y).name = y.name
      /\ EntryOf(x).addr = x.addr /\ EntryOf(y).addr = y.addr
  BY DEF EntryOf
<1>2. QED BY <1>1

LEMMA AnnounceType ==
  ASSUME TypeOK, NEW updated \in BOOLEAN, Announce(updated)
  PROVE  /\ nSVCUpdateSeq' \in 0 .. SeqMod - 1
         /\ lag' \in [Client -> 0 .. SeqMod]
BY DEF TypeOK, Announce, SeqAfter

LEMMA InitTypeOK == Init => TypeOK
BY DEF Init, TypeOK, Slot, SlotState

(* Every value SynBB can leave in the table.                               *)
LEMMA NextTypeOK ==
  ASSUME TypeOK, [Next]_vars
  PROVE  TypeOK'
<1> USE DEF TypeOK
<1>1. ASSUME NEW svc \in Service, ConfirmService(svc)
      PROVE  TypeOK'
  <2>1. PICK i \in Registered(svc) :
          /\ tblSVC' = [tblSVC EXCEPT ![i] = InUse(SELF, svc)]
          /\ Announce(tblSVC[i].state # "INUSE")
    BY <1>1 DEF ConfirmService
  <2>2. tblSVC' \in [Slots -> Slot]
    BY <2>1, InUseSlot DEF Registered, Busy
  <2>3. QED BY <1>1, <2>1, <2>2, AnnounceType DEF ConfirmService
<1>2. ASSUME NEW svc \in Service, PlaceService(svc)
      PROVE  TypeOK'
  <2>1. tblSVC' \in [Slots -> Slot]
    BY <1>2, InUseSlot DEF PlaceService
  <2>2. QED BY <1>2, <2>1, AnnounceType DEF PlaceService
<1>3. ASSUME NEW addr \in Addr, UnregisterServer(addr)
      PROVE  TypeOK'
  <2>1. tblSVC' \in [Slots -> Slot]
    BY <1>3, FreedSlot DEF UnregisterServer, Release
  <2>2. QED BY <1>3, <2>1, AnnounceType DEF UnregisterServer, Release
<1>4. ASSUME NEW g \in Gate, NEW stream \in SUBSET Service, SynBB(g, stream)
      PROVE  TypeOK'
  <2>1. PICK used \in SUBSET Free(g, stream) : \E place \in [used -> Diff(g, stream)] :
          tblSVC' = Synced(g, stream, used, place)
          /\ Announce(Gone(g, stream) # {} \/ used # {})
    BY <1>4 DEF SynBB
  <2>0. PICK place \in [used -> Diff(g, stream)] :
          tblSVC' = Synced(g, stream, used, place)
          /\ Announce(Gone(g, stream) # {} \/ used # {})
    BY <2>1
  <2>2. \A i \in used : place[i] \in Service
    BY DEF Diff
  <2>3. tblSVC' \in [Slots -> Slot]
    BY <2>0, <2>2, FreedSlot, InUseSlot DEF Synced
  <2>4. QED BY <1>4, <2>1, <2>3, AnnounceType DEF SynBB
<1>5. ASSUME NEW c \in Client, NEW names \in SUBSET Name, GetAllSVC(c, names)
      PROVE  TypeOK'
  <2>1. Lookup(tblSVC, names) \in SUBSET Entry
    BY <1>5 DEF Lookup, EntryOf, Slot, Entry
  <2>2. QED BY <1>5, <2>1 DEF GetAllSVC
<1>6. CASE UNCHANGED vars
  BY <1>6 DEF vars
<1>7. QED
  BY <1>1, <1>2, <1>3, <1>4, <1>5, <1>6 DEF Next, RegisterService

(* The tables keep their types, whatever operations run in whatever order. *)
THEOREM TypeCorrect == Spec => []TypeOK
<1>1. QED BY InitTypeOK, NextTypeOK, PTL DEF Spec

(* RegisterService searches the whole table before it takes a slot, and    *)
(* SynBB places only what no kept slot of the same gate already holds.     *)
LEMMA NextUnique ==
  ASSUME TypeOK, UniqueEntries, [Next]_vars
  PROVE  UniqueEntries'
<1> USE DEF TypeOK, UniqueEntries
<1>1. ASSUME NEW svc \in Service, ConfirmService(svc)
      PROVE  UniqueEntries'
  <2>1. PICK i \in Registered(svc) : tblSVC' = [tblSVC EXCEPT ![i] = InUse(SELF, svc)]
    BY <1>1 DEF ConfirmService
  <2>2. i \in Busy(tblSVC)
    BY DEF Registered
  <2>3. \A k \in Slots : EntryOf(tblSVC'[k]) = EntryOf(tblSVC[k])
    BY <2>1, <2>2, InUseSlot DEF EntryOf, Busy, Registered, Holds
  <2>4. \A k \in Busy(tblSVC') : k \in Busy(tblSVC)
    BY <2>1, <2>2 DEF Busy, Slot
  <2>5. QED BY <2>3, <2>4 DEF Busy
<1>2. ASSUME NEW svc \in Service, PlaceService(svc)
      PROVE  UniqueEntries'
  <2>1. PICK i \in Slots : tblSVC' = [tblSVC EXCEPT ![i] = InUse(SELF, svc)]
    BY <1>2 DEF PlaceService
  <2>2. \A k \in Busy(tblSVC) : ~Holds(tblSVC[k], SELF, svc)
    BY <1>2 DEF PlaceService, Registered
  <2>3. \A k \in Busy(tblSVC') : k # i =>
          /\ k \in Busy(tblSVC)
          /\ EntryOf(tblSVC'[k]) = EntryOf(tblSVC[k])
          /\ EntryOf(tblSVC'[k]) # EntryOf(tblSVC'[i])
    BY <2>1, <2>2, InUseSlot DEF Busy, EntryOf, Holds
  <2>4. QED BY <2>3
<1>3. ASSUME NEW addr \in Addr, UnregisterServer(addr)
      PROVE  UniqueEntries'
  <2>1. \A k \in Busy(tblSVC') :
          k \in Busy(tblSVC) /\ EntryOf(tblSVC'[k]) = EntryOf(tblSVC[k])
    BY <1>3, FreedSlot DEF UnregisterServer, Release, Busy
  <2>2. QED BY <2>1
<1>4. ASSUME NEW g \in Gate, NEW stream \in SUBSET Service, SynBB(g, stream)
      PROVE  UniqueEntries'
  <2>0. PICK used \in SUBSET Free(g, stream) : \E place \in [used -> Diff(g, stream)] :
          Fits(g, stream, used, place) /\ tblSVC' = Synced(g, stream, used, place)
    BY <1>4 DEF SynBB
  <2>1. PICK place \in [used -> Diff(g, stream)] :
          Fits(g, stream, used, place) /\ tblSVC' = Synced(g, stream, used, place)
    BY <2>0
  <2>2. ASSUME NEW i \in used
        PROVE  /\ place[i] \in Service
               /\ \A k \in Same(g, stream) : ~Holds(tblSVC[k], g, place[i])
               /\ tblSVC'[i].belongto = g
               /\ tblSVC'[i].name = place[i].name
               /\ tblSVC'[i].addr = place[i].addr
    BY <2>1, InUseSlot DEF Diff, Free, Gone, Busy, Synced
  <2>3. \A k \in Busy(tblSVC') : k \notin used =>
          /\ k \in Busy(tblSVC)
          /\ k \notin Gone(g, stream)
          /\ tblSVC'[k] = tblSVC[k]
    BY <2>1, FreedSlot DEF Busy, Synced
  <2>4. ASSUME NEW i \in used, NEW k \in Busy(tblSVC'), k \notin used
        PROVE  EntryOf(tblSVC'[i]) # EntryOf(tblSVC'[k])
    <3>1. SUFFICES ASSUME EntryOf(tblSVC'[i]) = EntryOf(tblSVC'[k])
                   PROVE  FALSE
      OBVIOUS
    <3>2. /\ tblSVC'[k].belongto = g
          /\ tblSVC'[k].name = place[i].name
          /\ tblSVC'[k].addr = place[i].addr
      BY <2>2, <3>1, EntryFields
    <3>3. Holds(tblSVC[k], g, place[i])
      BY <2>3, <2>4, <3>2 DEF Holds
    <3>4. k \notin Same(g, stream)
      BY <2>2, <3>3
    <3>5. QED BY <2>3, <2>4, <3>2, <3>4 DEF Gone
  <2>5. ASSUME NEW i \in used, NEW k \in used, EntryOf(tblSVC'[i]) = EntryOf(tblSVC'[k])
        PROVE  i = k
    <3>1. place[i].name = place[k].name /\ place[i].addr = place[k].addr
      BY <2>2, <2>5, EntryFields
    <3>2. place[i] = place[k]
      BY <2>2, <3>1, ServiceFields
    <3>3. QED BY <2>1, <3>2 DEF Fits
  <2>6. ASSUME NEW i \in Busy(tblSVC'), NEW k \in Busy(tblSVC'), i \notin used, k \notin used,
               EntryOf(tblSVC'[i]) = EntryOf(tblSVC'[k])
        PROVE  i = k
    BY <2>3, <2>6
  <2>7. QED BY <2>4, <2>5, <2>6
<1>5. CASE UNCHANGED tblSVC
  BY <1>5
<1>6. QED
  BY <1>1, <1>2, <1>3, <1>4, <1>5 DEF Next, RegisterService, GetAllSVC, vars

(* No service is on the board twice for one owner, in every reachable      *)
(* state: the search loops of RegisterService and SynBB are enough, with   *)
(* any number of slots, gates, servers and services.                       *)
THEOREM EntriesAreUnique == Spec => []UniqueEntries
<1>1. Init => UniqueEntries
  BY DEF Init, UniqueEntries, Busy
<1>2. QED BY <1>1, NextUnique, TypeCorrect, PTL DEF Spec

-----------------------------------------------------------------------------

(* The strengthening that makes EqualSeqMeansFreshView inductive: the      *)
(* number a client holds plus the updates since it read is the board's     *)
(* number, wrapped once at most; and as long as there was no update the    *)
(* client's view is what the board would answer.                           *)
SeqAccounted ==
  \A c \in Client : lag[c] < SeqMod =>
    nSVCUpdateSeq = IF remembered[c].seq + lag[c] < SeqMod
                    THEN remembered[c].seq + lag[c]
                    ELSE remembered[c].seq + lag[c] - SeqMod
ViewUntilUpdate ==
  \A c \in Client : lag[c] = 0 =>
    remembered[c].view = Lookup(tblSVC, remembered[c].names)
FreshInv == SeqAccounted /\ ViewUntilUpdate

LEMMA FreshFromInv ==
  ASSUME TypeOK, FreshInv
  PROVE  EqualSeqMeansFreshView
<1>1. SUFFICES ASSUME NEW c \in Client, lag[c] < SeqMod, remembered[c].seq = nSVCUpdateSeq
               PROVE  lag[c] = 0
  BY DEF EqualSeqMeansFreshView, FreshInv, ViewUntilUpdate
<1>2. lag[c] \in 0 .. SeqMod /\ remembered[c].seq \in 0 .. SeqMod - 1
  BY DEF TypeOK
<1>3. nSVCUpdateSeq = IF remembered[c].seq + lag[c] < SeqMod
                      THEN remembered[c].seq + lag[c]
                      ELSE remembered[c].seq + lag[c] - SeqMod
  BY <1>1 DEF FreshInv, SeqAccounted
<1>4. QED BY <1>1, <1>2, <1>3

LEMMA WrapStep ==
  ASSUME NEW r \in 0 .. SeqMod - 1, NEW l \in 0 .. SeqMod - 1, l + 1 < SeqMod
  PROVE  SeqAfter(IF r + l < SeqMod THEN r + l ELSE r + l - SeqMod) =
           IF r + (l + 1) < SeqMod THEN r + (l + 1) ELSE r + (l + 1) - SeqMod
BY DEF SeqAfter

(* One update moves the number and every lag together; an operation that   *)
(* announces nothing may not have changed what the board would answer.     *)
LEMMA AnnounceKeepsFresh ==
  ASSUME TypeOK, FreshInv, NEW updated \in BOOLEAN, Announce(updated),
         UNCHANGED remembered,
         ~updated => \A names : Lookup(tblSVC', names) = Lookup(tblSVC, names)
  PROVE  FreshInv'
<1>1. SeqAccounted'
  <2>1. SUFFICES ASSUME NEW c \in Client, lag'[c] < SeqMod
                 PROVE  nSVCUpdateSeq' = IF remembered[c].seq + lag'[c] < SeqMod
                                         THEN remembered[c].seq + lag'[c]
                                         ELSE remembered[c].seq + lag'[c] - SeqMod
    BY DEF SeqAccounted
  <2>2. /\ lag[c] \in 0 .. SeqMod /\ remembered[c].seq \in 0 .. SeqMod - 1
        /\ nSVCUpdateSeq \in 0 .. SeqMod - 1
    BY DEF TypeOK
  <2>3. lag'[c] = IF updated /\ lag[c] < SeqMod THEN lag[c] + 1 ELSE lag[c]
    BY DEF Announce
  <2>4. lag[c] < SeqMod
    BY <2>1, <2>2, <2>3
  <2>5. nSVCUpdateSeq = IF remembered[c].seq + lag[c] < SeqMod
                        THEN remembered[c].seq + lag[c]
                        ELSE remembered[c].seq + lag[c] - SeqMod
    BY <2>4 DEF FreshInv, SeqAccounted
  <2>6. nSVCUpdateSeq' = IF updated THEN SeqAfter(nSVCUpdateSeq) ELSE nSVCUpdateSeq
    BY DEF Announce
  <2>7. CASE updated
    <3>1. lag'[c] = lag[c] + 1 /\ lag[c] + 1 < SeqMod
      BY <2>1, <2>3, <2>4, <2>7
    <3>2. QED BY <2>2, <2>4, <2>5, <2>6, <2>7, <3>1, WrapStep
  <2>8. CASE ~updated
    BY <2>3, <2>5, <2>6, <2>8
  <2>9. QED BY <2>7, <2>8
<1>2. ViewUntilUpdate'
  <2>1. SUFFICES ASSUME NEW c \in Client, lag'[c] = 0
                 PROVE  remembered[c].view = Lookup(tblSVC', remembered[c].names)
    BY DEF ViewUntilUpdate
  <2>2. lag[c] \in 0 .. SeqMod
    BY DEF TypeOK
  <2>3. ~updated /\ lag[c] = 0
    BY <2>1, <2>2 DEF Announce
  <2>4. QED BY <2>3 DEF FreshInv, ViewUntilUpdate
<1>3. QED BY <1>1, <1>2 DEF FreshInv

LEMMA NextFresh ==
  ASSUME TypeOK, FreshInv, [Next]_vars
  PROVE  FreshInv'
<1>1. ASSUME NEW svc \in Service, ConfirmService(svc)
      PROVE  FreshInv'
  <2>1. PICK i \in Registered(svc) :
          /\ tblSVC' = [tblSVC EXCEPT ![i] = InUse(SELF, svc)]
          /\ Announce(tblSVC[i].state # "INUSE")
    BY <1>1 DEF ConfirmService
  <2>2. tblSVC[i].state = "INUSE" => tblSVC' = tblSVC
    BY <2>1, HeldIsInUse DEF TypeOK, Registered, Busy
  <2>3. UNCHANGED remembered
    BY <1>1 DEF ConfirmService
  <2>4. QED BY <2>1, <2>2, <2>3, AnnounceKeepsFresh
<1>2. ASSUME NEW svc \in Service, PlaceService(svc)
      PROVE  FreshInv'
  BY <1>2, AnnounceKeepsFresh DEF PlaceService
<1>3. ASSUME NEW addr \in Addr, UnregisterServer(addr)
      PROVE  FreshInv'
  <2>1. Announce(SlotsAt(addr) # {}) /\ UNCHANGED remembered
    BY <1>3 DEF UnregisterServer, Release
  <2>2. SlotsAt(addr) = {} => tblSVC' = tblSVC
    BY <1>3 DEF UnregisterServer, Release, TypeOK
  <2>3. QED BY <2>1, <2>2, AnnounceKeepsFresh
<1>4. ASSUME NEW g \in Gate, NEW stream \in SUBSET Service, SynBB(g, stream)
      PROVE  FreshInv'
  <2>1. PICK used \in SUBSET Free(g, stream) :
          /\ Announce(Gone(g, stream) # {} \/ used # {})
          /\ used = {} /\ Gone(g, stream) = {} => tblSVC' = [i \in Slots |-> tblSVC[i]]
    BY <1>4 DEF SynBB, Synced
  <2>2. used = {} /\ Gone(g, stream) = {} => tblSVC' = tblSVC
    BY <2>1 DEF TypeOK
  <2>3. UNCHANGED remembered
    BY <1>4 DEF SynBB
  <2>4. QED BY <2>1, <2>2, <2>3, AnnounceKeepsFresh
<1>5. ASSUME NEW c \in Client, NEW names \in SUBSET Name, GetAllSVC(c, names)
      PROVE  FreshInv'
  <2>1. nSVCUpdateSeq \in 0 .. SeqMod - 1
    BY DEF TypeOK
  <2>2. /\ remembered'[c] = [seq |-> nSVCUpdateSeq, names |-> names,
                             view |-> Lookup(tblSVC, names)]
        /\ lag'[c] = 0
        /\ \A d \in Client : d # c => remembered'[d] = remembered[d] /\ lag'[d] = lag[d]
        /\ UNCHANGED <<tblSVC, nSVCUpdateSeq>>
    BY <1>5 DEF GetAllSVC, TypeOK
  <2>3. SeqAccounted'
    BY <2>1, <2>2 DEF FreshInv, SeqAccounted
  <2>4. ViewUntilUpdate'
    BY <2>2 DEF FreshInv, ViewUntilUpdate
  <2>5. QED BY <2>3, <2>4 DEF FreshInv
<1>6. CASE UNCHANGED vars
  BY <1>6 DEF vars, FreshInv, SeqAccounted, ViewUntilUpdate
<1>7. QED
  BY <1>1, <1>2, <1>3, <1>4, <1>5, <1>6 DEF Next, RegisterService

(* Comparing numbers is a sound test for "nothing has changed": what the   *)
(* heartbeat replies and IsSvcUpdated rely on. It holds for every width of *)
(* the number as long as the board does not lap the client.                *)
THEOREM EqualSeqIsFresh == Spec => []EqualSeqMeansFreshView
<1>1. Init => FreshInv
  BY DEF Init, FreshInv, SeqAccounted, ViewUntilUpdate, Lookup
<1>2. QED BY <1>1, NextFresh, FreshFromInv, TypeCorrect, PTL DEF Spec

-----------------------------------------------------------------------------

DirOf(tbl) == {EntryOf(tbl[i]) : i \in Busy(tbl)}
Dir == DirOf(tblSVC)

(* Nothing ever isolates a slot: BBSLOT_ISOLATED is never stored.          *)
NeverIsolated == \A i \in Slots : tblSVC[i].state # "ISOLATED"

LEMMA NextNeverIsolated ==
  ASSUME TypeOK, NeverIsolated, [Next]_vars
  PROVE  NeverIsolated'
<1> USE DEF TypeOK, NeverIsolated
<1>1. ASSUME NEW svc \in Service, RegisterService(svc)
      PROVE  NeverIsolated'
  <2>1. PICK i \in Slots : tblSVC' = [tblSVC EXCEPT ![i] = InUse(SELF, svc)]
    BY <1>1 DEF RegisterService, ConfirmService, PlaceService, Registered, Busy
  <2>2. QED BY <2>1, InUseSlot
<1>2. ASSUME NEW addr \in Addr, UnregisterServer(addr)
      PROVE  NeverIsolated'
  BY <1>2, FreedSlot DEF UnregisterServer, Release
<1>3. ASSUME NEW g \in Gate, NEW stream \in SUBSET Service, SynBB(g, stream)
      PROVE  NeverIsolated'
  <2>1. PICK used \in SUBSET Free(g, stream) : \E place \in [used -> Diff(g, stream)] :
          tblSVC' = Synced(g, stream, used, place)
    BY <1>3 DEF SynBB
  <2>2. PICK place \in [used -> Diff(g, stream)] : tblSVC' = Synced(g, stream, used, place)
    BY <2>1
  <2>3. \A i \in used : place[i] \in Service
    BY DEF Diff
  <2>4. QED BY <2>2, <2>3, FreedSlot, InUseSlot DEF Synced
<1>4. CASE UNCHANGED tblSVC
  BY <1>4
<1>5. QED BY <1>1, <1>2, <1>3, <1>4 DEF Next, GetAllSVC, vars

(* As many registrations as slots in use, because no entry occupies two:   *)
(* a slot left over means that the directory is below its capacity, and no *)
(* slot left over that it is full.                                         *)
LEMMA DirCapacity ==
  ASSUME NEW tbl,
         \A i, k \in Busy(tbl) : EntryOf(tbl[i]) = EntryOf(tbl[k]) => i = k
  PROVE  /\ Busy(tbl) # Slots => Cardinality(DirOf(tbl)) < SvcLen
         /\ Busy(tbl) = Slots => Cardinality(DirOf(tbl)) = SvcLen
<1>1. IsFiniteSet(Slots) /\ Cardinality(Slots) = SvcLen
  BY FS_Interval DEF Slots
<1>2. Busy(tbl) \in SUBSET Slots
  BY DEF Busy
<1>3. /\ Cardinality(Busy(tbl)) <= SvcLen
      /\ Cardinality(Busy(tbl)) = SvcLen => Busy(tbl) = Slots
      /\ Cardinality(Busy(tbl)) \in Nat
      /\ IsFiniteSet(Busy(tbl))
  BY <1>1, <1>2, FS_Subset, FS_CardinalityType
<1>4. Cardinality(DirOf(tbl)) = Cardinality(Busy(tbl))
  <2> DEFINE f == [i \in Busy(tbl) |-> EntryOf(tbl[i])]
  <2>1. f \in Bijection(Busy(tbl), DirOf(tbl))
    BY DEF Bijection, Injection, Surjection, IsInjective, DirOf
  <2>2. ExistsBijection(Busy(tbl), DirOf(tbl))
    BY <2>1 DEF ExistsBijection
  <2>3. QED BY <1>3, <2>2, FS_Bijection
<1>5. QED BY <1>1, <1>3, <1>4

(* What Announce gives the directory: a version, and a new one for a change. *)
LEMMA AnnounceVersion ==
  ASSUME TypeOK, NEW updated \in BOOLEAN, Announce(updated), Dir' # Dir => updated
  PROVE  Directory!Become(Dir')
<1>1. /\ nSVCUpdateSeq' \in 0 .. SeqMod - 1
      /\ updated => nSVCUpdateSeq' # nSVCUpdateSeq
  BY DEF TypeOK, Announce, SeqAfter
<1>2. QED BY <1>1 DEF Directory!Become, Dir, DirOf

LEMMA SameCardinality ==
  ASSUME NEW S
  PROVE  Directory!Cardinality(S) = Cardinality(S)
BY DEF Directory!Cardinality, Cardinality

LEMMA PlaceRegisters ==
  ASSUME TypeOK, UniqueEntries, NEW svc \in Service, PlaceService(svc)
  PROVE  Directory!Register(svc.name, svc.addr)
<1> DEFINE e == [owner |-> SELF, name |-> svc.name, addr |-> svc.addr]
<1>1. PICK i \in Slots : tblSVC' = [tblSVC EXCEPT ![i] = InUse(SELF, svc)]
                         /\ tblSVC[i].state = "IDLE"
  BY DEF PlaceService, FirstIdle
<1>2. e \notin Dir
  BY DEF PlaceService, Registered, Holds, Dir, DirOf, EntryOf
<1>3. Cardinality(Dir) < SvcLen
  BY <1>1, DirCapacity DEF UniqueEntries, Dir, Busy
<1>4. Dir' = Dir \cup {e}
  <2>1. EntryOf(tblSVC'[i]) = e
    BY <1>1, InUseSlot DEF TypeOK, EntryOf
  <2>2. Busy(tblSVC') = Busy(tblSVC) \cup {i}
    BY <1>1, InUseSlot DEF TypeOK, Busy
  <2>3. \A k \in Busy(tblSVC) : tblSVC'[k] = tblSVC[k]
    BY <1>1 DEF TypeOK, Busy
  <2>4. QED BY <2>1, <2>2, <2>3 DEF Dir, DirOf
<1>5. Directory!Become(Dir')
  BY AnnounceVersion DEF PlaceService
<1>6. QED BY <1>2, <1>3, <1>4, <1>5, SameCardinality DEF Directory!Register, Dir, DirOf

LEMMA ConfirmStutters ==
  ASSUME TypeOK, NeverIsolated, NEW svc \in Service, ConfirmService(svc)
  PROVE  UNCHANGED <<Dir, nSVCUpdateSeq>>
<1>1. PICK i \in Registered(svc) :
        /\ tblSVC' = [tblSVC EXCEPT ![i] = InUse(SELF, svc)]
        /\ Announce(tblSVC[i].state # "INUSE")
  BY DEF ConfirmService
<1>2. tblSVC[i].state = "INUSE"
  BY DEF Registered, Busy, TypeOK, Slot, SlotState, NeverIsolated
<1>3. tblSVC' = tblSVC
  BY <1>1, <1>2, HeldIsInUse DEF TypeOK, Registered, Busy
<1>4. QED BY <1>1, <1>2, <1>3 DEF Announce, Dir

LEMMA UnregisterWithdraws ==
  ASSUME TypeOK, NEW addr \in Addr, UnregisterServer(addr)
  PROVE  Directory!Withdraw(addr)
<1>1. /\ tblSVC' = [i \in Slots |-> IF i \in SlotsAt(addr) THEN Freed(tblSVC[i]) ELSE tblSVC[i]]
      /\ Announce(SlotsAt(addr) # {})
  BY DEF UnregisterServer, Release
<1>2. Busy(tblSVC') = Busy(tblSVC) \ SlotsAt(addr)
  BY <1>1, FreedSlot DEF TypeOK, Busy
<1>3. \A k \in Busy(tblSVC') : tblSVC'[k] = tblSVC[k]
  BY <1>1, <1>2 DEF Busy
<1>4. Dir' = {EntryOf(tblSVC[k]) : k \in Busy(tblSVC) \ SlotsAt(addr)}
  BY <1>2, <1>3 DEF Dir, DirOf
<1>5. \A k \in Busy(tblSVC) : k \in SlotsAt(addr) <=>
        EntryOf(tblSVC[k]).owner = SELF /\ EntryOf(tblSVC[k]).addr = addr
  BY DEF SlotsAt, EntryOf, Busy
<1>6. Dir' = {e \in Dir : ~(e.owner = SELF /\ e.addr = addr)}
  BY <1>4, <1>5 DEF Dir, DirOf
<1>7. Dir' # Dir => SlotsAt(addr) # {}
  BY <1>4 DEF Dir, DirOf
<1>8. Directory!Become(Dir')
  BY <1>1, <1>7, AnnounceVersion
<1>9. QED BY <1>6, <1>8 DEF Directory!Withdraw, Dir, DirOf

(* What is reported about gate g after the synchronisation is what stayed, *)
(* plus what found a slot; and if something did not, every slot is taken.  *)
LEMMA SyncSynchronises ==
  ASSUME TypeOK, UniqueEntries, UniqueEntries',
         NEW g \in Gate, NEW stream \in SUBSET Service, SynBB(g, stream)
  PROVE  Directory!Synchronise(g, stream)
<1> DEFINE wanted  == {[owner |-> g, name |-> s.name, addr |-> s.addr] : s \in stream}
           kept    == {e \in Dir : e.owner = g => e \in wanted}
           missing == wanted \ Dir
<1>1. PICK used \in SUBSET Free(g, stream) : \E place \in [used -> Diff(g, stream)] :
        /\ Fits(g, stream, used, place)
        /\ tblSVC' = Synced(g, stream, used, place)
        /\ Announce(Gone(g, stream) # {} \/ used # {})
  BY DEF SynBB
<1>2. PICK place \in [used -> Diff(g, stream)] :
        /\ Fits(g, stream, used, place)
        /\ tblSVC' = Synced(g, stream, used, place)
        /\ Announce(Gone(g, stream) # {} \/ used # {})
  BY <1>1
<1> DEFINE stay  == Busy(tblSVC) \ Gone(g, stream)
           added == {EntryOf(tblSVC'[i]) : i \in used}
<1>3. Busy(tblSVC') = stay \cup used /\ stay \cap used = {}
  <2>1. \A i \in used : place[i] \in Service /\ i \in Slots
    BY DEF Diff, Free, Gone, Busy
  <2>2. \A i \in Slots : i \in used => tblSVC'[i].state = "INUSE"
    BY <1>2, <2>1, InUseSlot DEF Synced
  <2>3. \A i \in Slots : i \notin used /\ i \in Gone(g, stream) => tblSVC'[i].state = "IDLE"
    BY <1>2, FreedSlot DEF Synced, TypeOK
  <2>4. \A i \in Slots : i \notin used /\ i \notin Gone(g, stream) => tblSVC'[i] = tblSVC[i]
    BY <1>2 DEF Synced
  <2>5. QED BY <2>1, <2>2, <2>3, <2>4 DEF Busy, Free
<1>4. \A k \in stay : tblSVC'[k] = tblSVC[k]
  BY <1>2, <1>3 DEF Synced, Busy
<1>5. \A k \in Busy(tblSVC) : k \in stay <=> EntryOf(tblSVC[k]) \in kept
  <2>1. SUFFICES ASSUME NEW k \in Busy(tblSVC), tblSVC[k].belongto = g
                 PROVE  k \in Same(g, stream) <=> EntryOf(tblSVC[k]) \in wanted
    BY DEF Gone, Dir, DirOf, EntryOf, Busy
  <2>2. k \in Same(g, stream) <=> \E s \in stream : Holds(tblSVC[k], g, s)
    BY <2>1 DEF Same
  <2>3. ASSUME NEW s \in stream
        PROVE  Holds(tblSVC[k], g, s) <=>
                 EntryOf(tblSVC[k]) = [owner |-> g, name |-> s.name, addr |-> s.addr]
    BY <2>1 DEF Holds, EntryOf
  <2>4. QED BY <2>2, <2>3
<1>6. {EntryOf(tblSVC[k]) : k \in stay} = kept
  BY <1>5 DEF Dir, DirOf
<1>7. Dir' = kept \cup added
  BY <1>3, <1>4, <1>6 DEF Dir, DirOf
<1>8. ASSUME NEW i \in used
      PROVE  /\ place[i] \in Diff(g, stream)
             /\ EntryOf(tblSVC'[i]) =
                  [owner |-> g, name |-> place[i].name, addr |-> place[i].addr]
  <2>1. place[i] \in Diff(g, stream) /\ place[i] \in Service /\ i \in Slots
    BY DEF Diff, Free, Gone, Busy
  <2>2. tblSVC'[i] = InUse(g, place[i])
    BY <1>2, <2>1 DEF Synced
  <2>3. QED BY <2>1, <2>2, InUseSlot DEF EntryOf
<1>9. ASSUME NEW s \in Diff(g, stream)
      PROVE  [owner |-> g, name |-> s.name, addr |-> s.addr] \notin Dir
  <2>1. SUFFICES ASSUME NEW k \in Busy(tblSVC),
                        EntryOf(tblSVC[k]) = [owner |-> g, name |-> s.name, addr |-> s.addr]
                 PROVE  FALSE
    BY DEF Dir, DirOf
  <2>2. Holds(tblSVC[k], g, s) /\ tblSVC[k].belongto = g
    BY <2>1 DEF EntryOf, Holds
  <2>3. s \in stream
    BY DEF Diff
  <2>4. k \in Same(g, stream)
    BY <2>2, <2>3 DEF Same
  <2>5. QED BY <2>2, <2>4 DEF Diff
<1>10. added \in SUBSET missing
  <2>1. ASSUME NEW i \in used
        PROVE  EntryOf(tblSVC'[i]) \in missing
    <3>1. place[i] \in stream
      BY <1>8 DEF Diff
    <3>2. QED BY <1>8, <1>9, <3>1
  <2>2. QED BY <2>1
<1>11. added = missing \/ Cardinality(kept \cup added) = SvcLen
  <2>1. CASE used = Free(g, stream)
    <3>1. Busy(tblSVC') = Slots
      BY <1>3, <2>1 DEF Free, Gone, Busy
    <3>2. Cardinality(DirOf(tblSVC')) = SvcLen
      BY <3>1, DirCapacity DEF UniqueEntries
    <3>3. QED BY <1>7, <3>2 DEF Dir
  <2>2. CASE \A s \in Diff(g, stream) : \E i \in used : place[i] = s
    <3>1. ASSUME NEW s \in stream, [owner |-> g, name |-> s.name, addr |-> s.addr] \notin Dir
          PROVE  [owner |-> g, name |-> s.name, addr |-> s.addr] \in added
      <4>1. ASSUME NEW k \in Same(g, stream), Holds(tblSVC[k], g, s)
            PROVE  FALSE
        <5>1. EntryOf(tblSVC[k]) = [owner |-> g, name |-> s.name, addr |-> s.addr]
          BY <4>1 DEF Holds, EntryOf
        <5>2. k \in Busy(tblSVC)
          BY DEF Same
        <5>3. QED BY <3>1, <5>1, <5>2 DEF Dir, DirOf
      <4>2. s \in Diff(g, stream)
        BY <4>1 DEF Diff
      <4>3. PICK i \in used : place[i] = s
        BY <2>2, <4>2
      <4>4. QED BY <1>8, <4>3
    <3>2. QED BY <1>10, <3>1
  <2>3. QED BY <1>2, <2>1, <2>2 DEF Fits
<1>12. Directory!Become(Dir')
  <2>1. ASSUME used = {}, Gone(g, stream) = {}
        PROVE  Dir' = Dir
    BY <1>3, <1>4, <2>1 DEF Dir, DirOf
  <2>2. QED BY <1>2, <2>1, AnnounceVersion
<1>13. Directory!Become(kept \cup added)
  BY <1>7, <1>12
<1>14. QED
  BY <1>10, <1>11, <1>13, SameCardinality DEF Directory!Synchronise, Dir, DirOf

(* Every operation of the board is an operation of the directory or leaves *)
(* it alone.                                                               *)
LEMMA NextImplements ==
  ASSUME TypeOK, UniqueEntries, UniqueEntries', NeverIsolated, [Next]_vars
  PROVE  [Directory!Next]_(Directory!dvars)
<1>1. ASSUME NEW svc \in Service, PlaceService(svc)
      PROVE  Directory!Next
  <2>1. svc.name \in Name /\ svc.addr \in Addr
    BY DEF Service
  <2>2. QED BY <1>1, <2>1, PlaceRegisters DEF Directory!Next
<1>2. ASSUME NEW svc \in Service, ConfirmService(svc)
      PROVE  UNCHANGED Directory!dvars
  BY <1>2, ConfirmStutters DEF Directory!dvars, Dir, DirOf
<1>3. ASSUME NEW addr \in Addr, UnregisterServer(addr)
      PROVE  Directory!Next
  BY <1>3, UnregisterWithdraws DEF Directory!Next
<1>4. ASSUME NEW g \in Gate, NEW stream \in SUBSET Service, SynBB(g, stream)
      PROVE  Directory!Next
  BY <1>4, SyncSynchronises DEF Directory!Next, Service
<1>5. ASSUME UNCHANGED <<tblSVC, nSVCUpdateSeq>>
      PROVE  UNCHANGED Directory!dvars
  BY <1>5 DEF Directory!dvars
<1>6. QED
  BY <1>1, <1>2, <1>3, <1>4, <1>5 DEF Next, RegisterService, GetAllSVC, vars

(* The board implements the directory: whatever the order of registrations,*)
(* disconnections and synchronisations, exactly the right entries change,  *)
(* only a full table drops any, and every change has a new number.         *)
THEOREM BoardIsDirectory == Spec => ImplementsDirectory
<1>1. Init => Directory!Init
  BY DEF Init, Busy, Directory!Init
<1>2. Init => NeverIsolated
  BY DEF Init, NeverIsolated
<1>3. QED
  BY <1>1, <1>2, NextImplements, NextNeverIsolated, TypeCorrect, EntriesAreUnique, PTL
     DEF Spec, ImplementsDirectory, Directory!Spec

-----------------------------------------------------------------------------
(* The administrator's tools on the boards of a host (Shutdown). *)

GateHeader == [id : Board, nGatePID : HostPid]

ToolsTypeOK ==
  /\ hostProc \in [HostPid -> {"none", "gate", "other"}]
  /\ gateBoard \in [HostPid -> Board \cup {NoBoard}]
  /\ nGatePID \in [Board -> HostPid \cup {NoProcess}]
  /\ segment \in [Board -> {"none", "created", "header", "up", "destroyed", "removed"}]
  /\ tm \in {"start", "next", "ask", "term", "wait", "kill", "remove", "done"}
  /\ headers \in Seq(GateHeader) /\ foundGates \subseteq Board /\ half \subseteq Board
  /\ chosen \in Board \cup {NoBoard} /\ (admin \in {"chosen", "attached"} => chosen \in Board)

(* A gate has the board it made, with its pid in it; a header that has been*)
(* copied is that of such a board.                                         *)
OwnInv ==
  /\ \A p \in HostPid : hostProc[p] = "gate" =>
       gateBoard[p] \in Board /\ nGatePID[gateBoard[p]] = p /\ segment[gateBoard[p]] # "none"
  /\ \A b \in Board : segment[b] # "none" => nGatePID[b] \in HostPid
  /\ \A i \in 1 .. Len(headers) : segment[headers[i].id] # "none" /\ nGatePID[headers[i].id] = headers[i].nGatePID

(* How far tmshutdown has come.                                            *)
StageInv ==
  /\ tm \in {"ask", "term", "wait", "kill", "remove"} => headers # <<>>
  /\ tm = "remove" => GateWith(This.id) = {}
  /\ tm = "done" => headers = <<>>
  /\ tm = "start" => half = {} /\ \A b \in Board : segment[b] # "removed"

(* What it has found is still to be stopped, or gone.  A semaphore outlives*)
(* its segment only when the header was read too early.                    *)
LeftInv ==
  /\ \A b \in foundGates : SegmentGone(b) \/ \E i \in 1 .. Len(headers) : headers[i].id = b
  /\ \A b \in Board : SegmentGone(b) /\ b \in sem => segment[b] = "removed" /\ b \in half

ToolsInv == ToolsTypeOK /\ OwnInv /\ StageInv /\ LeftInv /\ GateGoneFirst /\ ShownStands

LEMMA ToolsInitInv == ToolsInit => ToolsInv
BY ShutdownAssumption, EmptySeq, LenProperties
   DEF ToolsInit, ToolsInv, ToolsTypeOK, OwnInv, StageInv, LeftInv, GateGoneFirst, ShownStands, GateWith, SegmentGone

(* The header of the gate that is being stopped, and those behind it.      *)
LEMMA Copied ==
  ASSUME ToolsInv
  PROVE  /\ \A i \in 1 .. Len(headers) : headers[i].id \in Board /\ headers[i].nGatePID \in HostPid
         /\ headers # <<>> =>
              /\ This.id \in Board /\ This.nGatePID \in HostPid
              /\ segment[This.id] # "none" /\ nGatePID[This.id] = This.nGatePID
              /\ Tail(headers) \in Seq(GateHeader) /\ Len(Tail(headers)) = Len(headers) - 1
              /\ This = headers[1] /\ \A i \in 1 .. Len(Tail(headers)) : Tail(headers)[i] = headers[i + 1]
              /\ Len(headers) \in Nat \ {0}
<1>1. headers \in Seq(GateHeader)
  BY DEF ToolsInv, ToolsTypeOK
<1>2. \A i \in 1 .. Len(headers) : headers[i].id \in Board /\ headers[i].nGatePID \in HostPid
  <2>1. \A i \in 1 .. Len(headers) : headers[i] \in GateHeader
    BY <1>1, ElementOfSeq
  <2>2. QED BY <2>1 DEF GateHeader
<1>3. ASSUME headers # <<>>
      PROVE  /\ This = headers[1] /\ Tail(headers) \in Seq(GateHeader) /\ Len(Tail(headers)) = Len(headers) - 1
             /\ \A i \in 1 .. Len(Tail(headers)) : Tail(headers)[i] = headers[i + 1]
  BY <1>1, <1>3, HeadTailProperties DEF This
<1>4. headers # <<>> => Len(headers) \in Nat \ {0} /\ 1 \in 1 .. Len(headers)
  BY <1>1, EmptySeq, LenProperties
<1>5. QED BY <1>2, <1>3, <1>4 DEF ToolsInv, OwnInv

(* A gate begins, on a board that nobody knows yet.                        *)
LEMMA CreateKeeps ==
  ASSUME ToolsInv, NEW p \in HostPid, NEW b \in Board, Create(p, b)
  PROVE  ToolsInv'
<1> USE DEF ToolsInv
<1>1. /\ hostProc[p] = "none" /\ segment[b] = "none"
      /\ hostProc' = [hostProc EXCEPT ![p] = "gate"] /\ gateBoard' = [gateBoard EXCEPT ![p] = b]
      /\ nGatePID' = [nGatePID EXCEPT ![b] = p] /\ segment' = [segment EXCEPT ![b] = "created"] /\ sem' = sem \cup {b}
      /\ UNCHANGED <<terminated, others, tm, suppressed, headers, half, foundGates, polls, admin, chosen, adminSem, shown>>
  BY DEF Create, tmshutdown, tmadmin
<1>2. ToolsTypeOK'
  BY <1>1 DEF ToolsTypeOK
<1>h. \A i \in 1 .. Len(headers) : headers[i].id \in Board /\ headers[i].id # b
  BY <1>1, Copied DEF OwnInv
<1>3. OwnInv'
  BY <1>1, <1>h DEF ToolsTypeOK, OwnInv
<1>4. \A c \in Board : c # b => GateWith(c)' = GateWith(c)
  BY <1>1 DEF GateWith, ToolsTypeOK
<1>5. tm = "remove" => This.id \in Board /\ This.id # b
  BY <1>1, Copied DEF StageInv
<1>6. StageInv'
  BY <1>1, <1>4, <1>5 DEF StageInv, This, ToolsTypeOK
<1>7. LeftInv'
  BY <1>1 DEF LeftInv, SegmentGone, ToolsTypeOK
<1>8. GateGoneFirst' /\ ShownStands'
  BY <1>1, <1>4 DEF GateGoneFirst, ShownStands, ToolsTypeOK
<1>9. QED BY <1>2, <1>3, <1>6, <1>7, <1>8

(* A board that stays who it is, and a host on which gates only end.       *)
LEMMA EndsKeep ==
  ASSUME ToolsInv, hostProc' \in [HostPid -> {"none", "gate", "other"}],
         \A p \in HostPid : hostProc'[p] = "gate" => hostProc[p] = "gate",
         UNCHANGED <<gateBoard, nGatePID, boards, tmshutdown, tmadmin>>
  PROVE  ToolsInv'
<1>1. \A b \in Board : GateWith(b)' \subseteq GateWith(b)
  BY DEF GateWith
<1>2. UNCHANGED <<gateBoard, nGatePID, segment, sem, tm, headers, half, foundGates, admin, chosen, shown>>
  BY DEF boards, tmshutdown, tmadmin
<1>3. tm = "remove" => This.id \in Board
  BY Copied DEF ToolsInv, StageInv
<1>4. ToolsTypeOK' /\ OwnInv'
  BY <1>2 DEF ToolsInv, ToolsTypeOK, OwnInv
<1>5. StageInv'
  BY <1>1, <1>2, <1>3 DEF ToolsInv, StageInv, This
<1>6. LeftInv' /\ GateGoneFirst' /\ ShownStands'
  BY <1>1, <1>2 DEF ToolsInv, LeftInv, SegmentGone, GateGoneFirst, ShownStands
<1>7. QED BY <1>4, <1>5, <1>6 DEF ToolsInv

(* A gate goes on with its board, or destroys it.                          *)
LEMMA BoardKeeps ==
  ASSUME ToolsInv, NEW b \in Board, NEW to \in {"header", "up", "destroyed"},
         segment[b] \notin {"none", "destroyed", "removed"}, segment' = [segment EXCEPT ![b] = to],
         to = "destroyed" => sem' = sem \ {b}, to # "destroyed" => sem' = sem,
         UNCHANGED <<processes, tmshutdown, tmadmin>>
  PROVE  ToolsInv'
<1> USE DEF ToolsInv
<1>1. UNCHANGED <<hostProc, gateBoard, nGatePID, tm, headers, half, foundGates, admin, chosen, shown>>
  BY DEF processes, tmshutdown, tmadmin
<1>2. ToolsTypeOK'
  BY <1>1 DEF ToolsTypeOK
<1>3. OwnInv'
  BY <1>1 DEF ToolsTypeOK, OwnInv
<1>4. \A c \in Board : GateWith(c)' = GateWith(c)
  BY <1>1 DEF GateWith
<1>5. tm = "remove" => This.id \in Board
  BY Copied DEF StageInv
<1>6. StageInv'
  BY <1>1, <1>4, <1>5 DEF ToolsTypeOK, StageInv, This
<1>7. LeftInv'
  BY <1>1 DEF LeftInv, SegmentGone, ToolsTypeOK
<1>8. GateGoneFirst' /\ ShownStands'
  BY <1>1, <1>4 DEF ToolsTypeOK, GateGoneFirst, ShownStands
<1>9. QED BY <1>2, <1>3, <1>6, <1>7, <1>8

(* tmshutdown between the gates: it begins, goes on to the next, or asks.  *)
LEMMA FetchKeeps ==
  ASSUME ToolsInv, FetchGateIPCID
  PROVE  ToolsInv'
<1> USE DEF ToolsInv
<1>1. /\ tm = "start" /\ tm' = "next" /\ foundGates' \in Attachable
      /\ half' = {b \in Board : segment[b] = "header"}
      /\ UNCHANGED <<hostProc, gateBoard, nGatePID, segment, sem, admin, chosen, shown>>
  BY DEF FetchGateIPCID, processes, boards, tmadmin
<1>2. PICK ids \in InOrder(foundGates') : headers' = [i \in DOMAIN ids |-> Header(ids[i])]
  BY DEF FetchGateIPCID
<1>3. /\ foundGates' \subseteq Board /\ \A b \in foundGates' : segment[b] \in {"header", "up", "destroyed", "removed"}
  BY <1>1 DEF Attachable, SegmentGone
<1>4. /\ DOMAIN ids = 1 .. Cardinality(foundGates') /\ \A i \in DOMAIN ids : ids[i] \in foundGates'
      /\ \A b \in foundGates' : \E i \in DOMAIN ids : ids[i] = b
  BY <1>2 DEF InOrder
<1>5. \A b \in foundGates' : Header(b) \in GateHeader /\ Header(b).id = b /\ Header(b).nGatePID = nGatePID[b]
  BY <1>3 DEF Header, GateHeader, OwnInv
<1>6. \A i \in DOMAIN ids : headers'[i] = Header(ids[i])
  BY <1>2
<1>7. headers' \in Seq(GateHeader) /\ Len(headers') \in Nat /\ DOMAIN headers' = 1 .. Len(headers')
  <2>1. \E n \in Nat : DOMAIN ids = 1 .. n
    BY <1>3, <1>4, ShutdownAssumption, FS_Subset, FS_CardinalityType
  <2>2. PICK n \in Nat : DOMAIN ids = 1 .. n
    BY <2>1
  <2>3. headers' \in [1 .. n -> GateHeader]
    BY <1>2, <1>4, <1>5, <2>2
  <2>4. headers' \in Seq(GateHeader)
    BY <2>3, SeqDef
  <2>5. QED BY <2>4, LenProperties
<1>8. DOMAIN headers' = DOMAIN ids
  BY <1>2
<1>e. \A i \in 1 .. Len(headers') : ids[i] \in foundGates' /\ headers'[i].id = ids[i]
                                      /\ headers'[i].nGatePID = nGatePID[ids[i]]
  BY <1>4, <1>5, <1>6, <1>7, <1>8
<1>9. ToolsTypeOK'
  BY <1>1, <1>3, <1>7 DEF ToolsTypeOK
<1>10. OwnInv'
  <2>1. \A i \in 1 .. Len(headers') : segment[headers'[i].id] # "none" /\ nGatePID[headers'[i].id] = headers'[i].nGatePID
    BY <1>3, <1>e
  <2>2. QED BY <1>1, <2>1 DEF OwnInv
<1>11. StageInv'
  BY <1>1 DEF StageInv
<1>12. LeftInv'
  <2>1. \A b \in foundGates' : \E i \in 1 .. Len(headers') : headers'[i].id = b
    <3>1. DOMAIN ids = 1 .. Len(headers')
      BY <1>7, <1>8
    <3>2. ASSUME NEW b \in foundGates' PROVE \E i \in 1 .. Len(headers') : headers'[i].id = b
      <4>1. PICK i \in DOMAIN ids : ids[i] = b
        BY <1>4
      <4>2. QED BY <1>e, <3>1, <4>1
    <3>3. QED BY <3>2
  <2>2. \A b \in Board : SegmentGone(b) => b \notin sem
    BY <1>1 DEF LeftInv, StageInv
  <2>3. QED BY <1>1, <2>1, <2>2 DEF LeftInv, SegmentGone
<1>13. GateGoneFirst' /\ ShownStands'
  BY <1>1 DEF GateGoneFirst, GateWith, ShownStands, StageInv
<1>14. QED BY <1>9, <1>10, <1>11, <1>12, <1>13

(* tmshutdown goes on with the same gate: whose pid is nobody's any more   *)
(* when it comes to remove the board.                                      *)
LEMMA GoingOnKeeps ==
  ASSUME ToolsInv, NEW place \in {"ask", "term", "wait", "kill", "remove", "done"}, To(place), foundGates' = foundGates,
         place = "done" => headers = <<>>, place # "done" => headers # <<>>, tm # "start",
         hostProc' \in [HostPid -> {"none", "gate", "other"}],
         \A p \in HostPid : hostProc'[p] = "gate" => hostProc[p] = "gate",
         place = "remove" => hostProc'[This.nGatePID] = "none",
         UNCHANGED <<gateBoard, nGatePID, boards, tmadmin>>
  PROVE  ToolsInv'
<1> USE DEF ToolsInv
<1>1. /\ tm' = place /\ UNCHANGED <<gateBoard, nGatePID, segment, sem, headers, half, admin, chosen, shown>>
  BY DEF To, boards, tmadmin
<1>2. \A b \in Board : GateWith(b)' \subseteq GateWith(b)
  BY <1>1 DEF GateWith
<1>3. This' = This
  BY <1>1 DEF This
<1>4. place = "remove" => GateWith(This.id)' = {}
  <2> SUFFICES ASSUME place = "remove", NEW p \in HostPid, hostProc'[p] = "gate", gateBoard[p] = This.id PROVE FALSE
    BY <1>1, <1>3 DEF GateWith
  <2>1. This.id \in Board /\ nGatePID[This.id] = This.nGatePID
    BY Copied
  <2>2. p = This.nGatePID
    BY <2>1 DEF OwnInv
  <2>3. QED BY <2>2
<1>5. ToolsTypeOK' /\ OwnInv'
  BY <1>1 DEF ToolsTypeOK, OwnInv
<1>7. StageInv'
  BY <1>1, <1>4 DEF StageInv
<1>8. LeftInv' /\ GateGoneFirst' /\ ShownStands'
  BY <1>1, <1>2 DEF LeftInv, SegmentGone, GateGoneFirst, ShownStands
<1>9. QED BY <1>5, <1>7, <1>8

(* tmshutdown leaves a gate, which the administrator has spared, or of     *)
(* which it has removed the board.                                         *)
LEMMA NextGateKeeps ==
  ASSUME ToolsInv, Ask \/ RemoveIPC, NextGate
  PROVE  ToolsInv'
<1> USE DEF ToolsInv
<1>1. /\ headers # <<>> /\ tm \in {"ask", "remove"}
      /\ tm' = "next" /\ headers' = Tail(headers) /\ UNCHANGED <<hostProc, gateBoard, nGatePID, half, admin, chosen, shown>>
  BY DEF Ask, RemoveIPC, NextGate, StageInv, processes, tmadmin
<1> DEFINE b == This.id
<1>2. /\ b \in Board /\ segment[b] # "none" /\ headers' \in Seq(GateHeader) /\ Len(headers') = Len(headers) - 1
      /\ b = headers[1].id /\ \A i \in 1 .. Len(headers') : headers'[i] = headers[i + 1]
      /\ Len(headers) \in Nat \ {0}
  BY <1>1, Copied
<1>3. \/ tm = "ask" /\ UNCHANGED <<segment, sem>> /\ foundGates' = foundGates \ {b}
      \/ /\ tm = "remove" /\ foundGates' = foundGates /\ sem' = sem \ SemOf(b)
         /\ segment' = [segment EXCEPT ![b] = IF segment[b] = "destroyed" THEN segment[b] ELSE "removed"]
  <2>1. CASE Ask
    BY <1>1, <2>1 DEF Ask, boards, To, NextGate
  <2>2. CASE RemoveIPC
    BY <2>2 DEF RemoveIPC
  <2>3. QED BY <2>1, <2>2
<1> HIDE DEF b
<1>4. segment' \in [Board -> {"none", "created", "header", "up", "destroyed", "removed"}]
      /\ \A c \in Board : segment'[c] = "none" <=> segment[c] = "none"
  BY <1>2, <1>3 DEF ToolsTypeOK
<1>5. ToolsTypeOK'
  BY <1>1, <1>2, <1>3, <1>4 DEF ToolsTypeOK
<1>6. OwnInv'
  <2>1. \A i \in 1 .. Len(headers') : i + 1 \in 1 .. Len(headers)
    BY <1>2
  <2>2. ASSUME NEW i \in 1 .. Len(headers')
        PROVE  segment'[headers'[i].id] # "none" /\ nGatePID[headers'[i].id] = headers'[i].nGatePID
    <3>1. headers'[i] = headers[i + 1] /\ i + 1 \in 1 .. Len(headers)
      BY <1>2, <2>1
    <3>2. headers[i + 1].id \in Board /\ segment[headers[i + 1].id] # "none"
          /\ nGatePID[headers[i + 1].id] = headers[i + 1].nGatePID
      BY <3>1, Copied DEF OwnInv
    <3>3. QED BY <1>4, <3>1, <3>2
  <2>3. QED BY <1>1, <1>4, <2>2 DEF OwnInv, ToolsTypeOK
<1>7. StageInv'
  BY <1>1 DEF StageInv
<1>8. LeftInv'
  <2>1. ASSUME NEW c \in foundGates' PROVE SegmentGone(c)' \/ \E i \in 1 .. Len(headers') : headers'[i].id = c
    <3>1. CASE c = b
      BY <1>2, <1>3, <2>1, <3>1 DEF SegmentGone, ToolsTypeOK
    <3>2. CASE c # b /\ SegmentGone(c)
      BY <1>2, <1>3, <3>2 DEF SegmentGone, ToolsTypeOK
    <3>3. CASE c # b /\ ~SegmentGone(c)
      <4>1. PICK i \in 1 .. Len(headers) : headers[i].id = c
        BY <1>3, <3>3 DEF LeftInv
      <4>2. i - 1 \in 1 .. Len(headers') /\ headers'[i - 1] = headers[i]
        BY <1>2, <3>3, <4>1
      <4>3. QED BY <4>1, <4>2
    <3>4. QED BY <3>1, <3>2, <3>3
  <2>2. ASSUME NEW c \in Board, SegmentGone(c)', c \in sem' PROVE segment'[c] = "removed" /\ c \in half
    BY <1>2, <1>3, <2>2 DEF LeftInv, SegmentGone, SemOf, ToolsTypeOK
  <2>3. QED BY <1>1, <2>1, <2>2 DEF LeftInv
<1>9. GateGoneFirst'
  <2>1. \A c \in Board : GateWith(c)' = GateWith(c)
    BY <1>1 DEF GateWith
  <2>2. tm = "remove" => GateWith(b) = {}
    BY DEF StageInv, b
  <2>3. QED BY <1>2, <1>3, <2>1, <2>2 DEF GateGoneFirst, ToolsTypeOK
<1>10. ShownStands'
  BY <1>1 DEF ShownStands
<1>11. QED BY <1>5, <1>6, <1>7, <1>8, <1>9, <1>10

(* tmadmin shows a board only under its semaphore. *)
LEMMA AdminKeeps ==
  ASSUME ToolsInv, TmadminRuns
  PROVE  ToolsInv'
<1>1. /\ UNCHANGED <<hostProc, gateBoard, nGatePID, segment, sem, tm, headers, half, foundGates>>
      /\ chosen' \in Board \cup {NoBoard} /\ (admin' \in {"chosen", "attached"} => chosen' \in Board)
  <2>1. \A ids \in Attachable : ids \subseteq Board
    BY DEF Attachable
  <2>2. CASE Choose
    BY <2>1, <2>2 DEF Choose, processes, boards, tmshutdown, ToolsInv, ToolsTypeOK
  <2>3. CASE AttachBoard \/ Bbs \/ Quit
    BY <2>3 DEF AttachBoard, Bbs, Quit, processes, boards, tmshutdown, ToolsInv, ToolsTypeOK
  <2>4. QED BY <2>2, <2>3 DEF TmadminRuns
<1>2. ToolsTypeOK' /\ OwnInv'
  BY <1>1 DEF ToolsInv, ToolsTypeOK, OwnInv
<1>3. StageInv' /\ LeftInv' /\ GateGoneFirst'
  BY <1>1 DEF ToolsInv, StageInv, This, LeftInv, SegmentGone, GateGoneFirst, GateWith
<1>4. ShownStands'
  <2>1. CASE shown' = shown
    BY <1>1, <2>1 DEF ToolsInv, ShownStands
  <2>2. CASE shown' # shown
    <3>1. shown' = segment[chosen] /\ chosen \in sem /\ chosen \in Board
      BY <2>2 DEF TmadminRuns, Choose, AttachBoard, Bbs, Quit, Locks, ToolsInv, ToolsTypeOK
    <3>2. QED BY <1>1, <3>1 DEF ToolsInv, LeftInv, SegmentGone, ShownStands
  <2>3. QED BY <2>1, <2>2
<1>5. QED BY <1>2, <1>3, <1>4 DEF ToolsInv

LEMMA ToolsStepInv == ToolsInv /\ [ToolsNext]_toolsVars => ToolsInv'
<1> SUFFICES ASSUME ToolsInv, [ToolsNext]_toolsVars PROVE ToolsInv'
  OBVIOUS
<1>t. hostProc \in [HostPid -> {"none", "gate", "other"}] /\ foundGates \subseteq Board
  BY DEF ToolsInv, ToolsTypeOK
<1>1. CASE \E p \in HostPid, b \in Board : Create(p, b)
  BY <1>1, CreateKeeps
<1>2. CASE \E p \in HostPid : Ends(p) \/ OtherBegins(p)
  <2>1. UNCHANGED <<gateBoard, nGatePID, boards, tmshutdown, tmadmin>>
    BY <1>2 DEF Ends, OtherBegins
  <2>2. hostProc' \in [HostPid -> {"none", "gate", "other"}]
        /\ \A p \in HostPid : hostProc'[p] = "gate" => hostProc[p] = "gate"
    BY <1>t, <1>2 DEF Ends, OtherBegins
  <2>3. QED BY <2>1, <2>2, EndsKeep
<1>3. ASSUME NEW p \in HostPid, SetHeader(p) PROVE ToolsInv'
  <2>1. gateBoard[p] \in Board
    BY <1>3 DEF SetHeader, ToolsInv, OwnInv
  <2>2. PICK to \in {"header", "up"} : segment' = [segment EXCEPT ![gateBoard[p]] = to]
                                       /\ segment[gateBoard[p]] \in {"created", "header"}
    BY <1>3 DEF SetHeader
  <2>3. sem' = sem /\ UNCHANGED <<processes, tmshutdown, tmadmin>>
    BY <1>3 DEF SetHeader
  <2>4. QED BY <2>1, <2>2, <2>3, BoardKeeps
<1>4. ASSUME NEW p \in HostPid, DestroyBoard(p) PROVE ToolsInv'
  <2>1. gateBoard[p] \in Board
    BY <1>4 DEF DestroyBoard, ToolsInv, OwnInv
  <2>2. CASE segment[gateBoard[p]] = "up"
    BY <1>4, <2>1, <2>2, BoardKeeps DEF DestroyBoard, SegmentGone
  <2>3. CASE segment[gateBoard[p]] # "up"
    BY <1>t, <1>4, <2>3, EndsKeep DEF DestroyBoard
  <2>4. QED BY <2>2, <2>3
<1>5. CASE FetchGateIPCID
  BY <1>5, FetchKeeps
<1>6. CASE (Ask \/ RemoveIPC) /\ NextGate
  BY <1>6, NextGateKeeps
<1>7. CASE Consider
  <2>1. PICK place \in {"done", "term", "ask"} : To(place) /\ (place = "done" <=> headers = <<>>)
    BY <1>7 DEF Consider
  <2>2. foundGates' = foundGates /\ hostProc' = hostProc /\ tm = "next" /\ UNCHANGED <<gateBoard, nGatePID, boards, tmadmin>>
    BY <1>7 DEF Consider, processes
  <2>3. QED BY <1>t, <2>1, <2>2, GoingOnKeeps
<1>8. CASE Ask /\ ~NextGate
  <2>1. To("term") /\ headers # <<>>
    BY <1>8 DEF Ask, ToolsInv, StageInv
  <2>2. foundGates' = foundGates /\ hostProc' = hostProc /\ tm = "ask" /\ UNCHANGED <<gateBoard, nGatePID, boards, tmadmin>>
    BY <1>8 DEF Ask, processes
  <2>3. QED BY <1>t, <2>1, <2>2, GoingOnKeeps
<1>9. CASE SendTerm
  <2>1. To("wait") /\ headers # <<>> /\ foundGates' = foundGates /\ tm = "term"
        /\ UNCHANGED <<gateBoard, nGatePID, boards, tmadmin>>
    BY <1>9 DEF SendTerm, ToolsInv, StageInv
  <2>2. hostProc' \in [HostPid -> {"none", "gate", "other"}]
        /\ \A p \in HostPid : hostProc'[p] = "gate" => hostProc[p] = "gate"
    BY <1>t, <1>9 DEF SendTerm
  <2>3. QED BY <2>1, <2>2, GoingOnKeeps
<1>10. CASE Poll
  <2>1. PICK place \in {"remove", "wait", "kill"} : To(place) /\ (place = "remove" => ~ProcessExists(This.nGatePID))
    BY <1>10 DEF Poll, Forced
  <2>2. /\ headers # <<>> /\ foundGates' = foundGates /\ hostProc' = hostProc /\ tm = "wait"
        /\ UNCHANGED <<gateBoard, nGatePID, boards, tmadmin>>
    BY <1>10 DEF Poll, processes, ToolsInv, StageInv
  <2>3. QED BY <1>t, <2>1, <2>2, GoingOnKeeps DEF ProcessExists
<1>11. CASE Kill
  <2>1. /\ To("remove") /\ headers # <<>> /\ foundGates' = foundGates /\ tm = "kill"
        /\ hostProc' = [hostProc EXCEPT ![This.nGatePID] = "none"]
        /\ UNCHANGED <<gateBoard, nGatePID, boards, tmadmin>>
    BY <1>11 DEF Kill, ToolsInv, StageInv
  <2>2. This.nGatePID \in HostPid
    BY <2>1, Copied
  <2>3. QED BY <1>t, <2>1, <2>2, GoingOnKeeps
<1>12. CASE TmadminRuns
  BY <1>12, AdminKeeps
<1>13. CASE UNCHANGED toolsVars
  BY <1>13 DEF toolsVars, ToolsInv, ToolsTypeOK, OwnInv, StageInv, This, LeftInv, SegmentGone, GateGoneFirst, GateWith, ShownStands
<1>14. RemoveIPC => NextGate
  BY DEF RemoveIPC
<1>15. QED
  BY <1>1, <1>2, <1>3, <1>4, <1>5, <1>6, <1>7, <1>8, <1>9, <1>10, <1>11, <1>12, <1>13, <1>14
     DEF ToolsNext, TmshutdownRuns

(* The inductive invariant of the tools, with the types of what they read. *)
THEOREM ToolsTypeCorrect == ToolsSpec => []ToolsInv
BY ToolsInitInv, ToolsStepInv, PTL DEF ToolsSpec

(* Whatever gates begin and end, and whoever is given their pids while     *)
(* tmshutdown and tmadmin run, no board is taken away beneath its gate,    *)
(* nothing is left of what was stopped, and no removed board is shown.     *)
THEOREM ToolsAreSafe == ToolsSpec => []ToolsSafe
<1>1. ToolsInv => ToolsSafe
  BY Copied DEF ToolsInv, StageInv, LeftInv, NothingLeft, ToolsSafe, ToolsTypeOK
<1>2. QED BY <1>1, ToolsTypeCorrect, PTL
=============================================================================
