----------------------------- MODULE AtmiBuffers -----------------------------
(***************************************************************************)
(* The typed buffers of a program: tpalloc, tprealloc, tpfree and tptypes  *)
(* (ATMIAPI.cpp, ATMIBufferManager), and what tpcall does with the buffer  *)
(* it sends and the one it is given for the answer (AppContext.cpp).       *)
(* Every function holds m_Mutex from beginning to end; malloc and realloc  *)
(* find memory.                                                            *)
(***************************************************************************)
EXTENDS Integers, FiniteSets, FiniteSetsExt, Functions

CONSTANTS Block,       \* addresses that malloc may return
          BufferType,  \* "CARRAY" (and "XML"), "STRING" (and "MBSTRING"), "VIEW32", "FML32"
          SubType,     \* names of views
          SizeOfView,  \* their sizes, View32Manager's
          LeastSize,   \* 512 or 1024 bytes, by type
          BufferMax,   \* bound: the largest size a program asks for
          CachedSize   \* TUXONE_APP_BUFFER_CACHEDSIZE

ASSUME AtmiAssumption == /\ BufferMax \in Nat /\ CachedSize \in Nat
                         /\ LeastSize \in [BufferType -> Nat]
                         /\ SizeOfView \in [SubType -> Nat]

NoSub == ""

VARIABLES bufferList,  \* m_BufferList: a function on the blocks that are there
          totalSize,   \* m_nBufferTotalSize
          granted,     \* what the program was told it has, of each block it holds
          netOrder,    \* FML32 blocks whose header is in network order
          tperrno,     \* of the last call
          torn,        \* history: blocks whose entry was read after its erasure and
                       \* says something else since
          wasView      \* history: blocks that have been a view since they were allocated

atmiVars == <<bufferList, totalSize, granted, netOrder, tperrno, torn, wasView>>

BufferSize == 0 .. BufferMax
Item == [current : BufferSize, actual : BufferSize, type : BufferType, sub : SubType \cup {NoSub}, inUse : BOOLEAN]
Held == DOMAIN granted

AtmiInit == /\ bufferList = [p \in {} |-> 0]
            /\ totalSize = 0
            /\ granted = [p \in {} |-> 0]
            /\ netOrder = {}
            /\ tperrno = "OK"
            /\ torn = {} /\ wasView = {}

Enter(f, p, value) == [q \in DOMAIN f \cup {p} |-> IF q = p THEN value ELSE f[q]]
Without(f, p) == Restrict(f, DOMAIN f \ {p})

\* What every function asks of a pointer first: it is there and in use.
Registered(p) == p \in DOMAIN bufferList /\ bufferList[p].inUse

\* What the program is told after it has given p away.  A torn block may have
\* been given out twice: the other holder still has it.
GivenAway(p) == {Without(granted, p)} \cup (IF p \in torn THEN {granted} ELSE {})

-----------------------------------------------------------------------------
\* The checks of AllocateBuffer, and the size it goes on with.
Refusal(type, sub, size) ==
    CASE type = "CARRAY" /\ size = 0 -> "TPEINVAL"
      [] type = "VIEW32" /\ sub = NoSub -> "TPEINVAL"
      [] type = "VIEW32" /\ sub \notin SubType -> "TPENOENT"
      [] OTHER -> "none"
Wanted(type, sub, size) ==
    Max({size, LeastSize[type]} \cup (IF type = "VIEW32" THEN {SizeOfView[sub]} ELSE {}))

\* Blocks that can be given out again.
Idle(size) == {p \in DOMAIN bufferList : ~bufferList[p].inUse /\ size <= bufferList[p].actual}

(* A mistake: the entry still says what the block was. *)
ReusedAsItWas(p, type, sub, size) == [bufferList[p] EXCEPT !.inUse = TRUE, !.current = size]

\* The entry of a block that is given out again: the name of a view is
\* written only if the block becomes one.
Reused(p, type, sub, size) ==
    [bufferList[p] EXCEPT !.inUse = TRUE, !.current = size, !.type = type,
                          !.sub = IF type = "VIEW32" THEN sub ELSE @]

Grant(p, type, sub, size) ==
    /\ granted' = Enter(granted, p, [type |-> type, size |-> size,
                                     sub |-> IF type = "VIEW32" THEN sub ELSE NoSub])
    /\ netOrder' = netOrder \ {p}
    /\ tperrno' = tperrno

BecomesView(set, p, type) == IF type = "VIEW32" THEN set \cup {p} ELSE set

\* tpalloc.  The list is in the order of addresses, which malloc chooses.
Tpalloc(type, sub, asked) ==
    /\ UNCHANGED torn
    /\ IF Refusal(type, sub, asked) # "none"
       THEN tperrno' = Refusal(type, sub, asked) /\ UNCHANGED <<bufferList, totalSize, granted, netOrder, wasView>>
       ELSE LET size == Wanted(type, sub, asked) IN
            \/ \E p \in Idle(size) :
                  /\ bufferList' = [bufferList EXCEPT ![p] = Reused(p, type, sub, size)]
                  /\ Grant(p, type, sub, size)
                  /\ wasView' = BecomesView(wasView, p, type)
                  /\ UNCHANGED totalSize
            \/ /\ Idle(size) = {}
               /\ \E p \in Block \ DOMAIN bufferList :
                     /\ bufferList' = Enter(bufferList, p,
                            [current |-> size, actual |-> size, type |-> type, inUse |-> TRUE,
                             sub |-> IF type = "VIEW32" THEN sub ELSE NoSub])
                     /\ totalSize' = totalSize + size
                     /\ Grant(p, type, sub, size)
                     /\ wasView' = BecomesView(wasView, p, type)

\* ReallocateBuffer, where realloc leaves the block where it is ...
StayInPlace(p, size) ==
    /\ bufferList' = [bufferList EXCEPT ![p].current = size, ![p].actual = size]
    /\ UNCHANGED torn

\* An entry that is copied after its erasure (231): as a rule it still says
\* what it said, but its type, name and mark may say anything.
AfterErasure(item) == [current : {item.current}, actual : {item.actual}, type : BufferType,
                       sub : SubType \cup {NoSub}, inUse : BOOLEAN]

\* ... or moves it to q.
MoveBlock(p, q, size) ==
    \E item \in AfterErasure(bufferList[p]) :
        /\ bufferList' = Enter(Without(bufferList, p), q, [item EXCEPT !.current = size, !.actual = size])
        /\ torn' = IF p \in torn \/ item # bufferList[p] THEN torn \cup {q} ELSE torn

Grown(p, size) == totalSize - bufferList[p].actual + size

\* A block that is large enough is returned as it is: tptypes goes on to say
\* what it said.
Reallocate(p, q, size) ==
    IF bufferList[p].actual >= size THEN q = p /\ UNCHANGED <<bufferList, totalSize, torn>>
    ELSE /\ totalSize' = Grown(p, size)
         /\ IF q = p THEN StayInPlace(p, size) ELSE q \notin DOMAIN bufferList /\ MoveBlock(p, q, size)

Moved(set, p, q) == IF p \in set THEN (set \ {p}) \cup {q} ELSE set

Tprealloc(p, size) ==
    /\ p \in Held
    /\ IF ~Registered(p)
       THEN tperrno' = "TPEOS" /\ UNCHANGED <<bufferList, totalSize, granted, netOrder, torn, wasView>>
       ELSE /\ tperrno' = tperrno
            /\ \E q \in Block, rest \in GivenAway(p) :
                  /\ Reallocate(p, q, size)
                  /\ granted' = Enter(rest, q, [granted[p] EXCEPT !.size = size])
                  /\ netOrder' = Moved(netOrder, p, q)
                  /\ wasView' = Moved(wasView, p, q)

\* FreeBuffer keeps the block unless there are too many bytes.
OverCache(p) == totalSize > CachedSize

\* Nothing is done with a block that is not registered.
Tpfree(p) ==
    /\ p \in Held
    /\ \E rest \in GivenAway(p) : granted' = rest
    /\ IF ~Registered(p) THEN UNCHANGED <<bufferList, totalSize, wasView>>
       ELSE IF OverCache(p)
       THEN /\ totalSize' = totalSize - bufferList[p].actual
            /\ bufferList' = Without(bufferList, p) /\ wasView' = wasView \ {p}
       ELSE bufferList' = [bufferList EXCEPT ![p].inUse = FALSE] /\ UNCHANGED <<totalSize, wasView>>
    /\ netOrder' = netOrder \ {p}
    /\ UNCHANGED <<tperrno, torn>>

-----------------------------------------------------------------------------
\* tpcall: the header of an FML32 request is turned into network order in
\* the program's own buffer, for good.
Sent(p) == netOrder \cup {q \in {p} : Registered(q) /\ bufferList[q].type = "FML32"}

\* The call fails, or the service returns no data.
TpcallWithoutReply(p, error) ==
    /\ p \in Held
    /\ netOrder' = Sent(p)
    /\ tperrno' = error
    /\ UNCHANGED <<bufferList, totalSize, granted, torn, wasView>>

\* The answer must be of the type and the view that the buffer is registered as.
SameType(q, reply) == bufferList[q].type = reply.type /\ bufferList[q].sub = reply.sub

\* The answer is copied into the buffer q, which grows to hold one byte more.
TpcallWithReply(p, q, reply) ==
    /\ p \in Held /\ q \in Held
    /\ IF ~Registered(q) \/ ~SameType(q, reply)
       THEN /\ tperrno' = "TPEOTYPE" /\ netOrder' = Sent(p)
            /\ UNCHANGED <<bufferList, totalSize, granted, torn, wasView>>
       ELSE /\ tperrno' = "OK"
            /\ \E r \in Block, rest \in GivenAway(q) :
                 /\ Reallocate(q, r, reply.size + 1)
                 /\ granted' = Enter(rest, r, [granted[q] EXCEPT !.size = reply.size + 1])
                 /\ netOrder' = Moved(Sent(p), q, r) \ {r}
                 /\ wasView' = Moved(wasView, q, r)

\* An answer carries the name of its block, which may be left from a view
\* that the block was before (AppNSHandlerImpl).
TypedReply == [type : BufferType \ {"VIEW32"}, sub : SubType \cup {NoSub}, size : 1 .. BufferMax - 1]
              \cup [type : {"VIEW32"}, sub : SubType, size : 1 .. BufferMax - 1]

AtmiNext ==
    \/ \E type \in BufferType, sub \in SubType \cup {NoSub}, size \in BufferSize : Tpalloc(type, sub, size)
    \/ \E p \in Held : \/ Tpfree(p)
                       \/ \E size \in BufferSize \ {0} : Tprealloc(p, size)
                       \/ \E error \in {"OK", "TPETIME"} : TpcallWithoutReply(p, error)
                       \/ \E q \in Held, reply \in TypedReply : TpcallWithReply(p, q, reply)

AtmiSpec == AtmiInit /\ [][AtmiNext]_atmiVars

-----------------------------------------------------------------------------
AtmiTypeOK ==
    /\ DOMAIN bufferList \subseteq Block /\ Range(bufferList) \subseteq Item
    /\ Held \ torn \subseteq DOMAIN bufferList
    /\ netOrder \subseteq Held /\ torn \subseteq Block
    /\ wasView \subseteq DOMAIN bufferList

\* The bytes of some of the blocks.
BytesOf(list, blocks) == MapThenSumSet(LAMBDA p : list[p].actual, blocks)

(* m_nBufferTotalSize is the sum of the blocks there are, whatever has     *)
(* been moved, given out again or freed, and whatever an entry says that   *)
(* was read after its erasure.                                             *)
TotalIsSum == totalSize = BytesOf(bufferList, DOMAIN bufferList)

(* The blocks that are kept for later never exceed the cache, those apart  *)
(* whose entry calls them idle since it was read after its erasure.        *)
IdleBounded ==
    BytesOf(bufferList, {p \in DOMAIN bufferList \ torn : ~bufferList[p].inUse}) <= CachedSize

(* What a program holds it alone holds, with the room it was told of: the  *)
(* block is in use, and at least as large as the last call said and as     *)
(* tptypes says.  Only a block whose own entry was read after its erasure, *)
(* or another at the same address later, may be given out twice.           *)
RoomAsGranted ==
    \A p \in Held \ torn :
        Registered(p) /\ bufferList[p].actual >= granted[p].size
                      /\ bufferList[p].actual >= bufferList[p].current

(* The type of a buffer stays the one it was allocated with, in the longest*)
(* run of tpalloc, tpcall and tprealloc, and with it the answers that      *)
(* tpcall takes: those of its type and view.  A block that is no view any  *)
(* more keeps the name of the view (147-150): all that can be said of it   *)
(* is its type, and an answer without a name is refused (TPEOTYPE).        *)
TypeAsGranted ==
    \A p \in Held \ torn :
        /\ bufferList[p].type = granted[p].type
        /\ granted[p].type = "VIEW32" \/ p \notin wasView => bufferList[p].sub = granted[p].sub

(* The buffers of a program, and the account of them: all of these. *)
BuffersKept == TotalIsSum /\ IdleBounded /\ RoomAsGranted /\ TypeAsGranted
=============================================================================
