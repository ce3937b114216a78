------------------------------ MODULE Messages -------------------------------
(***************************************************************************)
(* How a message gets from the memory of one host into that of another:    *)
(* Marshal of Message.cpp, View32Util.cpp and BulletinBoard.cpp over an    *)
(* OutputStream, the header and the body on the connection, the Buffer     *)
(* that takes both one after the other, and Unmarshal over an InputStream. *)
(*                                                                         *)
(* Characters and bytes of data are small numbers, an integer has two      *)
(* bytes, an address four: two of the host and two of the port.            *)
(***************************************************************************)
EXTENDS ByteOrder

CONSTANTS MsgText,      \* strings, and the data of tpcall
          MsgNumber,    \* integers
          Address,   \* addresses as they are in memory
          ViewType,  \* TYPED_BUFFER_VIEW32
          OtherType  \* another type of typed buffers

ASSUME MessagesAssumption ==
    /\ ViewType # OtherType
    /\ Address \subseteq [1 .. 4 -> 0 .. ByteBase - 1]
    /\ MsgText \subseteq Seq(0 .. ByteBase - 1) /\ \A t \in MsgText : Len(t) < ByteBase * ByteBase
    /\ {ViewType, OtherType} \cup MsgNumber \subseteq 0 .. ByteBase * ByteBase - 1

VARIABLES sent,      \* the message
          hosts,     \* the byte orders of the sender and the receiver
          stage,     \* "start", "sent", "header", "body", "board", "done"
          onWire,      \* what is on its way
          buffer,    \* the receiver's Buffer, all of its capacity
          bodySize,  \* how much of it is the body
          input      \* the InputStream and what was read from it

messagesVars == <<sent, hosts, stage, onWire, buffer, bodySize, input>>

WidthOf == 2
NumberMax == ByteBase * ByteBase   \* numbers are less
HeaderSize == 4 * WidthOf

-----------------------------------------------------------------------------
(* What Marshal writes, in its order: a field, or a list of tuples after   *)
(* their number; some only with data, or with data of a view.              *)

Entry(when, field, kinds, many) == [field |-> field, kinds |-> kinds, many |-> many, when |-> when]
One(field, kind) == Entry("always", field, <<kind>>, FALSE)
Many(field, kinds) == Entry("always", field, kinds, TRUE)

\* service names, each after its length, after their number
Names == Many("services", <<"counted">>)

\* The data of a tpcall, one way or the other, and of a view its structure.
OfData(field, kind) == Entry("has", field, <<kind>>, FALSE)
OfView(field, kind) == Entry("view", field, <<kind>>, FALSE)
ViewItems == Entry("view", "items", <<"byte", "counted", "counted", "number", "number", "number",
                                      "counted", "number">>, TRUE)

FetchBBReq == <<One("all", "byte")>>
FetchBBRep == <<One("board", "counted")>>
RegisterReq == <<One("appType", "number"), One("server", "counted"), Names>>
RegisterRep == <<One("seq", "number"), One("interval", "number"), Names>>
SubscibeReq == <<Names>>
SubscibeRep == <<One("seq", "number"), Many("infos", <<"counted", "address">>)>>
TpcallReq == <<One("service", "counted"), One("has", "byte"), OfData("data", "counted"),
               OfData("bufType", "number"), OfData("subType", "counted"),
               OfView("structName", "counted"), OfView("structSize", "number"), ViewItems,
               One("flags", "number")>>
TpcallRep == <<One("has", "byte"), OfData("data", "counted"), OfData("bufType", "number"),
               OfData("subType", "counted"), OfView("structName", "counted"),
               OfView("structSize", "number"), ViewItems, One("flags", "number"),
               One("retCode", "number")>>
ServerInfoRep == <<One("server", "counted"), One("clients", "number")>>

\* TUX_MSG_TYPE_...; a PING_PANG and a SERVER_INFO_REQ have no body.
MarshalOrder ==
    [GET_BB_REQ |-> FetchBBReq, GET_BB_REP |-> FetchBBRep,
     REGISTER_REQ |-> RegisterReq, REGISTER_REP |-> RegisterRep,
     SUBSCIBE_REQ |-> SubscibeReq, SUBSCIBE_REP |-> SubscibeRep, PING_PANG |-> <<>>,
     TPCALL_REQ |-> TpcallReq, TPCALL_REP |-> TpcallRep, SERVER_INFO_REP |-> ServerInfoRep]

\* Unmarshal reads in the same order, and asks what it has read so far.
UnmarshalOrder == MarshalOrder

\* bb_stream_t, which a GET_BB_REP carries.
BoardOrder ==
    <<One("magic", "number"), One("semid", "number"), One("seq", "number"),
      One("gatePID", "number"), One("udpPort", "number"), One("wshMax", "number"),
      One("svcMax", "number"), One("gate", "address"),
      Many("wshs", <<"number", "number", "number", "number", "number">>),
      Many("svcs", <<"number", "counted", "address", "number", "number">>)>>

Holds(when, record) ==
    \/ when = "always"
    \/ record["has"] = 1 /\ (when = "view" => record["bufType"] = ViewType)

-----------------------------------------------------------------------------
(* OutputStream.                                                           *)

\* Assigned to memory in the order of the network.
WriteNumber(v, order) == InMemory(ToNet(v, WidthOf, order), WidthOf, order)
WriteCounted(s, order) == WriteNumber(Len(s), order) \o s

\* socket_addr_t::Marshal writes two integers.
WriteAddress(memory, order) ==
    WriteNumber(FromMemory(SubSeq(memory, 1, WidthOf), order), order)
    \o WriteNumber(FromMemory(SubSeq(memory, WidthOf + 1, 2 * WidthOf), order), order)

WriteField(kind, v, order) == CASE kind = "number" -> WriteNumber(v, order)
                           [] kind = "byte" -> <<v>>
                           [] kind = "counted" -> WriteCounted(v, order)
                           [] kind = "address" -> WriteAddress(v, order)

WriteTuple(kinds, tuple, order) ==
    FlattenSeq([k \in DOMAIN kinds |-> WriteField(kinds[k], tuple[k], order)])

WriteEntry(entry, record, order) ==
    LET v == record[entry.field] IN
    IF ~Holds(entry.when, record) THEN <<>>
    ELSE IF entry.many
         THEN WriteNumber(Len(v), order)
              \o FlattenSeq([i \in DOMAIN v |-> WriteTuple(entry.kinds, v[i], order)])
         ELSE WriteField(entry.kinds[1], v, order)

Marshal(entries, record, order) ==
    FlattenSeq([i \in DOMAIN entries |-> WriteEntry(entries[i], record, order)])

-----------------------------------------------------------------------------
\* f, and of g what f does not have: the @@ of TLC, which a proof cannot expand.
Joint(f, g) == [x \in DOMAIN f \cup DOMAIN g |-> IF x \in DOMAIN f THEN f[x] ELSE g[x]]

(* InputStream: over the capacity of a Buffer, an exception past its end.  *)

\* at is how much has been read, value what was read last, got the fields so far.
Stream(bytes, at, value, got) ==
    [bytes |-> bytes, at |-> at, failed |-> FALSE, value |-> value, got |-> got]
Start(bytes) == Stream(bytes, 0, 0, <<>>)
Failed(s) == [s EXCEPT !.failed = TRUE]
Giving(s, value) == IF s.failed THEN s ELSE Stream(s.bytes, s.at, value, s.got)

Enough(s, n) == ~s.failed /\ s.at + n <= Len(s.bytes)
Take(s, n) == Stream(s.bytes, s.at + n, SubSeq(s.bytes, s.at + 1, s.at + n), s.got)

Decoded(t, order) == Giving(t, ToNet(FromMemory(t.value, order), WidthOf, order))
ReadNumber(s, order) ==
    IF Enough(s, WidthOf) THEN Decoded(Take(s, WidthOf), order) ELSE Failed(s)

ReadByte(s) == IF Enough(s, 1) THEN Giving(Take(s, 1), Take(s, 1).value[1]) ELSE Failed(s)

\* ReadString, ReadAny, ReadArray: after the length what it says.
Counted(length) ==
    IF Enough(length, length.value) THEN Take(length, length.value) ELSE Failed(length)
ReadCounted(s, order) == Counted(ReadNumber(s, order))

(* A mistake: the port is put in front. *)
PortInFront(ip, port, order) ==
    Giving(port, InMemory(port.value, WidthOf, order) \o InMemory(ip.value, WidthOf, order))
\* socket_addr_t::Unmarshal: the two numbers as they are in memory.
AddressOf(ip, port, order) ==
    Giving(port, InMemory(ip.value, WidthOf, order) \o InMemory(port.value, WidthOf, order))
ReadPort(ip, order) == AddressOf(ip, ReadNumber(ip, order), order)
ReadAddress(s, order) == ReadPort(ReadNumber(s, order), order)

ReadField(s, kind, order) == CASE kind = "number" -> ReadNumber(s, order)
                          [] kind = "byte" -> ReadByte(s)
                          [] kind = "counted" -> ReadCounted(s, order)
                          [] kind = "address" -> ReadAddress(s, order)

\* The stream after each of some reads: what they gave is the value in the end.
Collected(after, n) == Giving(after[n], [k \in 1 .. n |-> after[k].value])

ReadTuple(s, kinds, order) ==
    LET after[k \in 0 .. Len(kinds)] == IF k = 0 THEN s ELSE ReadField(after[k - 1], kinds[k], order)
    IN Collected(after, Len(kinds))

ReadAll(number, kinds, order) ==
    LET after[i \in 0 .. number.value] ==
          IF i = 0 THEN number ELSE ReadTuple(after[i - 1], kinds, order)
    IN IF number.failed THEN number ELSE Collected(after, number.value)
ReadMany(s, kinds, order) == ReadAll(ReadNumber(s, order), kinds, order)

\* The value goes into its field.
Got(t, field) ==
    IF t.failed THEN t ELSE Stream(t.bytes, t.at, 0, Joint([f \in {field} |-> t.value], t.got))
ReadEntry(s, entry, order) ==
    IF s.failed \/ ~Holds(entry.when, s.got) THEN s
    ELSE Got(IF entry.many THEN ReadMany(s, entry.kinds, order)
             ELSE ReadField(s, entry.kinds[1], order), entry.field)

Unmarshal(entries, bytes, order) ==
    LET after[i \in 0 .. Len(entries)] ==
          IF i = 0 THEN Start(bytes) ELSE ReadEntry(after[i - 1], entries[i], order)
    IN after[Len(entries)]

-----------------------------------------------------------------------------
(* The exchange.                                                           *)

Items == {<<>>} \cup {<<<<1, t, t, n, 0, n, t, n>>>> : t \in MsgText, n \in MsgNumber}
Struct == {[structName |-> t, structSize |-> n, items |-> i] : t \in MsgText, n \in MsgNumber, i \in Items}
Data == {[has |-> 0]}
        \cup {[has |-> 1, data |-> d, bufType |-> OtherType, subType |-> <<>>] : d \in MsgText}
        \cup {Joint([has |-> 1, data |-> d, bufType |-> ViewType, subType |-> <<1>>], i)
              : d \in MsgText, i \in Struct}
Lists(S) == {<<>>} \cup {<<x>> : x \in S} \cup {<<x, y>> : x \in S, y \in S}
Tuples(S) == {<<x>> : x \in S}
Board == {[magic |-> n, semid |-> 0, seq |-> n, gatePID |-> n, udpPort |-> n, wshMax |-> 1,
           svcMax |-> 1, gate |-> a, wshs |-> w, svcs |-> v]
          : n \in MsgNumber, a \in Address, w \in {<<>>, <<<<0, 1, 1, 1, 1>>>>},
            v \in {<<>>} \cup {<<<<0, t, b, 0, 1>>>> : t \in MsgText, b \in Address}}

Fields(type) ==
    CASE type = "REGISTER_REQ" -> {[appType |-> n, server |-> a, services |-> l]
                                   : n \in MsgNumber, a \in Address, l \in Lists(Tuples(MsgText))}
      [] type = "REGISTER_REP" -> {[seq |-> n, interval |-> i, services |-> l]
                                   : n \in MsgNumber, i \in MsgNumber, l \in Lists(Tuples(MsgText))}
      [] type = "SUBSCIBE_REQ" -> {[services |-> l] : l \in Lists(Tuples(MsgText))}
      [] type = "SUBSCIBE_REP" -> {[seq |-> n, infos |-> l]
                                   : n \in MsgNumber, l \in Lists(MsgText \X Address)}
      [] type = "PING_PANG" -> {<<>>}
      [] type = "TPCALL_REQ" -> {Joint([service |-> t, flags |-> n], d)
                                 : t \in MsgText, n \in MsgNumber, d \in Data}
      [] type = "TPCALL_REP" -> {Joint([flags |-> 0, retCode |-> n], d) : n \in MsgNumber, d \in Data}
      [] type = "SERVER_INFO_REP" -> {[server |-> t, clients |-> n] : t \in MsgText, n \in MsgNumber}
      [] type = "GET_BB_REQ" -> {[all |-> 0], [all |-> 1]}
      [] type = "GET_BB_REP" -> {[board |-> b] : b \in Board}

MessagesInit ==
    /\ hosts \in [from : Order, to : Order]
    /\ \E type \in DOMAIN MarshalOrder : \E f \in Fields(type) : sent = [type |-> type, record |-> f]
    /\ stage = "start" /\ onWire = <<>> /\ buffer = <<>> /\ bodySize = 0 /\ input = Start(<<>>)

\* What the sender marshals: of a board, the stream of it.
MsgGiven(type, record, order) ==
    IF type = "GET_BB_REP" THEN [board |-> Marshal(BoardOrder, record.board, order)] ELSE record
MarshalledBody(type, record, order) == Marshal(MarshalOrder[type], MsgGiven(type, record, order), order)

\* A length is a number: no message is longer than one can say.
ASSUME LengthAssumption ==
    \A type \in DOMAIN MarshalOrder : \A record \in Fields(type) : \A order \in Order :
        HeaderSize + Len(MarshalledBody(type, record, order)) < NumberMax

\* The header is four integers, the length of all in front.
Send ==
    /\ stage = "start" /\ stage' = "sent"
    /\ LET body == MarshalledBody(sent.type, sent.record, hosts.from) IN
       onWire' = WriteNumber(HeaderSize + Len(body), hosts.from)
               \o FlattenSeq([i \in 1 .. 3 |-> WriteNumber(i, hosts.from)]) \o body
    /\ UNCHANGED <<sent, hosts, buffer, bodySize, input>>

ReceiveHeader ==
    /\ stage = "sent" /\ stage' = "header"
    /\ buffer' = SubSeq(onWire, 1, HeaderSize)
    /\ onWire' = SubSeq(onWire, HeaderSize + 1, Len(onWire))
    /\ LET length == ReadNumber(Start(buffer'), hosts.to) IN
       bodySize' = length.value - HeaderSize
    /\ UNCHANGED <<sent, hosts, input>>

\* Into the same Buffer: what a short body leaves of the header stays in it.
ReceiveBody ==
    /\ stage = "header" /\ stage' = "body"
    /\ buffer' = SubSeq(onWire, 1, bodySize) \o SubSeq(buffer, bodySize + 1, Len(buffer))
    /\ onWire' = SubSeq(onWire, bodySize + 1, Len(onWire))
    /\ UNCHANGED <<sent, hosts, bodySize, input>>

UnmarshalBody ==
    /\ stage = "body"
    /\ input' = Unmarshal(UnmarshalOrder[sent.type], buffer, hosts.to)
    /\ stage' = IF sent.type = "GET_BB_REP" /\ ~input'.failed THEN "board" ELSE "done"
    /\ UNCHANGED <<sent, hosts, onWire, buffer, bodySize>>

\* bb_stream_t::Unmarshal, from the Buffer that ReadAny made: one byte larger.
UnmarshalBoard ==
    /\ stage = "board" /\ stage' = "done"
    /\ bodySize' = Len(input.got.board)
    /\ input' = Unmarshal(BoardOrder, input.got.board \o <<0>>, hosts.to)
    /\ UNCHANGED <<sent, hosts, onWire, buffer>>

MessagesNext == Send \/ ReceiveHeader \/ ReceiveBody \/ UnmarshalBody \/ UnmarshalBoard
MessagesSpec == MessagesInit /\ [][MessagesNext]_messagesVars

-----------------------------------------------------------------------------
Received == stage = "done"
Told == IF sent.type = "GET_BB_REP" THEN sent.record.board ELSE sent.record
Entries == IF sent.type = "GET_BB_REP" THEN BoardOrder ELSE MarshalOrder[sent.type]

\* v is what was sent, w what has come, but for addresses that are turned round.
Alike(kinds, v, w) ==
    \A k \in DOMAIN kinds : v[k] # w[k] => kinds[k] = "address" /\ hosts.from # hosts.to

(* Whatever the byte orders of the two hosts, the receiver has every field *)
(* the sender has given, and no other; addresses that Marshal writes as    *)
(* integers only between hosts of one order.                               *)
FieldsArrive ==
    Received => /\ ~input.failed /\ DOMAIN input.got = DOMAIN Told
                /\ \A e \in Range(Entries) : e.field \in DOMAIN Told =>
                      LET v == Told[e.field]  w == input.got[e.field] IN
                      IF e.many THEN /\ Len(v) = Len(w)
                                     /\ \A i \in DOMAIN v : Alike(e.kinds, v[i], w[i])
                      ELSE Alike(e.kinds, <<v>>, <<w>>)

(* Unmarshal takes the body of the message to its last byte and nothing of *)
(* what the Buffer holds behind it, the header or what it was made with.   *)
BodyUsedUp == Received => input.at = bodySize

(* A message arrives whole and nothing else with it: both of these. *)
MessageArrives == FieldsArrive /\ BodyUsedUp
=============================================================================
