----------------------------- MODULE DataProofs ------------------------------
(***************************************************************************)
(* Theorems about what becomes of data.  About Exchange, for any sizes: no *)
(* side takes the middle of a message for its beginning, and a reply is    *)
(* returned to the call that asked for it.  About Settings: the strongest  *)
(* of what is given counts.  About FieldTable and ViewFile, for any table: *)
(* the headers say what was written in it.  About AtmiBuffers, for any     *)
(* blocks, types and sizes: the buffers are what the program was granted,  *)
(* and the manager knows how many bytes they are.                          *)
(***************************************************************************)
EXTENDS Exchange, Settings, AtmiBuffers, FieldTable, ViewFile,
        SequenceTheorems, FiniteSetTheorems, TLAPS

-----------------------------------------------------------------------------
(* A request and its reply. *)

\* A message, unit by unit, and the place of a unit in its message.
Whole == HeaderLen + BodyLen
Size(kind) == IF kind = "notice" THEN HeaderLen ELSE Whole
UnitAt(kind, n, i) ==
    <<kind, n, IF i <= HeaderLen THEN "header" ELSE "body", IF i <= HeaderLen THEN i ELSE i - HeaderLen>>
Message(kind, n) == [i \in 1 .. Size(kind) |-> UnitAt(kind, n, i)]
Place(u) == IF u[3] = "header" THEN u[4] ELSE HeaderLen + u[4]
MsgKind == {"request", "reply", "notice"}
Unit == {UnitAt(kind, n, i) : kind \in MsgKind, n \in 0 .. CallerMax, i \in 1 .. Whole}

\* Joining streams, and what is taken off one and left of it.
Cat(s, t) == s \o t
Taken(s, k) == SubSeq(s, 1, k)
Left(s, k) == SubSeq(s, k + 1, Len(s))

\* What is on its way on a connection, with what each side has taken or not yet written.
BeingRead(c) == IF wsh[c].at \in {"waiting", "reading"} THEN wsh[c].units ELSE <<>>
BeingSent(c) == IF Sending /\ caller.conn = c THEN caller.units ELSE <<>>
UpStream(c) == Cat(BeingRead(c), Cat(up[c], BeingSent(c)))
BeingReceived(c) == IF Receiving /\ caller.conn = c THEN caller.units ELSE <<>>
BeingReplied(c) == IF wsh[c].at = "replying" THEN wsh[c].units ELSE <<>>
DownStream(c) == Cat(BeingReceived(c), Cat(down[c], BeingReplied(c)))
KeptOpen(c) == "client" \notin closedBy[c]

\* Messages one after the other, the last perhaps cut short.
InPlace(s, p) ==
    LET q == Place(s[p]) IN
    /\ q <= p /\ q \in 1 .. Size(s[p][1])
    /\ \A r \in 1 .. Size(s[p][1]) : p - q + r <= Len(s) => s[p - q + r] = UnitAt(s[p][1], s[p][2], r)
InMessages(s) == \A p \in 1 .. Len(s) : InPlace(s, p)
LastIsWhole(s) == s # <<>> => Place(s[Len(s)]) = Size(s[Len(s)][1])

Asks(c, n) == /\ Serving(c)
              /\ \/ UpStream(c) # <<>> /\ UpStream(c)[1][2] = n
                 \/ wsh[c].at = "invoking" /\ wsh[c].n = n

InvokeResult == {"NONE", "OK", "SEND_HEADER_TIMEOUT", "SEND_BODY_TIMEOUT", "SEND_HEADER_FAILED",
           "SEND_BODY_FAILED", "RECEIVE_TIMEOUT", "RECEIVE_FAILED"}
ExchangeTypeOK ==
    /\ up \in [Conn -> Seq(Unit)] /\ down \in [Conn -> Seq(Unit)]
    /\ closedBy \in [Conn -> SUBSET {"client", "server"}]
    /\ caller \in [at : {"idle", "sending", "receiving"}, conn : Conn \cup {NoConn},
                   n : 0 .. CallerMax, units : Seq(Unit)]
    /\ wsh \in [Conn -> [at : {"waiting", "reading", "invoking", "replying", "closed"},
                         n : 0 .. CallerMax, units : Seq(Unit)]]
    /\ executions \in [Calls -> Nat]
    /\ outcomes \in [Calls -> InvokeResult]
    /\ answer \in [Calls -> 0 .. CallerMax]
    /\ notices \in Nat

CallerInv ==
    /\ caller.at # "idle" => caller.conn \in Conn /\ KeptOpen(caller.conn) /\ caller.n \in Calls
    /\ caller.at = "sending" => caller.units # <<>>
    /\ caller.at = "idle" => caller.units = <<>>
    /\ caller.at = "receiving" =>
          /\ Len(caller.units) < Whole
          /\ Len(caller.units) >= HeaderLen => caller.units[1][1] = "reply"

WorkerInv == \A c \in Conn :
    /\ wsh[c].at = "closed" <=> ~Serving(c)
    /\ wsh[c].at \in {"waiting", "closed"} => wsh[c].units = <<>>
    /\ wsh[c].at \in {"reading", "replying"} => wsh[c].units # <<>>
    /\ wsh[c].at = "reading" => Len(wsh[c].units) < Whole
    /\ wsh[c].at = "invoking" => Len(wsh[c].units) = Whole /\ UpStream(c) = <<>> /\ wsh[c].n \in Calls
                                 /\ (KeptOpen(c) => Receiving /\ caller.conn = c /\ caller.n = wsh[c].n)

UpInv == \A c \in Conn : Serving(c) =>
    /\ Len(UpStream(c)) <= Whole
    /\ \A p \in 1 .. Len(UpStream(c)) : UpStream(c)[p] = UnitAt("request", UpStream(c)[1][2], p)
    /\ Sending /\ caller.conn = c => Len(UpStream(c)) = Whole /\ UpStream(c)[1][2] = caller.n

AskInv ==
    /\ \A c \in Conn, n \in 0 .. CallerMax : Asks(c, n) =>
          /\ n \in 1 .. caller.n /\ executions[n] = 0
          /\ n = caller.n => c = caller.conn
          /\ KeptOpen(c) => caller.at # "idle" /\ n = caller.n /\ c = caller.conn
          /\ outcomes[n] \in Retried => ~KeptOpen(c) /\ Len(UpStream(c)) < Whole /\ wsh[c].at # "invoking"
    /\ \A c, d \in Conn, n \in 0 .. CallerMax : Asks(c, n) /\ Asks(d, n) => c = d

HistoryInv ==
    /\ \A n \in Calls : n > caller.n => executions[n] = 0
    /\ \A n \in Calls : n > caller.n \/ (n = caller.n /\ caller.at # "idle") => outcomes[n] = "NONE"
    /\ Sending => executions[caller.n] = 0
    /\ \A n \in Calls : executions[n] <= 1
    /\ \A n \in Calls : outcomes[n] \in Retried => executions[n] = 0
    /\ AnswerIsOwnRequests

DownInv == \A c \in Conn : KeptOpen(c) =>
    LET s == DownStream(c) IN
    /\ InMessages(s)
    /\ Serving(c) => LastIsWhole(s)
    /\ \A p \in 1 .. Len(s) : s[p][1] \in {"notice", "reply"}
    /\ \A p \in 1 .. Len(s) : s[p][1] = "reply" =>
          /\ Receiving /\ c = caller.conn /\ s[p][2] = caller.n
          /\ executions[caller.n] = 1 /\ ~Asks(c, caller.n)
    /\ \A p, q \in 1 .. Len(s) : s[p] = s[q] /\ s[p][1] = "reply" => p = q

ExchangeInv == ExchangeTypeOK /\ CallerInv /\ WorkerInv /\ UpInv /\ AskInv /\ HistoryInv /\ DownInv

-----------------------------------------------------------------------------
(* Units, messages and streams of them. *)

\* A unit says which message it belongs to and where it stands in it.
LEMMA UnitFacts ==
  /\ \A kind \in MsgKind, n \in 0 .. CallerMax, i \in 1 .. Whole :
        LET u == UnitAt(kind, n, i) IN u \in Unit /\ u[1] = kind /\ u[2] = n /\ Place(u) = i
  /\ \A u \in Unit : /\ u[1] \in MsgKind /\ u[2] \in 0 .. CallerMax /\ Place(u) \in 1 .. Whole
                     /\ u = UnitAt(u[1], u[2], Place(u))
<1>1. ASSUME NEW kind \in MsgKind, NEW n \in 0 .. CallerMax, NEW i \in 1 .. Whole
      PROVE  LET u == UnitAt(kind, n, i) IN u \in Unit /\ u[1] = kind /\ u[2] = n /\ Place(u) = i
  <2>1. UnitAt(kind, n, i) \in Unit
    BY DEF Unit
  <2>2. UnitAt(kind, n, i)[1] = kind /\ UnitAt(kind, n, i)[2] = n
    BY DEF UnitAt
  <2>3. Place(UnitAt(kind, n, i)) = i
    BY ExchangeAssumption DEF UnitAt, Place, Whole
  <2> QED
    BY <2>1, <2>2, <2>3
<1>2. ASSUME NEW u \in Unit
      PROVE  /\ u[1] \in MsgKind /\ u[2] \in 0 .. CallerMax /\ Place(u) \in 1 .. Whole
             /\ u = UnitAt(u[1], u[2], Place(u))
  <2>1. PICK kind \in MsgKind, n \in 0 .. CallerMax, i \in 1 .. Whole : u = UnitAt(kind, n, i)
    BY DEF Unit
  <2> QED
    BY <1>1, <2>1
<1> QED
  BY <1>1, <1>2

\* The sizes of the messages.
LEMMA Sizes ==
  /\ HeaderLen \in Nat \ {0} /\ BodyLen \in Nat \ {0} /\ Whole \in Nat \ {0} /\ HeaderLen < Whole
  /\ \A kind \in MsgKind : Size(kind) \in 1 .. Whole
  /\ Size("request") = Whole /\ Size("reply") = Whole /\ Size("notice") = HeaderLen
BY ExchangeAssumption DEF Whole, Size, MsgKind

\* A message is the units that Invoke and its server make of it.
LEMMA MessageFacts ==
  ASSUME NEW kind \in MsgKind, NEW n \in 0 .. CallerMax
  PROVE  /\ Message(kind, n) \in Seq(Unit)
         /\ Len(Message(kind, n)) = Size(kind)
         /\ \A i \in 1 .. Size(kind) : Message(kind, n)[i] = UnitAt(kind, n, i)
         /\ kind # "notice" => Header(kind, n) \o Body(kind, n) = Message(kind, n)
         /\ kind = "notice" => Header(kind, n) = Message(kind, n)
<1> USE Sizes
<1>1. \A i \in 1 .. Size(kind) : UnitAt(kind, n, i) \in Unit
  BY UnitFacts
<1>2. Message(kind, n) \in [1 .. Size(kind) -> Unit]
  BY <1>1 DEF Message
<1>3. Message(kind, n) \in Seq(Unit) /\ Len(Message(kind, n)) = Size(kind)
  BY <1>2
<1>4. \A i \in 1 .. Size(kind) : Message(kind, n)[i] = UnitAt(kind, n, i)
  BY DEF Message
<1>5. ASSUME kind = "notice" PROVE Header(kind, n) = Message(kind, n)
  BY <1>5 DEF Header, Part, Message, UnitAt, Size
<1>6. ASSUME kind # "notice" PROVE Header(kind, n) \o Body(kind, n) = Message(kind, n)
  <2>1. Header(kind, n) = [i \in 1 .. HeaderLen |-> UnitAt(kind, n, i)]
    BY DEF Header, Part, UnitAt
  <2>2. Body(kind, n) = [i \in 1 .. BodyLen |-> UnitAt(kind, n, HeaderLen + i)]
    BY DEF Body, Part, UnitAt
  <2>3. Size(kind) = HeaderLen + BodyLen
    BY <1>6 DEF Size, Whole
  <2>4. Header(kind, n) \in [1 .. HeaderLen -> Unit] /\ Body(kind, n) \in [1 .. BodyLen -> Unit]
    BY <2>1, <2>2, <2>3, <1>1
  <2>5. /\ Header(kind, n) \in Seq(Unit) /\ Len(Header(kind, n)) = HeaderLen
        /\ Body(kind, n) \in Seq(Unit) /\ Len(Body(kind, n)) = BodyLen
    BY <2>4
  <2> DEFINE both == Header(kind, n) \o Body(kind, n)
  <2>6. /\ both \in Seq(Unit) /\ Len(both) = Size(kind)
        /\ \A i \in 1 .. Size(kind) : both[i] = IF i <= HeaderLen THEN Header(kind, n)[i]
                                                ELSE Body(kind, n)[i - HeaderLen]
    BY <2>3, <2>5, ConcatProperties
  <2>7. \A i \in 1 .. Size(kind) : both[i] = Message(kind, n)[i]
    BY <2>1, <2>2, <2>3, <2>6, <1>4
  <2> QED
    BY <2>6, <2>7, <1>3, SeqEqual
<1> QED
  BY <1>3, <1>4, <1>5, <1>6

\* Units that move on from one place to the next stay in the same stream.
LEMMA JoinedAfter ==
  ASSUME NEW S, NEW s \in Seq(S), NEW a \in Seq(S), NEW b \in Seq(S)
  PROVE  (s \o a) \o b = s \o (a \o b)
BY ConcatAssociative

\* Joined streams are streams.
LEMMA CatFacts ==
  /\ \A s, t \in Seq(Unit) : Cat(s, t) \in Seq(Unit) /\ Len(Cat(s, t)) = Len(s) + Len(t)
  /\ \A s, t, u \in Seq(Unit) : Cat(Cat(s, t), u) = Cat(s, Cat(t, u))
  /\ \A s \in Seq(Unit) : Cat(s, <<>>) = s /\ Cat(<<>>, s) = s
  /\ <<>> \in Seq(Unit)
<1>1. ASSUME NEW s \in Seq(Unit), NEW t \in Seq(Unit)
      PROVE  Cat(s, t) \in Seq(Unit) /\ Len(Cat(s, t)) = Len(s) + Len(t)
  BY ConcatProperties DEF Cat
<1>2. ASSUME NEW s \in Seq(Unit), NEW t \in Seq(Unit), NEW u \in Seq(Unit)
      PROVE  Cat(Cat(s, t), u) = Cat(s, Cat(t, u))
  BY JoinedAfter DEF Cat
<1>3. ASSUME NEW s \in Seq(Unit)
      PROVE  Cat(s, <<>>) = s /\ Cat(<<>>, s) = s
  BY ConcatEmptySeq DEF Cat
<1> QED
  BY <1>1, <1>2, <1>3

\* A stream is what is taken off it and what is left.
LEMMA PieceFacts ==
  ASSUME NEW t \in Seq(Unit), NEW k \in 1 .. Len(t)
  PROVE  /\ Taken(t, k) \in Seq(Unit) /\ Len(Taken(t, k)) = k
         /\ Left(t, k) \in Seq(Unit) /\ Len(Left(t, k)) = Len(t) - k
         /\ Cat(Taken(t, k), Left(t, k)) = t
<1>1. Len(t) \in Nat /\ \A i \in 1 .. Len(t) : t[i] \in Unit
  BY LenProperties, ElementOfSeq
<1>2. Taken(t, k) \in Seq(Unit) /\ Len(Taken(t, k)) = k
  BY <1>1, SubSeqProperties DEF Taken
<1>3. Left(t, k) \in Seq(Unit) /\ Len(Left(t, k)) = Len(t) - k
  BY <1>1, SubSeqProperties DEF Left
<1>4. SubSeq(t, 1, k) \o SubSeq(t, k + 1, Len(t)) = t
  <2>1. 1 \in 1 .. Len(t) + 1 /\ k \in 1 - 1 .. Len(t) /\ Len(t) \in k .. Len(t)
    BY <1>1
  <2>2. SubSeq(t, 1, k) \o SubSeq(t, k + 1, Len(t)) = SubSeq(t, 1, Len(t))
    BY <2>1, ConcatAdjacentSubSeq
  <2> QED
    BY <2>2, SubSeqFull
<1> QED
  BY <1>2, <1>3, <1>4 DEF Cat, Taken, Left

\* Units that move from one part of a stream to the next leave it as it was.
LEMMA MovedOn ==
  ASSUME NEW r \in Seq(Unit), NEW s \in Seq(Unit), NEW t \in Seq(Unit)
  PROVE  /\ \A k \in 1 .. Len(t) : Cat(Cat(s, Taken(t, k)), Left(t, k)) = Cat(s, t)
         /\ \A k \in 1 .. Len(s) : Cat(Cat(r, Taken(s, k)), Cat(Left(s, k), t)) = Cat(r, Cat(s, t))
<1>1. ASSUME NEW k \in 1 .. Len(t)
      PROVE  Cat(Cat(s, Taken(t, k)), Left(t, k)) = Cat(s, t)
  <2>1. Taken(t, k) \in Seq(Unit) /\ Left(t, k) \in Seq(Unit) /\ Cat(Taken(t, k), Left(t, k)) = t
    BY PieceFacts
  <2> QED
    BY <2>1, CatFacts
<1>2. ASSUME NEW k \in 1 .. Len(s)
      PROVE  Cat(Cat(r, Taken(s, k)), Cat(Left(s, k), t)) = Cat(r, Cat(s, t))
  <2>1. Taken(s, k) \in Seq(Unit) /\ Left(s, k) \in Seq(Unit) /\ Cat(Taken(s, k), Left(s, k)) = s
    BY PieceFacts
  <2>2. Cat(Left(s, k), t) \in Seq(Unit)
    BY <2>1, CatFacts
  <2>3. Cat(Cat(r, Taken(s, k)), Cat(Left(s, k), t)) = Cat(r, Cat(Taken(s, k), Cat(Left(s, k), t)))
    BY <2>1, <2>2, CatFacts
  <2>4. Cat(Taken(s, k), Cat(Left(s, k), t)) = Cat(s, t)
    BY <2>1, CatFacts
  <2> QED
    BY <2>3, <2>4
<1> QED
  BY <1>1, <1>2

\* A stream of messages begins with the first unit of one.
LEMMA FirstMessage ==
  ASSUME NEW s \in Seq(Unit), s # <<>>, InMessages(s)
  PROVE  /\ Place(s[1]) = 1
         /\ \A r \in 1 .. Len(s) : r <= Size(s[1][1]) => s[r] = UnitAt(s[1][1], s[1][2], r)
<1>1. Len(s) \in Nat \ {0} /\ s[1] \in Unit
  BY EmptySeq, ElementOfSeq
<1>2. /\ Place(s[1]) <= 1 /\ Place(s[1]) \in 1 .. Size(s[1][1])
      /\ \A r \in 1 .. Size(s[1][1]) : 1 - Place(s[1]) + r <= Len(s)
            => s[1 - Place(s[1]) + r] = UnitAt(s[1][1], s[1][2], r)
  <2>1. InPlace(s, 1)
    BY <1>1 DEF InMessages
  <2> QED
    BY <2>1 DEF InPlace
<1>3. Size(s[1][1]) \in 1 .. Whole /\ Whole \in Nat
  BY <1>1, UnitFacts, Sizes
<1>4. Place(s[1]) = 1
  BY <1>2, <1>3
<1> QED
  BY <1>2, <1>3, <1>4

\* The units of two streams one behind the other.
LEMMA Concatenated ==
  ASSUME NEW s \in Seq(Unit), NEW t \in Seq(Unit)
  PROVE  /\ Cat(s, t) \in Seq(Unit) /\ Len(s) \in Nat /\ Len(t) \in Nat
         /\ Len(Cat(s, t)) = Len(s) + Len(t)
         /\ \A i \in 1 .. Len(s) : Cat(s, t)[i] = s[i]
         /\ \A i \in 1 .. Len(t) : Cat(s, t)[Len(s) + i] = t[i]
         /\ \A i \in 1 .. Len(s) : s[i] \in Unit
         /\ \A i \in 1 .. Len(t) : t[i] \in Unit
<1>1. Len(s) \in Nat /\ Len(t) \in Nat
  BY LenProperties
<1>2. /\ Cat(s, t) \in Seq(Unit) /\ Len(Cat(s, t)) = Len(s) + Len(t)
      /\ \A i \in 1 .. Len(s) + Len(t) : Cat(s, t)[i] = IF i <= Len(s) THEN s[i] ELSE t[i - Len(s)]
  BY ConcatProperties DEF Cat
<1>3. \A i \in 1 .. Len(s) : Cat(s, t)[i] = s[i]
  BY <1>1, <1>2
<1>4. \A i \in 1 .. Len(t) : Cat(s, t)[Len(s) + i] = t[i]
  BY <1>1, <1>2
<1> QED
  BY <1>1, <1>2, <1>3, <1>4, ElementOfSeq

\* A stream of messages that stops earlier is one.
LEMMA CutShort ==
  ASSUME NEW s \in Seq(Unit), NEW t \in Seq(Unit), InMessages(Cat(s, t))
  PROVE  InMessages(s)
<1>1. SUFFICES ASSUME NEW p \in 1 .. Len(s) PROVE InPlace(s, p)
  BY DEF InMessages
<1> DEFINE q == Place(s[p])
<1>2. /\ Cat(s, t)[p] = s[p] /\ s[p] \in Unit
      /\ Len(s) \in Nat /\ Len(Cat(s, t)) \in Nat /\ Len(Cat(s, t)) >= Len(s) /\ p \in 1 .. Len(Cat(s, t))
  <2>1. Len(s) \in Nat /\ Len(t) \in Nat /\ Len(Cat(s, t)) = Len(s) + Len(t)
    BY Concatenated
  <2>2. Cat(s, t)[p] = s[p] /\ s[p] \in Unit
    BY Concatenated
  <2> QED
    BY <2>1, <2>2
<1>3. /\ q <= p /\ q \in 1 .. Size(s[p][1])
      /\ \A r \in 1 .. Size(s[p][1]) : p - q + r <= Len(Cat(s, t))
            => Cat(s, t)[p - q + r] = UnitAt(s[p][1], s[p][2], r)
  <2>1. InPlace(Cat(s, t), p)
    BY <1>2 DEF InMessages
  <2> QED
    BY <1>2, <2>1 DEF InPlace
<1>4. Size(s[p][1]) \in 1 .. Whole /\ Whole \in Nat
  BY <1>2, UnitFacts, Sizes
<1>5. ASSUME NEW r \in 1 .. Size(s[p][1]), p - q + r <= Len(s)
      PROVE  s[p - q + r] = UnitAt(s[p][1], s[p][2], r)
  <2>0. q \in Nat /\ r \in Nat /\ q <= p /\ r >= 1 /\ p \in Nat
    BY <1>2, <1>3, <1>4
  <2>1. p - q + r \in 1 .. Len(s) /\ p - q + r <= Len(Cat(s, t))
    <3>1. PICK i \in Int : i = p - q + r /\ i >= 1
      BY <2>0
    <3>2. i <= Len(s) /\ i <= Len(Cat(s, t))
      BY <1>2, <1>5, <3>1
    <3> QED
      BY <1>2, <3>1, <3>2
  <2> QED
    BY <2>1, <1>3, Concatenated
<1> QED
  BY <1>3, <1>5 DEF InPlace

\* Behind a whole message there is room for another.
LEMMA OneMore ==
  ASSUME NEW s \in Seq(Unit), InMessages(s), LastIsWhole(s), NEW kind \in MsgKind, NEW n \in 0 .. CallerMax
  PROVE  InMessages(Cat(s, Message(kind, n))) /\ LastIsWhole(Cat(s, Message(kind, n)))
<1> DEFINE m == Message(kind, n)
           l == Len(s)
           x == Cat(s, m)
<1>1. /\ m \in Seq(Unit) /\ Len(m) = Size(kind)
      /\ \A i \in 1 .. Size(kind) : m[i] = UnitAt(kind, n, i)
  BY MessageFacts
<1>2. Size(kind) \in 1 .. Whole /\ Whole \in Nat
  BY Sizes
<1>3. /\ l \in Nat /\ l = Len(s) /\ Len(x) = l + Size(kind)
      /\ \A i \in 1 .. l : x[i] = s[i] /\ s[i] \in Unit
      /\ \A i \in 1 .. Size(kind) : x[l + i] = UnitAt(kind, n, i)
  <2>1. /\ l \in Nat /\ Len(x) = l + Len(m)
        /\ \A i \in 1 .. l : x[i] = s[i] /\ s[i] \in Unit
        /\ \A i \in 1 .. Len(m) : x[l + i] = m[i]
    BY <1>1, Concatenated
  <2> QED
    BY <1>1, <2>1
<1> HIDE DEF m, x, l
<1>4. ASSUME NEW p \in 1 .. l
      PROVE  InPlace(x, p)
  <2> DEFINE q == Place(s[p])
             size == Size(s[p][1])
  <2>1. x[p] = s[p] /\ s[p] \in Unit
    BY <1>3
  <2>2. s[p][1] \in MsgKind /\ s[p][2] \in 0 .. CallerMax /\ size \in 1 .. Whole
    BY <2>1, UnitFacts, Sizes
  <2>3. /\ q <= p /\ q \in 1 .. size
        /\ \A r \in 1 .. size : p - q + r <= l => s[p - q + r] = UnitAt(s[p][1], s[p][2], r)
    <3>1. InPlace(s, p)
      BY <1>3 DEF InMessages
    <3>2. l = Len(s)
      BY <1>3
    <3> QED
      BY <3>1, <3>2 DEF InPlace
  <2>a. l \in Int /\ p \in Int /\ q \in Int /\ size \in Int /\ 1 <= q /\ q <= size /\ q <= p /\ p <= l
    BY <1>2, <1>3, <2>2, <2>3
  <2> HIDE DEF q, size
  <2>4. ASSUME NEW r \in 1 .. size, p - q + r > l
        PROVE  FALSE
    <3> DEFINE r0 == l - p + q
    <3>1. r0 \in 1 .. size /\ p - q + r0 = l /\ r0 < r
      BY <2>a, <2>4
    <3> HIDE DEF r0
    <3>2. s[l] = UnitAt(s[p][1], s[p][2], r0)
      BY <2>3, <3>1
    <3>3. r0 \in 1 .. Whole
      BY <2>2, <3>1, <1>2
    <3>4. Place(s[l]) = r0 /\ s[l][1] = s[p][1]
      BY <2>2, <3>2, <3>3, UnitFacts
    <3>5. s # <<>>
      BY <1>3, EmptySeq
    <3>6. Place(s[l]) = Size(s[l][1])
      BY <1>3, <3>5 DEF LastIsWhole
    <3>7. Place(s[l]) = size
      BY <3>4, <3>6 DEF size
    <3> QED
      BY <3>1, <3>4, <3>7, <2>2, <1>2
  <2>5. ASSUME NEW r \in 1 .. size
        PROVE  x[p - q + r] = UnitAt(s[p][1], s[p][2], r)
    <3>1. p - q + r <= l
      BY <2>4, <2>a
    <3>2. p - q + r \in 1 .. l
      BY <3>1, <2>a
    <3> QED
      BY <1>3, <2>3, <3>1, <3>2
  <2> QED
    BY <2>1, <2>3, <2>5 DEF q, size, InPlace
<1>5. ASSUME NEW j \in 1 .. Size(kind)
      PROVE  InPlace(x, l + j)
  <2>1. x[l + j] = UnitAt(kind, n, j) /\ j \in 1 .. Whole
    BY SMTT(40), <1>2, <1>3
  <2>2. Place(x[l + j]) = j /\ x[l + j][1] = kind /\ x[l + j][2] = n
    BY <2>1, UnitFacts
  <2>3. \A r \in 1 .. Size(kind) : l + j - j + r = l + r
    BY <1>2, <1>3
  <2> QED
    BY <1>2, <1>3, <2>2, <2>3 DEF InPlace
<1>6. InMessages(x)
  <2> SUFFICES ASSUME NEW p \in 1 .. Len(x) PROVE InPlace(x, p)
    BY DEF InMessages
  <2>1. CASE p \in 1 .. l
    BY <1>4, <2>1
  <2>2. CASE p \notin 1 .. l
    <3>1. PICK j \in 1 .. Size(kind) : p = l + j
      <4>1. p - l \in 1 .. Size(kind) /\ p = l + (p - l)
        BY <1>2, <1>3, <2>2
      <4> QED
        BY <4>1
    <3> QED
      BY <1>5, <3>1
  <2> QED
    BY <2>1, <2>2
<1>7. LastIsWhole(x)
  <2>1. Len(x) = l + Size(kind) /\ Size(kind) \in 1 .. Size(kind)
    BY <1>2, <1>3
  <2>2. x[Len(x)] = UnitAt(kind, n, Size(kind))
    BY <1>3, <2>1
  <2>3. Place(x[Len(x)]) = Size(kind) /\ x[Len(x)][1] = kind
    BY <2>2, <1>2, UnitFacts
  <2> QED
    BY <2>3 DEF LastIsWhole
<1> QED
  BY <1>6, <1>7 DEF x, m

\* What is left behind a whole message is a stream of messages.
LEMMA FirstTaken ==
  ASSUME NEW a \in Seq(Unit), NEW s \in Seq(Unit), InMessages(Cat(a, s)), a # <<>>, Len(a) = Size(a[1][1])
  PROVE  /\ InMessages(s)
         /\ LastIsWhole(Cat(a, s)) => LastIsWhole(s)
         /\ \A r \in 1 .. Len(a) : a[r] = UnitAt(a[1][1], a[1][2], r)
<1> DEFINE l == Len(a)
           x == Cat(a, s)
           kind == a[1][1]
           n == a[1][2]
<1>1. /\ x \in Seq(Unit) /\ l \in Nat \ {0} /\ l = Len(a) /\ Len(s) \in Nat /\ Len(x) = l + Len(s)
      /\ \A i \in 1 .. l : x[i] = a[i] /\ a[i] \in Unit
      /\ \A i \in 1 .. Len(s) : x[l + i] = s[i] /\ s[i] \in Unit
  BY Concatenated, EmptySeq
<1>2. x # <<>> /\ x[1] = a[1] /\ a[1] \in Unit
  BY <1>1, EmptySeq
<1>x. InMessages(x)
  OBVIOUS
<1> HIDE DEF x, l
<1>3. kind \in MsgKind /\ n \in 0 .. CallerMax /\ l = Size(kind) /\ l \in 1 .. Whole /\ Whole \in Nat
  BY <1>1, <1>2, UnitFacts, Sizes
<1>4. \A r \in 1 .. l : x[r] = UnitAt(kind, n, r)
  <2>1. \A r \in 1 .. Len(x) : r <= Size(x[1][1]) => x[r] = UnitAt(x[1][1], x[1][2], r)
    BY <1>1, <1>2, <1>x, FirstMessage
  <2> QED
    BY SMTT(40), <1>1, <1>2, <1>3, <2>1
<1>5. Place(x[l]) = l /\ x[l][1] = kind
  BY <1>3, <1>4, UnitFacts
<1>6. ASSUME NEW p \in 1 .. Len(s)
      PROVE  InPlace(s, p)
  <2> DEFINE q == Place(s[p])
             size == Size(s[p][1])
  <2>e. PICK e \in 1 .. Len(x) : e = l + p
    BY <1>1
  <2>1. x[e] = s[p] /\ s[p] \in Unit
    BY <1>1, <2>e
  <2>2. s[p][1] \in MsgKind /\ s[p][2] \in 0 .. CallerMax /\ size \in 1 .. Whole
    BY <2>1, UnitFacts, Sizes
  <2>3. /\ q <= e /\ q \in 1 .. size
        /\ \A r \in 1 .. size : e - q + r <= Len(x) => x[e - q + r] = UnitAt(s[p][1], s[p][2], r)
    <3>1. InPlace(x, e)
      BY <1>x DEF InMessages
    <3> QED
      BY <2>1, <3>1 DEF InPlace
  <2>a. l \in Int /\ p \in Int /\ q \in Int /\ size \in Int /\ 1 <= q /\ q <= size /\ q <= e /\ e = l + p
        /\ 1 <= p /\ p <= Len(s) /\ Len(s) \in Int /\ Len(x) = l + Len(s) /\ 1 <= l
    BY <1>1, <1>3, <2>e, <2>2, <2>3
  <2> HIDE DEF q, size
  <2>4. q <= p
    <3> SUFFICES ASSUME q > p PROVE FALSE
      BY <2>a
    <3> DEFINE r0 == q - p
    <3>1. r0 \in 1 .. size /\ e - q + r0 = l /\ l <= Len(x) /\ r0 < size
      BY <2>a
    <3> HIDE DEF r0
    <3>2. x[l] = UnitAt(s[p][1], s[p][2], r0)
      BY <2>3, <3>1
    <3>3. r0 \in 1 .. Whole
      BY <1>3, <2>2, <3>1
    <3>4. Place(x[l]) = r0 /\ x[l][1] = s[p][1]
      BY SMTT(40), <2>2, <3>2, <3>3, UnitFacts
    <3>5. r0 = size
      BY <1>3, <1>5, <3>4 DEF size
    <3> QED
      BY <2>2, <3>1, <3>5
  <2>5. ASSUME NEW r \in 1 .. size, p - q + r <= Len(s)
        PROVE  s[p - q + r] = UnitAt(s[p][1], s[p][2], r)
    <3>1. PICK i \in 1 .. Len(s) : i = p - q + r
      BY <2>a, <2>4, <2>5
    <3>2. e - q + r <= Len(x) /\ e - q + r = l + i
      BY <2>a, <2>5, <3>1
    <3>3. x[l + i] = UnitAt(s[p][1], s[p][2], r)
      BY <2>3, <3>2
    <3>4. x[l + i] = s[i]
      BY <1>1
    <3> QED
      BY <3>1, <3>3, <3>4
  <2> QED
    BY <2>3, <2>4, <2>5 DEF q, size, InPlace
<1>7. ASSUME LastIsWhole(x) PROVE LastIsWhole(s)
  <2> SUFFICES ASSUME s # <<>> PROVE Place(s[Len(s)]) = Size(s[Len(s)][1])
    BY DEF LastIsWhole
  <2>1. Len(s) \in 1 .. Len(s)
    BY EmptySeq
  <2>2. x[Len(x)] = s[Len(s)]
    BY <1>1, <2>1
  <2> QED
    BY <1>2, <1>7, <2>2 DEF LastIsWhole
<1> QED
  BY <1>1, <1>4, <1>6, <1>7 DEF InMessages, x

-----------------------------------------------------------------------------
(* The streams of a connection. *)

\* The streams of a connection, and their parts, are sequences of units.
LEMMA StreamFacts ==
  ASSUME ExchangeTypeOK, NEW c \in Conn
  PROVE  /\ BeingRead(c) \in Seq(Unit) /\ BeingSent(c) \in Seq(Unit) /\ UpStream(c) \in Seq(Unit)
         /\ BeingReceived(c) \in Seq(Unit) /\ BeingReplied(c) \in Seq(Unit) /\ DownStream(c) \in Seq(Unit)
         /\ up[c] \in Seq(Unit) /\ down[c] \in Seq(Unit)
         /\ caller.units \in Seq(Unit) /\ wsh[c].units \in Seq(Unit)
         /\ UpStream(c) # <<>> => UpStream(c)[1] \in Unit /\ UpStream(c)[1][2] \in 0 .. CallerMax
<1>1. /\ up[c] \in Seq(Unit) /\ down[c] \in Seq(Unit)
      /\ caller.units \in Seq(Unit) /\ wsh[c].units \in Seq(Unit) /\ <<>> \in Seq(Unit)
  BY DEF ExchangeTypeOK
<1>2. /\ BeingRead(c) \in Seq(Unit) /\ BeingSent(c) \in Seq(Unit)
      /\ BeingReceived(c) \in Seq(Unit) /\ BeingReplied(c) \in Seq(Unit)
  BY <1>1 DEF BeingRead, BeingSent, BeingReceived, BeingReplied
<1>3. UpStream(c) \in Seq(Unit) /\ DownStream(c) \in Seq(Unit)
  BY <1>1, <1>2, CatFacts DEF UpStream, DownStream
<1>4. UpStream(c) # <<>> => UpStream(c)[1] \in Unit
  BY <1>3, EmptySeq, ElementOfSeq
<1> QED
  BY <1>1, <1>2, <1>3, <1>4, UnitFacts

\* A call of write moves no more than there is.
LEMMA InPartFacts ==
  ASSUME NEW units \in Seq(Unit), NEW k \in 1 .. InPart(units)
  PROVE  k \in 1 .. Len(units)
<1> DEFINE part == {i \in DOMAIN units : PartOf(units[i]) = PartOf(units[1])}
<1>1. Len(units) \in Nat /\ DOMAIN units = 1 .. Len(units)
  BY LenProperties
<1>2. IsFiniteSet(1 .. Len(units)) /\ Cardinality(1 .. Len(units)) = Len(units)
  <2>1. PICK l \in Nat : l = Len(units)
    BY <1>1
  <2>2. IsFiniteSet(1 .. l) /\ Cardinality(1 .. l) = IF 1 > l THEN 0 ELSE l - 1 + 1
    BY FS_Interval
  <2> QED
    BY <2>1, <2>2
<1>3. part \subseteq 1 .. Len(units)
  BY <1>1
<1>4. Cardinality(part) \in Nat /\ Cardinality(part) <= Len(units)
  <2> HIDE DEF part
  <2>1. IsFiniteSet(part) /\ Cardinality(part) <= Cardinality(1 .. Len(units))
    BY <1>2, <1>3, FS_Subset
  <2> QED
    BY <1>2, <2>1, FS_CardinalityType
<1>5. InPart(units) = Cardinality(part)
  BY DEF InPart
<1> QED
  BY <1>1, <1>4, <1>5

\* An open connection that is nobody's has no request on it.
LEMMA NoneAsked ==
  ASSUME ExchangeInv, caller.at = "idle", NEW c \in Conn, KeptOpen(c), Serving(c)
  PROVE  /\ UpStream(c) = <<>> /\ BeingRead(c) = <<>> /\ up[c] = <<>> /\ BeingSent(c) = <<>>
         /\ wsh[c].at # "invoking"
<1>1. ExchangeTypeOK /\ AskInv /\ WorkerInv
  BY DEF ExchangeInv
<1>2. \A n \in 0 .. CallerMax : ~Asks(c, n)
  BY <1>1 DEF AskInv
<1>3. wsh[c].n \in 0 .. CallerMax
  BY <1>1 DEF ExchangeTypeOK
<1>4. UpStream(c) = <<>> /\ wsh[c].at # "invoking"
  BY <1>1, <1>2, <1>3, StreamFacts DEF Asks
<1>5. BeingRead(c) \in Seq(Unit) /\ BeingSent(c) \in Seq(Unit) /\ up[c] \in Seq(Unit)
  BY <1>1, StreamFacts
<1>6. /\ Len(BeingRead(c)) \in Nat /\ Len(BeingSent(c)) \in Nat /\ Len(up[c]) \in Nat
      /\ Len(BeingRead(c)) + (Len(up[c]) + Len(BeingSent(c))) = 0
  <2>1. Cat(up[c], BeingSent(c)) \in Seq(Unit) /\ Len(Cat(up[c], BeingSent(c))) = Len(up[c]) + Len(BeingSent(c))
    BY <1>5, CatFacts
  <2>2. Len(UpStream(c)) = Len(BeingRead(c)) + Len(Cat(up[c], BeingSent(c)))
    BY <1>5, <2>1, CatFacts DEF UpStream
  <2>3. Len(UpStream(c)) = 0
    BY <1>4
  <2> QED
    BY <1>5, <2>1, <2>2, <2>3, LenProperties
<1>7. Len(BeingRead(c)) = 0 /\ Len(BeingSent(c)) = 0 /\ Len(up[c]) = 0
  BY <1>6
<1> QED
  BY <1>4, <1>5, <1>7, EmptySeq

\* Nothing is on its way at first.
LEMMA ExchangeInitInv == ExchangeInit => ExchangeInv
<1> SUFFICES ASSUME ExchangeInit PROVE ExchangeInv
  OBVIOUS
<1>1. \A c \in Conn : UpStream(c) = <<>> /\ DownStream(c) = <<>>
  BY CatFacts DEF ExchangeInit, UpStream, DownStream, BeingRead, BeingSent, BeingReceived, BeingReplied,
     Sending, Receiving
<1>2. ExchangeTypeOK
  BY ExchangeAssumption DEF ExchangeInit, ExchangeTypeOK, InvokeResult, NoConn
<1>3. CallerInv /\ HistoryInv
  BY ExchangeAssumption DEF ExchangeInit, CallerInv, HistoryInv, AnswerIsOwnRequests, Retried, Calls, Sending
<1>4. \A c \in Conn : Serving(c) /\ wsh[c].at = "waiting" /\ wsh[c].units = <<>>
  BY DEF ExchangeInit, Serving
<1>5. WorkerInv /\ UpInv
  BY <1>1, <1>4, Sizes DEF WorkerInv, UpInv, ExchangeInit, Sending
<1>6. AskInv
  BY <1>1, <1>4 DEF AskInv, Asks
<1>7. DownInv
  BY <1>1 DEF DownInv, InMessages, LastIsWhole
<1> QED
  BY <1>2, <1>3, <1>5, <1>6, <1>7 DEF ExchangeInv

-----------------------------------------------------------------------------
(* The application's steps. *)

\* A request is put on a connection that holds none.
LEMMA InvokeKeeps ==
  ASSUME ExchangeInv, Invoke
  PROVE  ExchangeInv'
<1> DEFINE n == caller.n + 1
           m == Message("request", n)
<1>i. ExchangeTypeOK /\ CallerInv /\ WorkerInv /\ UpInv /\ AskInv /\ HistoryInv /\ DownInv
  BY DEF ExchangeInv
<1>0. /\ caller.at = "idle" /\ caller.units = <<>> /\ n \in Calls /\ n \in 0 .. CallerMax /\ caller.n \in Nat
      /\ UNCHANGED <<up, down, closedBy, wsh, executions, outcomes, answer, notices>>
  <2>1. /\ caller.at = "idle" /\ caller.n < CallerMax
        /\ UNCHANGED <<up, down, closedBy, wsh, executions, outcomes, answer, notices>>
    BY DEF Invoke
  <2>2. caller.units = <<>>
    BY <1>i, <2>1 DEF CallerInv
  <2>3. caller.n \in 0 .. CallerMax /\ CallerMax \in Nat
    BY <1>i, ExchangeAssumption DEF ExchangeTypeOK
  <2> QED
    BY <2>1, <2>2, <2>3 DEF Calls
<1>1. PICK c \in Conn : /\ caller' = [at |-> "sending", conn |-> c, n |-> n, units |-> m]
                        /\ KeptOpen(c)
  <2>1. Header("request", n) \o Body("request", n) = m
    BY <1>0, MessageFacts DEF MsgKind
  <2>2. (IF Connected THEN {caller.conn} ELSE UnusedConn) \subseteq {c \in Conn : KeptOpen(c)}
    BY <1>i DEF Connected, UnusedConn, KeptOpen, ExchangeTypeOK
  <2> QED
    BY <2>1, <2>2 DEF Invoke
<1>2. /\ m \in Seq(Unit) /\ Len(m) = Whole /\ \A p \in 1 .. Whole : m[p] = UnitAt("request", n, p)
      /\ m # <<>> /\ m[1][2] = n
  <2>1. m \in Seq(Unit) /\ Len(m) = Whole /\ \A p \in 1 .. Whole : m[p] = UnitAt("request", n, p)
    BY <1>0, MessageFacts, Sizes DEF MsgKind
  <2>2. 1 \in 1 .. Whole /\ Len(m) # 0
    BY <2>1, Sizes
  <2> QED
    BY <1>0, <2>1, <2>2, UnitFacts, EmptySeq DEF MsgKind
<1> HIDE DEF m
<1>3. /\ \A d \in Conn : DownStream(d)' = DownStream(d)
      /\ \A d \in Conn : d # c => UpStream(d)' = UpStream(d)
      /\ Serving(c) => UpStream(c)' = m /\ wsh[c].at # "invoking"
      /\ ~Sending /\ ~Receiving /\ Sending' /\ ~Receiving'
  <2>1. ~Sending /\ ~Receiving /\ Sending' /\ ~Receiving'
    BY <1>0, <1>1 DEF Sending, Receiving
  <2>2. \A d \in Conn : /\ BeingRead(d)' = BeingRead(d) /\ BeingReplied(d)' = BeingReplied(d)
                        /\ BeingReceived(d)' = <<>> /\ BeingReceived(d) = <<>>
                        /\ BeingSent(d) = <<>> /\ BeingSent(d)' = IF d = c THEN m ELSE <<>>
    BY <1>0, <1>1, <2>1 DEF BeingRead, BeingReplied, BeingReceived, BeingSent
  <2>3. Serving(c) => UpStream(c)' = m
    <3> SUFFICES ASSUME Serving(c) PROVE UpStream(c)' = m
      OBVIOUS
    <3>1. BeingRead(c) = <<>> /\ up[c] = <<>>
      BY <1>0, <1>1, NoneAsked
    <3>2. UpStream(c)' = Cat(<<>>, Cat(<<>>, m))
      BY <1>0, <2>2, <3>1 DEF UpStream
    <3> QED
      BY <1>2, <3>2, CatFacts
  <2>4. Serving(c) => wsh[c].at # "invoking"
    BY <1>0, <1>1, NoneAsked
  <2> QED
    BY <1>0, <2>1, <2>2, <2>3, <2>4 DEF DownStream, UpStream
<1>4. \A d \in Conn : KeptOpen(d)' = KeptOpen(d) /\ Serving(d)' = Serving(d)
  BY <1>0 DEF KeptOpen, Serving
<1>5. \A d \in Conn, k \in 0 .. CallerMax :
         /\ Asks(d, k) => ~KeptOpen(d) /\ d # c /\ k < n
         /\ Asks(d, k)' => (d # c /\ Asks(d, k)) \/ (d = c /\ k = n)
  <2>1. \A d \in Conn, k \in 0 .. CallerMax : Asks(d, k) => ~KeptOpen(d) /\ d # c /\ k < n
    BY <1>i, <1>0, <1>1 DEF AskInv
  <2>2. \A d \in Conn, k \in 0 .. CallerMax : Asks(d, k)' => (d # c /\ Asks(d, k)) \/ (d = c /\ k = n)
    BY <1>0, <1>2, <1>3, <1>4 DEF Asks
  <2> QED
    BY <2>1, <2>2
<1>6. ExchangeTypeOK'
  BY <1>i, <1>0, <1>1, <1>2 DEF ExchangeTypeOK
<1>7. CallerInv'
  BY <1>0, <1>1, <1>2, <1>4 DEF CallerInv
<1>8. WorkerInv'
  <2>1. \A d \in Conn : wsh[d].at = "invoking" => ~KeptOpen(d) /\ d # c
    BY <1>i, <1>0, <1>1, <1>3 DEF WorkerInv, Receiving
  <2> QED
    BY <1>i, <1>0, <1>3, <1>4, <2>1 DEF WorkerInv
<1>9. UpInv'
  <2>1. \A d \in Conn : d # c /\ Serving(d) =>
           /\ Len(UpStream(d)) <= Whole
           /\ \A p \in 1 .. Len(UpStream(d)) : UpStream(d)[p] = UnitAt("request", UpStream(d)[1][2], p)
    BY <1>i DEF UpInv
  <2> QED
    BY <1>0, <1>1, <1>2, <1>3, <1>4, <2>1, Sizes DEF UpInv
<1>10. AskInv'
  <2>1. executions[n] = 0 /\ outcomes[n] \notin Retried
    BY <1>i, <1>0 DEF HistoryInv, Retried
  <2>2. ASSUME NEW d \in Conn, NEW k \in 0 .. CallerMax, Asks(d, k)'
        PROVE  /\ k \in 1 .. caller'.n /\ executions'[k] = 0
               /\ k = caller'.n => d = caller'.conn
               /\ KeptOpen(d)' => caller'.at # "idle" /\ k = caller'.n /\ d = caller'.conn
               /\ outcomes'[k] \in Retried => ~KeptOpen(d)' /\ Len(UpStream(d)') < Whole /\ wsh'[d].at # "invoking"
    <3>1. CASE d = c /\ k = n
      BY <1>0, <1>1, <2>1, <3>1 DEF Calls
    <3>2. CASE d # c /\ Asks(d, k)
      BY <1>i, <1>0, <1>1, <1>3, <1>4, <1>5, <3>2 DEF AskInv
    <3> QED
      BY <1>5, <2>2, <3>1, <3>2
  <2>3. ASSUME NEW d \in Conn, NEW e \in Conn, NEW k \in 0 .. CallerMax, Asks(d, k)', Asks(e, k)'
        PROVE  d = e
    BY <1>i, <1>0, <1>5, <2>3 DEF AskInv
  <2> QED
    BY <2>2, <2>3 DEF AskInv
<1>11. HistoryInv'
  BY <1>i, <1>0, <1>1 DEF HistoryInv, AnswerIsOwnRequests, Calls, Sending
<1>12. DownInv'
  <2>1. \A d \in Conn : KeptOpen(d) => \A p \in 1 .. Len(DownStream(d)) : DownStream(d)[p][1] # "reply"
    BY <1>i, <1>3 DEF DownInv
  <2>2. \A d \in Conn : KeptOpen(d) =>
           /\ InMessages(DownStream(d)) /\ (Serving(d) => LastIsWhole(DownStream(d)))
           /\ \A p \in 1 .. Len(DownStream(d)) : DownStream(d)[p][1] \in {"notice", "reply"}
    BY <1>i DEF DownInv
  <2>3. ASSUME NEW d \in Conn PROVE /\ InMessages(DownStream(d))' = InMessages(DownStream(d))
                                    /\ LastIsWhole(DownStream(d))' = LastIsWhole(DownStream(d))
    BY <1>3 DEF InMessages, InPlace, LastIsWhole
  <2> QED
    BY <1>3, <1>4, <2>1, <2>2, <2>3 DEF DownInv
<1> QED
  BY <1>6, <1>7, <1>8, <1>9, <1>10, <1>11, <1>12 DEF ExchangeInv

\* The application writes some of its request.
LEMMA ClientWritesKeeps ==
  ASSUME ExchangeInv, ClientWrites
  PROVE  ExchangeInv'
<1>i. ExchangeTypeOK /\ CallerInv /\ WorkerInv /\ UpInv /\ AskInv /\ HistoryInv /\ DownInv
  BY DEF ExchangeInv
<1>c. PICK c \in Conn : c = caller.conn
  BY <1>i DEF ClientWrites, Sending, CallerInv
<1>0. /\ caller.at = "sending" /\ KeptOpen(c) /\ Serving(c) /\ caller.n \in Calls
      /\ caller.units \in Seq(Unit) /\ caller.units # <<>> /\ up[c] \in Seq(Unit)
      /\ UNCHANGED <<down, closedBy, wsh, executions, outcomes, answer, notices>>
  BY <1>i, <1>c DEF ClientWrites, Sending, CallerInv, ServerGone, Serving, ExchangeTypeOK
<1>1. PICK k \in 1 .. Len(caller.units) :
         /\ up' = [up EXCEPT ![c] = Cat(up[c], Taken(caller.units, k))]
         /\ caller' = [caller EXCEPT !.at = IF Left(caller.units, k) = <<>> THEN "receiving" ELSE "sending",
                                     !.units = Left(caller.units, k)]
  BY <1>0, <1>c, InPartFacts DEF ClientWrites, Cat, Taken, Left
<1>2. PICK rest \in Seq(Unit) :
         /\ rest = Left(caller.units, k)
         /\ Taken(caller.units, k) \in Seq(Unit)
         /\ Cat(up[c], Taken(caller.units, k)) \in Seq(Unit)
         /\ Cat(Cat(up[c], Taken(caller.units, k)), rest) = Cat(up[c], caller.units)
  <2>1. /\ Taken(caller.units, k) \in Seq(Unit) /\ Left(caller.units, k) \in Seq(Unit)
    BY <1>0, PieceFacts
  <2>2. Cat(up[c], Taken(caller.units, k)) \in Seq(Unit)
    BY <1>0, <2>1, CatFacts
  <2>3. Cat(Cat(up[c], Taken(caller.units, k)), Left(caller.units, k)) = Cat(up[c], caller.units)
    BY <1>0, MovedOn
  <2> QED
    BY <2>1, <2>2, <2>3
<1>3. /\ caller'.conn = c /\ caller'.n = caller.n /\ caller'.units = rest
      /\ (rest = <<>> /\ caller'.at = "receiving") \/ (rest # <<>> /\ caller'.at = "sending")
      /\ caller' \in [at : {"idle", "sending", "receiving"}, conn : Conn \cup {NoConn},
                      n : 0 .. CallerMax, units : Seq(Unit)]
  BY <1>i, <1>c, <1>1, <1>2 DEF ExchangeTypeOK
<1>4. /\ \A d \in Conn : UpStream(d)' = UpStream(d) /\ DownStream(d)' = DownStream(d)
      /\ \A d \in Conn : KeptOpen(d)' = KeptOpen(d) /\ Serving(d)' = Serving(d)
      /\ Sending /\ ~Receiving
  <2>1. \A d \in Conn : KeptOpen(d)' = KeptOpen(d) /\ Serving(d)' = Serving(d)
    BY <1>0 DEF KeptOpen, Serving
  <2>2. Sending /\ ~Receiving
    BY <1>0 DEF Sending, Receiving
  <2>3. \A d \in Conn : /\ BeingRead(d)' = BeingRead(d) /\ BeingReplied(d)' = BeingReplied(d)
                        /\ BeingReceived(d) = <<>> /\ BeingReceived(d)' = <<>>
                        /\ BeingSent(d) = (IF d = c THEN caller.units ELSE <<>>)
                        /\ BeingSent(d)' = (IF d = c THEN rest ELSE <<>>)
    BY <1>0, <1>3, <1>c, <2>2 DEF BeingRead, BeingReplied, BeingReceived, BeingSent, Sending, Receiving
  <2>4. ASSUME NEW d \in Conn PROVE UpStream(d)' = UpStream(d)
    <3>1. CASE d = c
      <4>1. up'[c] = Cat(up[c], Taken(caller.units, k))
        BY <1>i, <1>0, <1>1 DEF ExchangeTypeOK
      <4> QED
        BY <1>2, <2>3, <3>1, <4>1 DEF UpStream
    <3>2. CASE d # c
      <4>1. up'[d] = up[d]
        BY <1>i, <1>1, <3>2 DEF ExchangeTypeOK
      <4> QED
        BY <2>3, <3>2, <4>1 DEF UpStream
    <3> QED
      BY <3>1, <3>2
  <2>5. ASSUME NEW d \in Conn PROVE DownStream(d)' = DownStream(d)
    BY <1>0, <2>3 DEF DownStream
  <2> QED
    BY <2>1, <2>2, <2>4, <2>5
<1>5. \A d \in Conn, j \in 0 .. CallerMax : Asks(d, j)' <=> Asks(d, j)
  BY <1>0, <1>4 DEF Asks
<1>6. ExchangeTypeOK'
  BY <1>i, <1>0, <1>1, <1>2, <1>3 DEF ExchangeTypeOK
<1>7. CallerInv'
  <2>1. KeptOpen(c)'
    BY <1>0, <1>4
  <2>2. rest = <<>> => Len(rest) = 0 /\ 0 < Whole /\ ~(0 >= HeaderLen)
    BY <1>2, EmptySeq, Sizes
  <2> QED
    BY <1>0, <1>3, <2>1, <2>2 DEF CallerInv
<1>8. WorkerInv'
  <2>1. \A d \in Conn : wsh[d].at = "invoking" /\ KeptOpen(d) => FALSE
    BY <1>i, <1>4 DEF WorkerInv
  <2> QED
    BY <1>i, <1>0, <1>4, <2>1 DEF WorkerInv
<1>9. UpInv'
  BY <1>i, <1>0, <1>3, <1>4, <1>c DEF UpInv
<1>10. AskInv'
  BY <1>i, <1>0, <1>3, <1>4, <1>5, <1>c DEF AskInv
<1>11. HistoryInv'
  BY <1>i, <1>0, <1>3 DEF HistoryInv, AnswerIsOwnRequests, Sending
<1>12. DownInv'
  <2>1. \A d \in Conn : KeptOpen(d) => \A p \in 1 .. Len(DownStream(d)) : DownStream(d)[p][1] # "reply"
    BY <1>i, <1>4 DEF DownInv
  <2>2. \A d \in Conn : KeptOpen(d) =>
           /\ InMessages(DownStream(d)) /\ (Serving(d) => LastIsWhole(DownStream(d)))
           /\ \A p \in 1 .. Len(DownStream(d)) : DownStream(d)[p][1] \in {"notice", "reply"}
    BY <1>i DEF DownInv
  <2>3. ASSUME NEW d \in Conn PROVE /\ InMessages(DownStream(d))' = InMessages(DownStream(d))
                                    /\ LastIsWhole(DownStream(d))' = LastIsWhole(DownStream(d))
    BY <1>4 DEF InMessages, InPlace, LastIsWhole
  <2> QED
    BY <1>4, <2>1, <2>2, <2>3 DEF DownInv
<1> QED
  BY <1>6, <1>7, <1>8, <1>9, <1>10, <1>11, <1>12 DEF ExchangeInv

\* A request that is given up ends its connection.
LEMMA FailsKeeps ==
  ASSUME ExchangeInv, NEW error \in InvokeResult \ {"NONE", "OK"}, caller.at # "idle", Fails(error),
         error \in Retried => Sending
  PROVE  ExchangeInv'
<1>i. ExchangeTypeOK /\ CallerInv /\ WorkerInv /\ UpInv /\ AskInv /\ HistoryInv /\ DownInv
  BY DEF ExchangeInv
<1>c. PICK c \in Conn : c = caller.conn
  BY <1>i DEF CallerInv
<1>0. /\ c # NoConn /\ KeptOpen(c) /\ caller.n \in Calls /\ caller.n \in Nat
      /\ closedBy' = [closedBy EXCEPT ![c] = @ \cup {"client"}]
      /\ caller' = [caller EXCEPT !.at = "idle", !.units = <<>>]
      /\ outcomes' = [outcomes EXCEPT ![caller.n] = error]
      /\ UNCHANGED <<up, down, wsh, executions, answer, notices>>
  <2>1. KeptOpen(c) /\ caller.n \in Calls
    BY <1>i, <1>c DEF CallerInv
  <2>2. c # NoConn /\ caller.n \in Nat
    BY <2>1, ExchangeAssumption DEF NoConn, Calls
  <2> QED
    BY <1>c, <2>1, <2>2 DEF Fails, Disconnects
<1>1. /\ caller'.at = "idle" /\ caller'.units = <<>> /\ caller'.conn = c /\ caller'.n = caller.n
      /\ caller' \in [at : {"idle", "sending", "receiving"}, conn : Conn \cup {NoConn},
                      n : 0 .. CallerMax, units : Seq(Unit)]
      /\ ~Sending' /\ ~Receiving'
  BY <1>i, <1>c, <1>0, CatFacts DEF ExchangeTypeOK, Sending, Receiving
<1>2. /\ ~KeptOpen(c)' /\ \A d \in Conn : d # c => KeptOpen(d)' = KeptOpen(d)
      /\ \A d \in Conn : Serving(d)' = Serving(d)
  <2>1. ~KeptOpen(c)'
    BY <1>i, <1>0 DEF KeptOpen, ExchangeTypeOK
  <2>2. ASSUME NEW d \in Conn PROVE d # c => closedBy'[d] = closedBy[d]
    BY <1>i, <1>0 DEF ExchangeTypeOK
  <2>3. closedBy'[c] = closedBy[c] \cup {"client"}
    BY <1>i, <1>0 DEF ExchangeTypeOK
  <2>4. ASSUME NEW d \in Conn PROVE Serving(d)' = Serving(d)
    BY <2>2, <2>3 DEF Serving
  <2> QED
    BY <2>1, <2>2, <2>4 DEF KeptOpen
<1>3. \A d \in Conn : d # c => UpStream(d)' = UpStream(d) /\ DownStream(d)' = DownStream(d)
  <2>1. \A d \in Conn : d # c =>
           /\ BeingRead(d)' = BeingRead(d) /\ BeingReplied(d)' = BeingReplied(d)
           /\ BeingReceived(d)' = BeingReceived(d) /\ BeingSent(d)' = BeingSent(d)
    BY <1>0, <1>1, <1>c DEF BeingRead, BeingReplied, BeingReceived, BeingSent
  <2> QED
    BY <1>0, <2>1 DEF UpStream, DownStream
<1>4. /\ UpStream(c)' \in Seq(Unit) /\ Len(UpStream(c)') \in Nat /\ Len(UpStream(c)) \in Nat
      /\ Len(UpStream(c)') <= Len(UpStream(c))
      /\ \A p \in 1 .. Len(UpStream(c)') : UpStream(c)'[p] = UpStream(c)[p]
      /\ Sending => Len(UpStream(c)') < Len(UpStream(c))
  <2> DEFINE x == Cat(BeingRead(c), up[c])
  <2>1. /\ BeingRead(c) \in Seq(Unit) /\ up[c] \in Seq(Unit) /\ BeingSent(c) \in Seq(Unit)
    BY <1>i, <1>0, StreamFacts
  <2>2. UpStream(c) = Cat(x, BeingSent(c)) /\ x \in Seq(Unit)
    <3>1. \A s, t, u \in Seq(Unit) : Cat(Cat(s, t), u) = Cat(s, Cat(t, u))
      BY CatFacts
    <3>2. Cat(x, BeingSent(c)) = Cat(BeingRead(c), Cat(up[c], BeingSent(c)))
      BY <2>1, <3>1
    <3>3. x \in Seq(Unit)
      BY <2>1, CatFacts
    <3> QED
      BY <3>2, <3>3 DEF UpStream
  <2>3. UpStream(c)' = x
    <3>1. BeingRead(c)' = BeingRead(c) /\ BeingSent(c)' = <<>>
      BY <1>0, <1>1, <1>c DEF BeingRead, BeingSent
    <3> QED
      BY <1>0, <2>1, <3>1, CatFacts DEF UpStream
  <2>4. Sending => Len(BeingSent(c)) # 0
    <3> SUFFICES ASSUME Sending PROVE Len(BeingSent(c)) # 0
      OBVIOUS
    <3>1. BeingSent(c) = caller.units /\ caller.units # <<>>
      BY <1>i, <1>c DEF BeingSent, CallerInv, Sending
    <3> QED
      BY <2>1, <3>1, EmptySeq
  <2> HIDE DEF x
  <2>5. /\ Len(x) \in Nat /\ Len(BeingSent(c)) \in Nat
        /\ Len(Cat(x, BeingSent(c))) = Len(x) + Len(BeingSent(c))
        /\ \A p \in 1 .. Len(x) : Cat(x, BeingSent(c))[p] = x[p]
    BY <2>1, <2>2, Concatenated
  <2> QED
    BY <2>2, <2>3, <2>4, <2>5
<1>5. \A d \in Conn, j \in 0 .. CallerMax : Asks(d, j)' => Asks(d, j)
  <2> SUFFICES ASSUME NEW d \in Conn, NEW j \in 0 .. CallerMax, Asks(d, j)' PROVE Asks(d, j)
    OBVIOUS
  <2>1. CASE d # c
    BY <1>0, <1>2, <1>3, <2>1 DEF Asks
  <2>2. CASE d = c
    <3>1. UpStream(c)' # <<>> => UpStream(c) # <<>> /\ UpStream(c)[1] = UpStream(c)'[1]
      BY <1>4, EmptySeq
    <3> QED
      BY <1>0, <1>2, <2>2, <3>1 DEF Asks
  <2> QED
    BY <2>1, <2>2
<1>6. ExchangeTypeOK'
  BY <1>i, <1>0, <1>1 DEF ExchangeTypeOK
<1>7. CallerInv'
  BY <1>1 DEF CallerInv
<1>8. WorkerInv'
  <2>1. \A d \in Conn : wsh[d].at = "invoking" => UpStream(d)' = <<>> /\ (KeptOpen(d)' => FALSE)
    <3> SUFFICES ASSUME NEW d \in Conn, wsh[d].at = "invoking"
                 PROVE  UpStream(d)' = <<>> /\ ~KeptOpen(d)'
      OBVIOUS
    <3>1. UpStream(d) = <<>> /\ (KeptOpen(d) => d = c)
      BY <1>i, <1>c DEF WorkerInv
    <3>2. CASE d = c
      <4>1. Len(UpStream(c)') = 0
        BY <1>4, <3>1, <3>2, EmptySeq
      <4> QED
        BY <1>2, <1>4, <3>2, <4>1, EmptySeq
    <3>3. CASE d # c
      BY <1>2, <1>3, <3>1, <3>3
    <3> QED
      BY <3>2, <3>3
  <2> QED
    BY <1>i, <1>0, <1>2, <2>1 DEF WorkerInv
<1>9. UpInv'
  <2>1. ASSUME NEW d \in Conn, Serving(d)'
        PROVE  /\ Len(UpStream(d)') <= Whole
               /\ \A p \in 1 .. Len(UpStream(d)') : UpStream(d)'[p] = UnitAt("request", UpStream(d)'[1][2], p)
    <3>1. /\ Len(UpStream(d)) <= Whole
          /\ \A p \in 1 .. Len(UpStream(d)) : UpStream(d)[p] = UnitAt("request", UpStream(d)[1][2], p)
      BY <1>i, <1>2, <2>1 DEF UpInv
    <3>2. CASE d = c
      <4>1. /\ Len(UpStream(c)') <= Whole
            /\ \A p \in 1 .. Len(UpStream(c)') : UpStream(c)'[p] = UnitAt("request", UpStream(c)[1][2], p)
        BY <1>4, <3>1, <3>2, Sizes
      <4>2. \A p \in 1 .. Len(UpStream(c)') : UpStream(c)'[1] = UpStream(c)[1]
        BY <1>4
      <4> QED
        BY <3>2, <4>1, <4>2
    <3>3. CASE d # c
      BY <1>3, <3>1, <3>3
    <3> QED
      BY <3>2, <3>3
  <2> QED
    BY <1>1, <2>1 DEF UpInv
<1>10. AskInv'
  <2>1. ASSUME NEW d \in Conn, NEW j \in 0 .. CallerMax, Asks(d, j)'
        PROVE  /\ j \in 1 .. caller'.n /\ executions'[j] = 0
               /\ j = caller'.n => d = caller'.conn
               /\ KeptOpen(d)' => caller'.at # "idle" /\ j = caller'.n /\ d = caller'.conn
               /\ outcomes'[j] \in Retried => ~KeptOpen(d)' /\ Len(UpStream(d)') < Whole /\ wsh'[d].at # "invoking"
    <3>1. /\ Asks(d, j) /\ j \in 1 .. caller.n /\ executions[j] = 0
          /\ j = caller.n => d = c
          /\ KeptOpen(d) => d = c
          /\ outcomes[j] \in Retried => ~KeptOpen(d) /\ Len(UpStream(d)) < Whole /\ wsh[d].at # "invoking"
      BY <1>i, <1>5, <1>c, <2>1 DEF AskInv
    <3>2. ~KeptOpen(d)'
      BY <1>2, <3>1
    <3>3. ASSUME outcomes'[j] \in Retried
          PROVE  Len(UpStream(d)') < Whole /\ wsh'[d].at # "invoking"
      <4>1. CASE j = caller.n
        <5>1. d = c /\ error \in Retried /\ Sending /\ Serving(c)
          BY <1>i, <1>0, <3>1, <3>3, <4>1 DEF ExchangeTypeOK, Asks
        <5>2. Len(UpStream(c)) <= Whole /\ wsh[c].at # "invoking"
          <6>1. Len(UpStream(c)) = Whole
            BY <1>i, <1>0, <1>c, <5>1 DEF UpInv
          <6>2. wsh[c].at # "invoking"
            BY <1>i, <1>0, <5>1 DEF WorkerInv, Sending, Receiving
          <6> QED
            BY <6>1, <6>2, Sizes
        <5> QED
          BY <1>0, <1>4, <5>1, <5>2, Sizes
      <4>2. CASE j # caller.n
        <5>1. outcomes[j] \in Retried
          BY <1>i, <1>0, <3>1, <3>3, <4>2 DEF ExchangeTypeOK, Calls
        <5>2. Len(UpStream(d)) < Whole /\ wsh[d].at # "invoking"
          BY <3>1, <5>1
        <5> QED
          BY <1>0, <1>3, <1>4, <5>2, Sizes
      <4> QED
        BY <4>1, <4>2
    <3> QED
      BY <1>0, <1>1, <3>1, <3>2, <3>3
  <2>2. ASSUME NEW d \in Conn, NEW e \in Conn, NEW j \in 0 .. CallerMax, Asks(d, j)', Asks(e, j)'
        PROVE  d = e
    BY <1>i, <1>5, <2>2 DEF AskInv
  <2> QED
    BY <2>1, <2>2 DEF AskInv
<1>11. HistoryInv'
  <2>1. error \in Retried => executions[caller.n] = 0
    BY <1>i DEF HistoryInv
  <2>2. error # "OK" /\ outcomes' = [outcomes EXCEPT ![caller.n] = error] /\ outcomes \in [Calls -> InvokeResult]
    BY <1>i, <1>0 DEF ExchangeTypeOK
  <2>3. \A j \in Calls : j # caller.n => outcomes'[j] = outcomes[j]
    BY <2>2
  <2>4. outcomes'[caller.n] = error
    BY <1>0, <2>2
  <2>5. \A j \in Calls : j > caller.n => j # caller.n
    BY <1>0 DEF Calls
  <2>6. AnswerIsOwnRequests'
    BY <1>i, <1>0, <2>2, <2>3, <2>4 DEF HistoryInv, AnswerIsOwnRequests
  <2>7. \A j \in Calls : outcomes'[j] \in Retried => executions[j] = 0
    BY <1>i, <2>1, <2>3, <2>4 DEF HistoryInv
  <2> QED
    BY <1>i, <1>0, <1>1, <2>3, <2>5, <2>6, <2>7 DEF HistoryInv
<1>12. DownInv'
  <2>1. \A d \in Conn : KeptOpen(d)' => d # c /\ KeptOpen(d)
    BY <1>2
  <2>2. \A d \in Conn : KeptOpen(d) /\ d # c => \A p \in 1 .. Len(DownStream(d)) : DownStream(d)[p][1] # "reply"
    BY <1>i, <1>c DEF DownInv
  <2>3. \A d \in Conn : KeptOpen(d) =>
           /\ InMessages(DownStream(d)) /\ (Serving(d) => LastIsWhole(DownStream(d)))
           /\ \A p \in 1 .. Len(DownStream(d)) : DownStream(d)[p][1] \in {"notice", "reply"}
    BY <1>i DEF DownInv
  <2>4. ASSUME NEW d \in Conn, d # c PROVE /\ InMessages(DownStream(d))' = InMessages(DownStream(d))
                                            /\ LastIsWhole(DownStream(d))' = LastIsWhole(DownStream(d))
    BY <1>3, <2>4 DEF InMessages, InPlace, LastIsWhole
  <2> QED
    BY <1>2, <1>3, <2>1, <2>2, <2>3, <2>4 DEF DownInv
<1> QED
  BY <1>6, <1>7, <1>8, <1>9, <1>10, <1>11, <1>12 DEF ExchangeInv

\* What is not read yet, of messages of which some units have been.
Rest(s, t) == \E off \in 0 .. Len(s) : /\ Len(t) = Len(s) - off
                                       /\ \A p \in 1 .. Len(t) : t[p] = s[off + p]

\* All of a stream is still to be read.
LEMMA WholeIsRest ==
  ASSUME NEW s \in Seq(Unit)
  PROVE  Rest(s, s)
<1>1. Len(s) \in Nat
  BY LenProperties
<1> QED
  BY <1>1 DEF Rest

\* Behind what is read is the rest.
LEMMA RightIsRest ==
  ASSUME NEW s \in Seq(Unit), NEW t \in Seq(Unit)
  PROVE  Rest(Cat(s, t), t)
<1>1. /\ Len(s) \in Nat /\ Len(t) \in Nat /\ Len(Cat(s, t)) = Len(s) + Len(t)
      /\ \A i \in 1 .. Len(t) : t[i] = Cat(s, t)[Len(s) + i]
  BY Concatenated
<1>2. Len(s) \in 0 .. Len(Cat(s, t)) /\ Len(t) = Len(Cat(s, t)) - Len(s)
  BY <1>1
<1> QED
  BY <1>1, <1>2 DEF Rest

\* The application reads on: it has taken more units, or forgotten a notice.
LEMMA ReadsOn ==
  ASSUME ExchangeInv, NEW c \in Conn, c = caller.conn, Receiving, NEW w \in Seq(Unit),
         Len(w) < Whole, Len(w) >= HeaderLen => w[1][1] = "reply",
         caller' = [caller EXCEPT !.units = w],
         down' \in [Conn -> Seq(Unit)], \A d \in Conn : d # c => down'[d] = down[d],
         InMessages(DownStream(c)'), LastIsWhole(DownStream(c)) => LastIsWhole(DownStream(c)'),
         Rest(DownStream(c), DownStream(c)'),
         UNCHANGED <<up, closedBy, wsh, executions, outcomes, answer, notices>>
  PROVE  ExchangeInv'
<1>i. ExchangeTypeOK /\ CallerInv /\ WorkerInv /\ UpInv /\ AskInv /\ HistoryInv /\ DownInv
  BY DEF ExchangeInv
<1>1. /\ caller.at = "receiving" /\ caller.n \in Calls /\ KeptOpen(c)
      /\ caller'.at = "receiving" /\ caller'.conn = c /\ caller'.n = caller.n /\ caller'.units = w
      /\ caller' \in [at : {"idle", "sending", "receiving"}, conn : Conn \cup {NoConn},
                      n : 0 .. CallerMax, units : Seq(Unit)]
      /\ ~Sending /\ ~Sending' /\ Receiving'
  BY <1>i DEF ExchangeTypeOK, CallerInv, Sending, Receiving
<1>2. \A d \in Conn : KeptOpen(d)' = KeptOpen(d) /\ Serving(d)' = Serving(d)
  BY DEF KeptOpen, Serving
<1>3. \A d \in Conn : UpStream(d)' = UpStream(d)
  <2>1. \A d \in Conn : BeingRead(d)' = BeingRead(d) /\ BeingSent(d) = <<>> /\ BeingSent(d)' = <<>>
    BY <1>1 DEF BeingRead, BeingSent
  <2> QED
    BY <2>1 DEF UpStream
<1>4. \A d \in Conn : d # c => DownStream(d)' = DownStream(d)
  <2>1. \A d \in Conn : d # c => /\ BeingReplied(d)' = BeingReplied(d)
                                 /\ BeingReceived(d) = <<>> /\ BeingReceived(d)' = <<>>
    BY <1>1 DEF BeingReplied, BeingReceived
  <2> QED
    BY <2>1 DEF DownStream
<1>5. \A d \in Conn, j \in 0 .. CallerMax : Asks(d, j)' <=> Asks(d, j)
  BY <1>2, <1>3 DEF Asks
<1>6. ExchangeTypeOK'
  BY <1>i, <1>1 DEF ExchangeTypeOK
<1>7. CallerInv'
  <2>1. KeptOpen(c)'
    BY <1>1, <1>2
  <2> QED
    BY <1>1, <2>1 DEF CallerInv
<1>8. WorkerInv'
  BY <1>i, <1>1, <1>2, <1>3 DEF WorkerInv
<1>9. UpInv'
  BY <1>i, <1>1, <1>2, <1>3 DEF UpInv
<1>10. AskInv'
  BY <1>i, <1>1, <1>2, <1>3, <1>5 DEF AskInv
<1>11. HistoryInv'
  BY <1>i, <1>1 DEF HistoryInv, AnswerIsOwnRequests
<1>12. DownInv'
  <2>1. PICK s \in Seq(Unit) : s = DownStream(c)
    BY <1>i, StreamFacts
  <2>2. PICK t \in Seq(Unit) : t = DownStream(c)'
    <3>1. BeingReplied(c)' \in Seq(Unit) /\ BeingReceived(c)' \in Seq(Unit) /\ down'[c] \in Seq(Unit)
      <4>1. wsh[c].units \in Seq(Unit)
        BY <1>i, StreamFacts
      <4> QED
        BY <1>1, <4>1, CatFacts DEF BeingReplied, BeingReceived
    <3>2. DownStream(c)' \in Seq(Unit)
      BY <3>1, CatFacts DEF DownStream
    <3> QED
      BY <3>2
  <2>3. PICK off \in 0 .. Len(s) : Len(t) = Len(s) - off /\ \A p \in 1 .. Len(t) : t[p] = s[off + p]
    BY <2>1, <2>2 DEF Rest
  <2>4. /\ Serving(c) => LastIsWhole(s)
        /\ \A p \in 1 .. Len(s) : s[p][1] \in {"notice", "reply"}
        /\ \A p \in 1 .. Len(s) : s[p][1] = "reply" =>
              s[p][2] = caller.n /\ executions[caller.n] = 1 /\ ~Asks(c, caller.n)
        /\ \A p, q \in 1 .. Len(s) : s[p] = s[q] /\ s[p][1] = "reply" => p = q
    BY <1>i, <1>1, <2>1 DEF DownInv
  <2>5. Len(s) \in Nat /\ Len(t) \in Nat /\ \A p \in 1 .. Len(t) : off + p \in 1 .. Len(s)
    BY <2>3, LenProperties
  <2>6. caller.n \in 0 .. CallerMax
    BY <1>i DEF ExchangeTypeOK
  <2>7. /\ InMessages(t)
        /\ Serving(c)' => LastIsWhole(t)
        /\ \A p \in 1 .. Len(t) : t[p][1] \in {"notice", "reply"}
        /\ \A p \in 1 .. Len(t) : t[p][1] = "reply" =>
              t[p][2] = caller'.n /\ executions'[caller'.n] = 1 /\ ~Asks(c, caller.n)'
        /\ \A p, q \in 1 .. Len(t) : t[p] = t[q] /\ t[p][1] = "reply" => p = q
    <3>1. InMessages(t) /\ (Serving(c)' => LastIsWhole(t))
      BY <1>2, <2>1, <2>2, <2>4
    <3>2. \A p \in 1 .. Len(t) : t[p][1] \in {"notice", "reply"}
      BY <2>3, <2>4, <2>5
    <3>3. \A p \in 1 .. Len(t) : t[p][1] = "reply" =>
              t[p][2] = caller'.n /\ executions'[caller'.n] = 1 /\ ~Asks(c, caller.n)'
      BY SMTT(40), <1>1, <1>5, <2>3, <2>4, <2>5, <2>6
    <3>4. ASSUME NEW p \in 1 .. Len(t), NEW q \in 1 .. Len(t), t[p] = t[q], t[p][1] = "reply"
          PROVE  p = q
      <4>1. PICK i \in 1 .. Len(s), j \in 1 .. Len(s) : i = off + p /\ j = off + q
        BY <2>5
      <4>2. s[i] = s[j] /\ s[i][1] = "reply"
        BY <2>3, <3>4, <4>1
      <4>3. i = j
        BY <2>4, <4>2
      <4> QED
        BY <2>3, <4>1, <4>3
    <3> QED
      BY <3>1, <3>2, <3>3, <3>4
  <2>8. \A d \in Conn : KeptOpen(d) /\ d # c =>
           /\ InMessages(DownStream(d)) /\ (Serving(d) => LastIsWhole(DownStream(d)))
           /\ \A p \in 1 .. Len(DownStream(d)) : DownStream(d)[p][1] = "notice"
    BY <1>i DEF DownInv
  <2>9. ASSUME NEW d \in Conn, d # c, KeptOpen(d)'
        PROVE  /\ InMessages(DownStream(d)') /\ (Serving(d)' => LastIsWhole(DownStream(d)'))
               /\ \A p \in 1 .. Len(DownStream(d)') : DownStream(d)'[p][1] = "notice"
    BY <1>2, <1>4, <2>8, <2>9
  <2>10. ASSUME NEW d \in Conn, KeptOpen(d)'
         PROVE  /\ InMessages(DownStream(d)') /\ (Serving(d)' => LastIsWhole(DownStream(d)'))
                /\ \A p \in 1 .. Len(DownStream(d)') : DownStream(d)'[p][1] \in {"notice", "reply"}
                /\ \A p \in 1 .. Len(DownStream(d)') : DownStream(d)'[p][1] = "reply" =>
                      /\ Receiving' /\ d = caller'.conn /\ DownStream(d)'[p][2] = caller'.n
                      /\ executions'[caller'.n] = 1 /\ ~Asks(d, caller.n)'
                /\ \A p, q \in 1 .. Len(DownStream(d)') :
                      DownStream(d)'[p] = DownStream(d)'[q] /\ DownStream(d)'[p][1] = "reply" => p = q
    <3>1. CASE d = c
      BY <1>1, <2>2, <2>7, <3>1
    <3>2. CASE d # c
      BY <2>9, <2>10, <3>2
    <3> QED
      BY <3>1, <3>2
  <2> QED
    BY <2>10 DEF DownInv, InMessages, InPlace, LastIsWhole
<1> QED
  BY <1>6, <1>7, <1>8, <1>9, <1>10, <1>11, <1>12 DEF ExchangeInv

\* The reply has been read: Invoke returns OK.
LEMMA ReadsAll ==
  ASSUME ExchangeInv, NEW c \in Conn, c = caller.conn, Receiving, NEW v \in Seq(Unit), NEW t \in Seq(Unit),
         Len(v) = Whole, v[1][1] = "reply", DownStream(c) = Cat(v, t),
         caller' = [caller EXCEPT !.at = "idle", !.units = <<>>],
         outcomes' = [outcomes EXCEPT ![caller.n] = "OK"],
         answer' = [answer EXCEPT ![caller.n] = v[1][2]],
         down' \in [Conn -> Seq(Unit)], \A d \in Conn : d # c => down'[d] = down[d],
         DownStream(c)' = t,
         UNCHANGED <<up, closedBy, wsh, executions, notices>>
  PROVE  ExchangeInv'
<1>i. ExchangeTypeOK /\ CallerInv /\ WorkerInv /\ UpInv /\ AskInv /\ HistoryInv /\ DownInv
  BY DEF ExchangeInv
<1>1. /\ caller.at = "receiving" /\ caller.n \in Calls /\ caller.n \in 0 .. CallerMax /\ KeptOpen(c)
      /\ caller'.at = "idle" /\ caller'.conn = c /\ caller'.n = caller.n /\ caller'.units = <<>>
      /\ caller' \in [at : {"idle", "sending", "receiving"}, conn : Conn \cup {NoConn},
                      n : 0 .. CallerMax, units : Seq(Unit)]
      /\ ~Sending /\ ~Sending' /\ ~Receiving'
  BY <1>i, CatFacts DEF ExchangeTypeOK, CallerInv, Sending, Receiving
<1>2. \A d \in Conn : KeptOpen(d)' = KeptOpen(d) /\ Serving(d)' = Serving(d)
  BY DEF KeptOpen, Serving
<1>3. \A d \in Conn : UpStream(d)' = UpStream(d)
  <2>1. \A d \in Conn : BeingRead(d)' = BeingRead(d) /\ BeingSent(d) = <<>> /\ BeingSent(d)' = <<>>
    BY <1>1 DEF BeingRead, BeingSent
  <2> QED
    BY <2>1 DEF UpStream
<1>4. \A d \in Conn : d # c => DownStream(d)' = DownStream(d)
  <2>1. \A d \in Conn : d # c => /\ BeingReplied(d)' = BeingReplied(d)
                                 /\ BeingReceived(d) = <<>> /\ BeingReceived(d)' = <<>>
    BY <1>1 DEF BeingReplied, BeingReceived
  <2> QED
    BY <2>1 DEF DownStream
<1>5. \A d \in Conn, j \in 0 .. CallerMax : Asks(d, j)' <=> Asks(d, j)
  BY <1>2, <1>3 DEF Asks
<1> DEFINE s == Cat(v, t)
<1>6. /\ InMessages(s) /\ (Serving(c) => LastIsWhole(s))
      /\ \A p \in 1 .. Len(s) : s[p][1] \in {"notice", "reply"}
      /\ \A p \in 1 .. Len(s) : s[p][1] = "reply" =>
            s[p][2] = caller.n /\ executions[caller.n] = 1 /\ ~Asks(c, caller.n)
      /\ \A p, q \in 1 .. Len(s) : s[p] = s[q] /\ s[p][1] = "reply" => p = q
  BY <1>i, <1>1 DEF DownInv
<1>7. /\ Len(t) \in Nat /\ Len(s) = Whole + Len(t) /\ Whole \in Nat \ {0}
      /\ \A p \in 1 .. Whole : s[p] = v[p]
      /\ \A p \in 1 .. Len(t) : s[Whole + p] = t[p] /\ t[p] \in Unit
      /\ v # <<>>
  <2>1. Whole \in Nat \ {0}
    BY Sizes
  <2>2. /\ Len(t) \in Nat /\ Len(Cat(v, t)) = Len(v) + Len(t)
        /\ \A p \in 1 .. Len(v) : Cat(v, t)[p] = v[p]
        /\ \A p \in 1 .. Len(t) : Cat(v, t)[Len(v) + p] = t[p]
        /\ \A p \in 1 .. Len(t) : t[p] \in Unit
    BY Concatenated
  <2>3. v # <<>>
    BY <2>1, EmptySeq
  <2> QED
    BY <2>1, <2>2, <2>3
<1> HIDE DEF s
<1>8. v[1][2] = caller.n /\ executions[caller.n] = 1 /\ ~Asks(c, caller.n)
  <2>1. 1 \in 1 .. Len(s) /\ 1 \in 1 .. Whole
    BY <1>7
  <2> QED
    BY <1>6, <1>7, <2>1
<1>9. /\ InMessages(t) /\ (Serving(c) => LastIsWhole(t))
      /\ \A r \in 1 .. Whole : v[r] = UnitAt("reply", caller.n, r)
  <2>1. Len(v) = Size(v[1][1]) /\ v # <<>>
    BY <1>7, Sizes
  <2> QED
    BY SMTT(40), <1>6, <1>7, <1>8, <2>1, FirstTaken DEF s
<1>10. \A p \in 1 .. Len(t) : t[p][1] = "notice"
  <2> SUFFICES ASSUME NEW p \in 1 .. Len(t), t[p][1] # "notice" PROVE FALSE
    OBVIOUS
  <2>1. PICK i \in 1 .. Len(s) : i = Whole + p /\ i > Whole
    BY <1>7
  <2>2. s[i] = t[p] /\ s[i] \in Unit
    BY <1>7, <2>1
  <2>3. s[i][1] = "reply" /\ s[i][2] = caller.n
    BY <1>6, <2>2
  <2>4. PICK q \in 1 .. Whole : s[i] = UnitAt("reply", caller.n, q)
    BY <2>2, <2>3, UnitFacts
  <2>5. q \in 1 .. Len(s) /\ s[q] = s[i]
    BY <1>7, <1>9, <2>4
  <2>6. q = i
    BY <1>6, <2>3, <2>5
  <2> QED
    BY <1>7, <2>1, <2>6
<1>11. ExchangeTypeOK'
  <2>1. v[1][2] \in 0 .. CallerMax /\ "OK" \in InvokeResult
    BY <1>1, <1>8 DEF InvokeResult
  <2> QED
    BY <1>i, <1>1, <2>1 DEF ExchangeTypeOK
<1>12. CallerInv'
  BY <1>1 DEF CallerInv
<1>13. WorkerInv'
  <2>1. \A d \in Conn : wsh[d].at = "invoking" => ~KeptOpen(d)
    <3> SUFFICES ASSUME NEW d \in Conn, wsh[d].at = "invoking", KeptOpen(d) PROVE FALSE
      OBVIOUS
    <3>1. d = c /\ caller.n = wsh[d].n /\ Serving(d)
      BY <1>i DEF WorkerInv
    <3> QED
      BY <1>8, <3>1 DEF Asks
  <2> QED
    BY <1>i, <1>2, <1>3, <2>1 DEF WorkerInv
<1>14. UpInv'
  BY <1>i, <1>1, <1>2, <1>3 DEF UpInv
<1>15. AskInv'
  <2>1. ASSUME NEW d \in Conn, NEW j \in 0 .. CallerMax, Asks(d, j)'
        PROVE  /\ j \in 1 .. caller'.n /\ executions'[j] = 0
               /\ j = caller'.n => d = caller'.conn
               /\ KeptOpen(d)' => caller'.at # "idle" /\ j = caller'.n /\ d = caller'.conn
               /\ outcomes'[j] \in Retried => ~KeptOpen(d)' /\ Len(UpStream(d)') < Whole /\ wsh'[d].at # "invoking"
    <3>1. /\ Asks(d, j) /\ j \in 1 .. caller.n /\ executions[j] = 0
          /\ j = caller.n => d = c
          /\ KeptOpen(d) => j = caller.n /\ d = c
          /\ outcomes[j] \in Retried => ~KeptOpen(d) /\ Len(UpStream(d)) < Whole /\ wsh[d].at # "invoking"
      BY <1>i, <1>5, <2>1 DEF AskInv
    <3>2. j # caller.n /\ ~KeptOpen(d)
      BY <1>8, <3>1
    <3>3. outcomes'[j] = outcomes[j]
      BY <1>i, <1>1, <3>1, <3>2 DEF ExchangeTypeOK, Calls
    <3> QED
      BY <1>1, <1>2, <1>3, <3>1, <3>2, <3>3
  <2>2. ASSUME NEW d \in Conn, NEW e \in Conn, NEW j \in 0 .. CallerMax, Asks(d, j)', Asks(e, j)'
        PROVE  d = e
    BY <1>i, <1>5, <2>2 DEF AskInv
  <2> QED
    BY <2>1, <2>2 DEF AskInv
<1>16. HistoryInv'
  <2>1. /\ \A j \in Calls : j # caller.n => outcomes'[j] = outcomes[j] /\ answer'[j] = answer[j]
        /\ outcomes'[caller.n] = "OK" /\ answer'[caller.n] = caller.n
    BY <1>i, <1>1, <1>8 DEF ExchangeTypeOK
  <2>2. \A j \in Calls : j > caller.n => j # caller.n
    BY <1>1 DEF Calls
  <2>3. AnswerIsOwnRequests'
    BY <1>i, <1>8, <2>1 DEF HistoryInv, AnswerIsOwnRequests
  <2>4. \A j \in Calls : outcomes'[j] \in Retried => executions[j] = 0
    BY <1>i, <2>1 DEF HistoryInv, Retried
  <2> QED
    BY <1>i, <1>1, <2>1, <2>2, <2>3, <2>4 DEF HistoryInv
<1>17. DownInv'
  <2>1. \A d \in Conn : KeptOpen(d) /\ d # c =>
           /\ InMessages(DownStream(d)) /\ (Serving(d) => LastIsWhole(DownStream(d)))
           /\ \A p \in 1 .. Len(DownStream(d)) : DownStream(d)[p][1] = "notice"
    BY <1>i DEF DownInv
  <2>2. ASSUME NEW d \in Conn, KeptOpen(d)'
        PROVE  /\ InMessages(DownStream(d)') /\ (Serving(d)' => LastIsWhole(DownStream(d)'))
               /\ \A p \in 1 .. Len(DownStream(d)') : DownStream(d)'[p][1] = "notice"
    <3>1. CASE d = c
      BY <1>2, <1>9, <1>10, <3>1
    <3>2. CASE d # c
      BY <1>2, <1>4, <2>1, <2>2, <3>2
    <3> QED
      BY <3>1, <3>2
  <2> QED
    BY <2>2 DEF DownInv, InMessages, InPlace, LastIsWhole
<1> QED
  BY <1>11, <1>12, <1>13, <1>14, <1>15, <1>16, <1>17 DEF ExchangeInv

\* The application reads: part of a message, a notice, or its reply.
LEMMA ClientReadsKeeps ==
  ASSUME ExchangeInv, ClientReads
  PROVE  ExchangeInv'
<1>i. ExchangeTypeOK /\ CallerInv /\ DownInv
  BY DEF ExchangeInv
<1>c. PICK c \in Conn : c = caller.conn /\ KeptOpen(c)
  BY <1>i DEF ClientReads, Receiving, CallerInv
<1>1. PICK u \in Seq(Unit), s \in Seq(Unit), r \in Seq(Unit) :
         u = caller.units /\ s = down[c] /\ r = BeingReplied(c)
  BY <1>i, StreamFacts
<1>2. PICK k \in 1 .. WantedUnits(u) - Len(u) :
         /\ k <= Len(s) /\ down' = [down EXCEPT ![c] = Left(s, k)]
         /\ LET units == Kept(Cat(u, Taken(s, k))) IN
            IF Len(units) = Whole
            THEN /\ outcomes' = [outcomes EXCEPT ![caller.n] = "OK"]
                 /\ answer' = [answer EXCEPT ![caller.n] = units[1][2]]
                 /\ caller' = [caller EXCEPT !.at = "idle", !.units = <<>>]
            ELSE /\ caller' = [caller EXCEPT !.units = units]
                 /\ UNCHANGED <<outcomes, answer>>
  BY <1>c, <1>1 DEF ClientReads, Cat, Taken, Left, Whole
<1>3. /\ caller.at = "receiving" /\ Receiving /\ ~Sending
      /\ Len(u) < Whole /\ (Len(u) >= HeaderLen => u[1][1] = "reply")
      /\ UNCHANGED <<up, closedBy, wsh, executions, notices>>
  BY <1>i, <1>1 DEF ClientReads, Receiving, Sending, CallerInv
<1>4. /\ Len(u) \in Nat /\ Len(s) \in Nat /\ k \in 1 .. Len(s)
      /\ HeaderLen \in Nat \ {0} /\ Whole \in Nat /\ HeaderLen < Whole
      /\ k <= WantedUnits(u) - Len(u)
      /\ WantedUnits(u) = IF Len(u) < HeaderLen THEN HeaderLen ELSE Whole
  <2>1. /\ Len(u) \in Nat /\ Len(s) \in Nat /\ HeaderLen \in Nat \ {0} /\ Whole \in Nat /\ HeaderLen < Whole
    BY Sizes, LenProperties
  <2>2. WantedUnits(u) = IF Len(u) < HeaderLen THEN HeaderLen ELSE Whole
    BY DEF WantedUnits, Whole
  <2> QED
    BY <1>2, <2>1, <2>2
<1>5. PICK v \in Seq(Unit), t \in Seq(Unit) : /\ v = Cat(u, Taken(s, k)) /\ t = Cat(Left(s, k), r)
                                              /\ DownStream(c) = Cat(v, t)
                                              /\ Left(s, k) \in Seq(Unit) /\ Taken(s, k) \in Seq(Unit)
                                              /\ Len(Taken(s, k)) = k
  <2>1. Left(s, k) \in Seq(Unit) /\ Taken(s, k) \in Seq(Unit) /\ Len(Taken(s, k)) = k
    BY <1>4, PieceFacts
  <2>2. Cat(u, Taken(s, k)) \in Seq(Unit) /\ Cat(Left(s, k), r) \in Seq(Unit)
    BY <2>1, CatFacts
  <2>3. Cat(Cat(u, Taken(s, k)), Cat(Left(s, k), r)) = Cat(u, Cat(s, r))
    BY <1>4, MovedOn
  <2>4. DownStream(c) = Cat(u, Cat(s, r))
    BY <1>c, <1>1, <1>3 DEF DownStream, BeingReceived
  <2> QED
    BY <2>1, <2>2, <2>3, <2>4
<1>6. /\ Len(v) = Len(u) + k /\ v # <<>> /\ Len(v) <= Whole /\ Len(v) \in Nat
      /\ Len(u) < HeaderLen => Len(v) <= HeaderLen
      /\ Len(u) >= HeaderLen => v[1] = u[1] /\ Len(v) > HeaderLen
  <2>1. Len(v) = Len(u) + k /\ \A i \in 1 .. Len(u) : v[i] = u[i]
    <3>1. PICK taken \in Seq(Unit) : taken = Taken(s, k) /\ Len(taken) = k
      BY <1>5
    <3>2. Len(Cat(u, taken)) = Len(u) + Len(taken) /\ \A i \in 1 .. Len(u) : Cat(u, taken)[i] = u[i]
      BY Concatenated
    <3> QED
      BY <1>5, <3>1, <3>2
  <2>2. Len(u) + k # 0 /\ Len(u) + k <= Whole /\ (Len(u) < HeaderLen => Len(u) + k <= HeaderLen)
        /\ (Len(u) >= HeaderLen => 1 \in 1 .. Len(u) /\ Len(u) + k > HeaderLen) /\ Len(u) + k \in Nat
    BY <1>4
  <2> QED
    BY <2>1, <2>2, EmptySeq
<1>7. /\ InMessages(DownStream(c)) /\ v[1][1] \in {"notice", "reply"}
      /\ Len(v) >= HeaderLen => v[1][1] = "reply" \/ (v[1][1] = "notice" /\ Len(v) = HeaderLen)
  <2>1. /\ InMessages(DownStream(c))
        /\ \A p \in 1 .. Len(DownStream(c)) : DownStream(c)[p][1] \in {"notice", "reply"}
    BY <1>i, <1>c DEF DownInv
  <2>2. 1 \in 1 .. Len(v) /\ 1 \in 1 .. Len(DownStream(c)) /\ DownStream(c)[1] = v[1]
    <3>1. /\ Len(DownStream(c)) = Len(v) + Len(t) /\ Len(t) \in Nat
          /\ \A i \in 1 .. Len(v) : DownStream(c)[i] = v[i]
      <4>1. /\ Len(Cat(v, t)) = Len(v) + Len(t) /\ Len(t) \in Nat
            /\ \A i \in 1 .. Len(v) : Cat(v, t)[i] = v[i]
        BY Concatenated
      <4> QED
        BY <1>5, <4>1
    <3>2. Len(v) \in Nat \ {0}
      BY <1>6, EmptySeq
    <3>3. 1 \in 1 .. Len(v) /\ 1 \in 1 .. Len(v) + Len(t)
      BY <3>1, <3>2
    <3> QED
      BY <3>1, <3>3
  <2>3. v[1][1] \in {"notice", "reply"}
    BY <2>1, <2>2
  <2>4. ASSUME Len(v) >= HeaderLen
        PROVE  v[1][1] = "reply" \/ (v[1][1] = "notice" /\ Len(v) = HeaderLen)
    <3>1. CASE Len(u) >= HeaderLen
      BY <1>3, <1>6, <3>1
    <3>2. CASE Len(u) < HeaderLen
      BY <1>4, <1>6, <2>3, <2>4, <3>2
    <3> QED
      BY <1>4, <3>1, <3>2
  <2> QED
    BY <2>1, <2>3, <2>4
<1>8. /\ down' \in [Conn -> Seq(Unit)] /\ down'[c] = Left(s, k)
      /\ \A d \in Conn : d # c => down'[d] = down[d]
  BY <1>i, <1>2, <1>5 DEF ExchangeTypeOK
<1>9. BeingReplied(c)' = r
  BY <1>1, <1>3 DEF BeingReplied
<1>10. ASSUME caller'.conn = c, Receiving'
       PROVE  DownStream(c)' = Cat(caller'.units, t)
  BY <1>5, <1>8, <1>9, <1>10 DEF DownStream, BeingReceived
<1>11. caller' = [caller EXCEPT !.units = caller'.units] => caller'.conn = c /\ Receiving'
  BY <1>i, <1>c, <1>3 DEF ExchangeTypeOK, Receiving
\* The header of a notice.
<1>12. CASE Len(v) = HeaderLen /\ v[1][1] = "notice"
  <2>1. Kept(v) = <<>>
    BY <1>12 DEF Kept
  <2>2. Len(<<>>) = 0 /\ Len(<<>>) # Whole
    BY <1>4
  <2>3. caller' = [caller EXCEPT !.units = <<>>] /\ UNCHANGED <<outcomes, answer>>
    BY <1>2, <1>5, <2>1, <2>2
  <2>4. caller'.units = <<>>
    BY <1>i, <2>3 DEF ExchangeTypeOK
  <2>5. DownStream(c)' = t
    BY <1>5, <1>10, <1>11, <2>3, <2>4, CatFacts
  <2>6. Len(v) = Size(v[1][1])
    BY <1>12, Sizes
  <2>7. InMessages(t) /\ (LastIsWhole(DownStream(c)) => LastIsWhole(t))
    BY <1>5, <1>6, <1>7, <2>6, FirstTaken
  <2>8. Rest(DownStream(c), t)
    BY <1>5, RightIsRest
  <2>9. <<>> \in Seq(Unit) /\ Len(<<>>) < Whole /\ ~(Len(<<>>) >= HeaderLen)
    BY <1>4, <2>2, CatFacts
  <2> QED
    BY <1>c, <1>3, <1>8, <2>3, <2>5, <2>7, <2>8, <2>9, ReadsOn
\* The whole reply.
<1>13. CASE Len(v) = Whole
  <2>1. Kept(v) = v /\ v[1][1] = "reply"
    BY <1>4, <1>7, <1>13 DEF Kept
  <2>2. /\ outcomes' = [outcomes EXCEPT ![caller.n] = "OK"]
        /\ answer' = [answer EXCEPT ![caller.n] = v[1][2]]
        /\ caller' = [caller EXCEPT !.at = "idle", !.units = <<>>]
    BY <1>2, <1>5, <1>13, <2>1
  <2>3. BeingReceived(c)' = <<>>
    BY <1>i, <2>2 DEF BeingReceived, Receiving, ExchangeTypeOK
  <2>4. DownStream(c)' = Cat(<<>>, t)
    BY <1>5, <1>8, <1>9, <2>3 DEF DownStream
  <2>5. DownStream(c)' = t
    BY <2>4, CatFacts
  <2> QED
    BY <1>c, <1>3, <1>5, <1>8, <1>13, <2>1, <2>2, <2>5, ReadsAll
\* A part of either.
<1>14. CASE Len(v) # Whole /\ ~(Len(v) = HeaderLen /\ v[1][1] = "notice")
  <2>1. Kept(v) = v
    BY <1>14 DEF Kept
  <2>2. caller' = [caller EXCEPT !.units = v] /\ UNCHANGED <<outcomes, answer>>
    BY <1>2, <1>5, <1>14, <2>1
  <2>3. caller'.units = v
    BY <1>i, <2>2 DEF ExchangeTypeOK
  <2>4. DownStream(c)' = DownStream(c)
    BY <1>5, <1>10, <1>11, <2>2, <2>3
  <2>5. DownStream(c) \in Seq(Unit)
    BY <1>i, StreamFacts
  <2>6. Rest(DownStream(c), DownStream(c)')
    BY <2>4, <2>5, WholeIsRest
  <2>7. Len(v) < Whole /\ (Len(v) >= HeaderLen => v[1][1] = "reply")
    <3>1. Whole \in Nat
      BY <1>4
    <3>2. Len(v) < Whole
      <4>1. PICK i \in Nat, w \in Nat : i = Len(v) /\ w = Whole
        BY <1>6, <3>1
      <4>2. i <= w
        BY <1>6, <4>1
      <4>3. i # w
        BY <1>14, <4>1
      <4> QED
        BY <4>1, <4>2, <4>3
    <3>3. Len(v) >= HeaderLen => v[1][1] = "reply"
      BY <1>7, <1>14
    <3> QED
      BY <3>2, <3>3
  <2>8. InMessages(DownStream(c)') /\ (LastIsWhole(DownStream(c)) => LastIsWhole(DownStream(c)'))
    BY <1>7, <2>4
  <2> QED
    BY <1>c, <1>3, <1>8, <2>2, <2>6, <2>7, <2>8, ReadsOn
<1> QED
  BY <1>12, <1>13, <1>14

\* A read of the application that fails ends the connection.
LEMMA ReadFailsKeeps ==
  ASSUME ExchangeInv, ReadFails
  PROVE  ExchangeInv'
<1>1. caller.at # "idle"
  BY DEF ReadFails, Receiving
<1>2. PICK error \in {"RECEIVE_TIMEOUT", "RECEIVE_FAILED"} : Fails(error)
  BY DEF ReadFails
<1>3. error \in InvokeResult \ {"NONE", "OK"} /\ error \notin Retried
  BY DEF InvokeResult, Retried
<1> QED
  BY <1>1, <1>2, <1>3, FailsKeeps

\* So does a write.
LEMMA WriteFailsKeeps ==
  ASSUME ExchangeInv, WriteFails
  PROVE  ExchangeInv'
<1>1. caller.at # "idle" /\ Sending
  BY DEF WriteFails, Sending
<1>2. PICK error \in {"SEND_HEADER_TIMEOUT", "SEND_BODY_TIMEOUT", "SEND_HEADER_FAILED", "SEND_BODY_FAILED"} :
         Fails(error)
  BY DEF WriteFails
<1>3. error \in InvokeResult \ {"NONE", "OK"}
  BY DEF InvokeResult
<1> QED
  BY <1>1, <1>2, <1>3, FailsKeeps

\* A step of a server that asks for nothing new and carries nothing out.
LEMMA SameHistory ==
  ASSUME ExchangeInv, UNCHANGED <<closedBy, caller, executions, outcomes, answer>>,
         \A d \in Conn, j \in 0 .. CallerMax : Asks(d, j)' <=> Asks(d, j)
  PROVE  /\ CallerInv' /\ HistoryInv'
         /\ (\A d \in Conn : DownStream(d)' = DownStream(d)) => DownInv'
<1>i. CallerInv /\ HistoryInv /\ DownInv /\ ExchangeTypeOK
  BY DEF ExchangeInv
<1>1. \A d \in Conn : KeptOpen(d)' = KeptOpen(d) /\ Serving(d)' = Serving(d)
  BY DEF KeptOpen, Serving
<1>2. (Sending' <=> Sending) /\ (Receiving' <=> Receiving)
  BY DEF Sending, Receiving
<1>3. CallerInv'
  BY <1>i, <1>1 DEF CallerInv
<1>4. HistoryInv'
  BY <1>i, <1>2 DEF HistoryInv, AnswerIsOwnRequests
<1>5. ASSUME \A d \in Conn : DownStream(d)' = DownStream(d)
      PROVE  DownInv'
  <2>1. \A d \in Conn : KeptOpen(d) =>
           /\ InMessages(DownStream(d)) /\ (Serving(d) => LastIsWhole(DownStream(d)))
           /\ \A p \in 1 .. Len(DownStream(d)) : DownStream(d)[p][1] \in {"notice", "reply"}
           /\ \A p \in 1 .. Len(DownStream(d)) : DownStream(d)[p][1] = "reply" =>
                 /\ Receiving /\ d = caller.conn /\ DownStream(d)[p][2] = caller.n
                 /\ executions[caller.n] = 1 /\ ~Asks(d, caller.n)
           /\ \A p, q \in 1 .. Len(DownStream(d)) :
                 DownStream(d)[p] = DownStream(d)[q] /\ DownStream(d)[p][1] = "reply" => p = q
    BY <1>i DEF DownInv
  <2>2. caller.n \in 0 .. CallerMax
    BY <1>i DEF ExchangeTypeOK
  <2>3. ASSUME NEW d \in Conn PROVE /\ InMessages(DownStream(d))' = InMessages(DownStream(d))
                                    /\ LastIsWhole(DownStream(d))' = LastIsWhole(DownStream(d))
    BY <1>5 DEF InMessages, InPlace, LastIsWhole
  <2>4. \A d \in Conn : Asks(d, caller.n)' <=> Asks(d, caller.n)
    BY <2>2
  <2> QED
    BY <1>1, <1>2, <1>5, <2>1, <2>3, <2>4 DEF DownInv
<1> QED
  BY <1>3, <1>4, <1>5

\* A step of a server that only moves units on.
LEMMA SameStreams ==
  ASSUME ExchangeInv, ExchangeTypeOK', WorkerInv',
         UNCHANGED <<closedBy, caller, executions, outcomes, answer>>,
         \A d \in Conn : UpStream(d)' = UpStream(d) /\ DownStream(d)' = DownStream(d),
         \A d \in Conn : /\ wsh'[d].at = "invoking" <=> wsh[d].at = "invoking"
                         /\ wsh[d].at = "invoking" => wsh'[d].n = wsh[d].n
  PROVE  ExchangeInv'
<1>i. UpInv /\ AskInv
  BY DEF ExchangeInv
<1>1. \A d \in Conn : KeptOpen(d)' = KeptOpen(d) /\ Serving(d)' = Serving(d)
  BY DEF KeptOpen, Serving
<1>2. \A d \in Conn, j \in 0 .. CallerMax : Asks(d, j)' <=> Asks(d, j)
  BY <1>1 DEF Asks
<1>3. CallerInv' /\ HistoryInv' /\ DownInv'
  BY <1>2, SameHistory
<1>4. UpInv'
  BY <1>i, <1>1 DEF UpInv, Sending
<1>5. AskInv'
  BY <1>i, <1>1, <1>2 DEF AskInv
<1> QED
  BY <1>3, <1>4, <1>5 DEF ExchangeInv

\* The server writes some of a reply or of a notice.
LEMMA ServerWritesKeeps ==
  ASSUME ExchangeInv, NEW c \in Conn, ServerWrites(c)
  PROVE  ExchangeInv'
<1>i. ExchangeTypeOK /\ WorkerInv
  BY DEF ExchangeInv
<1>0. /\ wsh[c].at = "replying" /\ wsh[c].units \in Seq(Unit) /\ down[c] \in Seq(Unit)
      /\ UNCHANGED <<up, closedBy, caller, executions, outcomes, answer, notices>>
  BY <1>i DEF ServerWrites, ExchangeTypeOK
<1>1. PICK units \in Seq(Unit) : units = wsh[c].units
  BY <1>0
<1>2. PICK k \in 1 .. Len(units) :
         /\ down' = [down EXCEPT ![c] = Cat(down[c], Taken(units, k))]
         /\ wsh' = [wsh EXCEPT ![c] = [wsh[c] EXCEPT
                      !.at = IF Left(units, k) = <<>> THEN "waiting" ELSE "replying",
                      !.units = Left(units, k)]]
  BY <1>1, InPartFacts DEF ServerWrites, ServeConn, Cat, Taken, Left
<1>3. PICK rest \in Seq(Unit), written \in Seq(Unit) :
         /\ rest = Left(units, k) /\ written = Cat(down[c], Taken(units, k))
         /\ Cat(written, rest) = Cat(down[c], units)
  <2>1. Taken(units, k) \in Seq(Unit) /\ Left(units, k) \in Seq(Unit)
    BY PieceFacts
  <2>2. Cat(down[c], Taken(units, k)) \in Seq(Unit)
    BY <1>0, <2>1, CatFacts
  <2>3. Cat(Cat(down[c], Taken(units, k)), Left(units, k)) = Cat(down[c], units)
    BY <1>0, MovedOn
  <2> QED
    BY <2>1, <2>2, <2>3
<1>4. /\ down'[c] = written /\ wsh'[c].units = rest /\ wsh'[c].n = wsh[c].n
      /\ (rest = <<>> /\ wsh'[c].at = "waiting") \/ (rest # <<>> /\ wsh'[c].at = "replying")
      /\ \A d \in Conn : d # c => down'[d] = down[d] /\ wsh'[d] = wsh[d]
  BY <1>i, <1>2, <1>3 DEF ExchangeTypeOK
<1>5. ExchangeTypeOK'
  <2>1. down' \in [Conn -> Seq(Unit)]
    BY <1>i, <1>2, <1>3 DEF ExchangeTypeOK
  <2>2. wsh' \in [Conn -> [at : {"waiting", "reading", "invoking", "replying", "closed"},
                           n : 0 .. CallerMax, units : Seq(Unit)]]
    <3>1. PICK to \in [at : {"waiting", "reading", "invoking", "replying", "closed"},
                       n : 0 .. CallerMax, units : Seq(Unit)] :
             to = [wsh[c] EXCEPT !.at = IF rest = <<>> THEN "waiting" ELSE "replying", !.units = rest]
      BY <1>i DEF ExchangeTypeOK
    <3>2. wsh' = [wsh EXCEPT ![c] = to]
      BY <1>2, <1>3, <3>1
    <3> QED
      BY <1>i, <3>2 DEF ExchangeTypeOK
  <2> QED
    BY <1>i, <1>0, <2>1, <2>2 DEF ExchangeTypeOK
<1>6. \A d \in Conn : UpStream(d)' = UpStream(d) /\ DownStream(d)' = DownStream(d)
  <2>1. \A d \in Conn : /\ BeingRead(d)' = BeingRead(d) /\ BeingSent(d)' = BeingSent(d)
                        /\ BeingReceived(d)' = BeingReceived(d)
                        /\ d # c => BeingReplied(d)' = BeingReplied(d)
    <3>1. \A d \in Conn : BeingSent(d)' = BeingSent(d) /\ BeingReceived(d)' = BeingReceived(d)
      BY <1>0 DEF BeingSent, BeingReceived, Sending, Receiving
    <3>2. BeingRead(c) = <<>> /\ BeingRead(c)' = <<>>
      BY <1>0, <1>4 DEF BeingRead
    <3>3. \A d \in Conn : d # c => BeingRead(d)' = BeingRead(d) /\ BeingReplied(d)' = BeingReplied(d)
      BY <1>4 DEF BeingRead, BeingReplied
    <3> QED
      BY <3>1, <3>2, <3>3
  <2>2. BeingReplied(c) = units /\ BeingReplied(c)' = rest
    BY <1>0, <1>1, <1>4 DEF BeingReplied
  <2>3. \A d \in Conn : UpStream(d)' = UpStream(d)
    BY <1>0, <2>1 DEF UpStream
  <2>4. DownStream(c)' = DownStream(c)
    BY <1>3, <1>4, <2>1, <2>2 DEF DownStream
  <2>5. \A d \in Conn : d # c => DownStream(d)' = DownStream(d)
    BY <1>4, <2>1 DEF DownStream
  <2> QED
    BY <2>3, <2>4, <2>5
<1>7. WorkerInv'
  <2>1. \A d \in Conn : KeptOpen(d)' = KeptOpen(d) /\ Serving(d)' = Serving(d)
    BY <1>0 DEF KeptOpen, Serving
  <2>2. (Receiving' <=> Receiving) /\ caller' = caller
    BY <1>0 DEF Receiving
  <2>3. ASSUME NEW d \in Conn
        PROVE  /\ wsh'[d].at = "closed" <=> ~Serving(d)'
               /\ wsh'[d].at \in {"waiting", "closed"} => wsh'[d].units = <<>>
               /\ wsh'[d].at \in {"reading", "replying"} => wsh'[d].units # <<>>
               /\ wsh'[d].at = "reading" => Len(wsh'[d].units) < Whole
               /\ wsh'[d].at = "invoking" => Len(wsh'[d].units) = Whole /\ UpStream(d)' = <<>> /\ wsh'[d].n \in Calls
                     /\ (KeptOpen(d)' => Receiving' /\ caller'.conn = d /\ caller'.n = wsh'[d].n)
    <3>1. CASE d = c
      BY <1>i, <1>0, <1>4, <2>1, <3>1 DEF WorkerInv
    <3>2. CASE d # c
      BY <1>i, <1>4, <1>6, <2>1, <2>2, <3>2 DEF WorkerInv
    <3> QED
      BY <3>1, <3>2
  <2> QED
    BY <2>3 DEF WorkerInv
<1>8. \A d \in Conn : /\ wsh'[d].at = "invoking" <=> wsh[d].at = "invoking"
                      /\ wsh[d].at = "invoking" => wsh'[d].n = wsh[d].n
  BY <1>0, <1>4
<1> QED
  BY <1>0, <1>5, <1>6, <1>7, <1>8, SameStreams

\* The server has read the whole of a request: nothing is left on its way behind it.
LEMMA ServerReadsAll ==
  ASSUME ExchangeInv, NEW c \in Conn, Serving(c), wsh[c].at \in {"waiting", "reading"},
         NEW v \in Seq(Unit), NEW t \in Seq(Unit), Len(v) = Whole, UpStream(c) = Cat(v, Cat(t, BeingSent(c))),
         up' = [up EXCEPT ![c] = t],
         wsh' = [wsh EXCEPT ![c] = [at |-> "invoking", n |-> v[1][2], units |-> v]],
         UNCHANGED <<down, closedBy, caller, executions, outcomes, answer, notices>>
  PROVE  ExchangeInv'
<1>i. ExchangeTypeOK /\ CallerInv /\ WorkerInv /\ UpInv /\ AskInv /\ HistoryInv /\ DownInv
  BY DEF ExchangeInv
<1>1. PICK sent \in Seq(Unit) : sent = BeingSent(c)
  BY <1>i, StreamFacts
<1>2. /\ Len(UpStream(c)) = Whole /\ Whole \in Nat \ {0} /\ Len(t) = 0 /\ Len(sent) = 0
      /\ UpStream(c)[1] = v[1]
  <2>1. PICK rest \in Seq(Unit) : rest = Cat(t, sent)
    BY CatFacts
  <2>2. /\ Len(Cat(v, rest)) = Len(v) + Len(rest)
        /\ \A i \in 1 .. Len(v) : Cat(v, rest)[i] = v[i]
    BY Concatenated
  <2>3. Len(Cat(t, sent)) = Len(t) + Len(sent) /\ Len(t) \in Nat /\ Len(sent) \in Nat
    BY Concatenated
  <2>4. Whole \in Nat \ {0} /\ 1 \in 1 .. Whole
    BY Sizes
  <2>5. Len(UpStream(c)) <= Whole
    BY <1>i DEF UpInv
  <2>6. UpStream(c) = Cat(v, rest)
    BY <1>1, <2>1
  <2>7. Len(UpStream(c)) = Whole + Len(t) + Len(sent)
    BY <2>1, <2>2, <2>3, <2>4, <2>6
  <2>8. UpStream(c)[1] = v[1]
    BY <2>2, <2>4, <2>6
  <2> QED
    BY <2>3, <2>4, <2>5, <2>7, <2>8
<1>3. t = <<>> /\ BeingSent(c) = <<>>
  BY <1>1, <1>2, EmptySeq
<1>4. UpStream(c) # <<>> /\ v[1][2] \in 0 .. CallerMax
  <2>1. UpStream(c) # <<>>
    BY <1>2, EmptySeq
  <2> QED
    BY <1>i, <1>2, <2>1, StreamFacts
<1>5. PICK n \in 0 .. CallerMax : n = v[1][2]
  BY <1>4
<1>6. /\ up'[c] = <<>> /\ wsh'[c] = [at |-> "invoking", n |-> n, units |-> v]
      /\ \A d \in Conn : d # c => up'[d] = up[d] /\ wsh'[d] = wsh[d]
  BY <1>i, <1>3, <1>5 DEF ExchangeTypeOK
<1>7. /\ \A d \in Conn : KeptOpen(d)' = KeptOpen(d) /\ Serving(d)' = Serving(d)
      /\ (Sending' <=> Sending) /\ (Receiving' <=> Receiving)
  BY DEF KeptOpen, Serving, Sending, Receiving
<1>8. /\ UpStream(c)' = <<>> /\ DownStream(c)' = DownStream(c)
      /\ \A d \in Conn : d # c => UpStream(d)' = UpStream(d) /\ DownStream(d)' = DownStream(d)
  <2>1. \A d \in Conn : BeingSent(d)' = BeingSent(d) /\ BeingReceived(d)' = BeingReceived(d)
    BY DEF BeingSent, BeingReceived, Sending, Receiving
  <2>2. BeingRead(c)' = <<>> /\ BeingReplied(c) = <<>> /\ BeingReplied(c)' = <<>>
    BY <1>6 DEF BeingRead, BeingReplied
  <2>3. \A d \in Conn : d # c => BeingRead(d)' = BeingRead(d) /\ BeingReplied(d)' = BeingReplied(d)
    BY <1>6 DEF BeingRead, BeingReplied
  <2>4. Cat(<<>>, Cat(<<>>, <<>>)) = <<>>
    BY CatFacts
  <2>5. UpStream(c)' = <<>>
    BY <1>3, <1>6, <2>1, <2>2, <2>4 DEF UpStream
  <2>6. \A d \in Conn : d # c => UpStream(d)' = UpStream(d)
    BY <1>6, <2>1, <2>3 DEF UpStream
  <2>7. \A d \in Conn : DownStream(d)' = DownStream(d)
    BY <2>1, <2>2, <2>3 DEF DownStream
  <2> QED
    BY <2>5, <2>6, <2>7
<1>9. \A d \in Conn, j \in 0 .. CallerMax : Asks(d, j)' <=> Asks(d, j)
  <2>1. \A j \in 0 .. CallerMax : Asks(c, j)' <=> j = n
    BY <1>6, <1>7, <1>8 DEF Asks
  <2>2. \A j \in 0 .. CallerMax : Asks(c, j) <=> j = n
    BY <1>2, <1>4, <1>5 DEF Asks
  <2>3. \A d \in Conn, j \in 0 .. CallerMax : d # c => (Asks(d, j)' <=> Asks(d, j))
    BY <1>6, <1>7, <1>8 DEF Asks
  <2> QED
    BY <2>1, <2>2, <2>3
<1>10. CallerInv' /\ HistoryInv' /\ DownInv'
  BY <1>8, <1>9, SameHistory
<1>11. /\ Asks(c, n) /\ n \in Calls /\ ~(Sending /\ caller.conn = c)
       /\ KeptOpen(c) => Receiving /\ caller.conn = c /\ caller.n = n
  <2>1. Asks(c, n)
    BY <1>2, <1>4, <1>5 DEF Asks
  <2>2. n \in 1 .. caller.n /\ (KeptOpen(c) => caller.at # "idle" /\ caller.n = n /\ caller.conn = c)
    BY <1>i, <2>1 DEF AskInv
  <2>3. caller.n \in 0 .. CallerMax /\ caller.at \in {"idle", "sending", "receiving"}
    BY <1>i DEF ExchangeTypeOK
  <2>4. ~(Sending /\ caller.conn = c)
    BY <1>i, <1>3 DEF BeingSent, CallerInv, Sending
  <2>5. n \in Calls
    BY <2>2, <2>3, ExchangeAssumption DEF Calls
  <2> QED
    BY <2>1, <2>2, <2>3, <2>4, <2>5 DEF Sending, Receiving
<1>12. ExchangeTypeOK'
  <2>1. up' \in [Conn -> Seq(Unit)]
    BY <1>i DEF ExchangeTypeOK
  <2>2. wsh' \in [Conn -> [at : {"waiting", "reading", "invoking", "replying", "closed"},
                           n : 0 .. CallerMax, units : Seq(Unit)]]
    BY <1>i, <1>5 DEF ExchangeTypeOK
  <2> QED
    BY <1>i, <2>1, <2>2 DEF ExchangeTypeOK
<1>13. WorkerInv'
  <2>1. ASSUME NEW d \in Conn
        PROVE  /\ wsh'[d].at = "closed" <=> ~Serving(d)'
               /\ wsh'[d].at \in {"waiting", "closed"} => wsh'[d].units = <<>>
               /\ wsh'[d].at \in {"reading", "replying"} => wsh'[d].units # <<>>
               /\ wsh'[d].at = "reading" => Len(wsh'[d].units) < Whole
               /\ wsh'[d].at = "invoking" => Len(wsh'[d].units) = Whole /\ UpStream(d)' = <<>> /\ wsh'[d].n \in Calls
                     /\ (KeptOpen(d)' => Receiving' /\ caller'.conn = d /\ caller'.n = wsh'[d].n)
    <3>1. CASE d = c
      BY <1>6, <1>7, <1>8, <1>11, <3>1
    <3>2. CASE d # c
      BY <1>i, <1>6, <1>7, <1>8, <3>2 DEF WorkerInv
    <3> QED
      BY <3>1, <3>2
  <2> QED
    BY <2>1 DEF WorkerInv
<1>14. UpInv'
  <2>1. Len(UpStream(c)') = 0 /\ 0 <= Whole
    BY <1>2, <1>8
  <2>2. ASSUME NEW d \in Conn, Serving(d)'
        PROVE  /\ Len(UpStream(d)') <= Whole
               /\ \A p \in 1 .. Len(UpStream(d)') : UpStream(d)'[p] = UnitAt("request", UpStream(d)'[1][2], p)
               /\ Sending' /\ caller'.conn = d => Len(UpStream(d)') = Whole /\ UpStream(d)'[1][2] = caller'.n
    <3>1. CASE d = c
      BY <1>7, <1>11, <2>1, <3>1
    <3>2. CASE d # c
      BY <1>i, <1>7, <1>8, <2>2, <3>2 DEF UpInv
    <3> QED
      BY <3>1, <3>2
  <2> QED
    BY <2>2 DEF UpInv
<1>15. AskInv'
  <2>1. ASSUME NEW d \in Conn, NEW j \in 0 .. CallerMax, Asks(d, j)'
        PROVE  /\ j \in 1 .. caller'.n /\ executions'[j] = 0
               /\ j = caller'.n => d = caller'.conn
               /\ KeptOpen(d)' => caller'.at # "idle" /\ j = caller'.n /\ d = caller'.conn
               /\ outcomes'[j] \in Retried => ~KeptOpen(d)' /\ Len(UpStream(d)') < Whole /\ wsh'[d].at # "invoking"
    <3>1. /\ Asks(d, j) /\ j \in 1 .. caller.n /\ executions[j] = 0
          /\ j = caller.n => d = caller.conn
          /\ KeptOpen(d) => caller.at # "idle" /\ j = caller.n /\ d = caller.conn
          /\ outcomes[j] \in Retried => ~KeptOpen(d) /\ Len(UpStream(d)) < Whole /\ wsh[d].at # "invoking"
      BY <1>i, <1>9, <2>1 DEF AskInv
    <3>2. d = c => outcomes[j] \notin Retried
      BY <1>2, <3>1
    <3> QED
      BY <1>6, <1>7, <1>8, <3>1, <3>2
  <2>2. ASSUME NEW d \in Conn, NEW e \in Conn, NEW j \in 0 .. CallerMax, Asks(d, j)', Asks(e, j)'
        PROVE  d = e
    BY <1>i, <1>9, <2>2 DEF AskInv
  <2> QED
    BY <2>1, <2>2 DEF AskInv
<1> QED
  BY <1>10, <1>12, <1>13, <1>14, <1>15 DEF ExchangeInv

\* The server reads some of a request, or the last of it.
LEMMA ServerReadsKeeps ==
  ASSUME ExchangeInv, NEW c \in Conn, ServerReads(c)
  PROVE  ExchangeInv'
<1>i. ExchangeTypeOK /\ WorkerInv
  BY DEF ExchangeInv
<1>0. /\ Serving(c) /\ wsh[c].at \in {"waiting", "reading"}
      /\ UNCHANGED <<down, closedBy, caller, executions, outcomes, answer, notices>>
  BY DEF ServerReads
<1>1. PICK u \in Seq(Unit), s \in Seq(Unit), sent \in Seq(Unit) :
         u = wsh[c].units /\ s = up[c] /\ sent = BeingSent(c)
  BY <1>i, StreamFacts
<1>2. PICK k \in 1 .. WantedUnits(u) - Len(u) :
         /\ k <= Len(s) /\ up' = [up EXCEPT ![c] = Left(s, k)]
         /\ LET units == Cat(u, Taken(s, k)) IN
            wsh' = [wsh EXCEPT ![c] = [at |-> IF Len(units) = Whole THEN "invoking" ELSE "reading",
                                       n |-> units[1][2], units |-> units]]
  BY <1>1 DEF ServerReads, ServeConn, Cat, Taken, Left, Whole
<1>3. /\ Len(u) \in Nat /\ Len(u) < Whole /\ Whole \in Nat /\ Len(s) \in Nat /\ k \in 1 .. Len(s)
      /\ k <= WantedUnits(u) - Len(u)
      /\ WantedUnits(u) = IF Len(u) < HeaderLen THEN HeaderLen ELSE Whole
      /\ HeaderLen \in Nat /\ HeaderLen < Whole
  <2>1. Len(u) \in Nat /\ Len(s) \in Nat /\ Whole \in Nat \ {0} /\ HeaderLen \in Nat /\ HeaderLen < Whole
    BY Sizes, LenProperties
  <2>2. Len(u) < Whole
    <3>1. CASE wsh[c].at = "reading"
      BY <1>i, <1>1, <3>1 DEF WorkerInv
    <3>2. CASE wsh[c].at = "waiting"
      <4>1. u = <<>>
        BY <1>i, <1>1, <3>2 DEF WorkerInv
      <4> QED
        BY <2>1, <4>1, EmptySeq
    <3> QED
      BY <1>0, <3>1, <3>2
  <2>3. WantedUnits(u) = IF Len(u) < HeaderLen THEN HeaderLen ELSE Whole
    BY DEF WantedUnits, Whole
  <2> QED
    BY <1>2, <2>1, <2>2, <2>3
<1>4. PICK v \in Seq(Unit), t \in Seq(Unit) :
         /\ v = Cat(u, Taken(s, k)) /\ t = Left(s, k) /\ Len(v) = Len(u) + k
         /\ UpStream(c) = Cat(v, Cat(t, BeingSent(c)))
  <2>1. PICK taken \in Seq(Unit) : taken = Taken(s, k) /\ Len(taken) = k
    BY <1>3, PieceFacts
  <2>2. Left(s, k) \in Seq(Unit) /\ Cat(u, taken) \in Seq(Unit)
    BY <1>3, PieceFacts, CatFacts
  <2>3. Len(Cat(u, taken)) = Len(u) + Len(taken)
    BY Concatenated
  <2>4. Cat(Cat(u, Taken(s, k)), Cat(Left(s, k), sent)) = Cat(u, Cat(s, sent))
    BY <1>3, MovedOn
  <2>5. UpStream(c) = Cat(u, Cat(s, sent))
    BY <1>0, <1>1 DEF UpStream, BeingRead
  <2> QED
    BY <1>1, <2>1, <2>2, <2>3, <2>4, <2>5
<1>5. up' = [up EXCEPT ![c] = t]
  BY <1>2, <1>4
<1>6. CASE Len(v) = Whole
  <2>1. wsh' = [wsh EXCEPT ![c] = [at |-> "invoking", n |-> v[1][2], units |-> v]]
    BY <1>2, <1>4, <1>6
  <2> QED
    BY <1>0, <1>4, <1>5, <1>6, <2>1, ServerReadsAll
<1>7. CASE Len(v) # Whole
  <2>1. wsh' = [wsh EXCEPT ![c] = [at |-> "reading", n |-> v[1][2], units |-> v]]
    BY <1>2, <1>4, <1>7
  <2>2. Len(v) < Whole /\ Len(v) # 0 /\ v # <<>> /\ 1 \in 1 .. Len(v)
    <3>1. Len(u) + k <= Whole /\ Len(u) + k # 0 /\ 1 \in 1 .. (Len(u) + k) /\ Len(u) + k \in Nat
      <4>1. CASE Len(u) < HeaderLen
        BY <1>3, <4>1
      <4>2. CASE ~(Len(u) < HeaderLen)
        BY <1>3, <4>2
      <4> QED
        BY <4>1, <4>2
    <3>2. Len(v) < Whole /\ Len(v) # 0 /\ 1 \in 1 .. Len(v)
      <4>1. PICK i \in Nat, w \in Nat : i = Len(u) + k /\ w = Whole
        BY <1>3, <3>1
      <4>2. Len(v) = i /\ i # w
        BY <1>4, <1>7, <4>1
      <4>3. i < w /\ i # 0 /\ 1 \in 1 .. i
        BY <3>1, <4>1, <4>2
      <4> QED
        BY <4>1, <4>2, <4>3
    <3> QED
      BY <3>2, EmptySeq
  <2>3. v[1] \in Unit /\ v[1][2] \in 0 .. CallerMax
    BY <2>2, UnitFacts, ElementOfSeq
  <2>4. PICK n \in 0 .. CallerMax : n = v[1][2]
    BY <2>3
  <2>5. /\ up'[c] = t /\ wsh'[c] = [at |-> "reading", n |-> n, units |-> v]
        /\ \A d \in Conn : d # c => up'[d] = up[d] /\ wsh'[d] = wsh[d]
    BY <1>i, <1>5, <2>1, <2>4 DEF ExchangeTypeOK
  <2>6. ExchangeTypeOK'
    <3>1. up' \in [Conn -> Seq(Unit)]
      BY <1>i, <1>5 DEF ExchangeTypeOK
    <3>2. wsh' \in [Conn -> [at : {"waiting", "reading", "invoking", "replying", "closed"},
                             n : 0 .. CallerMax, units : Seq(Unit)]]
      BY <1>i, <2>1, <2>4 DEF ExchangeTypeOK
    <3> QED
      BY <1>i, <1>0, <3>1, <3>2 DEF ExchangeTypeOK
  <2>7. \A d \in Conn : UpStream(d)' = UpStream(d) /\ DownStream(d)' = DownStream(d)
    <3>1. \A d \in Conn : BeingSent(d)' = BeingSent(d) /\ BeingReceived(d)' = BeingReceived(d)
      BY <1>0 DEF BeingSent, BeingReceived, Sending, Receiving
    <3>2. BeingRead(c)' = v /\ BeingReplied(c) = <<>> /\ BeingReplied(c)' = <<>>
      BY <1>0, <2>5 DEF BeingRead, BeingReplied
    <3>3. \A d \in Conn : d # c => BeingRead(d)' = BeingRead(d) /\ BeingReplied(d)' = BeingReplied(d)
      BY <2>5 DEF BeingRead, BeingReplied
    <3>4. UpStream(c)' = UpStream(c)
      BY <1>4, <2>5, <3>1, <3>2 DEF UpStream
    <3>5. \A d \in Conn : d # c => UpStream(d)' = UpStream(d)
      BY <2>5, <3>1, <3>3 DEF UpStream
    <3>6. \A d \in Conn : DownStream(d)' = DownStream(d)
      BY <1>0, <3>1, <3>2, <3>3 DEF DownStream
    <3> QED
      BY <3>4, <3>5, <3>6
  <2>8. WorkerInv'
    <3>1. \A d \in Conn : KeptOpen(d)' = KeptOpen(d) /\ Serving(d)' = Serving(d)
      BY <1>0 DEF KeptOpen, Serving
    <3>2. (Receiving' <=> Receiving) /\ caller' = caller
      BY <1>0 DEF Receiving
    <3>3. ASSUME NEW d \in Conn
          PROVE  /\ wsh'[d].at = "closed" <=> ~Serving(d)'
                 /\ wsh'[d].at \in {"waiting", "closed"} => wsh'[d].units = <<>>
                 /\ wsh'[d].at \in {"reading", "replying"} => wsh'[d].units # <<>>
                 /\ wsh'[d].at = "reading" => Len(wsh'[d].units) < Whole
                 /\ wsh'[d].at = "invoking" => Len(wsh'[d].units) = Whole /\ UpStream(d)' = <<>> /\ wsh'[d].n \in Calls
                       /\ (KeptOpen(d)' => Receiving' /\ caller'.conn = d /\ caller'.n = wsh'[d].n)
      <4>1. CASE d = c
        BY <1>0, <2>2, <2>5, <3>1, <4>1
      <4>2. CASE d # c
        BY <1>i, <2>5, <2>7, <3>1, <3>2, <4>2 DEF WorkerInv
      <4> QED
        BY <4>1, <4>2
    <3> QED
      BY <3>3 DEF WorkerInv
  <2>9. \A d \in Conn : /\ wsh'[d].at = "invoking" <=> wsh[d].at = "invoking"
                        /\ wsh[d].at = "invoking" => wsh'[d].n = wsh[d].n
    BY <1>0, <2>5
  <2> QED
    BY <1>0, <2>6, <2>7, <2>8, <2>9, SameStreams
<1> QED
  BY <1>6, <1>7

\* What carrying out a request changes, whether or not there is a reply.
LEMMA Executed ==
  ASSUME ExchangeInv, NEW c \in Conn, wsh[c].at = "invoking",
         executions' = [executions EXCEPT ![wsh[c].n] = @ + 1],
         UNCHANGED <<up, down, caller, outcomes, answer, notices>>,
         wsh'[c].at \in {"replying", "closed"},
         \A d \in Conn : d # c => wsh'[d] = wsh[d] /\ Serving(d)' = Serving(d),
         \A d \in Conn : KeptOpen(d)' = KeptOpen(d),
         Serving(c)' => Serving(c)
  PROVE  /\ executions' \in [Calls -> Nat] /\ CallerInv' /\ UpInv' /\ AskInv' /\ HistoryInv'
         /\ \A d \in Conn : UpStream(d)' = UpStream(d)
         /\ \A d \in Conn : d # c => DownStream(d)' = DownStream(d)
         /\ wsh[c].n \in Calls /\ wsh[c].n \in 0 .. CallerMax /\ executions'[wsh[c].n] = 1
         /\ KeptOpen(c) => Receiving /\ c = caller.conn /\ caller.n = wsh[c].n
         /\ Asks(c, wsh[c].n) /\ \A j \in 0 .. CallerMax : ~Asks(c, j)'
         /\ \A d \in Conn, j \in 0 .. CallerMax : Asks(d, j)' => Asks(d, j)
         /\ \A j \in Calls : j # wsh[c].n => executions'[j] = executions[j]
         /\ executions[wsh[c].n] = 0
<1>i. ExchangeTypeOK /\ CallerInv /\ WorkerInv /\ UpInv /\ AskInv /\ HistoryInv
  BY DEF ExchangeInv
<1>1. PICK n \in Calls : n = wsh[c].n /\ n \in 0 .. CallerMax
  BY <1>i DEF WorkerInv, ExchangeTypeOK
<1>2. Serving(c) /\ UpStream(c) = <<>> /\ Asks(c, n)
      /\ (KeptOpen(c) => Receiving /\ caller.conn = c /\ caller.n = n)
  BY <1>i, <1>1 DEF WorkerInv, Asks
<1>3. /\ n \in 1 .. caller.n /\ executions[n] = 0
      /\ n = caller.n => c = caller.conn
      /\ outcomes[n] \notin Retried
  BY <1>i, <1>1, <1>2 DEF AskInv
<1>4. /\ executions' \in [Calls -> Nat] /\ executions'[n] = 1
      /\ \A j \in Calls : j # n => executions'[j] = executions[j]
  BY <1>i, <1>1, <1>3 DEF ExchangeTypeOK
<1>5. \A d \in Conn : UpStream(d)' = UpStream(d)
  <2>1. \A d \in Conn : BeingSent(d)' = BeingSent(d)
    BY DEF BeingSent, Sending
  <2>2. BeingRead(c) = <<>> /\ BeingRead(c)' = <<>>
    BY DEF BeingRead
  <2>3. \A d \in Conn : d # c => BeingRead(d)' = BeingRead(d)
    BY DEF BeingRead
  <2> QED
    BY <2>1, <2>2, <2>3 DEF UpStream
<1>6. \A d \in Conn : d # c => DownStream(d)' = DownStream(d)
  BY DEF DownStream, BeingReceived, BeingReplied, Receiving
<1>7. \A d \in Conn, j \in 0 .. CallerMax : Asks(d, j)' => Asks(d, j) /\ d # c
  <2>1. \A j \in 0 .. CallerMax : ~Asks(c, j)'
    BY <1>2, <1>5 DEF Asks
  <2>2. \A d \in Conn, j \in 0 .. CallerMax : d # c => (Asks(d, j)' => Asks(d, j))
    BY <1>5 DEF Asks
  <2> QED
    BY <2>1, <2>2
<1>8. \A d \in Conn, j \in 0 .. CallerMax : Asks(d, j)' => j # n
  BY <1>i, <1>1, <1>2, <1>7 DEF AskInv
<1>9. caller.n \in 0 .. CallerMax /\ caller.n \in Int /\ (Sending' <=> Sending)
  BY <1>i, ExchangeAssumption DEF ExchangeTypeOK, Sending
<1>10. CallerInv'
  BY <1>i DEF CallerInv
<1>11. UpInv'
  BY <1>i, <1>5, <1>9 DEF UpInv
<1>12. AskInv'
  <2>1. ASSUME NEW d \in Conn, NEW j \in 0 .. CallerMax, Asks(d, j)'
        PROVE  /\ j \in 1 .. caller'.n /\ executions'[j] = 0
               /\ j = caller'.n => d = caller'.conn
               /\ KeptOpen(d)' => caller'.at # "idle" /\ j = caller'.n /\ d = caller'.conn
               /\ outcomes'[j] \in Retried => ~KeptOpen(d)' /\ Len(UpStream(d)') < Whole /\ wsh'[d].at # "invoking"
    <3>1. /\ j \in 1 .. caller.n /\ executions[j] = 0
          /\ j = caller.n => d = caller.conn
          /\ KeptOpen(d) => caller.at # "idle" /\ j = caller.n /\ d = caller.conn
          /\ outcomes[j] \in Retried => ~KeptOpen(d) /\ Len(UpStream(d)) < Whole /\ wsh[d].at # "invoking"
      BY <1>i, <1>7, <2>1 DEF AskInv
    <3>2. j # n /\ d # c
      BY <1>7, <1>8, <2>1
    <3>3. j \in Calls
      BY <1>9, <3>1 DEF Calls
    <3>4. executions'[j] = 0
      BY <1>4, <3>1, <3>2, <3>3
    <3> QED
      BY <1>5, <3>1, <3>2, <3>4
  <2>2. ASSUME NEW d \in Conn, NEW e \in Conn, NEW j \in 0 .. CallerMax, Asks(d, j)', Asks(e, j)'
        PROVE  d = e
    BY <1>i, <1>7, <2>2 DEF AskInv
  <2> QED
    BY <2>1, <2>2 DEF AskInv
<1>13. HistoryInv'
  <2>1. \A j \in Calls : j > caller.n => j # n
    BY <1>3, <1>9 DEF Calls
  <2>2. Sending => caller.n # n
    BY <1>i, <1>2, <1>3 DEF CallerInv, Sending, Receiving
  <2>3. Sending => caller.n \in Calls
    BY <1>i DEF CallerInv, Sending
  <2>4. \A j \in Calls : outcomes[j] = "OK" => j # n
    BY <1>i, <1>3 DEF HistoryInv, AnswerIsOwnRequests
  <2>5. \A j \in Calls : j > caller'.n => executions'[j] = 0
    BY <1>i, <1>4, <2>1 DEF HistoryInv
  <2>6. \A j \in Calls : j > caller'.n \/ (j = caller'.n /\ caller'.at # "idle") => outcomes'[j] = "NONE"
    BY <1>i DEF HistoryInv
  <2>7. Sending' => executions'[caller'.n] = 0
    BY <1>i, <1>4, <1>9, <2>2, <2>3 DEF HistoryInv
  <2>8. \A j \in Calls : executions'[j] <= 1
    BY <1>i, <1>4 DEF HistoryInv
  <2>9. \A j \in Calls : outcomes'[j] \in Retried => executions'[j] = 0
    BY <1>i, <1>3, <1>4 DEF HistoryInv
  <2>10. AnswerIsOwnRequests'
    BY <1>i, <1>4, <2>4 DEF HistoryInv, AnswerIsOwnRequests
  <2> QED
    BY <2>5, <2>6, <2>7, <2>8, <2>9, <2>10 DEF HistoryInv
<1> QED
  BY <1>1, <1>2, <1>3, <1>4, <1>5, <1>6, <1>7, <1>8, <1>10, <1>11, <1>12, <1>13

\* The streams back of the other connections keep what they had.
LEMMA OthersDown ==
  ASSUME ExchangeInv, NEW c \in Conn, NEW d \in Conn, d # c, KeptOpen(d)', DownStream(d)' = DownStream(d),
         KeptOpen(d)' = KeptOpen(d), Serving(d)' => Serving(d), UNCHANGED caller,
         \A j \in 0 .. CallerMax : Asks(d, j)' => Asks(d, j),
         \A j \in Calls : executions[j] = 1 => executions'[j] = 1
  PROVE  /\ InMessages(DownStream(d)') /\ (Serving(d)' => LastIsWhole(DownStream(d)'))
         /\ \A p \in 1 .. Len(DownStream(d)') : DownStream(d)'[p][1] \in {"notice", "reply"}
         /\ \A p \in 1 .. Len(DownStream(d)') : DownStream(d)'[p][1] = "reply" =>
               /\ Receiving' /\ d = caller'.conn /\ DownStream(d)'[p][2] = caller'.n
               /\ executions'[caller'.n] = 1 /\ ~Asks(d, caller.n)'
         /\ \A p, q \in 1 .. Len(DownStream(d)') :
               DownStream(d)'[p] = DownStream(d)'[q] /\ DownStream(d)'[p][1] = "reply" => p = q
<1>1. CallerInv /\ DownInv /\ caller.n \in 0 .. CallerMax
  BY DEF ExchangeInv, ExchangeTypeOK
<1>2. PICK s \in Seq(Unit) : s = DownStream(d)
  BY StreamFacts DEF ExchangeInv
<1>3. /\ InMessages(s) /\ (Serving(d) => LastIsWhole(s))
      /\ \A p \in 1 .. Len(s) : s[p][1] \in {"notice", "reply"}
      /\ \A p \in 1 .. Len(s) : s[p][1] = "reply" =>
            Receiving /\ d = caller.conn /\ s[p][2] = caller.n /\ executions[caller.n] = 1 /\ ~Asks(d, caller.n)
      /\ \A p, q \in 1 .. Len(s) : s[p] = s[q] /\ s[p][1] = "reply" => p = q
  BY <1>1, <1>2 DEF DownInv
<1>4. Receiving => caller.n \in Calls
  BY <1>1 DEF CallerInv, Receiving
<1>5. Receiving' <=> Receiving
  BY DEF Receiving
<1>6. \A p \in 1 .. Len(s) : s[p][1] = "reply" =>
         /\ Receiving' /\ d = caller'.conn /\ s[p][2] = caller'.n
         /\ executions'[caller'.n] = 1 /\ ~Asks(d, caller.n)'
  BY <1>1, <1>3, <1>4, <1>5
<1> QED
  BY <1>2, <1>3, <1>6

\* A request is carried out once, and answered or its connection closed.
LEMMA InvokeImplKeeps ==
  ASSUME ExchangeInv, NEW c \in Conn, InvokeImpl(c)
  PROVE  ExchangeInv'
<1>i. ExchangeTypeOK /\ WorkerInv /\ DownInv
  BY DEF ExchangeInv
<1>0. /\ wsh[c].at = "invoking" /\ executions' = [executions EXCEPT ![wsh[c].n] = @ + 1]
      /\ UNCHANGED <<up, down, caller, outcomes, answer, notices>>
      /\ Serving(c) /\ wsh[c].n \in Calls /\ wsh[c].n \in 0 .. CallerMax
  BY <1>i DEF InvokeImpl, WorkerInv, ExchangeTypeOK
<1>1. PICK n \in 0 .. CallerMax : n = wsh[c].n /\ n \in Calls
  BY <1>0
<1>2. PICK s \in Seq(Unit) : s = DownStream(c)
  BY <1>i, StreamFacts
<1>3. KeptOpen(c) =>
         /\ InMessages(s) /\ LastIsWhole(s)
         /\ \A p \in 1 .. Len(s) : s[p][1] \in {"notice", "reply"}
         /\ \A p \in 1 .. Len(s) : s[p][1] = "reply" => s[p][2] = caller.n /\ ~Asks(c, caller.n)
  BY <1>i, <1>0, <1>2 DEF DownInv
<1>4. /\ BeingReceived(c)' = BeingReceived(c) /\ BeingReplied(c) = <<>> /\ down'[c] = down[c]
      /\ (Receiving' <=> Receiving)
  BY <1>0 DEF BeingReceived, BeingReplied, Receiving
\* With a reply.
<1>5. CASE /\ wsh' = [wsh EXCEPT ![c] = [wsh[c] EXCEPT !.at = "replying",
                                 !.units = Header("reply", wsh[c].n) \o Body("reply", wsh[c].n)]]
           /\ UNCHANGED closedBy
  <2>1. PICK m \in Seq(Unit) :
           /\ m = Message("reply", n) /\ Len(m) = Whole
           /\ \A i \in 1 .. Whole : m[i] = UnitAt("reply", n, i)
           /\ m = Header("reply", n) \o Body("reply", n)
    BY MessageFacts, Sizes DEF MsgKind
  <2>2. /\ wsh'[c].at = "replying" /\ wsh'[c].n = n /\ wsh'[c].units = m
        /\ \A d \in Conn : d # c => wsh'[d] = wsh[d]
    BY <1>i, <1>1, <1>5, <2>1 DEF ExchangeTypeOK
  <2>3. \A d \in Conn : KeptOpen(d)' = KeptOpen(d) /\ Serving(d)' = Serving(d)
    BY <1>5 DEF KeptOpen, Serving
  <2>4. /\ executions' \in [Calls -> Nat] /\ CallerInv' /\ UpInv' /\ AskInv' /\ HistoryInv'
        /\ \A d \in Conn : UpStream(d)' = UpStream(d)
        /\ \A d \in Conn : d # c => DownStream(d)' = DownStream(d)
        /\ executions'[n] = 1 /\ executions[n] = 0
        /\ KeptOpen(c) => Receiving /\ c = caller.conn /\ caller.n = n
        /\ ~Asks(c, n)' /\ Asks(c, n)
        /\ \A d \in Conn, j \in 0 .. CallerMax : Asks(d, j)' => Asks(d, j)
        /\ \A j \in Calls : j # n => executions'[j] = executions[j]
    BY ZenonT(60), <1>0, <1>1, <2>2, <2>3, Executed
  <2>5. ExchangeTypeOK'
    <3>1. wsh' \in [Conn -> [at : {"waiting", "reading", "invoking", "replying", "closed"},
                             n : 0 .. CallerMax, units : Seq(Unit)]]
      <4>1. wsh' = [wsh EXCEPT ![c] = [wsh[c] EXCEPT !.at = "replying", !.units = m]]
        BY <1>1, <1>5, <2>1
      <4> QED
        BY <1>i, <4>1 DEF ExchangeTypeOK
    <3> QED
      BY <1>i, <1>0, <1>5, <2>4, <3>1 DEF ExchangeTypeOK
  <2>6. WorkerInv'
    <3>1. m # <<>>
      BY <2>1, Sizes, EmptySeq
    <3> QED
      BY <1>i, <1>0, <1>4, <2>2, <2>3, <2>4, <3>1 DEF WorkerInv
  <2>7. DownStream(c)' = Cat(s, m)
    <3>1. BeingReceived(c) \in Seq(Unit) /\ down[c] \in Seq(Unit)
      BY <1>i, StreamFacts
    <3>2. \A x, y, z \in Seq(Unit) : Cat(Cat(x, y), z) = Cat(x, Cat(y, z))
      BY CatFacts
    <3>3. s = Cat(BeingReceived(c), down[c])
      BY <1>2, <1>4, <3>1, CatFacts DEF DownStream
    <3>4. BeingReplied(c)' = m
      BY <2>2 DEF BeingReplied
    <3>5. DownStream(c)' = Cat(BeingReceived(c), Cat(down[c], m))
      BY <1>4, <3>4 DEF DownStream
    <3> QED
      BY <3>1, <3>2, <3>3, <3>5
  <2>8. ASSUME KeptOpen(c)
        PROVE  /\ InMessages(Cat(s, m)) /\ LastIsWhole(Cat(s, m))
               /\ \A p \in 1 .. Len(Cat(s, m)) : Cat(s, m)[p][1] \in {"notice", "reply"}
               /\ \A p \in 1 .. Len(Cat(s, m)) : Cat(s, m)[p][1] = "reply" => Cat(s, m)[p][2] = n
               /\ \A p, q \in 1 .. Len(Cat(s, m)) : Cat(s, m)[p] = Cat(s, m)[q] /\ Cat(s, m)[p][1] = "reply" => p = q
    <3>1. InMessages(Cat(s, m)) /\ LastIsWhole(Cat(s, m))
      BY <1>3, <2>1, <2>8, OneMore DEF MsgKind
    <3>2. \A p \in 1 .. Len(s) : s[p][1] = "notice"
      BY <1>3, <2>4, <2>8
    <3>3. /\ Len(Cat(s, m)) = Len(s) + Whole /\ Len(s) \in Nat /\ Whole \in Nat
          /\ \A i \in 1 .. Len(s) : Cat(s, m)[i] = s[i]
          /\ \A i \in 1 .. Whole : Cat(s, m)[Len(s) + i] = m[i]
      <4>1. /\ Len(Cat(s, m)) = Len(s) + Len(m) /\ Len(s) \in Nat
            /\ \A i \in 1 .. Len(s) : Cat(s, m)[i] = s[i]
            /\ \A i \in 1 .. Len(m) : Cat(s, m)[Len(s) + i] = m[i]
        BY Concatenated
      <4>2. Len(m) = Whole /\ Whole \in Nat
        BY <2>1, Sizes
      <4> QED
        BY <4>1, <4>2
    <3>4. \A p \in 1 .. Len(Cat(s, m)) : p \in 1 .. Len(s) \/ \E i \in 1 .. Whole : p = Len(s) + i
      <4> SUFFICES ASSUME NEW p \in 1 .. Len(Cat(s, m)), ~(p \in 1 .. Len(s))
                   PROVE  \E i \in 1 .. Whole : p = Len(s) + i
        OBVIOUS
      <4>1. p - Len(s) \in 1 .. Whole /\ p = Len(s) + (p - Len(s))
        BY <3>3
      <4> QED
        BY <4>1
    <3>5. \A i \in 1 .. Whole : m[i][1] = "reply" /\ m[i][2] = n /\ Place(m[i]) = i
      BY <2>1, UnitFacts DEF MsgKind
    <3>6. \A p \in 1 .. Len(Cat(s, m)) :
             \/ Cat(s, m)[p][1] = "notice"
             \/ \E i \in 1 .. Whole : p = Len(s) + i /\ Cat(s, m)[p] = m[i]
      <4> SUFFICES ASSUME NEW p \in 1 .. Len(Cat(s, m)), Cat(s, m)[p][1] # "notice"
                   PROVE  \E i \in 1 .. Whole : p = Len(s) + i /\ Cat(s, m)[p] = m[i]
        OBVIOUS
      <4>1. ~(p \in 1 .. Len(s))
        BY <3>2, <3>3
      <4>2. PICK i \in 1 .. Whole : p = Len(s) + i
        BY <3>4, <4>1
      <4>3. Cat(s, m)[p] = m[i]
        BY <3>3, <4>2
      <4> QED
        BY <4>2, <4>3
    <3>7. \A p \in 1 .. Len(Cat(s, m)) : /\ Cat(s, m)[p][1] \in {"notice", "reply"}
                                         /\ Cat(s, m)[p][1] = "reply" => Cat(s, m)[p][2] = n
      <4> SUFFICES ASSUME NEW p \in 1 .. Len(Cat(s, m))
                   PROVE  /\ Cat(s, m)[p][1] \in {"notice", "reply"}
                          /\ Cat(s, m)[p][1] = "reply" => Cat(s, m)[p][2] = n
        OBVIOUS
      <4>1. CASE Cat(s, m)[p][1] = "notice"
        BY <4>1
      <4>2. ASSUME NEW i \in 1 .. Whole, Cat(s, m)[p] = m[i]
            PROVE  Cat(s, m)[p][1] = "reply" /\ Cat(s, m)[p][2] = n
        BY <3>5, <4>2
      <4> QED
        BY <3>6, <4>1, <4>2
    <3>8. ASSUME NEW p \in 1 .. Len(Cat(s, m)), NEW q \in 1 .. Len(Cat(s, m)),
                 Cat(s, m)[p] = Cat(s, m)[q], Cat(s, m)[p][1] = "reply"
          PROVE  p = q
      <4>1. PICK i \in 1 .. Whole : p = Len(s) + i /\ Cat(s, m)[p] = m[i]
        BY <3>6, <3>8
      <4>2. PICK j \in 1 .. Whole : q = Len(s) + j /\ Cat(s, m)[q] = m[j]
        BY <3>6, <3>8
      <4>3. i = j
        BY <3>5, <3>8, <4>1, <4>2
      <4> QED
        BY <4>1, <4>2, <4>3
    <3> QED
      BY <3>1, <3>7, <3>8
  <2>9. ASSUME NEW d \in Conn, KeptOpen(d)'
        PROVE  /\ InMessages(DownStream(d)') /\ (Serving(d)' => LastIsWhole(DownStream(d)'))
               /\ \A p \in 1 .. Len(DownStream(d)') : DownStream(d)'[p][1] \in {"notice", "reply"}
               /\ \A p \in 1 .. Len(DownStream(d)') : DownStream(d)'[p][1] = "reply" =>
                     /\ Receiving' /\ d = caller'.conn /\ DownStream(d)'[p][2] = caller'.n
                     /\ executions'[caller'.n] = 1 /\ ~Asks(d, caller.n)'
               /\ \A p, q \in 1 .. Len(DownStream(d)') :
                     DownStream(d)'[p] = DownStream(d)'[q] /\ DownStream(d)'[p][1] = "reply" => p = q
    <3>1. CASE d = c
      <4>1. KeptOpen(c) /\ Receiving' /\ c = caller'.conn /\ caller.n = n /\ caller'.n = n /\ executions'[caller'.n] = 1
            /\ ~Asks(c, caller.n)'
        BY <1>0, <1>4, <2>3, <2>4, <2>9, <3>1
      <4> QED
        BY SMTT(40), <2>7, <2>8, <3>1, <4>1
    <3>2. CASE d # c
      <4>1. \A j \in Calls : executions[j] = 1 => executions'[j] = 1
        BY <2>4
      <4> QED
        BY <1>0, <2>3, <2>4, <2>9, <3>2, <4>1, OthersDown
    <3> QED
      BY <3>1, <3>2
  <2>10. DownInv'
    BY <1>0, <2>9 DEF DownInv, InMessages, InPlace, LastIsWhole
  <2> QED
    BY <2>4, <2>5, <2>6, <2>10 DEF ExchangeInv
\* Without one: the connection is closed.
<1>6. CASE /\ wsh' = [wsh EXCEPT ![c] = [wsh[c] EXCEPT !.at = "closed", !.units = <<>>]]
           /\ closedBy' = [closedBy EXCEPT ![c] = @ \cup {"server"}]
  <2>1. /\ wsh'[c].at = "closed" /\ wsh'[c].n = n /\ wsh'[c].units = <<>>
        /\ \A d \in Conn : d # c => wsh'[d] = wsh[d]
    BY <1>i, <1>1, <1>6 DEF ExchangeTypeOK
  <2>2. /\ \A d \in Conn : KeptOpen(d)' = KeptOpen(d)
        /\ \A d \in Conn : d # c => Serving(d)' = Serving(d)
        /\ ~Serving(c)'
    <3>1. closedBy'[c] = closedBy[c] \cup {"server"} /\ \A d \in Conn : d # c => closedBy'[d] = closedBy[d]
      BY <1>i, <1>6 DEF ExchangeTypeOK
    <3> QED
      BY <3>1 DEF KeptOpen, Serving
  <2>3. /\ executions' \in [Calls -> Nat] /\ CallerInv' /\ UpInv' /\ AskInv' /\ HistoryInv'
        /\ \A d \in Conn : UpStream(d)' = UpStream(d)
        /\ \A d \in Conn : d # c => DownStream(d)' = DownStream(d)
        /\ executions'[n] = 1 /\ executions[n] = 0
        /\ KeptOpen(c) => Receiving /\ c = caller.conn /\ caller.n = n
        /\ Asks(c, n)
        /\ \A d \in Conn, j \in 0 .. CallerMax : Asks(d, j)' => Asks(d, j)
        /\ \A j \in Calls : j # n => executions'[j] = executions[j]
    BY ZenonT(60), <1>0, <1>1, <2>1, <2>2, Executed
  <2>4. ExchangeTypeOK'
    <3>1. wsh' \in [Conn -> [at : {"waiting", "reading", "invoking", "replying", "closed"},
                             n : 0 .. CallerMax, units : Seq(Unit)]]
      <4>1. PICK none \in Seq(Unit) : none = <<>>
        BY CatFacts
      <4>2. wsh' = [wsh EXCEPT ![c] = [wsh[c] EXCEPT !.at = "closed", !.units = none]]
        BY <1>6, <4>1
      <4> QED
        BY <1>i, <4>2 DEF ExchangeTypeOK
    <3>2. closedBy' \in [Conn -> SUBSET {"client", "server"}]
      BY <1>i, <1>6 DEF ExchangeTypeOK
    <3> QED
      BY <1>i, <1>0, <2>3, <3>1, <3>2 DEF ExchangeTypeOK
  <2>5. WorkerInv'
    BY <1>i, <1>0, <1>4, <2>1, <2>2, <2>3 DEF WorkerInv
  <2>6. DownStream(c)' = s
    <3>1. BeingReplied(c)' = <<>>
      BY <2>1 DEF BeingReplied
    <3> QED
      BY <1>2, <1>4, <3>1 DEF DownStream
  <2>7. ASSUME NEW d \in Conn, KeptOpen(d)'
        PROVE  /\ InMessages(DownStream(d)') /\ (Serving(d)' => LastIsWhole(DownStream(d)'))
               /\ \A p \in 1 .. Len(DownStream(d)') : DownStream(d)'[p][1] \in {"notice", "reply"}
               /\ \A p \in 1 .. Len(DownStream(d)') : DownStream(d)'[p][1] = "reply" =>
                     /\ Receiving' /\ d = caller'.conn /\ DownStream(d)'[p][2] = caller'.n
                     /\ executions'[caller'.n] = 1 /\ ~Asks(d, caller.n)'
               /\ \A p, q \in 1 .. Len(DownStream(d)') :
                     DownStream(d)'[p] = DownStream(d)'[q] /\ DownStream(d)'[p][1] = "reply" => p = q
    <3>1. CASE d = c
      <4>1. KeptOpen(c) /\ caller.n = n
        BY <2>2, <2>3, <2>7, <3>1
      <4>2. InMessages(s) /\ \A p \in 1 .. Len(s) : s[p][1] = "notice"
        BY <1>3, <2>3, <4>1
      <4> QED
        BY <2>2, <2>6, <3>1, <4>2
    <3>2. CASE d # c
      <4>1. \A j \in Calls : executions[j] = 1 => executions'[j] = 1
        BY <2>3
      <4> QED
        BY <1>0, <2>2, <2>3, <2>7, <3>2, <4>1, OthersDown
    <3> QED
      BY <3>1, <3>2
  <2>8. DownInv'
    BY <1>0, <2>7 DEF DownInv, InMessages, InPlace, LastIsWhole
  <2> QED
    BY <2>3, <2>4, <2>5, <2>8 DEF ExchangeInv
<1> QED
  BY <1>5, <1>6 DEF InvokeImpl, ServeConn

\* The header of a notice goes behind what is on its way already.
LEMMA WriteSocketPositiveKeeps ==
  ASSUME ExchangeInv, NEW c \in Conn, WriteSocketPositive(c)
  PROVE  ExchangeInv'
<1>i. ExchangeTypeOK /\ CallerInv /\ WorkerInv /\ UpInv /\ AskInv /\ DownInv
  BY DEF ExchangeInv
<1>0. /\ Serving(c) /\ wsh[c].at = "waiting" /\ wsh[c].units = <<>> /\ notices' \in Nat
      /\ wsh' = [wsh EXCEPT ![c] = [wsh[c] EXCEPT !.at = "replying", !.units = Header("notice", 0)]]
      /\ UNCHANGED <<up, down, closedBy, caller, executions, outcomes, answer>>
  BY <1>i DEF WriteSocketPositive, ServeConn, WorkerInv, ExchangeTypeOK
<1>1. PICK m \in Seq(Unit) :
         /\ m = Message("notice", 0) /\ Len(m) = HeaderLen /\ m = Header("notice", 0) /\ HeaderLen \in Nat \ {0}
         /\ \A i \in 1 .. HeaderLen : m[i][1] = "notice"
  <2>1. 0 \in 0 .. CallerMax /\ "notice" \in MsgKind
    BY ExchangeAssumption DEF MsgKind
  <2>2. /\ Message("notice", 0) \in Seq(Unit) /\ Len(Message("notice", 0)) = HeaderLen
        /\ Message("notice", 0) = Header("notice", 0)
        /\ \A i \in 1 .. HeaderLen : Message("notice", 0)[i] = UnitAt("notice", 0, i)
    BY <2>1, MessageFacts, Sizes
  <2>3. \A i \in 1 .. HeaderLen : UnitAt("notice", 0, i)[1] = "notice"
    BY DEF UnitAt
  <2> QED
    BY <2>2, <2>3, Sizes
<1>2. m # <<>>
  BY <1>1, EmptySeq
<1>3. /\ wsh'[c].at = "replying" /\ wsh'[c].n = wsh[c].n /\ wsh'[c].units = m
      /\ \A d \in Conn : d # c => wsh'[d] = wsh[d]
  BY <1>i, <1>0, <1>1 DEF ExchangeTypeOK
<1>4. /\ \A d \in Conn : KeptOpen(d)' = KeptOpen(d) /\ Serving(d)' = Serving(d)
      /\ (Sending' <=> Sending) /\ (Receiving' <=> Receiving)
  BY <1>0 DEF KeptOpen, Serving, Sending, Receiving
<1>5. /\ \A d \in Conn : UpStream(d)' = UpStream(d)
      /\ \A d \in Conn : d # c => DownStream(d)' = DownStream(d)
  <2>1. \A d \in Conn : BeingSent(d)' = BeingSent(d) /\ BeingReceived(d)' = BeingReceived(d)
    BY <1>0, <1>4 DEF BeingSent, BeingReceived
  <2>2. BeingRead(c) = <<>> /\ BeingRead(c)' = <<>>
    BY <1>0, <1>3 DEF BeingRead
  <2>3. \A d \in Conn : d # c => BeingRead(d)' = BeingRead(d) /\ BeingReplied(d)' = BeingReplied(d)
    BY <1>3 DEF BeingRead, BeingReplied
  <2>4. \A d \in Conn : UpStream(d)' = UpStream(d)
    BY <1>0, <2>1, <2>2, <2>3 DEF UpStream
  <2>5. \A d \in Conn : d # c => DownStream(d)' = DownStream(d)
    BY <1>0, <2>1, <2>3 DEF DownStream
  <2> QED
    BY <2>4, <2>5
<1>6. \A d \in Conn, j \in 0 .. CallerMax : Asks(d, j)' <=> Asks(d, j)
  <2>1. \A j \in 0 .. CallerMax : Asks(c, j)' <=> Asks(c, j)
    BY <1>0, <1>3, <1>4, <1>5 DEF Asks
  <2>2. \A d \in Conn, j \in 0 .. CallerMax : d # c => (Asks(d, j)' <=> Asks(d, j))
    BY <1>3, <1>4, <1>5 DEF Asks
  <2> QED
    BY <2>1, <2>2
<1>7. CallerInv' /\ HistoryInv'
  BY <1>0, <1>6, SameHistory
<1>8. ExchangeTypeOK'
  <2>1. wsh' \in [Conn -> [at : {"waiting", "reading", "invoking", "replying", "closed"},
                           n : 0 .. CallerMax, units : Seq(Unit)]]
    <3>1. wsh' = [wsh EXCEPT ![c] = [wsh[c] EXCEPT !.at = "replying", !.units = m]]
      BY <1>0, <1>1
    <3> QED
      BY <1>i, <3>1 DEF ExchangeTypeOK
  <2> QED
    BY <1>i, <1>0, <2>1 DEF ExchangeTypeOK
<1>9. WorkerInv'
  BY <1>i, <1>0, <1>2, <1>3, <1>4, <1>5 DEF WorkerInv
<1>10. UpInv'
  BY <1>i, <1>0, <1>4, <1>5 DEF UpInv
<1>11. AskInv'
  BY <1>i, <1>0, <1>3, <1>4, <1>5, <1>6 DEF AskInv
<1>12. DownInv'
  <2>1. PICK s \in Seq(Unit) : s = DownStream(c)
    BY <1>i, StreamFacts
  <2>2. DownStream(c)' = Cat(s, m)
    <3>1. BeingReceived(c) \in Seq(Unit) /\ down[c] \in Seq(Unit)
      BY <1>i, StreamFacts
    <3>2. \A x, y, z \in Seq(Unit) : Cat(Cat(x, y), z) = Cat(x, Cat(y, z))
      BY CatFacts
    <3>3. /\ BeingReplied(c) = <<>> /\ BeingReplied(c)' = m /\ BeingReceived(c)' = BeingReceived(c)
      BY <1>0, <1>3, <1>4 DEF BeingReplied, BeingReceived
    <3>4. s = Cat(BeingReceived(c), down[c])
      BY <2>1, <3>1, <3>3, CatFacts DEF DownStream
    <3>5. DownStream(c)' = Cat(BeingReceived(c), Cat(down[c], m))
      BY <1>0, <3>3 DEF DownStream
    <3> QED
      BY <3>1, <3>2, <3>4, <3>5
  <2>3. caller.n \in 0 .. CallerMax
    BY <1>i DEF ExchangeTypeOK
  <2>4. ASSUME KeptOpen(c)
        PROVE  /\ InMessages(Cat(s, m)) /\ LastIsWhole(Cat(s, m))
               /\ \A p \in 1 .. Len(Cat(s, m)) : Cat(s, m)[p][1] \in {"notice", "reply"}
               /\ \A p \in 1 .. Len(Cat(s, m)) : Cat(s, m)[p][1] = "reply" =>
                     /\ Receiving /\ c = caller.conn /\ Cat(s, m)[p][2] = caller.n
                     /\ executions[caller.n] = 1 /\ ~Asks(c, caller.n)
               /\ \A p, q \in 1 .. Len(Cat(s, m)) : Cat(s, m)[p] = Cat(s, m)[q] /\ Cat(s, m)[p][1] = "reply" => p = q
    <3>1. /\ InMessages(s) /\ LastIsWhole(s)
          /\ \A p \in 1 .. Len(s) : s[p][1] \in {"notice", "reply"}
          /\ \A p \in 1 .. Len(s) : s[p][1] = "reply" =>
                Receiving /\ c = caller.conn /\ s[p][2] = caller.n /\ executions[caller.n] = 1 /\ ~Asks(c, caller.n)
          /\ \A p, q \in 1 .. Len(s) : s[p] = s[q] /\ s[p][1] = "reply" => p = q
      BY <1>i, <1>0, <2>1, <2>4 DEF DownInv
    <3>2. InMessages(Cat(s, m)) /\ LastIsWhole(Cat(s, m))
      <4>1. 0 \in 0 .. CallerMax /\ "notice" \in MsgKind
        BY ExchangeAssumption DEF MsgKind
      <4> QED
        BY <1>1, <3>1, <4>1, OneMore
    <3>3. /\ Len(Cat(s, m)) = Len(s) + HeaderLen /\ Len(s) \in Nat
          /\ \A i \in 1 .. Len(s) : Cat(s, m)[i] = s[i]
          /\ \A i \in 1 .. HeaderLen : Cat(s, m)[Len(s) + i] = m[i]
      <4>1. /\ Len(Cat(s, m)) = Len(s) + Len(m) /\ Len(s) \in Nat
            /\ \A i \in 1 .. Len(s) : Cat(s, m)[i] = s[i]
            /\ \A i \in 1 .. Len(m) : Cat(s, m)[Len(s) + i] = m[i]
        BY Concatenated
      <4> QED
        BY <1>1, <4>1
    <3>4. \A p \in 1 .. Len(Cat(s, m)) : p \in 1 .. Len(s) \/ \E i \in 1 .. HeaderLen : p = Len(s) + i
      <4> SUFFICES ASSUME NEW p \in 1 .. Len(Cat(s, m)), ~(p \in 1 .. Len(s))
                   PROVE  \E i \in 1 .. HeaderLen : p = Len(s) + i
        OBVIOUS
      <4>1. p - Len(s) \in 1 .. HeaderLen /\ p = Len(s) + (p - Len(s))
        BY <1>1, <3>3
      <4> QED
        BY <4>1
    <3>5. \A p \in 1 .. Len(Cat(s, m)) :
             \/ Cat(s, m)[p][1] = "notice"
             \/ p \in 1 .. Len(s) /\ Cat(s, m)[p] = s[p]
      <4> SUFFICES ASSUME NEW p \in 1 .. Len(Cat(s, m)), ~(p \in 1 .. Len(s))
                   PROVE  Cat(s, m)[p][1] = "notice"
        BY <3>3
      <4>1. PICK i \in 1 .. HeaderLen : p = Len(s) + i
        BY <3>4
      <4>2. Cat(s, m)[p] = m[i] /\ m[i][1] = "notice"
        BY <1>1, <3>3, <4>1
      <4> QED
        BY <4>2
    <3>6. \A p \in 1 .. Len(Cat(s, m)) : Cat(s, m)[p][1] # "notice" => p \in 1 .. Len(s) /\ Cat(s, m)[p] = s[p]
      BY <3>5
    <3>7. \A p \in 1 .. Len(Cat(s, m)) : Cat(s, m)[p][1] \in {"notice", "reply"}
      BY <3>1, <3>6
    <3>8. \A p \in 1 .. Len(Cat(s, m)) : Cat(s, m)[p][1] = "reply" =>
             /\ Receiving /\ c = caller.conn /\ Cat(s, m)[p][2] = caller.n
             /\ executions[caller.n] = 1 /\ ~Asks(c, caller.n)
      BY <3>1, <3>6
    <3>9. ASSUME NEW p \in 1 .. Len(Cat(s, m)), NEW q \in 1 .. Len(Cat(s, m)),
                 Cat(s, m)[p] = Cat(s, m)[q], Cat(s, m)[p][1] = "reply"
          PROVE  p = q
      <4>1. Cat(s, m)[p][1] # "notice" /\ Cat(s, m)[q][1] # "notice"
        BY <3>9
      <4>2. p \in 1 .. Len(s) /\ q \in 1 .. Len(s) /\ s[p] = s[q] /\ s[p][1] = "reply"
        BY <3>6, <3>9, <4>1
      <4> QED
        BY <3>1, <4>2
    <3> QED
      BY <3>2, <3>7, <3>8, <3>9
  <2>5. ASSUME NEW d \in Conn, KeptOpen(d)'
        PROVE  /\ InMessages(DownStream(d)') /\ (Serving(d)' => LastIsWhole(DownStream(d)'))
               /\ \A p \in 1 .. Len(DownStream(d)') : DownStream(d)'[p][1] \in {"notice", "reply"}
               /\ \A p \in 1 .. Len(DownStream(d)') : DownStream(d)'[p][1] = "reply" =>
                     /\ Receiving' /\ d = caller'.conn /\ DownStream(d)'[p][2] = caller'.n
                     /\ executions'[caller'.n] = 1 /\ ~Asks(d, caller.n)'
               /\ \A p, q \in 1 .. Len(DownStream(d)') :
                     DownStream(d)'[p] = DownStream(d)'[q] /\ DownStream(d)'[p][1] = "reply" => p = q
    <3>1. CASE d = c
      <4>1. KeptOpen(c) /\ (Asks(c, caller.n)' <=> Asks(c, caller.n))
        BY <1>0, <1>4, <1>6, <2>3, <2>5, <3>1
      <4> QED
        BY <1>0, <1>4, <2>2, <2>4, <3>1, <4>1
    <3>2. CASE d # c
      BY <1>0, <1>4, <1>5, <1>6, <2>5, <3>2, OthersDown
    <3> QED
      BY <3>1, <3>2
  <2> QED
    BY <1>0, <2>5 DEF DownInv, InMessages, InPlace, LastIsWhole
<1> QED
  BY <1>7, <1>8, <1>9, <1>10, <1>11, <1>12 DEF ExchangeInv

\* The server closes the connection: a message may be left cut short on its way back.
LEMMA ServerFailsKeeps ==
  ASSUME ExchangeInv, NEW c \in Conn, ServerFails(c)
  PROVE  ExchangeInv'
<1>i. ExchangeTypeOK /\ CallerInv /\ WorkerInv /\ UpInv /\ AskInv /\ HistoryInv /\ DownInv
  BY DEF ExchangeInv
<1>0. /\ Serving(c) /\ wsh[c].at \in {"reading", "replying", "waiting"}
      /\ closedBy' = [closedBy EXCEPT ![c] = @ \cup {"server"}]
      /\ UNCHANGED <<up, down, caller, executions, outcomes, answer, notices>>
  BY DEF ServerFails, Destroyed
<1>1. closedBy'[c] = closedBy[c] \cup {"server"} /\ \A d \in Conn : d # c => closedBy'[d] = closedBy[d]
  BY <1>i, <1>0 DEF ExchangeTypeOK
<1>2. wsh' = [wsh EXCEPT ![c] = [wsh[c] EXCEPT !.at = "closed", !.units = <<>>]]
  BY <1>1 DEF ServerFails, ServeConn
<1>3. /\ wsh'[c].at = "closed" /\ wsh'[c].n = wsh[c].n /\ wsh'[c].units = <<>>
      /\ \A d \in Conn : d # c => wsh'[d] = wsh[d]
  BY <1>i, <1>2 DEF ExchangeTypeOK
<1>4. /\ \A d \in Conn : KeptOpen(d)' = KeptOpen(d)
      /\ \A d \in Conn : d # c => Serving(d)' = Serving(d)
      /\ ~Serving(c)' /\ (Sending' <=> Sending) /\ (Receiving' <=> Receiving)
  BY <1>0, <1>1 DEF KeptOpen, Serving, Sending, Receiving
<1>5. \A d \in Conn : d # c => UpStream(d)' = UpStream(d) /\ DownStream(d)' = DownStream(d)
  <2>1. \A d \in Conn : BeingSent(d)' = BeingSent(d) /\ BeingReceived(d)' = BeingReceived(d)
    BY <1>0, <1>4 DEF BeingSent, BeingReceived
  <2>2. \A d \in Conn : d # c => BeingRead(d)' = BeingRead(d) /\ BeingReplied(d)' = BeingReplied(d)
    BY <1>3 DEF BeingRead, BeingReplied
  <2> QED
    BY <1>0, <2>1, <2>2 DEF UpStream, DownStream
<1>6. \A d \in Conn, j \in 0 .. CallerMax : Asks(d, j)' => Asks(d, j) /\ d # c
  <2>1. \A j \in 0 .. CallerMax : ~Asks(c, j)'
    BY <1>4 DEF Asks
  <2>2. \A d \in Conn, j \in 0 .. CallerMax : d # c => (Asks(d, j)' => Asks(d, j))
    BY <1>3, <1>4, <1>5 DEF Asks
  <2> QED
    BY <2>1, <2>2
<1>7. ExchangeTypeOK'
  <2>1. PICK none \in Seq(Unit) : none = <<>>
    BY CatFacts
  <2>2. wsh' = [wsh EXCEPT ![c] = [wsh[c] EXCEPT !.at = "closed", !.units = none]]
    BY <1>2, <2>1
  <2>3. wsh' \in [Conn -> [at : {"waiting", "reading", "invoking", "replying", "closed"},
                           n : 0 .. CallerMax, units : Seq(Unit)]]
    <3>1. PICK to \in [at : {"waiting", "reading", "invoking", "replying", "closed"},
                       n : 0 .. CallerMax, units : Seq(Unit)] :
             to = [wsh[c] EXCEPT !.at = "closed", !.units = none]
      BY <1>i DEF ExchangeTypeOK
    <3>2. wsh' = [wsh EXCEPT ![c] = to]
      BY <2>2, <3>1
    <3> QED
      BY <1>i, <3>2 DEF ExchangeTypeOK
  <2>4. closedBy' \in [Conn -> SUBSET {"client", "server"}]
    BY <1>i, <1>0 DEF ExchangeTypeOK
  <2> QED
    BY <1>i, <1>0, <2>3, <2>4 DEF ExchangeTypeOK
<1>8. CallerInv'
  BY <1>i, <1>0, <1>4 DEF CallerInv
<1>9. WorkerInv'
  BY <1>i, <1>0, <1>3, <1>4, <1>5 DEF WorkerInv
<1>10. UpInv'
  BY <1>i, <1>0, <1>4, <1>5 DEF UpInv
<1>11. AskInv'
  BY <1>i, <1>0, <1>3, <1>4, <1>5, <1>6 DEF AskInv
<1>12. HistoryInv'
  BY <1>i, <1>0, <1>4 DEF HistoryInv, AnswerIsOwnRequests
<1>13. DownInv'
  <2>1. PICK s \in Seq(Unit), r \in Seq(Unit), rest \in Seq(Unit) :
           /\ s = DownStream(c) /\ r = Cat(BeingReceived(c), down[c]) /\ rest = BeingReplied(c)
           /\ s = Cat(r, rest) /\ DownStream(c)' = r
    <3>1. BeingReceived(c) \in Seq(Unit) /\ down[c] \in Seq(Unit) /\ BeingReplied(c) \in Seq(Unit)
      BY <1>i, StreamFacts
    <3>2. \A x, y, z \in Seq(Unit) : Cat(Cat(x, y), z) = Cat(x, Cat(y, z))
      BY CatFacts
    <3>3. BeingReceived(c)' = BeingReceived(c) /\ BeingReplied(c)' = <<>>
      BY <1>0, <1>3, <1>4 DEF BeingReceived, BeingReplied
    <3>4. /\ Cat(BeingReceived(c), down[c]) \in Seq(Unit) /\ Cat(down[c], <<>>) = down[c]
          /\ DownStream(c) \in Seq(Unit)
      BY <1>i, <3>1, CatFacts, StreamFacts
    <3>5. DownStream(c) = Cat(Cat(BeingReceived(c), down[c]), BeingReplied(c))
      BY <3>1, <3>2 DEF DownStream
    <3>6. DownStream(c)' = Cat(BeingReceived(c), down[c])
      BY <1>0, <3>3, <3>4 DEF DownStream
    <3> QED
      BY <3>1, <3>4, <3>5, <3>6
  <2>2. /\ Len(s) = Len(r) + Len(rest) /\ Len(r) \in Nat /\ Len(rest) \in Nat
        /\ \A p \in 1 .. Len(r) : s[p] = r[p]
    <3>1. /\ Len(Cat(r, rest)) = Len(r) + Len(rest) /\ Len(r) \in Nat /\ Len(rest) \in Nat
          /\ \A p \in 1 .. Len(r) : Cat(r, rest)[p] = r[p]
      BY Concatenated
    <3> QED
      BY <2>1, <3>1
  <2>3. \A p \in 1 .. Len(r) : p \in 1 .. Len(s)
    BY <2>2
  <2>4. caller.n \in 0 .. CallerMax
    BY <1>i DEF ExchangeTypeOK
  <2>5. ASSUME KeptOpen(c)
        PROVE  /\ InMessages(r)
               /\ \A p \in 1 .. Len(r) : r[p][1] \in {"notice", "reply"}
               /\ \A p \in 1 .. Len(r) : r[p][1] = "reply" =>
                     Receiving /\ c = caller.conn /\ r[p][2] = caller.n /\ executions[caller.n] = 1
               /\ \A p, q \in 1 .. Len(r) : r[p] = r[q] /\ r[p][1] = "reply" => p = q
    <3>1. /\ InMessages(s)
          /\ \A p \in 1 .. Len(s) : s[p][1] \in {"notice", "reply"}
          /\ \A p \in 1 .. Len(s) : s[p][1] = "reply" =>
                Receiving /\ c = caller.conn /\ s[p][2] = caller.n /\ executions[caller.n] = 1
          /\ \A p, q \in 1 .. Len(s) : s[p] = s[q] /\ s[p][1] = "reply" => p = q
      <4>1. s = DownStream(c)
        BY <2>1
      <4> QED
        BY <1>i, <2>5, <4>1 DEF DownInv
    <3>2. InMessages(r)
      BY <2>1, <3>1, CutShort
    <3>3. \A p \in 1 .. Len(r) : r[p] = s[p] /\ p \in 1 .. Len(s)
      BY <2>2, <2>3
    <3>4. \A p \in 1 .. Len(r) : r[p][1] \in {"notice", "reply"}
      BY <3>1, <3>3
    <3>5. \A p \in 1 .. Len(r) : r[p][1] = "reply" =>
             Receiving /\ c = caller.conn /\ r[p][2] = caller.n /\ executions[caller.n] = 1
      BY <3>1, <3>3
    <3>6. \A p, q \in 1 .. Len(r) : r[p] = r[q] /\ r[p][1] = "reply" => p = q
      BY <3>1, <3>3
    <3> QED
      BY <3>2, <3>4, <3>5, <3>6
  <2>6. ASSUME NEW d \in Conn, KeptOpen(d)'
        PROVE  /\ InMessages(DownStream(d)') /\ (Serving(d)' => LastIsWhole(DownStream(d)'))
               /\ \A p \in 1 .. Len(DownStream(d)') : DownStream(d)'[p][1] \in {"notice", "reply"}
               /\ \A p \in 1 .. Len(DownStream(d)') : DownStream(d)'[p][1] = "reply" =>
                     /\ Receiving' /\ d = caller'.conn /\ DownStream(d)'[p][2] = caller'.n
                     /\ executions'[caller'.n] = 1 /\ ~Asks(d, caller.n)'
               /\ \A p, q \in 1 .. Len(DownStream(d)') :
                     DownStream(d)'[p] = DownStream(d)'[q] /\ DownStream(d)'[p][1] = "reply" => p = q
    <3>1. CASE d = c
      <4>1. KeptOpen(c) /\ ~Asks(c, caller.n)'
        BY <1>0, <1>4, <1>6, <2>4, <2>6, <3>1
      <4> QED
        BY <1>0, <1>4, <2>1, <2>5, <3>1, <4>1
    <3>2. CASE d # c
      <4>1. (Serving(d)' => Serving(d)) /\ DownStream(d)' = DownStream(d) /\ KeptOpen(d)' = KeptOpen(d)
        BY <1>4, <1>5, <3>2
      <4>2. \A j \in 0 .. CallerMax : Asks(d, j)' => Asks(d, j)
        BY <1>6
      <4>3. \A j \in Calls : executions[j] = 1 => executions'[j] = 1
        BY <1>0
      <4> QED
        BY <1>0, <2>6, <3>2, <4>1, <4>2, <4>3, OthersDown
    <3> QED
      BY <3>1, <3>2
  <2> QED
    BY <1>0, <2>6 DEF DownInv, InMessages, InPlace, LastIsWhole
<1> QED
  BY <1>7, <1>8, <1>9, <1>10, <1>11, <1>12, <1>13 DEF ExchangeInv

\* The first unit of a stream whose first units have come off it already.
LEMMA FirstUnit ==
  ASSUME NEW s \in Seq(Unit), NEW t \in Seq(Unit), s # <<>>,
         NEW kind, NEW n, Cat(<<>>, Cat(s, t))[1] = UnitAt(kind, n, 1)
  PROVE  s[1][3] = "header" /\ s[1][4] = 1
<1>1. Cat(<<>>, Cat(s, t)) = Cat(s, t)
  BY CatFacts
<1>2. /\ Len(s) \in Nat /\ \A i \in 1 .. Len(s) : Cat(s, t)[i] = s[i]
  BY Concatenated
<1>3. Len(s) # 0
  BY EmptySeq
<1>4. s[1] = UnitAt(kind, n, 1)
  BY <1>1, <1>2, <1>3
<1>5. 1 <= HeaderLen
  BY Sizes
<1> QED
  BY <1>4, <1>5 DEF UnitAt

\* A side that has read nothing finds a header before it.
LEMMA ExchangeInvFramed == ExchangeInv => Framed
<1> SUFFICES ASSUME ExchangeInv PROVE Framed
  OBVIOUS
<1>i. ExchangeTypeOK /\ CallerInv /\ WorkerInv /\ UpInv /\ DownInv
  BY DEF ExchangeInv
<1>1. ASSUME NEW c \in Conn, Serving(c), wsh[c].units = <<>>, up[c] # <<>>
      PROVE  up[c][1][3] = "header" /\ up[c][1][4] = 1
  <2>1. wsh[c].at = "waiting"
    <3>1. wsh[c].at \in {"waiting", "reading", "invoking", "replying", "closed"}
      BY <1>i DEF ExchangeTypeOK
    <3>2. Len(<<>>) = 0 /\ Whole # 0
      BY Sizes
    <3> QED
      BY <1>i, <1>1, <3>1, <3>2 DEF WorkerInv
  <2>2. UpStream(c) = Cat(<<>>, Cat(up[c], BeingSent(c)))
    BY <1>1, <2>1 DEF UpStream, BeingRead
  <2>3. up[c] \in Seq(Unit) /\ BeingSent(c) \in Seq(Unit) /\ UpStream(c) \in Seq(Unit)
    BY <1>i, StreamFacts
  <2>4. 1 \in 1 .. Len(UpStream(c))
    <3>1. /\ Len(Cat(up[c], BeingSent(c))) = Len(up[c]) + Len(BeingSent(c))
          /\ Len(up[c]) \in Nat /\ Len(BeingSent(c)) \in Nat
      BY <2>3, Concatenated
    <3>2. UpStream(c) = Cat(up[c], BeingSent(c))
      <4>1. Cat(up[c], BeingSent(c)) \in Seq(Unit)
        BY <2>3, CatFacts
      <4> QED
        BY <2>2, <4>1, CatFacts
    <3>3. Len(up[c]) # 0
      BY <1>1, <2>3, EmptySeq
    <3> QED
      BY <3>1, <3>2, <3>3
  <2>5. UpStream(c)[1] = UnitAt("request", UpStream(c)[1][2], 1)
    BY <1>i, <1>1, <2>4 DEF UpInv
  <2> QED
    BY <1>1, <2>2, <2>3, <2>5, FirstUnit
<1>2. ASSUME Receiving, caller.units = <<>>, down[caller.conn] # <<>>
      PROVE  down[caller.conn][1][3] = "header" /\ down[caller.conn][1][4] = 1
  <2>1. PICK c \in Conn : c = caller.conn /\ KeptOpen(c)
    BY <1>i, <1>2 DEF CallerInv, Receiving
  <2>2. DownStream(c) = Cat(<<>>, Cat(down[c], BeingReplied(c)))
    BY <1>2, <2>1 DEF DownStream, BeingReceived
  <2>3. down[c] \in Seq(Unit) /\ BeingReplied(c) \in Seq(Unit) /\ DownStream(c) \in Seq(Unit)
    BY <1>i, StreamFacts
  <2>4. DownStream(c) # <<>> /\ 1 \in 1 .. Len(DownStream(c))
    <3>1. /\ Len(Cat(down[c], BeingReplied(c))) = Len(down[c]) + Len(BeingReplied(c))
          /\ Len(down[c]) \in Nat /\ Len(BeingReplied(c)) \in Nat
      BY <2>3, Concatenated
    <3>2. DownStream(c) = Cat(down[c], BeingReplied(c))
      <4>1. Cat(down[c], BeingReplied(c)) \in Seq(Unit)
        BY <2>3, CatFacts
      <4> QED
        BY <2>2, <4>1, CatFacts
    <3>3. Len(down[c]) # 0
      BY <1>2, <2>1, <2>3, EmptySeq
    <3>4. Len(DownStream(c)) # 0 /\ 1 \in 1 .. Len(DownStream(c))
      BY <3>1, <3>2, <3>3
    <3> QED
      BY <2>3, <3>4, EmptySeq
  <2>5. InMessages(DownStream(c))
    BY <1>i, <2>1 DEF DownInv
  <2>6. DownStream(c)[1] \in Unit
    BY <2>3, <2>4, ElementOfSeq
  <2>7. DownStream(c)[1] = UnitAt(DownStream(c)[1][1], DownStream(c)[1][2], 1)
    BY <2>3, <2>4, <2>5, <2>6, FirstMessage, UnitFacts
  <2> QED
    BY <1>2, <2>1, <2>2, <2>3, <2>7, FirstUnit
<1> QED
  BY <1>1, <1>2 DEF Framed

\* The invariant gives what a run checks.
LEMMA ExchangeInvKept == ExchangeInv => ExchangeKept
<1> SUFFICES ASSUME ExchangeInv PROVE ExchangeKept
  OBVIOUS
<1>1. Framed
  BY ExchangeInvFramed
<1>2. HistoryInv /\ executions \in [Calls -> Nat]
  BY DEF ExchangeInv, ExchangeTypeOK
<1>3. RetriedIsNotExecuted
  BY <1>2 DEF HistoryInv, RetriedIsNotExecuted
<1> QED
  BY <1>1, <1>2, <1>3 DEF HistoryInv, ExchangeKept

\* A step of others changes nothing here.
LEMMA ExchangeStutters ==
  ASSUME ExchangeInv, UNCHANGED exchangeVars
  PROVE  ExchangeInv'
<1>i. ExchangeTypeOK /\ WorkerInv
  BY DEF ExchangeInv
<1>0. UNCHANGED <<up, down, closedBy, caller, wsh, executions, outcomes, answer, notices>>
  BY DEF exchangeVars
<1>1. \A d \in Conn : /\ BeingRead(d)' = BeingRead(d) /\ BeingSent(d)' = BeingSent(d)
                      /\ BeingReceived(d)' = BeingReceived(d) /\ BeingReplied(d)' = BeingReplied(d)
  BY <1>0 DEF BeingRead, BeingSent, BeingReceived, BeingReplied, Sending, Receiving
<1>2. \A d \in Conn : UpStream(d)' = UpStream(d) /\ DownStream(d)' = DownStream(d)
  BY <1>0, <1>1 DEF UpStream, DownStream
<1>3. ExchangeTypeOK'
  BY <1>i, <1>0 DEF ExchangeTypeOK
<1>4. WorkerInv'
  BY <1>i, <1>0, <1>2 DEF WorkerInv, Serving, KeptOpen, Receiving
<1> QED
  BY <1>0, <1>2, <1>3, <1>4, SameStreams

\* Every step keeps the invariant.
LEMMA ExchangeStep ==
  ASSUME ExchangeInv, [ExchangeNext]_exchangeVars
  PROVE  ExchangeInv'
<1>1. CASE Invoke
  BY <1>1, InvokeKeeps
<1>2. CASE ClientStep
  BY <1>2, ClientWritesKeeps, WriteFailsKeeps, ClientReadsKeeps, ReadFailsKeeps DEF ClientStep
<1>3. ASSUME NEW c \in Conn, ServerStep(c)
      PROVE  ExchangeInv'
  BY <1>3, ServerReadsKeeps, InvokeImplKeeps, ServerWritesKeeps, ServerFailsKeeps DEF ServerStep
<1>4. ASSUME NEW c \in Conn, WriteSocketPositive(c)
      PROVE  ExchangeInv'
  BY <1>4, WriteSocketPositiveKeeps
<1>5. CASE UNCHANGED exchangeVars
  BY <1>5, ExchangeStutters
<1> QED
  BY <1>1, <1>2, <1>3, <1>4, <1>5 DEF ExchangeNext

(* Neither side takes the middle of a message for its beginning; Invoke       *)
(* returns OK only with the reply to its own request, carried out once; and a *)
(* request that tpcall sends to another server is not carried out by the      *)
(* first: for any sizes of the messages and of what a connection holds, any   *)
(* calls, any notices, and wherever either side stops.                        *)
THEOREM ExchangeIsKept == ExchangeSpec => []ExchangeKept
<1>1. ExchangeInit => ExchangeInv
  BY ExchangeInitInv
<1>2. ExchangeInv /\ [ExchangeNext]_exchangeVars => ExchangeInv'
  BY ExchangeStep
<1>3. ExchangeInv => ExchangeKept
  BY ExchangeInvKept
<1> QED
  BY <1>1, <1>2, <1>3, PTL DEF ExchangeSpec

-----------------------------------------------------------------------------
(* The settings of an application and of txgate. *)

(* What has been given so far, the strongest last. *)
Stronger(opt, lines) == IF lines = <<>> THEN opt ELSE <<Last(lines)>>
FileOption == Stronger(NotGiven, tuxconfig)
FilesOption == Stronger(FileOption, cfgFile)
CommandOption == Stronger(FilesOption, cmdDefs)

GivenTypes ==
  /\ setting \in Settings
  /\ environment \in Seq(Int) /\ tuxconfig \in Seq(Int) /\ cfgFile \in Seq(Int) /\ cmdDefs \in Seq(Int)
  /\ later = NotGiven \/ \E n \in Int : later = <<n>>
  /\ option = NotGiven \/ \E n \in Int : option = <<n>>
  /\ environment = NotGiven \/ \E n \in Int : environment = <<n>>
  /\ phase \in {"files", "file c", "command", "ready", "failed"}

OptionInv ==
  /\ phase = "files" => option = NotGiven
  /\ phase = "file c" => option = FileOption
  /\ phase = "command" => option = FilesOption
  /\ phase = "ready" => option = IF CommandOption = NotGiven THEN later ELSE CommandOption
  /\ phase # "ready" => later = NotGiven
  /\ phase \in {"files", "file c", "command"} => inForce = setting.default

InForceInv == phase = "ready" => inForce = Limited(GetPropertyValue(option, setting.default))

SettingsInv == GivenTypes /\ OptionInv /\ InForceInv

\* Of two sequences the last element of the second, if it has one.
LEMMA LastJoined ==
  ASSUME NEW s \in Seq(Int), NEW t \in Seq(Int)
  PROVE  /\ s \o t \in Seq(Int)
         /\ Last(s \o t) = IF t = <<>> THEN Last(s) ELSE Last(t)
<1>1. /\ s \o t \in Seq(Int) /\ Len(s) \in Nat /\ Len(t) \in Nat
      /\ Len(s \o t) = Len(s) + Len(t)
      /\ \A i \in 1 .. Len(s) + Len(t) : (s \o t)[i] = IF i <= Len(s) THEN s[i] ELSE t[i - Len(s)]
  BY ConcatProperties, LenProperties
<1>2. CASE t = <<>>
  <2>1. s \o t = s
    BY <1>2, ConcatEmptySeq
  <2> QED
    BY <1>1, <1>2, <2>1
<1>3. CASE t # <<>>
  <2>1. Len(t) # 0
    BY <1>3, EmptySeq
  <2>2. (s \o t)[Len(s) + Len(t)] = t[Len(t)]
    <3>1. PICK i \in Nat, j \in Nat : i = Len(s) + Len(t) /\ j = Len(t) /\ j # 0 /\ i - Len(s) = j /\ ~(i <= Len(s))
      BY SMTT(40), <1>1, <2>1
    <3>2. (s \o t)[i] = t[i - Len(s)]
      BY <1>1, <3>1
    <3> QED
      BY <3>1, <3>2
  <2> QED
    BY <1>1, <1>3, <2>2 DEF Last
<1> QED
  BY <1>2, <1>3

\* What may be given is a sequence of integers.
LEMMA BoundedIsSeq ==
  ASSUME NEW n \in Nat, NEW s \in BoundedSeq(GivenValue, n)
  PROVE  /\ s \in Seq(Int)
         /\ n = 1 => s = <<>> \/ \E v \in Int : s = <<v>>
<1>1. GivenValue \subseteq Int
  BY SettingsAssumption
<1>2. PICK m \in 0 .. n : s \in [1 .. m -> GivenValue]
  BY DEF BoundedSeq, SeqOf
<1>3. s \in Seq(GivenValue) /\ Len(s) = m
  BY <1>2
<1>4. s \in Seq(Int)
  <2>1. s \in [1 .. m -> Int]
    BY <1>1, <1>2
  <2> QED
    BY <2>1
<1>5. ASSUME n = 1 PROVE s = <<>> \/ \E v \in Int : s = <<v>>
  <2>1. CASE m = 0
    BY <1>3, <2>1, EmptySeq
  <2>2. CASE m = 1
    <3>1. s[1] \in Int
      <4>1. 1 \in 1 .. Len(s)
        BY <1>3, <2>2
      <4> QED
        BY <1>4, <4>1, ElementOfSeq
    <3>2. PICK v \in Int : v = s[1]
      BY <3>1
    <3>3. <<v>> \in Seq(Int) /\ Len(<<v>>) = 1 /\ <<v>>[1] = v
      OBVIOUS
    <3>4. Len(s) = 1
      BY <1>3, <2>2
    <3>5. \A i \in 1 .. 1 : s[i] = <<v>>[i]
      BY <3>2, <3>3
    <3>6. s = <<v>>
      BY <1>4, <3>3, <3>4, <3>5, SeqEqual
    <3> QED
      BY <3>6
  <2> QED
    BY <1>5, <2>1, <2>2
<1> QED
  BY <1>4, <1>5

\* The last line gives an integer.
LEMMA LastGiven ==
  ASSUME NEW s \in Seq(Int), s # <<>>
  PROVE  Last(s) \in Int
<1>1. Len(s) \in Nat /\ Len(s) # 0
  BY EmptySeq, LenProperties
<1>2. Len(s) \in 1 .. Len(s)
  BY <1>1
<1> QED
  BY <1>2, ElementOfSeq DEF Last

\* Nothing is read at first.
LEMMA SettingsInitInv == SettingsInit => SettingsInv
<1> SUFFICES ASSUME SettingsInit PROVE SettingsInv
  OBVIOUS
<1>1. 1 \in Nat /\ LinesMax \in Nat
  BY SettingsAssumption
<1>2. GivenTypes
  BY <1>1, BoundedIsSeq DEF SettingsInit, GivenTypes, Lines, NotGiven
<1>3. OptionInv /\ InForceInv
  BY DEF SettingsInit, OptionInv, InForceInv, NotGiven
<1> QED
  BY <1>2, <1>3 DEF SettingsInv

\* Each source that is read is stronger than those before it.
LEMMA SettingsStep ==
  ASSUME SettingsInv, [SettingsNext]_settingsVars
  PROVE  SettingsInv'
<1>i. GivenTypes /\ OptionInv /\ InForceInv
  BY DEF SettingsInv
<1>1. ASSUME NEW opt, opt = NotGiven \/ \E n \in Int : opt = <<n>>, NEW lines \in Seq(Int)
      PROVE  Stronger(opt, lines) = NotGiven \/ \E n \in Int : Stronger(opt, lines) = <<n>>
  BY <1>1, LastGiven DEF Stronger, NotGiven
<1>2. ASSUME UNCHANGED <<setting, environment, tuxconfig, cfgFile, cmdDefs, missing>>
      PROVE  /\ FileOption' = FileOption /\ FilesOption' = FilesOption /\ CommandOption' = CommandOption
             /\ \A n, d : GetPropertyValue(n, d)' = GetPropertyValue(n, d) /\ Limited(n)' = Limited(n)
  BY <1>2 DEF FileOption, FilesOption, CommandOption, Stronger, GetPropertyValue, Limited
<1>3. CASE ParseFirst /\ UNCHANGED <<setting, environment, tuxconfig, cfgFile, cmdDefs, missing>>
  <2>1. StoredOption(tuxconfig) = FileOption /\ ParseFirst /\ phase = "files"
    BY <1>i, <1>3 DEF ParseFirst, OptionInv, StoredOption, FileOption, Stronger
  <2>2. FileOption = NotGiven \/ \E n \in Int : FileOption = <<n>>
    BY <1>i, <1>1 DEF GivenTypes, FileOption
  <2>3. UNCHANGED <<inForce, later>> /\ ((phase' = "failed" /\ option' = option) \/ (phase' = "file c" /\ option' = FileOption))
    BY <2>1 DEF ParseFirst, Parse
  <2>4. GivenTypes'
    BY <1>i, <1>3, <2>2, <2>3 DEF GivenTypes
  <2>5. OptionInv' /\ InForceInv'
    BY <1>i, <1>2, <1>3, <2>1, <2>3 DEF OptionInv, InForceInv
  <2> QED
    BY <2>4, <2>5 DEF SettingsInv
<1>4. CASE ParseSecond /\ UNCHANGED <<setting, environment, tuxconfig, cfgFile, cmdDefs, missing>>
  <2>1. StoredOption(cfgFile) = FilesOption /\ ParseSecond /\ phase = "file c"
    BY <1>i, <1>4 DEF ParseSecond, OptionInv, StoredOption, FilesOption, Stronger
  <2>2. FilesOption = NotGiven \/ \E n \in Int : FilesOption = <<n>>
    BY <1>i, <1>1, <2>1 DEF GivenTypes, FilesOption, OptionInv
  <2>3. UNCHANGED <<inForce, later>> /\ ((phase' = "failed" /\ option' = option) \/ (phase' = "command" /\ option' = FilesOption))
    BY <2>1 DEF ParseSecond, Parse
  <2>4. GivenTypes'
    BY <1>i, <1>4, <2>2, <2>3 DEF GivenTypes
  <2>5. OptionInv' /\ InForceInv'
    BY <1>i, <1>2, <1>4, <2>1, <2>3 DEF OptionInv, InForceInv
  <2> QED
    BY <2>4, <2>5 DEF SettingsInv
<1>5. CASE ParseCommand /\ UNCHANGED <<setting, environment, tuxconfig, cfgFile, cmdDefs, missing>>
  <2>1. /\ StoredOption(cmdDefs) = CommandOption /\ phase = "command" /\ phase' = "ready"
        /\ option' = CommandOption /\ later' = later /\ later = NotGiven
        /\ inForce' = Limited(GetPropertyValue(option', setting.default))
    BY <1>i, <1>5 DEF ParseCommand, OptionInv, StoredOption, CommandOption, Stronger, DoPropConstruct
  <2>2. CommandOption = NotGiven \/ \E n \in Int : CommandOption = <<n>>
    BY <1>i, <1>1, <2>1 DEF GivenTypes, CommandOption, OptionInv
  <2>3. GivenTypes'
    BY <1>i, <1>5, <2>1, <2>2 DEF GivenTypes
  <2>4. OptionInv'
    BY <1>2, <1>5, <2>1 DEF OptionInv
  <2>5. InForceInv'
    BY <1>2, <1>5, <2>1 DEF InForceInv, GetPropertyValue, Limited
  <2> QED
    BY <2>3, <2>4, <2>5 DEF SettingsInv
<1>6. CASE SetProperty /\ UNCHANGED <<setting, environment, tuxconfig, cfgFile, cmdDefs, missing>>
  <2>1. PICK n \in GivenValue : later' = <<n>> /\ option' = IfAbsent(n)
    BY <1>6 DEF SetProperty
  <2>2. /\ phase = "ready" /\ phase' = phase /\ later = NotGiven /\ n \in Int
        /\ inForce' = Limited(GetPropertyValue(option', inForce))
    BY <1>6, <2>1, SettingsAssumption DEF SetProperty, DoPropConstruct
  <2>3. option' = IF CommandOption = NotGiven THEN later' ELSE CommandOption
    BY <1>i, <2>1, <2>2 DEF OptionInv, IfAbsent
  <2>4. option' # NotGiven
    <3>1. <<n>> # <<>>
      OBVIOUS
    <3> QED
      BY <2>1, <2>3, <3>1 DEF NotGiven
  <2>5. GivenTypes'
    BY <1>i, <1>6, <2>1, <2>2 DEF GivenTypes, IfAbsent
  <2>6. OptionInv'
    BY <1>2, <1>6, <2>2, <2>3 DEF OptionInv
  <2>7. InForceInv'
    BY <1>6, <2>2, <2>4 DEF InForceInv, GetPropertyValue, Limited
  <2> QED
    BY <2>5, <2>6, <2>7 DEF SettingsInv
<1>7. CASE UNCHANGED settingsVars
  <2>1. UNCHANGED <<setting, environment, tuxconfig, cfgFile, cmdDefs, missing, phase, option, inForce, later>>
    BY <1>7 DEF settingsVars
  <2>2. GivenTypes' /\ OptionInv'
    BY <1>i, <1>2, <2>1 DEF GivenTypes, OptionInv
  <2>3. InForceInv'
    BY <1>i, <2>1 DEF InForceInv, GetPropertyValue, Limited
  <2> QED
    BY <2>2, <2>3 DEF SettingsInv
<1> QED
  BY <1>3, <1>4, <1>5, <1>6, <1>7 DEF SettingsNext

\* A value is brought within the limits of its setting.
LEMMA LimitedIsWithin ==
  ASSUME setting \in Settings, NEW n \in Int, inForce = Limited(n)
  PROVE  Within(n)
<1>1. /\ setting.least \in {0, 1} /\ setting.most \in Nat \ {0} /\ setting.least <= setting.most
      /\ setting.most \in {7, TopInt}
  BY SettingsAssumption DEF Settings
<1>2. CASE n < setting.least
  BY <1>1, <1>2 DEF Limited, Within
<1>3. CASE n > setting.most
  BY <1>1, <1>3 DEF Limited, Within
<1>4. CASE n \in setting.least .. setting.most
  BY <1>1, <1>4 DEF Limited, Within
<1> QED
  BY <1>1, <1>2, <1>3, <1>4

\* The invariant gives what a run checks.
LEMMA SettingsInvStrongest == SettingsInv => StrongestCounts
<1> SUFFICES ASSUME SettingsInv, phase = "ready" PROVE Within(Last(AllGiven))
  BY DEF StrongestCounts
<1>i. GivenTypes /\ OptionInv /\ InForceInv
  BY DEF SettingsInv
<1>1. PICK d \in Int : d = setting.default
  BY <1>i DEF GivenTypes, Settings
<1>2. <<d>> \in Seq(Int) /\ later \in Seq(Int) /\ environment \in Seq(Int)
  <2>1. <<>> \in Seq(Int) /\ \A n \in Int : <<n>> \in Seq(Int)
    OBVIOUS
  <2> QED
    BY <1>i, <2>1 DEF GivenTypes, NotGiven
<1>3. PICK a \in Seq(Int) : a = <<d>> \o environment /\ Last(a) = IF environment = <<>> THEN d ELSE Last(environment)
  <2>1. Last(<<d>>) = d
    BY DEF Last
  <2> QED
    BY ZenonT(60), <1>2, <2>1, LastJoined
<1>4. PICK b \in Seq(Int) : b = a \o later /\ Last(b) = IF later = <<>> THEN Last(a) ELSE Last(later)
  BY ZenonT(60), <1>2, LastJoined
<1>5. PICK e \in Seq(Int) : e = b \o tuxconfig /\ Last(e) = IF tuxconfig = <<>> THEN Last(b) ELSE Last(tuxconfig)
  BY <1>i, LastJoined DEF GivenTypes
<1>6. PICK f \in Seq(Int) : f = e \o cfgFile /\ Last(f) = IF cfgFile = <<>> THEN Last(e) ELSE Last(cfgFile)
  BY <1>i, LastJoined DEF GivenTypes
<1>7. PICK g \in Seq(Int) : g = f \o cmdDefs /\ Last(g) = IF cmdDefs = <<>> THEN Last(f) ELSE Last(cmdDefs)
  BY <1>i, LastJoined DEF GivenTypes
<1>8. AllGiven = g
  BY <1>1, <1>3, <1>4, <1>5, <1>6, <1>7 DEF AllGiven
<1>9. \A n \in Int : <<n>>[1] = n /\ Last(<<n>>) = n /\ <<n>> # <<>>
  BY DEF Last
<1>10. ASSUME NEW o, o = NotGiven \/ \E n \in Int : o = <<n>>
       PROVE  o # <<>> => o[1] = Last(o) /\ Last(o) \in Int
  BY <1>9, <1>10 DEF NotGiven
<1>11. GetPropertyValue(option, d) = Last(g)
  <2>1. environment # <<>> => environment[1] = Last(environment)
    BY <1>i, <1>10 DEF GivenTypes
  <2>3. option = IF cmdDefs # <<>> THEN <<Last(cmdDefs)>> ELSE IF cfgFile # <<>> THEN <<Last(cfgFile)>>
                 ELSE IF tuxconfig # <<>> THEN <<Last(tuxconfig)>> ELSE later
    <3>1. \A x : <<Last(x)>> # <<>>
      OBVIOUS
    <3> QED
      BY <1>i, <3>1 DEF OptionInv, CommandOption, FilesOption, FileOption, Stronger, NotGiven
  <2>4. Last(g) = IF cmdDefs # <<>> THEN Last(cmdDefs) ELSE IF cfgFile # <<>> THEN Last(cfgFile)
                  ELSE IF tuxconfig # <<>> THEN Last(tuxconfig) ELSE IF later # <<>> THEN Last(later)
                  ELSE IF environment # <<>> THEN Last(environment) ELSE d
    BY <1>3, <1>4, <1>5, <1>6, <1>7
  <2>5. option # <<>> => option[1] = IF cmdDefs # <<>> THEN Last(cmdDefs) ELSE IF cfgFile # <<>> THEN Last(cfgFile)
                 ELSE IF tuxconfig # <<>> THEN Last(tuxconfig) ELSE Last(later)
    <3>1. \A x : <<Last(x)>>[1] = Last(x)
      OBVIOUS
    <3>2. later # <<>> => later[1] = Last(later)
      BY <1>i, <1>10 DEF GivenTypes
    <3> QED
      BY <2>3, <3>1, <3>2
  <2>6. option = <<>> => cmdDefs = <<>> /\ cfgFile = <<>> /\ tuxconfig = <<>> /\ later = <<>>
    <3>1. \A x : <<Last(x)>> # <<>>
      OBVIOUS
    <3> QED
      BY <2>3, <3>1
  <2>7. option # <<>> => cmdDefs # <<>> \/ cfgFile # <<>> \/ tuxconfig # <<>> \/ later # <<>>
    BY <2>3
  <2> QED
    BY <2>1, <2>4, <2>5, <2>6, <2>7 DEF GetPropertyValue, NotGiven
<1>12. Last(g) \in Int
  <2>1. Last(a) \in Int
    BY <1>2, <1>3, LastGiven
  <2>2. Last(b) \in Int
    BY <1>2, <1>4, <2>1, LastGiven
  <2>3. Last(e) \in Int
    BY <1>i, <1>5, <2>2, LastGiven DEF GivenTypes
  <2>4. Last(f) \in Int
    BY <1>i, <1>6, <2>3, LastGiven DEF GivenTypes
  <2> QED
    BY <1>i, <1>7, <2>4, LastGiven DEF GivenTypes
<1>13. inForce = Limited(Last(g)) /\ setting \in Settings
  BY <1>i, <1>1, <1>11 DEF InForceInv, GivenTypes
<1> QED
  BY <1>8, <1>12, <1>13, LimitedIsWithin

(* The command line is stronger than the file of -c, that than the file of   *)
(* TUXCONFIG, that than what the program sets, that than the environment and *)
(* all than the default, and the value is within its limits: for any values, *)
(* any limits of an int, any number of lines, whichever files are missing.   *)
THEOREM StrongestAlwaysCounts == SettingsSpec => []StrongestCounts
<1>1. SettingsInit => SettingsInv
  BY SettingsInitInv
<1>2. SettingsInv /\ [SettingsNext]_settingsVars => SettingsInv'
  BY SettingsStep
<1>3. SettingsInv => StrongestCounts
  BY SettingsInvStrongest
<1> QED
  BY <1>1, <1>2, <1>3, PTL DEF SettingsSpec

-----------------------------------------------------------------------------
(* The table of fields: the identifiers of the header. *)

\* The division of an identifier by the factor gives the type it was made of.
LEMMA CodeOfId ==
  ASSUME NEW type \in Nat, NEW r \in 0 .. Factor - 1
  PROVE  (Factor * type + r) \div Factor = type
  <1>0. Factor \in Nat /\ Factor > 0
    BY TableAssumption
  <1> DEFINE id == Factor * type + r  q == id \div Factor  m == id % Factor
  <1>1. id \in Nat
    BY <1>0
  <1>2. q \in Int /\ m \in 0 .. Factor - 1 /\ id = Factor * q + m
    <2> HIDE DEF id
    <2>1. QED BY <1>0, <1>1
  <1>3. Factor * (q - type) = r - m
    <2>1. Factor * (q - type) = Factor * q - Factor * type
      BY <1>0, <1>2
    <2>2. Factor * q \in Int /\ Factor * type \in Int
      BY <1>0, <1>2
    <2> DEFINE a == Factor * q  b == Factor * type
    <2>3. b + r = a + m
      BY <1>2
    <2>4. a - b = r - m
      <3>1. a \in Int /\ b \in Int /\ r \in Int /\ m \in Int
        BY <1>0, <1>2, <2>2
      <3> HIDE DEF a, b, m
      <3>2. QED BY <2>3, <3>1
    <2>5. QED BY <2>1, <2>4
  <1>4. CASE q - type >= 1
    <2>1. Factor * (q - type) >= Factor
      BY <1>0, <1>2, <1>4
    <2>2. QED BY <2>1, <1>0, <1>2, <1>3
  <1>5. CASE q - type <= -1
    <2>1. Factor * (q - type) <= -Factor
      BY <1>0, <1>2, <1>5
    <2>2. QED BY <2>1, <1>0, <1>2, <1>3
  <1>6. QED BY <1>2, <1>4, <1>5

Line == BaseLine \cup FieldLine \cup OtherLine

FieldTableInv ==
  /\ tableLines \in Seq(Line)
  /\ baseNum \in Nat
  /\ fieldItems \in Seq(FieldLine)
  /\ fieldItems # <<>> => \E j \in DOMAIN tableLines : tableLines[j].kind = "field"
  /\ OneBase => \A j \in DOMAIN fieldItems : fieldItems[j].number + baseNum <= Factor - 1

\* A table begins with nothing read.
LEMMA TableInitKeeps == TableInit => FieldTableInv
  BY TableAssumption DEF TableInit, FieldTableInv

\* Every kind of line keeps the invariant.
LEMMA TableLineKeeps ==
  ASSUME FieldTableInv, NEW line \in Line, ReadTableLine(line)
  PROVE  FieldTableInv'
  <1>1. tableLines' = Append(tableLines, line) /\ tableLines \in Seq(Line)
    BY DEF ReadTableLine, FieldTableInv
  <1>2. /\ tableLines' \in Seq(Line) /\ Len(tableLines') = Len(tableLines) + 1
        /\ \A j \in DOMAIN tableLines : tableLines'[j] = tableLines[j] /\ j \in DOMAIN tableLines'
        /\ tableLines'[Len(tableLines) + 1] = line
        /\ Len(tableLines) + 1 \in DOMAIN tableLines'
        /\ \A j \in DOMAIN tableLines : j \in Nat /\ j < Len(tableLines) + 1
    BY <1>1
  <1>3. OneBase' => OneBase
    BY <1>2 DEF OneBase
  <1>4. fieldItems # <<>> => \E j \in DOMAIN tableLines' : tableLines'[j].kind = "field"
    BY <1>2 DEF FieldTableInv
  <1>5. baseNum \in Nat /\ fieldItems \in Seq(FieldLine)
    BY DEF FieldTableInv
  <1>6. CASE UNCHANGED <<baseNum, fieldItems>>
    BY <1>2, <1>3, <1>4, <1>5, <1>6 DEF FieldTableInv
  <1>7. CASE line.kind = "base" /\ baseNum' = line.number /\ UNCHANGED fieldItems
    <2>1. line \in BaseLine
      BY <1>7 DEF Line, BaseLine, FieldLine, OtherLine
    <2>2. baseNum' \in Nat
      BY <1>7, <2>1, TableAssumption DEF BaseLine
    <2>3. OneBase' => fieldItems = <<>>
      <3>1. SUFFICES ASSUME OneBase', fieldItems # <<>> PROVE FALSE
        OBVIOUS
      <3>2. PICK j \in DOMAIN tableLines : tableLines[j].kind = "field"
        BY <3>1 DEF FieldTableInv
      <3>3. QED BY <3>1, <3>2, <1>2, <1>7 DEF OneBase
    <2>4. OneBase' => \A j \in DOMAIN fieldItems : fieldItems[j].number + baseNum' <= Factor - 1
      BY <2>3
    <2>5. fieldItems' = fieldItems
      BY <1>7
    <2>6. QED BY <1>2, <1>4, <1>5, <2>2, <2>4, <2>5 DEF FieldTableInv
  <1>8. CASE line.kind = "field" /\ NumberFits(line) /\ fieldItems' = Append(fieldItems, line) /\ UNCHANGED baseNum
    <2>1. line \in FieldLine
      BY <1>8 DEF Line, BaseLine, FieldLine, OtherLine
    <2>2. fieldItems' \in Seq(FieldLine)
      BY <1>5, <1>8, <2>1
    <2>3. \E j \in DOMAIN tableLines' : tableLines'[j].kind = "field"
      BY <1>2, <1>8
    <2>4. OneBase' => \A j \in DOMAIN fieldItems' : fieldItems'[j].number + baseNum' <= Factor - 1
      <3>1. SUFFICES ASSUME OneBase', NEW j \in DOMAIN fieldItems'
                     PROVE  fieldItems'[j].number + baseNum <= Factor - 1
        BY <1>8
      <3>2. CASE j \in DOMAIN fieldItems
        <4>1. fieldItems'[j] = fieldItems[j]
          BY <1>5, <1>8, <3>2
        <4>2. QED BY <1>3, <3>1, <3>2, <4>1 DEF FieldTableInv
      <3>3. CASE j \notin DOMAIN fieldItems
        <4>1. fieldItems'[j] = line
          BY <1>5, <1>8, <3>3
        <4>2. QED BY <1>8, <4>1 DEF NumberFits
      <3>4. QED BY <3>2, <3>3
    <2>5. QED BY <1>2, <1>5, <1>8, <2>2, <2>3, <2>4 DEF FieldTableInv
  <1>9. QED BY <1>6, <1>7, <1>8 DEF ReadTableLine

\* So does every step.
LEMMA TableNextKeeps == ASSUME FieldTableInv, [TableNext]_tableVars PROVE FieldTableInv'
  <1>1. CASE UNCHANGED <<tableLines, baseNum, fieldItems>>
    BY <1>1 DEF FieldTableInv, OneBase
  <1>2. QED BY <1>1, TableLineKeeps DEF TableNext, EndOfTable, tableVars, Line

\* The invariant makes the identifiers say the types.
LEMMA IdentifiersRight == FieldTableInv => IdentifiersSayTypes
  <1> SUFFICES ASSUME FieldTableInv, OneBase, NEW j \in DOMAIN fieldItems, NEW k \in DOMAIN fieldItems
               PROVE  /\ Fldtype32(HeaderID(fieldItems[j])) = fieldItems[j].type
                      /\ HeaderID(fieldItems[j]) = HeaderID(fieldItems[k]) => fieldItems[j] = fieldItems[k]
    BY DEF IdentifiersSayTypes
  <1>1. \A i \in DOMAIN fieldItems :
           /\ fieldItems[i] \in FieldLine /\ fieldItems[i].number \in Nat /\ fieldItems[i].type \in Nat
           /\ fieldItems[i].number + baseNum \in 0 .. Factor - 1
    <2>1. \A i \in DOMAIN fieldItems : fieldItems[i] \in FieldLine
      BY DEF FieldTableInv
    <2>2. \A i \in DOMAIN fieldItems : fieldItems[i].number \in Nat /\ fieldItems[i].type \in Nat
      BY <2>1, TableAssumption DEF FieldLine
    <2>3. QED BY <2>1, <2>2, TableAssumption DEF FieldTableInv
  <1>2. \A i \in DOMAIN fieldItems : /\ HeaderID(fieldItems[i]) = Factor * fieldItems[i].type + (fieldItems[i].number + baseNum)
                                     /\ Fldtype32(HeaderID(fieldItems[i])) = fieldItems[i].type
    <2>1. SUFFICES ASSUME NEW i \in DOMAIN fieldItems
                   PROVE  /\ HeaderID(fieldItems[i]) = Factor * fieldItems[i].type + (fieldItems[i].number + baseNum)
                          /\ Fldtype32(HeaderID(fieldItems[i])) = fieldItems[i].type
      OBVIOUS
    <2> DEFINE r == fieldItems[i].number + baseNum  t == fieldItems[i].type
    <2>2. r \in 0 .. Factor - 1 /\ t \in Nat
      BY <1>1
    <2>3. HeaderID(fieldItems[i]) = Factor * t + r
      <3>1. HeaderID(fieldItems[i]) = Factor * t + fieldItems[i].number + baseNum
        BY DEF HeaderID, GetFieldID
      <3>2. Factor * t \in Nat /\ fieldItems[i].number \in Nat /\ baseNum \in Nat
        BY <1>1, TableAssumption DEF FieldTableInv
      <3>3. QED BY <3>1, <3>2
    <2> HIDE DEF r, t
    <2>4. (Factor * t + r) \div Factor = t
      BY <2>2, CodeOfId
    <2>5. QED BY <2>3, <2>4 DEF Fldtype32, r, t
  <1>3. ASSUME HeaderID(fieldItems[j]) = HeaderID(fieldItems[k]) PROVE fieldItems[j] = fieldItems[k]
    <2>1. fieldItems[j].type = fieldItems[k].type
      BY <1>2, <1>3
    <2>2. fieldItems[j].number = fieldItems[k].number
      <3> DEFINE a == Factor * fieldItems[j].type
      <3>1. a \in Nat /\ baseNum \in Nat
        BY <1>1, TableAssumption DEF FieldTableInv
      <3>2. a + (fieldItems[j].number + baseNum) = a + (fieldItems[k].number + baseNum)
        BY <1>2, <1>3, <2>1
      <3> HIDE DEF a
      <3>3. QED BY <1>1, <3>1, <3>2
    <2>3. fieldItems[j] \in FieldLine /\ fieldItems[k] \in FieldLine
      BY <1>1
    <2>4. QED BY <2>1, <2>2, <2>3 DEF FieldLine
  <1>4. QED BY <1>2, <1>3

\* The identifiers that mkfldhdr32 writes say the types of the fields, and no
\* two fields share one, in a table with one base (Fml32Paser).
THEOREM IdentifiersAlwaysSayTypes == TableSpec => []IdentifiersSayTypes
  BY TableInitKeeps, TableNextKeeps, IdentifiersRight, PTL DEF TableSpec

-----------------------------------------------------------------------------
(* Finite sets, by the size of the set. *)

\* The least counterexample: a set of finite sets that is not empty has a
\* member that includes no other.  This is how the proofs below go by the size
\* of a set.
LEMMA SmallestSet ==
  ASSUME NEW S, IsFiniteSet(S), NEW T, T \subseteq SUBSET S, T # {}
  PROVE  \E m \in T : \A s \in T : s \subseteq m => s = m
  <1>1. IsWellFoundedOn(StrictSubsetOrdering(S), FiniteSubsetsOf(S))
    BY FS_StrictSubsetOrderingWellFounded
  <1>2. T \subseteq FiniteSubsetsOf(S)
    BY FS_FiniteSubsetsOfFinite
  <1>3. \E m \in T : \A s \in T : ~ (<<s, m>> \in StrictSubsetOrdering(S))
    BY <1>1, <1>2, WFMin, Zenon
  <1>4. QED BY <1>3 DEF StrictSubsetOrdering

-----------------------------------------------------------------------------
(* The k-th of a set of numbers. *)

\* A finite set of numbers.
Numbers(S) == IsFiniteSet(S) /\ \A y \in S : y \in Nat

\* The same for sets of numbers.
LEMMA SmallestOfNumbers ==
  ASSUME NEW S, Numbers(S), NEW T, T \subseteq SUBSET S, T # {}
  PROVE  \E m \in T : \A s \in T : s \subseteq m => s = m
  <1>0. IsFiniteSet(S) /\ S \in SUBSET Nat
    BY DEF Numbers
  <1>1. IsFiniteSet(S)
    BY DEF Numbers
  <1>2. QED BY <1>1, SmallestSet

(* A finite set of numbers that is not empty has a largest one. *)
LEMMA LargestExists ==
  ASSUME NEW S, Numbers(S), S # {}
  PROVE  \E x \in S : \A y \in S : y <= x
  <1>0. IsFiniteSet(S) /\ S \in SUBSET Nat
    BY DEF Numbers
  <1> DEFINE T == {s \in SUBSET S : s # {} /\ ~ \E x \in s : \A y \in s : y <= x}
  <1> SUFFICES ASSUME T # {} PROVE FALSE
    OBVIOUS
  <1>1. PICK m \in T : \A s \in T : s \subseteq m => s = m
    <2>1. T \subseteq SUBSET S /\ T # {}
      OBVIOUS
    <2> HIDE DEF T
    <2>2. QED BY <2>1, SmallestOfNumbers
  <1>2. m \in SUBSET S /\ m # {} /\ ~ \E x \in m : \A y \in m : y <= x
    OBVIOUS
  <1>3. PICK x \in m : TRUE
    BY <1>2
  <1> DEFINE r == m \ {x}
  <1>4. r # {}
    <2>1. SUFFICES ASSUME r = {} PROVE FALSE
      OBVIOUS
    <2>2. \A y \in m : y = x
      BY <2>1
    <2>3. x \in Nat
      BY <1>0, <1>2
    <2>4. QED BY <1>2, <2>2, <2>3
  <1>5. r \in SUBSET S /\ r # m /\ r \subseteq m
    BY <1>2, <1>3
  <1>6. r \notin T
    BY <1>1, <1>5
  <1>7. PICK z \in r : \A y \in r : y <= z
    BY <1>4, <1>5, <1>6
  <1>8. z \in Nat /\ x \in Nat /\ z \in m
    BY <1>0, <1>2, <1>7
  <1>9. \A y \in m : y \in Nat /\ (y = x \/ y \in r)
    BY <1>0, <1>2
  <1>10. CASE z <= x
    <2>1. \A y \in m : y <= x
      BY <1>7, <1>8, <1>9, <1>10
    <2>2. QED BY <1>2, <1>3, <2>1
  <1>11. CASE x <= z
    <2>1. \A y \in m : y <= z
      BY <1>7, <1>9, <1>11
    <2>2. QED BY <1>2, <1>8, <2>1
  <1>12. QED BY <1>8, <1>10, <1>11

Rank(S, x) == Cardinality({y \in S : y <= x})

\* A larger number has a higher rank.
LEMMA RankOfLess ==
  ASSUME NEW S, Numbers(S), NEW x \in S, NEW z \in S, x < z
  PROVE  Rank(S, x) \in Nat /\ Rank(S, z) \in Nat /\ Rank(S, x) < Rank(S, z)
  <1>0. IsFiniteSet(S) /\ S \in SUBSET Nat
    BY DEF Numbers
  <1> DEFINE X == {y \in S : y <= x}  Z == {y \in S : y <= z}
  <1>1. X \in SUBSET Z /\ z \in Z /\ z \notin X
    <2>1. x \in Nat /\ z \in Nat /\ \A y \in S : y \in Nat
      BY <1>0
    <2>2. \A y \in S : y <= x => y <= z
      BY <2>1
    <2>3. z <= z /\ ~ (z <= x)
      BY <2>1
    <2>4. QED BY <2>2, <2>3
  <1>2. X # Z
    BY <1>1
  <1>3. IsFiniteSet(X) /\ IsFiniteSet(Z)
    <2>1. X \in SUBSET S /\ Z \in SUBSET S
      OBVIOUS
    <2> HIDE DEF X, Z
    <2>2. QED BY <1>0, <2>1, FS_Subset
  <1> HIDE DEF X, Z
  <1>4. Cardinality(X) \in Nat /\ Cardinality(Z) \in Nat /\ Cardinality(X) <= Cardinality(Z)
        /\ Cardinality(X) # Cardinality(Z)
    BY <1>1, <1>2, <1>3, FS_Subset, FS_CardinalityType
  <1>5. QED BY <1>4 DEF Rank, X, Z

(* The k-th of a finite set of numbers is one of them, and the only one of *)
(* its rank.                                                               *)
LEMMA NthIs ==
  ASSUME NEW S, Numbers(S), NEW x \in S
  PROVE  Nth(S, Rank(S, x)) = x
  <1>0. IsFiniteSet(S) /\ S \in SUBSET Nat
    BY DEF Numbers
  <1> DEFINE c == Nth(S, Rank(S, x))
  <1>1. c \in S /\ Rank(S, c) = Rank(S, x)
    BY DEF Nth, Rank
  <1>2. x \in Nat /\ c \in Nat
    BY <1>0, <1>1
  <1>3. ~ (x < c) /\ ~ (c < x)
    <2> HIDE DEF c
    <2>1. x < c => Rank(S, x) < Rank(S, c) /\ Rank(S, x) \in Nat
      BY <1>1, RankOfLess
    <2>2. c < x => Rank(S, c) < Rank(S, x) /\ Rank(S, x) \in Nat
      BY <1>1, RankOfLess
    <2>3. QED BY <1>1, <2>1, <2>2
  <1> HIDE DEF c
  <1>4. c = x
    BY <1>2, <1>3
  <1>5. QED BY <1>4 DEF c

(* A larger number comes last, and the others keep their places. *)
LEMMA RankWithLast ==
  ASSUME NEW S, Numbers(S), NEW n \in Nat, \A y \in S : y < n
  PROVE  /\ IsFiniteSet(S \cup {n}) /\ Cardinality(S \cup {n}) = Cardinality(S) + 1
         /\ Cardinality(S) \in Nat
         /\ Rank(S \cup {n}, n) = Cardinality(S) + 1
         /\ \A x \in S : Rank(S \cup {n}, x) = Rank(S, x)
  <1>0. IsFiniteSet(S) /\ S \in SUBSET Nat
    BY DEF Numbers
  <1>1. n \notin S
    OBVIOUS
  <1>2. /\ IsFiniteSet(S \cup {n}) /\ Cardinality(S \cup {n}) = Cardinality(S) + 1
        /\ Cardinality(S) \in Nat
    BY <1>0, <1>1, FS_AddElement, FS_CardinalityType
  <1>3. {y \in S \cup {n} : y <= n} = S \cup {n}
    <2>1. \A y \in S : y \in Nat /\ y <= n
      BY <1>0
    <2>2. n <= n
      OBVIOUS
    <2>3. QED BY <2>1, <2>2
  <1>4. ASSUME NEW x \in S PROVE {y \in S \cup {n} : y <= x} = {y \in S : y <= x}
    <2>1. x \in Nat /\ ~ (n <= x)
      BY <1>0
    <2>2. QED BY <2>1
  <1>5. QED BY <1>2, <1>3, <1>4 DEF Rank

\* There is one number of every rank.
LEMMA NthExists ==
  ASSUME NEW S, Numbers(S), NEW k \in 1 .. Cardinality(S)
  PROVE  Nth(S, k) \in S /\ Rank(S, Nth(S, k)) = k
  <1>0. IsFiniteSet(S) /\ S \in SUBSET Nat
    BY DEF Numbers
  <1> DEFINE Lacks(s) == \E i \in 1 .. Cardinality(s) : ~ \E x \in s : Rank(s, x) = i
             T == {s \in SUBSET S : Lacks(s)}
  <1>1. ASSUME T # {} PROVE FALSE
    <2>1. PICK m \in T : \A s \in T : s \subseteq m => s = m
      <3>1. T \subseteq SUBSET S /\ T # {}
        BY <1>1
      <3> HIDE DEF T
      <3>2. QED BY <3>1, SmallestOfNumbers
    <2>2. m \in SUBSET S /\ Lacks(m) /\ IsFiniteSet(m)
      BY <1>0, FS_Subset
    <2>3. PICK i \in 1 .. Cardinality(m) : ~ \E x \in m : Rank(m, x) = i
      BY <2>2
    <2>4. m # {}
      BY <2>3, FS_EmptySet
    <2>5. m \in SUBSET Nat
      BY <1>0, <2>2
    <2>6. PICK n \in m : \A y \in m : y <= n
      BY <2>2, <2>4, <2>5, LargestExists DEF Numbers
    <2> DEFINE r == m \ {n}
    <2>7. r \in SUBSET S /\ r \subseteq m /\ r # m /\ r \in SUBSET Nat /\ IsFiniteSet(r) /\ n \in Nat
      BY <2>2, <2>5, <2>6, FS_Subset
    <2>8. \A y \in r : y < n
      <3>1. \A y \in r : y \in Nat /\ y <= n /\ y # n
        BY <2>6, <2>7
      <3>2. QED BY <3>1, <2>7
    <2>9. m = r \cup {n}
      BY <2>6
    <2>10. ~ Lacks(r)
      BY <2>1, <2>7
    <2> HIDE DEF r, T
    <2>11. /\ Cardinality(m) = Cardinality(r) + 1 /\ Cardinality(r) \in Nat
           /\ Rank(m, n) = Cardinality(r) + 1
           /\ \A x \in r : Rank(m, x) = Rank(r, x)
      BY <2>7, <2>8, <2>9, RankWithLast DEF Numbers
    <2>12. i # Cardinality(r) + 1
      BY <2>3, <2>6, <2>11
    <2>13. i \in 1 .. Cardinality(r)
      BY <2>11, <2>12
    <2>14. PICK x \in r : Rank(r, x) = i
      BY <2>10, <2>13
    <2>15. QED BY <2>3, <2>9, <2>11, <2>14
  <1>2. ~ Lacks(S)
    BY <1>1
  <1>3. \E x \in S : Rank(S, x) = k
    BY <1>2
  <1>4. QED BY <1>3 DEF Nth, Rank

\* A larger number comes last, and the others stay where they are.
LEMMA NthWithLast ==
  ASSUME NEW S, Numbers(S), NEW n \in Nat, \A y \in S : y < n
  PROVE  /\ Nth(S \cup {n}, Cardinality(S) + 1) = n
         /\ \A k \in 1 .. Cardinality(S) : Nth(S \cup {n}, k) = Nth(S, k)
  <1>0. IsFiniteSet(S) /\ S \in SUBSET Nat
    BY DEF Numbers
  <1> DEFINE U == S \cup {n}
  <1>1. U \in SUBSET Nat /\ n \in U
    BY <1>0
  <1>2. /\ IsFiniteSet(U) /\ Rank(U, n) = Cardinality(S) + 1
        /\ \A x \in S : Rank(U, x) = Rank(S, x)
    BY RankWithLast
  <1> HIDE DEF U
  <1>3. Nth(U, Cardinality(S) + 1) = n
    BY <1>1, <1>2, NthIs DEF Numbers
  <1>4. ASSUME NEW k \in 1 .. Cardinality(S) PROVE Nth(U, k) = Nth(S, k)
    <2> DEFINE x == Nth(S, k)
    <2>1. x \in S /\ Rank(S, x) = k
      BY NthExists
    <2> HIDE DEF x
    <2>2. x \in U /\ Rank(U, x) = k
      BY <2>1, <1>2 DEF U
    <2>3. Nth(U, k) = x
      BY <2>2, <1>1, <1>2, NthIs DEF Numbers
    <2>4. QED BY <2>3 DEF x
  <1>5. QED BY <1>3, <1>4 DEF U

-----------------------------------------------------------------------------
(* The view file and the header. *)

HeaderItem == [type : ItemType, elements : Nat, length : Nat]
Entry == [label : {"BEGIN"}, name : ViewName] \cup [label : {"ITEM"}, item : HeaderItem]
         \cup {[label |-> "END"], [label |-> "COMMENT"]}
FileItem == [type : ItemType, count : Nat \ {0}, length : Nat]
Structure == [name : ViewName \cup {""}, items : Seq(FileItem)]

Opened == Len(structs) + (IF runSection = "STRUCT_SECTION" THEN 1 ELSE 0)

Same(entry, item) == /\ entry.label = "ITEM"
                     /\ Extent(entry.item) = SizeByType(item) * item.count
Describes(k, items) ==
  /\ Cardinality(MembersAfter(k)) = Len(items)
  /\ \A i \in 1 .. Len(items) : Same(validLine[Nth(MembersAfter(k), i)], items[i])

ViewTypes == /\ validLine \in Seq(Entry) /\ structs \in Seq(Structure) /\ structInfo \in Structure
             /\ runSection \in {"SPACE_SECTION", "STRUCT_SECTION"}
ClosedRight == \A j \in 1 .. Len(structs) :
                 EndsAfter(BeginOf(j)) # {} /\ Describes(BeginOf(j), structs[j].items)
OpenRight == runSection = "STRUCT_SECTION" =>
               EndsAfter(BeginOf(Opened)) = {} /\ Describes(BeginOf(Opened), structInfo.items)
FileRight == viewState = "measured" =>
               /\ runSection = "SPACE_SECTION"
               /\ \A i \in DOMAIN structs : \A k \in DOMAIN structs[i].items :
                     offsets[i][k] = Offset(DeclaredIn(i), k)
ViewInv == ViewTypes /\ Cardinality(Begins) = Opened /\ ClosedRight /\ OpenRight /\ FileRight

\* Line numbers of the header are such a set.
LEMMA NumbersOf ==
  ASSUME ViewTypes, NEW S \in SUBSET DOMAIN validLine
  PROVE  Numbers(S)
  <1>1. DOMAIN validLine = 1 .. Len(validLine) /\ Len(validLine) \in Nat
    BY DEF ViewTypes
  <1>2. IsFiniteSet(1 .. Len(validLine))
    BY <1>1, FS_Interval
  <1>3. IsFiniteSet(S)
    BY <1>1, <1>2, FS_Subset
  <1>4. QED BY <1>1, <1>3 DEF Numbers

\* The beginnings of structures.
LEMMA BeginsNumbers ==
  ASSUME ViewTypes
  PROVE  /\ Numbers(Begins) /\ Cardinality(Begins) \in Nat
         /\ \A j \in 1 .. Cardinality(Begins) : BeginOf(j) \in Begins
         /\ \A k \in Begins : k \in DOMAIN validLine
  <1>1. Begins \in SUBSET DOMAIN validLine
    BY DEF Begins
  <1>2. Numbers(Begins)
    BY <1>1, NumbersOf
  <1>3. Cardinality(Begins) \in Nat
    BY <1>2, FS_CardinalityType DEF Numbers
  <1>4. \A j \in 1 .. Cardinality(Begins) : BeginOf(j) \in Begins
    BY <1>2, NthExists DEF BeginOf
  <1>5. QED BY <1>1, <1>2, <1>3, <1>4

\* The members of a structure.
LEMMA MembersNumbers ==
  ASSUME ViewTypes, NEW k
  PROVE  /\ Numbers(MembersAfter(k)) /\ Cardinality(MembersAfter(k)) \in Nat
         /\ \A i \in 1 .. Cardinality(MembersAfter(k)) :
               Nth(MembersAfter(k), i) \in MembersAfter(k)
         /\ MembersAfter(k) \in SUBSET DOMAIN validLine
  <1>1. MembersAfter(k) \in SUBSET DOMAIN validLine
    BY DEF MembersAfter
  <1>2. Numbers(MembersAfter(k))
    BY <1>1, NumbersOf
  <1>3. Cardinality(MembersAfter(k)) \in Nat
    BY <1>2, FS_CardinalityType DEF Numbers
  <1>4. \A i \in 1 .. Cardinality(MembersAfter(k)) : Nth(MembersAfter(k), i) \in MembersAfter(k)
    BY <1>2, NthExists
  <1>5. QED BY <1>1, <1>2, <1>3, <1>4

\* What the header is when a line has been added.
LEMMA Appended ==
  ASSUME ViewTypes, NEW x \in Entry, validLine' = Append(validLine, x)
  PROVE  /\ validLine' \in Seq(Entry)
         /\ DOMAIN validLine = 1 .. Len(validLine) /\ Len(validLine) \in Nat
         /\ DOMAIN validLine' = 1 .. Len(validLine) + 1
         /\ DOMAIN validLine' = DOMAIN validLine \cup {Len(validLine) + 1}
         /\ \A k \in DOMAIN validLine : validLine'[k] = validLine[k] /\ k \in Nat /\ k < Len(validLine) + 1
         /\ validLine'[Len(validLine) + 1] = x
  <1>1. validLine \in Seq(Entry)
    BY DEF ViewTypes
  <1>2. /\ validLine' \in Seq(Entry) /\ Len(validLine') = Len(validLine) + 1
        /\ \A k \in 1 .. Len(validLine) : validLine'[k] = validLine[k]
        /\ validLine'[Len(validLine) + 1] = x
    BY <1>1, AppendProperties
  <1>3. DOMAIN validLine = 1 .. Len(validLine) /\ Len(validLine) \in Nat
    BY <1>1
  <1>4. DOMAIN validLine' = 1 .. Len(validLine')
    BY <1>2
  <1>5. QED BY <1>2, <1>3, <1>4

\* The beginnings then.
LEMMA BeginsThen ==
  ASSUME ViewTypes, NEW x \in Entry, validLine' = Append(validLine, x)
  PROVE  /\ x.label # "BEGIN" => Begins' = Begins
         /\ x.label = "BEGIN" => Begins' = Begins \cup {Len(validLine) + 1}
  BY Appended DEF Begins

\* The ends after a line, then.
LEMMA EndsThen ==
  ASSUME ViewTypes, NEW x \in Entry, validLine' = Append(validLine, x), NEW k \in DOMAIN validLine
  PROVE  /\ x.label # "END" => EndsAfter(k)' = EndsAfter(k)
         /\ x.label = "END" => EndsAfter(k)' = EndsAfter(k) \cup {Len(validLine) + 1}
  <1> DEFINE n == Len(validLine) + 1
  <1>1. \A e : e \in EndsAfter(k) <=> e \in DOMAIN validLine /\ e > k /\ validLine[e].label = "END"
    BY DEF EndsAfter
  <1>2. \A e : e \in EndsAfter(k)' <=> e \in DOMAIN validLine' /\ e > k /\ validLine'[e].label = "END"
    BY DEF EndsAfter
  <1>3. k < n /\ k \in Nat /\ n \in Nat
    BY Appended
  <1>4. \A e : e \in EndsAfter(k)' <=> e \in EndsAfter(k) \/ (e = n /\ x.label = "END")
    BY <1>1, <1>2, <1>3, Appended
  <1>5. QED BY <1>4

\* The members after a line, then: one more only of a structure that is open.
LEMMA MembersThen ==
  ASSUME ViewTypes, NEW x \in Entry, validLine' = Append(validLine, x), NEW k \in DOMAIN validLine
  PROVE  /\ ~ (x.label = "ITEM" /\ EndsAfter(k) = {}) => MembersAfter(k)' = MembersAfter(k)
         /\ x.label = "ITEM" /\ EndsAfter(k) = {} =>
               MembersAfter(k)' = MembersAfter(k) \cup {Len(validLine) + 1}
  <1> DEFINE n == Len(validLine) + 1
  <1>1. \A m : m \in MembersAfter(k) <=> /\ m \in DOMAIN validLine /\ m > k /\ validLine[m].label = "ITEM"
                                         /\ \A e \in EndsAfter(k) : m < e
    BY DEF MembersAfter
  <1>2. \A m : m \in MembersAfter(k)' <=> /\ m \in DOMAIN validLine' /\ m > k /\ validLine'[m].label = "ITEM"
                                          /\ \A e \in EndsAfter(k)' : m < e
    BY DEF MembersAfter
  <1>3. k < n /\ k \in Nat /\ n \in Nat
    BY Appended
  <1>4. \A e \in EndsAfter(k) : e \in DOMAIN validLine /\ e < n /\ e \in Nat
    BY Appended DEF EndsAfter
  <1>5. \A e : e \in EndsAfter(k)' <=> e \in EndsAfter(k) \/ (e = n /\ x.label = "END")
    BY EndsThen
  <1>6. ASSUME NEW m \in DOMAIN validLine PROVE m \in MembersAfter(k)' <=> m \in MembersAfter(k)
    <2>1. m < n /\ m \in DOMAIN validLine' /\ validLine'[m] = validLine[m]
      BY Appended
    <2>2. (\A e \in EndsAfter(k)' : m < e) <=> (\A e \in EndsAfter(k) : m < e)
      BY <2>1, <1>5
    <2>3. QED BY <1>1, <1>2, <2>1, <2>2
  <1>7. n \in MembersAfter(k)' <=> x.label = "ITEM" /\ EndsAfter(k) = {}
    <2>1. n \in DOMAIN validLine' /\ validLine'[n] = x /\ n > k
      BY <1>3, Appended
    <2>2. x.label = "ITEM" => EndsAfter(k)' = EndsAfter(k)
      BY <1>5
    <2>3. \A e \in EndsAfter(k) : ~ (n < e)
      BY <1>3, <1>4
    <2>4. QED BY <1>2, <2>1, <2>2, <2>3
  <1>8. \A m : m \in MembersAfter(k)' => m \in DOMAIN validLine \/ m = n
    BY <1>2, Appended
  <1>9. \A m : m \in MembersAfter(k) => m \in DOMAIN validLine
    BY <1>1
  <1>10. n \notin MembersAfter(k)
    <2>1. n \notin DOMAIN validLine
      BY Appended
    <2>2. QED BY <2>1, <1>9
  <1>11. QED BY <1>6, <1>7, <1>8, <1>9, <1>10

(* An entry that is no member of a structure leaves its description right. *)
LEMMA DescribesStill ==
  ASSUME ViewTypes, NEW x \in Entry, validLine' = Append(validLine, x), NEW k \in DOMAIN validLine,
         NEW items, Describes(k, items), ~ (x.label = "ITEM" /\ EndsAfter(k) = {})
  PROVE  /\ Cardinality(MembersAfter(k)') = Len(items)
         /\ \A i \in 1 .. Len(items) : Same(validLine'[Nth(MembersAfter(k)', i)], items[i])
  <1>1. MembersAfter(k)' = MembersAfter(k)
    BY MembersThen
  <1>2. \A i \in 1 .. Len(items) : Nth(MembersAfter(k), i) \in DOMAIN validLine
    BY MembersNumbers DEF Describes
  <1>3. \A i \in 1 .. Len(items) : validLine'[Nth(MembersAfter(k), i)] = validLine[Nth(MembersAfter(k), i)]
    BY <1>2, Appended
  <1>4. QED BY <1>1, <1>3 DEF Describes

(* A member that is read becomes the last of the open structure. *)
LEMMA DescribesMore ==
  ASSUME ViewTypes, NEW x \in Entry, validLine' = Append(validLine, x), NEW k \in DOMAIN validLine,
         NEW items \in Seq(FileItem), Describes(k, items), x.label = "ITEM", EndsAfter(k) = {},
         NEW item \in FileItem, Same(x, item)
  PROVE  /\ Cardinality(MembersAfter(k)') = Len(Append(items, item))
         /\ \A i \in 1 .. Len(Append(items, item)) :
               Same(validLine'[Nth(MembersAfter(k)', i)], Append(items, item)[i])
  <1> DEFINE n == Len(validLine) + 1  M == MembersAfter(k)  U == MembersAfter(k)'
             more == Append(items, item)
  <1>1. U = M \cup {n} /\ n \in Nat
    <2>1. MembersAfter(k)' = MembersAfter(k) \cup {Len(validLine) + 1}
      BY MembersThen
    <2>2. Len(validLine) \in Nat
      BY Appended
    <2>3. QED BY <2>1, <2>2
  <1>2. Numbers(M) /\ Cardinality(M) \in Nat /\ M \in SUBSET DOMAIN validLine
        /\ \A i \in 1 .. Cardinality(M) : Nth(M, i) \in M
    BY MembersNumbers
  <1>3. \A y \in M : y < n
    BY <1>2, Appended
  <1>4. Len(items) = Cardinality(M) /\ \A i \in 1 .. Cardinality(M) : Same(validLine[Nth(M, i)], items[i])
    BY DEF Describes
  <1>5. /\ Len(more) = Cardinality(M) + 1
        /\ \A i \in 1 .. Cardinality(M) : more[i] = items[i]
        /\ more[Cardinality(M) + 1] = item
    <2>1. Len(more) = Len(items) + 1 /\ (\A i \in 1 .. Len(items) : more[i] = items[i])
          /\ more[Len(items) + 1] = item
      BY AppendProperties
    <2> HIDE DEF M, more
    <2>2. QED BY <2>1, <1>4
  <1>6. \A y \in M : validLine'[y] = validLine[y]
    BY <1>2, Appended
  <1>7. validLine'[n] = x
    BY Appended
  <1> HIDE DEF M, U, n, more
  <1>8. /\ Nth(U, Cardinality(M) + 1) = n
        /\ \A i \in 1 .. Cardinality(M) : Nth(U, i) = Nth(M, i)
        /\ Cardinality(U) = Cardinality(M) + 1
    <2>1. Nth(M \cup {n}, Cardinality(M) + 1) = n
          /\ \A i \in 1 .. Cardinality(M) : Nth(M \cup {n}, i) = Nth(M, i)
      BY <1>1, <1>2, <1>3, NthWithLast
    <2>2. Cardinality(M \cup {n}) = Cardinality(M) + 1
      BY <1>1, <1>2, <1>3, RankWithLast
    <2>3. QED BY <1>1, <2>1, <2>2
  <1>9. ASSUME NEW i \in 1 .. Cardinality(M) + 1 PROVE Same(validLine'[Nth(U, i)], more[i])
    <2>1. CASE i = Cardinality(M) + 1
      BY <2>1, <1>5, <1>7, <1>8
    <2>2. CASE i # Cardinality(M) + 1
      <3>1. i \in 1 .. Cardinality(M)
        BY <1>2, <2>2
      <3>2. Nth(U, i) = Nth(M, i) /\ more[i] = items[i] /\ Nth(M, i) \in M
        BY <1>2, <1>5, <1>8, <3>1
      <3>3. QED BY <1>4, <1>6, <3>1, <3>2
    <2>3. QED BY <2>1, <2>2
  <1>10. Cardinality(U) = Len(more) /\ \A i \in 1 .. Len(more) : Same(validLine'[Nth(U, i)], more[i])
    BY <1>5, <1>8, <1>9
  <1>11. QED BY <1>10 DEF U, more

(* The beginnings that have been read keep their places. *)
LEMMA BeginStays ==
  ASSUME ViewTypes, NEW x \in Entry, validLine' = Append(validLine, x), NEW c \in Nat,
         Cardinality(Begins) = c
  PROVE  /\ \A j \in 1 .. c : BeginOf(j)' = BeginOf(j)
         /\ x.label = "BEGIN" => Cardinality(Begins)' = c + 1 /\ BeginOf(c + 1)' = Len(validLine) + 1
         /\ x.label # "BEGIN" => Cardinality(Begins)' = c
  <1> DEFINE n == Len(validLine) + 1
  <1>1. PICK B, U : B = Begins /\ U = Begins'
    OBVIOUS
  <1>2. Numbers(B) /\ n \in Nat /\ \A y \in B : y < n
    BY <1>1, BeginsNumbers, Appended
  <1>3. (x.label # "BEGIN" => U = B) /\ (x.label = "BEGIN" => U = B \cup {n})
    BY <1>1, BeginsThen
  <1>4. Nth(B \cup {n}, c + 1) = n /\ \A j \in 1 .. c : Nth(B \cup {n}, j) = Nth(B, j)
    <2> HIDE DEF n
    <2>1. QED BY <1>1, <1>2, NthWithLast
  <1>5. Cardinality(B \cup {n}) = c + 1
    <2> HIDE DEF n
    <2>1. QED BY <1>1, <1>2, RankWithLast
  <1>6. (\A j : BeginOf(j) = Nth(B, j)) /\ (\A j : BeginOf(j)' = Nth(U, j))
    BY <1>1 DEF BeginOf
  <1>7. Cardinality(Begins)' = Cardinality(U)
    BY <1>1
  <1> HIDE DEF n
  <1>8. CASE x.label = "BEGIN"
    <2>1. U = B \cup {n}
      BY <1>3, <1>8
    <2>2. (\A j \in 1 .. c : BeginOf(j)' = BeginOf(j)) /\ Cardinality(Begins)' = c + 1
          /\ BeginOf(c + 1)' = n
      BY <2>1, <1>4, <1>5, <1>6, <1>7
    <2>3. QED BY <2>2, <1>8 DEF n
  <1>9. CASE x.label # "BEGIN"
    <2>1. U = B
      BY <1>3, <1>9
    <2>2. QED BY <2>1, <1>1, <1>6, <1>7, <1>9
  <1>10. QED BY <1>8, <1>9

(* What an entry leaves alone: the structures that are closed, and the open *)
(* one when it is no member.                                                *)
LEMMA ClosedStays ==
  ASSUME ViewTypes, NEW x \in Entry, validLine' = Append(validLine, x),
         NEW j \in 1 .. Cardinality(Begins), NEW items, Describes(BeginOf(j), items),
         ~ (x.label = "ITEM" /\ EndsAfter(BeginOf(j)) = {})
  PROVE  Describes(BeginOf(j), items)'
  <1>0. Cardinality(Begins) \in Nat
    BY BeginsNumbers
  <1>1. PICK k \in DOMAIN validLine : BeginOf(j)' = k /\ BeginOf(j) = k
    <2>1. BeginOf(j)' = BeginOf(j)
      BY <1>0, BeginStays
    <2>2. QED BY <2>1, BeginsNumbers
  <1>2. Describes(k, items) /\ ~ (x.label = "ITEM" /\ EndsAfter(k) = {})
    BY <1>1
  <1>3. /\ Cardinality(MembersAfter(k)') = Len(items)
        /\ \A i \in 1 .. Len(items) : Same(validLine'[Nth(MembersAfter(k)', i)], items[i])
    BY <1>1, <1>2, DescribesStill
  <1>4. Describes(k, items)'
    BY <1>3 DEF Describes
  <1>5. Describes(BeginOf(j), items)' <=> Describes(k, items)'
    BY <1>1 DEF Describes, MembersAfter, EndsAfter
  <1>6. QED BY <1>4, <1>5

(* An END is still there when more has been read. *)
LEMMA EndsStay ==
  ASSUME ViewTypes, NEW x \in Entry, validLine' = Append(validLine, x),
         NEW j \in 1 .. Cardinality(Begins)
  PROVE  /\ EndsAfter(BeginOf(j)) # {} => EndsAfter(BeginOf(j))' # {}
         /\ x.label # "END" => EndsAfter(BeginOf(j))' = EndsAfter(BeginOf(j))
         /\ x.label = "END" => EndsAfter(BeginOf(j))' # {}
  <1>0. Cardinality(Begins) \in Nat
    BY BeginsNumbers
  <1>1. PICK k \in DOMAIN validLine : BeginOf(j)' = k /\ BeginOf(j) = k
    <2>1. BeginOf(j)' = BeginOf(j)
      BY <1>0, BeginStays
    <2>2. QED BY <2>1, BeginsNumbers
  <1>2. EndsAfter(BeginOf(j))' = EndsAfter(k)' /\ EndsAfter(BeginOf(j)) = EndsAfter(k)
    BY <1>1 DEF EndsAfter
  <1>3. QED BY <1>2, EndsThen

(* The member the header declares is as long as the item of the file. *)
LEMMA SameItem ==
  ASSUME NEW line \in ItemLine, ~ (line.type = "string" /\ line.length = 0)
  PROVE  /\ ItemOf(line) \in FileItem
         /\ [label |-> "ITEM", item |-> Declared(line)] \in Entry
         /\ Same([label |-> "ITEM", item |-> Declared(line)], ItemOf(line))
  <1> DEFINE w == Width[line.type]  c == IF line.count < 1 THEN 1 ELSE line.count  n == line.length
  <1>1. line.type \in ItemType /\ w \in Nat /\ line.count \in Int /\ n \in Nat /\ c \in Nat \ {0}
    <2>1. line.type \in ItemType /\ line.count \in Count /\ line.length \in Length
      BY DEF ItemLine
    <2>2. line.count \in Int /\ line.length \in Nat /\ w \in Nat
      BY <2>1, ViewFileAssumption
    <2>3. QED BY <2>1, <2>2
  <1>2. line.type = "string" => w = 1 /\ n # 0
    BY <1>1, ViewFileAssumption
  <1>3. ItemOf(line) = [type |-> line.type, count |-> c, length |-> IF line.type = "string" THEN n ELSE 0]
    BY DEF ItemOf
  <1>4. Declared(line) = [type |-> line.type, elements |-> IF line.count > 1 THEN line.count ELSE 0,
                          length |-> IF line.type = "string" THEN n ELSE 0]
    BY DEF Declared
  <1>5. Declared(line) \in HeaderItem
    BY <1>1, <1>4 DEF HeaderItem
  <1>6. ItemOf(line) \in FileItem
    BY <1>1, <1>3 DEF FileItem
  <1>7. Times(Declared(line).elements) = c
    BY <1>1, <1>4 DEF Times
  <1>8. Extent(Declared(line)) = w * c * Times(IF line.type = "string" THEN n ELSE 0)
    BY <1>4, <1>7 DEF Extent
  <1>9. SizeByType(ItemOf(line)) = IF line.type = "string" THEN n ELSE w
    BY <1>3 DEF SizeByType
  <1>10. Extent(Declared(line)) = SizeByType(ItemOf(line)) * c
    <2> HIDE DEF w, c, n
    <2>1. CASE line.type = "string"
      <3>1. Extent(Declared(line)) = 1 * c * n
        BY <2>1, <1>2, <1>8 DEF Times
      <3>2. 1 * c * n = n * c
        BY <1>1
      <3>3. QED BY <2>1, <3>1, <3>2, <1>9
    <2>2. CASE line.type # "string"
      <3>1. Extent(Declared(line)) = w * c * 1
        BY <2>2, <1>8 DEF Times
      <3>2. w * c * 1 = w * c
        BY <1>1
      <3>3. QED BY <2>2, <3>1, <3>2, <1>9
    <2>3. QED BY <2>1, <2>2
  <1>11. ItemOf(line).count = c
    BY <1>3
  <1>12. QED BY <1>5, <1>6, <1>10, <1>11 DEF Entry, Same

\* A view file begins with nothing read.
LEMMA ViewInitKeeps == ViewInit => ViewInv
  <1> SUFFICES ASSUME ViewInit PROVE ViewInv
    OBVIOUS
  <1>1. /\ runSection = "SPACE_SECTION" /\ structs = <<>> /\ validLine = <<>> /\ viewState = "reading"
    BY Zenon DEF ViewInit
  <1>2. structInfo \in Structure
    <2>1. structInfo = [name |-> "", items |-> <<>>]
      BY Zenon DEF ViewInit
    <2>2. <<>> \in Seq(FileItem)
      OBVIOUS
    <2>3. "" \in ViewName \cup {""}
      BY Zenon
    <2>4. QED BY <2>1, <2>2, <2>3, Zenon DEF Structure
  <1>3. ViewTypes
    BY <1>1, <1>2 DEF ViewTypes
  <1>4. Begins = {}
    BY <1>1 DEF Begins
  <1>5. Cardinality(Begins) = Opened
    BY <1>1, <1>4, FS_EmptySet DEF Opened
  <1>6. ClosedRight /\ OpenRight /\ FileRight
    BY <1>1 DEF ClosedRight, OpenRight, FileRight
  <1>7. QED BY <1>3, <1>5, <1>6 DEF ViewInv

(* What has not changed is as right as it was. *)
LEMMA ViewSame ==
  ASSUME ViewInv, UNCHANGED <<validLine, structs, structInfo, runSection>>, FileRight'
  PROVE  ViewInv'
  <1>1. ViewTypes'
    BY DEF ViewInv, ViewTypes
  <1>2. Cardinality(Begins)' = Cardinality(Begins) /\ Opened' = Opened
    BY DEF Begins, Opened
  <1>3. ClosedRight' <=> ClosedRight
    BY DEF ClosedRight, EndsAfter, Describes, BeginOf, Begins, MembersAfter
  <1>4. OpenRight' <=> OpenRight
    BY DEF OpenRight, Opened, EndsAfter, Describes, BeginOf, Begins, MembersAfter
  <1>5. QED BY <1>1, <1>2, <1>3, <1>4 DEF ViewInv

(* The structures that are closed stay right whatever is read. *)
LEMMA ClosedKeeps ==
  ASSUME ViewInv, NEW x \in Entry, validLine' = Append(validLine, x)
  PROVE  \A j \in 1 .. Len(structs) :
            EndsAfter(BeginOf(j))' # {} /\ Describes(BeginOf(j), structs[j].items)
            /\ \A items : items = structs[j].items => Describes(BeginOf(j), items)'
  <1>1. ViewTypes /\ Cardinality(Begins) = Opened /\ Len(structs) \in Nat
    BY DEF ViewInv, ViewTypes
  <1>2. TAKE j \in 1 .. Len(structs)
  <1>3. j \in 1 .. Cardinality(Begins)
    BY <1>1 DEF Opened
  <1>4. EndsAfter(BeginOf(j)) # {} /\ Describes(BeginOf(j), structs[j].items)
    BY DEF ViewInv, ClosedRight
  <1>5. EndsAfter(BeginOf(j))' # {}
    BY <1>1, <1>3, <1>4, EndsStay
  <1>6. ASSUME NEW items, items = structs[j].items PROVE Describes(BeginOf(j), items)'
    BY <1>1, <1>3, <1>4, <1>6, ClosedStays
  <1>7. QED BY <1>4, <1>5, <1>6

\* An item is added to the structure that is open, in the header and in the
\* description.
LEMMA ItemKeeps ==
  ASSUME ViewInv, viewState = "reading", NEW line \in ItemLine, ReadItem(line)
  PROVE  ViewInv'
  <1>1. CASE runSection # "STRUCT_SECTION" \/ (line.type = "string" /\ line.length = 0)
    BY <1>1, ViewSame DEF ReadItem, Refuse, FileRight
  <1>2. CASE ~ (runSection # "STRUCT_SECTION" \/ (line.type = "string" /\ line.length = 0))
    <2> DEFINE x == [label |-> "ITEM", item |-> Declared(line)]  item == ItemOf(line)
    <2>1. /\ validLine' = Append(validLine, x)
          /\ structInfo' = [structInfo EXCEPT !.items = Append(structInfo.items, item)]
          /\ runSection = "STRUCT_SECTION" /\ UNCHANGED <<runSection, structs, viewState>>
      BY <1>2 DEF ReadItem
    <2>2. x \in Entry /\ item \in FileItem /\ Same(x, item) /\ x.label = "ITEM"
      BY <1>2, SameItem
    <2> HIDE DEF x, item
    <2>3. ViewTypes /\ Cardinality(Begins) = Opened /\ Len(structs) \in Nat
          /\ Opened = Len(structs) + 1
      BY <2>1 DEF ViewInv, ViewTypes, Opened
    <2>4. structInfo \in Structure
      BY <2>3 DEF ViewTypes
    <2>5. PICK items \in Seq(FileItem) : items = structInfo.items
      BY <2>4 DEF Structure
    <2>6. structInfo' \in Structure /\ structInfo'.items = Append(items, item)
      <3>1. Append(items, item) \in Seq(FileItem)
        BY <2>2, <2>5, AppendProperties
      <3>2. QED BY <2>1, <2>4, <2>5, <3>1 DEF Structure
    <2>7. ViewTypes'
      <3>1. validLine' \in Seq(Entry)
        BY <2>1, <2>2, <2>3, Appended
      <3>2. QED BY <2>1, <2>3, <2>6, <3>1 DEF ViewTypes
    <2>8. Opened' = Opened
      BY <2>1 DEF Opened
    <2>9. PICK c \in Nat : c = Opened
      BY <2>3
    <2>10. Cardinality(Begins)' = c /\ BeginOf(c)' = BeginOf(c)
      BY <2>1, <2>2, <2>3, <2>9, BeginStays
    <2>11. ClosedRight'
      BY <2>1, <2>2, ClosedKeeps DEF ClosedRight
    <2>12. OpenRight'
      <3>1. EndsAfter(BeginOf(c)) = {} /\ Describes(BeginOf(c), items)
        BY <2>1, <2>5, <2>9 DEF ViewInv, OpenRight
      <3>2. c \in 1 .. Cardinality(Begins)
        BY <2>3, <2>9
      <3>3. EndsAfter(BeginOf(c))' = {}
        BY <2>1, <2>2, <2>3, <3>1, <3>2, EndsStay
      <3>4. PICK k \in DOMAIN validLine : BeginOf(c)' = k /\ BeginOf(c) = k
        BY <2>3, <2>10, <3>2, BeginsNumbers
      <3>5. PICK more : more = Append(items, item)
        OBVIOUS
      <3>6. Describes(k, more)'
        <4>1. Describes(k, items) /\ EndsAfter(k) = {}
          BY <3>1, <3>4
        <4>2. /\ Cardinality(MembersAfter(k)') = Len(Append(items, item))
              /\ \A i \in 1 .. Len(Append(items, item)) :
                    Same(validLine'[Nth(MembersAfter(k)', i)], Append(items, item)[i])
          BY <2>1, <2>2, <2>3, <4>1, DescribesMore
        <4>3. QED BY <3>5, <4>2 DEF Describes
      <3>7. Describes(BeginOf(c), more)' <=> Describes(k, more)'
        BY <3>4 DEF Describes, MembersAfter, EndsAfter
      <3>8. Opened' = c
        BY <2>8, <2>9
      <3>9. structInfo'.items = more
        BY <2>6, <3>5
      <3>10. Describes(BeginOf(Opened), structInfo.items)' <=> Describes(BeginOf(c), more)'
        BY <3>8, <3>9 DEF Describes, MembersAfter, EndsAfter, BeginOf, Begins
      <3>11. EndsAfter(BeginOf(Opened))' = EndsAfter(BeginOf(c))'
        BY <3>8 DEF EndsAfter, BeginOf, Begins
      <3>12. QED BY <3>3, <3>6, <3>7, <3>10, <3>11 DEF OpenRight
    <2>13. FileRight'
      BY <2>1 DEF FileRight
    <2>14. Cardinality(Begins)' = Opened'
      BY <2>8, <2>9, <2>10
    <2>15. QED BY <2>7, <2>11, <2>12, <2>13, <2>14 DEF ViewInv
  <1>3. QED BY <1>1, <1>2

\* VIEW opens one structure in both.
LEMMA BeginKeeps ==
  ASSUME ViewInv, viewState = "reading", NEW line \in ViewLine, ReadView(line)
  PROVE  ViewInv'
  <1>1. CASE runSection # "SPACE_SECTION" \/ structItemNum # 0
    BY <1>1, ViewSame DEF ReadView, Refuse, FileRight
  <1>2. CASE ~ (runSection # "SPACE_SECTION" \/ structItemNum # 0)
    <2> DEFINE x == [label |-> "BEGIN", name |-> line.name]
    <2>1. /\ validLine' = Append(validLine, x) /\ runSection = "SPACE_SECTION"
          /\ runSection' = "STRUCT_SECTION" /\ structInfo' = [name |-> line.name, items |-> <<>>]
          /\ UNCHANGED <<structs, viewState>>
      BY <1>2 DEF ReadView
    <2>2. x \in Entry /\ x.label = "BEGIN" /\ line.name \in ViewName
      BY DEF Entry, ViewLine
    <2> HIDE DEF x
    <2>3. ViewTypes /\ Cardinality(Begins) = Opened /\ Len(structs) \in Nat /\ Opened = Len(structs)
      BY <2>1 DEF ViewInv, ViewTypes, Opened
    <2>4. structInfo' \in Structure
      <3>1. <<>> \in Seq(FileItem)
        OBVIOUS
      <3>2. QED BY <2>1, <2>2, <3>1, Zenon DEF Structure
    <2>5. ViewTypes'
      <3>1. validLine' \in Seq(Entry)
        BY <2>1, <2>2, <2>3, Appended
      <3>2. QED BY <2>1, <2>3, <2>4, <3>1 DEF ViewTypes
    <2>6. PICK c \in Nat : c = Len(structs)
      BY <2>3
    <2>7. Opened' = c + 1
      BY <2>1, <2>6 DEF Opened
    <2>8. Cardinality(Begins)' = c + 1 /\ BeginOf(c + 1)' = Len(validLine) + 1
      BY <2>1, <2>2, <2>3, <2>6, BeginStays
    <2>9. ClosedRight'
      BY <2>1, <2>2, ClosedKeeps DEF ClosedRight
    <2>10. OpenRight'
      <3>1. PICK k : k = Len(validLine) + 1
        OBVIOUS
      <3>2. EndsAfter(k)' = {} /\ MembersAfter(k)' = {}
        <4>1. \A e \in DOMAIN validLine' : e \in Nat /\ ~ (e > k)
          BY <2>1, <2>2, <2>3, <3>1, Appended
        <4>2. QED BY <4>1 DEF EndsAfter, MembersAfter
      <3>3. EndsAfter(BeginOf(Opened))' = {} /\ MembersAfter(BeginOf(Opened))' = {}
        <4>1. BeginOf(Opened)' = BeginOf(c + 1)'
          BY <2>7 DEF BeginOf, Begins
        <4>2. BeginOf(Opened)' = k
          BY <4>1, <2>8, <3>1
        <4>3. QED BY <3>2, <4>2 DEF EndsAfter, MembersAfter
      <3>4. Len(structInfo'.items) = 0
        BY <2>1
      <3>5. Describes(BeginOf(Opened), structInfo.items)'
        BY <3>3, <3>4, FS_EmptySet DEF Describes
      <3>6. QED BY <3>3, <3>5 DEF OpenRight
    <2>11. FileRight'
      BY <2>1 DEF FileRight
    <2>12. QED BY <2>5, <2>7, <2>8, <2>9, <2>10, <2>11 DEF ViewInv
  <1>3. QED BY <1>1, <1>2

\* END closes it in both.
LEMMA EndKeeps ==
  ASSUME ViewInv, viewState = "reading", ReadEnd
  PROVE  ViewInv'
  <1>1. CASE runSection # "STRUCT_SECTION" \/ structItemNum = 0
    BY <1>1, ViewSame DEF ReadEnd, Refuse, FileRight
  <1>2. CASE ~ (runSection # "STRUCT_SECTION" \/ structItemNum = 0)
    <2> DEFINE x == [label |-> "END"]
    <2>1. /\ validLine' = Append(validLine, x) /\ runSection = "STRUCT_SECTION"
          /\ runSection' = "SPACE_SECTION" /\ structs' = Append(structs, structInfo)
          /\ UNCHANGED <<structInfo, viewState>>
      BY <1>2 DEF ReadEnd
    <2>2. x \in Entry /\ x.label = "END"
      BY DEF Entry
    <2> HIDE DEF x
    <2>3. ViewTypes /\ Cardinality(Begins) = Opened /\ Len(structs) \in Nat
          /\ Opened = Len(structs) + 1 /\ structs \in Seq(Structure) /\ structInfo \in Structure
      BY <2>1 DEF ViewInv, ViewTypes, Opened
    <2>4. PICK c \in Nat : c = Len(structs) + 1
      BY <2>3
    <2>5. /\ structs' \in Seq(Structure) /\ Len(structs') = c /\ structs'[c] = structInfo
          /\ \A j \in 1 .. Len(structs) : structs'[j] = structs[j]
      BY <2>1, <2>3, <2>4, AppendProperties
    <2>6. ViewTypes'
      <3>1. validLine' \in Seq(Entry)
        BY <2>1, <2>2, <2>3, Appended
      <3>2. QED BY <2>1, <2>3, <2>5, <3>1 DEF ViewTypes
    <2>7. Opened' = c
      BY <2>1, <2>4, <2>5 DEF Opened
    <2>8. Cardinality(Begins)' = c
      BY <2>1, <2>2, <2>3, <2>4, BeginStays
    <2>9. ClosedRight'
      <3>1. ASSUME NEW j \in 1 .. c
            PROVE  EndsAfter(BeginOf(j))' # {} /\ Describes(BeginOf(j), structs[j].items)'
        <4>1. CASE j = c
          <5>1. c \in 1 .. Cardinality(Begins)
            BY <2>3, <2>4
          <5>2. PICK items : items = structInfo.items
            OBVIOUS
          <5>3. Describes(BeginOf(c), items)
            BY <2>1, <2>3, <2>4, <5>2 DEF ViewInv, OpenRight
          <5>4. Describes(BeginOf(c), items)'
            BY <2>1, <2>2, <2>3, <5>1, <5>3, ClosedStays
          <5>5. structs'[c].items = items
            BY <2>5, <5>2
          <5>6. Describes(BeginOf(c), structs[c].items)' <=> Describes(BeginOf(c), items)'
            BY <5>5 DEF Describes
          <5>7. EndsAfter(BeginOf(c))' # {}
            BY <2>1, <2>2, <2>3, <5>1, EndsStay
          <5>8. QED BY <4>1, <5>4, <5>6, <5>7
        <4>2. CASE j # c
          <5>1. j \in 1 .. Len(structs)
            BY <2>3, <2>4, <4>2
          <5>2. PICK items : items = structs[j].items
            OBVIOUS
          <5>3. Describes(BeginOf(j), items)' /\ EndsAfter(BeginOf(j))' # {}
            BY <2>1, <2>2, <5>1, <5>2, ClosedKeeps
          <5>4. structs'[j].items = items
            BY <2>5, <5>1, <5>2
          <5>5. Describes(BeginOf(j), structs[j].items)' <=> Describes(BeginOf(j), items)'
            BY <5>4 DEF Describes
          <5>6. QED BY <5>3, <5>5
        <4>3. QED BY <4>1, <4>2
      <3>2. QED BY <2>5, <3>1 DEF ClosedRight
    <2>10. OpenRight' /\ FileRight'
      BY <2>1 DEF OpenRight, FileRight
    <2>11. QED BY <2>6, <2>7, <2>8, <2>9, <2>10 DEF ViewInv
  <1>3. QED BY <1>1, <1>2

\* There are finitely many items.
LEMMA PlacesFinite ==
  ASSUME ViewTypes
  PROVE  IsFiniteSet(ItemPlaces)
  <1> DEFINE Row(i) == {<<i, k>> : k \in DOMAIN structs[i].items}
             rows == {Row(i) : i \in DOMAIN structs}
  <1>1. DOMAIN structs = 1 .. Len(structs) /\ Len(structs) \in Nat
        /\ \A i \in DOMAIN structs : structs[i] \in Structure
    BY DEF ViewTypes
  <1>2. ASSUME NEW i \in DOMAIN structs PROVE IsFiniteSet(Row(i))
    <2> DEFINE D == DOMAIN structs[i].items  f == [k \in D |-> <<i, k>>]
    <2>1. structs[i].items \in Seq(FileItem)
      BY <1>1 DEF Structure
    <2>2. D = 1 .. Len(structs[i].items) /\ Len(structs[i].items) \in Nat
      BY <2>1
    <2>3. IsFiniteSet(D)
      BY <2>2, FS_Interval
    <2>4. f \in Surjection(D, Row(i))
      <3> HIDE DEF D
      <3>1. QED BY DEF Surjection, D
    <2>5. QED
      <3> HIDE DEF D, f, Row
      <3>1. QED BY <2>3, <2>4, FS_Surjection
  <1>3. IsFiniteSet(rows)
    <2> DEFINE D == DOMAIN structs  f == [i \in D |-> Row(i)]
    <2>1. IsFiniteSet(D)
      BY <1>1, FS_Interval
    <2>2. f \in Surjection(D, rows)
      <3> HIDE DEF Row
      <3>1. QED BY DEF Surjection
    <2>3. QED
      <3> HIDE DEF D, f, rows
      <3>1. QED BY <2>1, <2>2, FS_Surjection
  <1>4. \A T \in rows : IsFiniteSet(T)
    <2> HIDE DEF Row
    <2>1. QED BY <1>2
  <1>5. ItemPlaces = UNION rows
    BY DEF ItemPlaces
  <1>6. QED
    <2> HIDE DEF rows
    <2>1. QED BY <1>3, <1>4, <1>5, FS_UNION

(* Two items have two places in the array of offsets. *)
LEMMA FlatIndexOne ==
  ASSUME ViewTypes, NEW p \in ItemPlaces, NEW q \in ItemPlaces, FlatIndex(p) = FlatIndex(q)
  PROVE  p = q
  <1>1. ASSUME NEW r \in ItemPlaces
        PROVE  r[1] \in Nat /\ r[2] \in Nat /\ r = <<r[1], r[2]>>
    <2>1. PICK i \in DOMAIN structs : \E k \in DOMAIN structs[i].items : r = <<i, k>>
      BY DEF ItemPlaces
    <2>2. PICK k \in DOMAIN structs[i].items : r = <<i, k>>
      BY <2>1
    <2>3. structs \in Seq(Structure)
      BY DEF ViewTypes
    <2>4. i \in Nat /\ structs[i] \in Structure
      BY <2>3
    <2>5. structs[i].items \in Seq(FileItem)
      BY <2>4 DEF Structure
    <2>6. k \in Nat
      BY <2>5
    <2>7. QED BY <2>2, <2>4, <2>6
  <1> DEFINE Before(r, t) == r[1] < t[1] \/ (r[1] = t[1] /\ r[2] < t[2])
  <1>2. ASSUME NEW r \in ItemPlaces, NEW t \in ItemPlaces, Before(r, t)
        PROVE  FlatIndex(r) # FlatIndex(t)
    <2>0. PICK R, T : R = UpTo(r) /\ T = UpTo(t)
      OBVIOUS
    <2>1. \A x \in ItemPlaces : (x \in R <=> x[1] < r[1] \/ (x[1] = r[1] /\ x[2] <= r[2]))
                         /\ (x \in T <=> x[1] < t[1] \/ (x[1] = t[1] /\ x[2] <= t[2]))
      BY <2>0 DEF UpTo
    <2>2. R \in SUBSET ItemPlaces /\ T \in SUBSET ItemPlaces
      BY <2>0 DEF UpTo
    <2>3. \A x \in ItemPlaces : x \in R => x \in T
      BY <1>1, <1>2, <2>1
    <2>4. t \in T /\ t \notin R
      <3>1. r[1] \in Nat /\ r[2] \in Nat /\ t[1] \in Nat /\ t[2] \in Nat
        BY <1>1
      <3>2. QED BY <1>2, <2>1, <3>1
    <2>5. R \in SUBSET T /\ R # T
      BY <2>2, <2>3, <2>4
    <2>6. IsFiniteSet(T)
      BY <2>2, PlacesFinite, FS_Subset
    <2>7. Cardinality(R) # Cardinality(T)
      BY <2>5, <2>6, FS_Subset
    <2>8. QED BY <2>0, <2>7 DEF FlatIndex
  <1>3. Before(p, q) \/ Before(q, p) \/ p = q
    <2>1. /\ p[1] \in Nat /\ p[2] \in Nat /\ p = <<p[1], p[2]>>
          /\ q[1] \in Nat /\ q[2] \in Nat /\ q = <<q[1], q[2]>>
      BY <1>1
    <2>2. p[1] = q[1] /\ p[2] = q[2] => p = q
      BY <2>1
    <2>3. QED BY <2>1, <2>2
  <1> HIDE DEF Before
  <1>4. QED BY <1>2, <1>3

\* genviewbinfile gives each item the offset that was measured for it.
LEMMA MeasureKeeps ==
  ASSUME ViewInv, Measure
  PROVE  ViewInv'
  <1>1. UNCHANGED <<validLine, structs, structInfo, runSection>>
    BY DEF Measure
  <1>2. FileRight'
    <2>1. CASE viewState' # "measured"
      BY <2>1 DEF FileRight
    <2>2. CASE viewState' = "measured"
      <3>1. runSection # "STRUCT_SECTION"
            /\ offsets' = [i \in DOMAIN structs |->
                              [k \in DOMAIN structs[i].items |-> Measured[ItemIndex(i, k)]]]
        BY <2>2 DEF Measure
      <3>2. ViewTypes /\ runSection' = "SPACE_SECTION"
        BY <1>1, <3>1 DEF ViewInv, ViewTypes
      <3>3. ASSUME NEW i \in DOMAIN structs, NEW k \in DOMAIN structs[i].items
            PROVE  offsets'[i][k] = Offset(DeclaredIn(i), k)
        <4> DEFINE p == <<i, k>>
        <4>1. p \in ItemPlaces /\ p[1] = i /\ p[2] = k
          BY DEF ItemPlaces
        <4> HIDE DEF p
        <4> DEFINE at == CHOOSE q \in ItemPlaces : FlatIndex(q) = FlatIndex(p)
        <4>2. at \in ItemPlaces /\ FlatIndex(at) = FlatIndex(p)
          BY <4>1
        <4> HIDE DEF at
        <4>3. at = p
          BY <3>2, <4>1, <4>2, FlatIndexOne
        <4>4. Measured[FlatIndex(p)] = Offset(DeclaredIn(at[1]), at[2])
          BY <4>1 DEF Measured, at
        <4>5. offsets'[i][k] = Measured[FlatIndex(p)]
          BY <3>1 DEF ItemIndex, p
        <4>6. QED BY <4>1, <4>3, <4>4, <4>5
      <3>4. \A i : DeclaredIn(i)' = DeclaredIn(i)
        BY <1>1 DEF DeclaredIn, MembersAfter, EndsAfter, BeginOf, Begins
      <3>5. QED BY <1>1, <3>2, <3>3, <3>4 DEF FileRight
    <2>3. QED BY <2>1, <2>2
  <1>3. QED BY <1>1, <1>2, ViewSame

\* Every line of a view file keeps the invariant.
LEMMA LineKeeps ==
  ASSUME ViewInv, NEW line \in ItemLine \cup ViewLine \cup OtherViewLine, ReadViewLine(line)
  PROVE  ViewInv'
  <1>1. viewState = "reading"
    BY DEF ReadViewLine
  <1>2. CASE line.kind = "item" /\ ReadItem(line)
    <2>1. line \in ItemLine
      BY <1>2 DEF ItemLine, ViewLine, OtherViewLine
    <2>2. QED BY <1>1, <1>2, <2>1, ItemKeeps
  <1>3. CASE line.kind = "VIEW" /\ ReadView(line)
    <2>1. line \in ViewLine
      BY <1>3 DEF ItemLine, ViewLine, OtherViewLine
    <2>2. QED BY <1>1, <1>3, <2>1, BeginKeeps
  <1>4. CASE line.kind = "END" /\ ReadEnd
    BY <1>1, <1>4, EndKeeps
  <1>5. CASE line.kind = "unknown" /\ Refuse
    BY <1>1, <1>5, ViewSame DEF Refuse, FileRight
  <1>6. CASE /\ line.kind \in {"blank", "$"}
             /\ validLine' = IF line.kind = "$" THEN Append(validLine, [label |-> "COMMENT"])
                             ELSE validLine
             /\ UNCHANGED <<runSection, structItemNum, structInfo, structs, bResult, viewState>>
    <2>1. CASE line.kind # "$"
      BY <1>1, <1>6, <2>1, ViewSame DEF FileRight
    <2>2. CASE line.kind = "$"
      <3> DEFINE x == [label |-> "COMMENT"]
      <3>1. validLine' = Append(validLine, x)
        BY <1>6, <2>2
      <3>2. x \in Entry /\ x.label = "COMMENT"
        BY DEF Entry
      <3> HIDE DEF x
      <3>3. ViewTypes /\ Cardinality(Begins) = Opened /\ Len(structs) \in Nat /\ Opened \in Nat
        BY DEF ViewInv, ViewTypes, Opened
      <3>4. ViewTypes'
        <4>1. validLine' \in Seq(Entry)
          BY <3>1, <3>2, <3>3, Appended
        <4>2. QED BY <1>6, <3>3, <4>1 DEF ViewTypes
      <3>5. PICK c \in Nat : c = Opened
        BY <3>3
      <3>6. Opened' = c /\ Cardinality(Begins)' = c
        <4>1. Opened' = c
          BY <1>6, <3>5 DEF Opened
        <4>2. QED BY <3>1, <3>2, <3>3, <3>5, <4>1, BeginStays
      <3>7. ClosedRight'
        BY <1>6, <3>1, <3>2, ClosedKeeps DEF ClosedRight
      <3>8. OpenRight'
        <4>1. SUFFICES ASSUME runSection = "STRUCT_SECTION"
                       PROVE  EndsAfter(BeginOf(Opened))' = {} /\ Describes(BeginOf(Opened), structInfo.items)'
          BY <1>6 DEF OpenRight
        <4>2. PICK items : items = structInfo.items
          OBVIOUS
        <4>3. EndsAfter(BeginOf(c)) = {} /\ Describes(BeginOf(c), items)
          BY <3>5, <4>1, <4>2 DEF ViewInv, OpenRight
        <4>4. c \in 1 .. Cardinality(Begins)
          BY <3>3, <3>5, <4>1 DEF Opened
        <4>5. EndsAfter(BeginOf(c))' = {} /\ Describes(BeginOf(c), items)'
          BY <3>1, <3>2, <3>3, <4>3, <4>4, EndsStay, ClosedStays
        <4>6. BeginOf(Opened)' = BeginOf(c)'
          BY <3>6 DEF BeginOf, Begins
        <4>7. EndsAfter(BeginOf(Opened))' = EndsAfter(BeginOf(c))'
          BY <4>6 DEF EndsAfter
        <4>8. structInfo'.items = items
          BY <1>6, <4>2
        <4>9. Describes(BeginOf(Opened), structInfo.items)' <=> Describes(BeginOf(c), items)'
          BY <4>6, <4>8 DEF EndsAfter, Describes, MembersAfter
        <4>10. QED BY <4>5, <4>7, <4>9
      <3>9. FileRight'
        BY <1>1, <1>6 DEF FileRight
      <3>10. QED BY <3>4, <3>6, <3>7, <3>8, <3>9 DEF ViewInv
    <2>3. QED BY <2>1, <2>2
  <1>7. QED BY <1>2, <1>3, <1>4, <1>5, <1>6 DEF ReadViewLine

\* So does every step.
LEMMA ViewNextKeeps == ViewInv /\ [ViewNext]_viewVars => ViewInv'
  <1> SUFFICES ASSUME ViewInv, [ViewNext]_viewVars PROVE ViewInv'
    OBVIOUS
  <1>1. CASE EndOfView
    <2>1. viewState' # "measured"
      BY <1>1 DEF EndOfView
    <2>2. QED BY <1>1, <2>1, ViewSame DEF EndOfView, FileRight
  <1>2. CASE Measure
    BY <1>2, MeasureKeeps
  <1>3. CASE UNCHANGED viewVars
    <2>1. UNCHANGED <<validLine, structs, structInfo, runSection, viewState, offsets>>
      BY <1>3 DEF viewVars
    <2>2. \A i : DeclaredIn(i)' = DeclaredIn(i)
      BY <2>1 DEF DeclaredIn, MembersAfter, EndsAfter, BeginOf, Begins
    <2>3. FileRight'
      BY <2>1, <2>2 DEF ViewInv, FileRight
    <2>4. QED BY <2>1, <2>3, ViewSame
  <1>4. CASE \E line \in ItemLine \cup ViewLine \cup OtherViewLine : ReadViewLine(line)
    BY <1>4, LineKeeps
  <1>5. QED BY <1>1, <1>2, <1>3, <1>4 DEF ViewNext

\* The invariant makes the file describe the header.
LEMMA ViewInvDescribes == ViewInv => DescribesHeader
  <1> SUFFICES ASSUME ViewInv, viewState = "measured" PROVE DescribesHeader
    BY DEF DescribesHeader
  <1>1. ViewTypes /\ Cardinality(Begins) = Opened /\ runSection = "SPACE_SECTION" /\ ClosedRight
    BY DEF ViewInv, FileRight
  <1>2. Opened = Len(structs) /\ Len(structs) \in Nat /\ DOMAIN structs = 1 .. Len(structs)
        /\ \A i \in DOMAIN structs : structs[i] \in Structure
    BY <1>1 DEF Opened, ViewTypes
  <1>3. ASSUME NEW i \in DOMAIN structs
        PROVE  /\ Len(DeclaredIn(i)) = Len(structs[i].items)
               /\ \A k \in DOMAIN DeclaredIn(i) :
                     /\ offsets[i][k] = Offset(DeclaredIn(i), k)
                     /\ Extent(DeclaredIn(i)[k].item)
                          = SizeByType(structs[i].items[k]) * structs[i].items[k].count
    <2>1. PICK M, items : M = MembersAfter(BeginOf(i)) /\ items = structs[i].items
      OBVIOUS
    <2>2. items \in Seq(FileItem)
      BY <1>2, <2>1 DEF Structure
    <2>3. Cardinality(M) = Len(items)
          /\ \A k \in 1 .. Len(items) : Same(validLine[Nth(M, k)], items[k])
      BY <1>1, <1>2, <2>1 DEF ClosedRight, Describes
    <2>4. DeclaredIn(i) = [k \in 1 .. Cardinality(M) |-> validLine[Nth(M, k)]]
      BY <2>1 DEF DeclaredIn
    <2>5. Len(items) \in Nat /\ DOMAIN items = 1 .. Len(items)
      BY <2>2
    <2>6. /\ DOMAIN DeclaredIn(i) = DOMAIN items /\ Len(DeclaredIn(i)) = Len(items)
          /\ \A k \in DOMAIN items : DeclaredIn(i)[k] = validLine[Nth(M, k)]
      BY <2>3, <2>4, <2>5
    <2>7. ASSUME NEW k \in DOMAIN items PROVE offsets[i][k] = Offset(DeclaredIn(i), k)
      BY <2>1, <1>1 DEF ViewInv, FileRight
    <2>8. QED BY <2>1, <2>3, <2>5, <2>6, <2>7 DEF Same
  <1>4. QED BY <1>1, <1>2, <1>3 DEF DescribesHeader


\* The file that applications load describes the structures their programs are
\* compiled with, item by item (View32Paser, genviewbinfile).
THEOREM HeaderDescribed == ViewSpec => []DescribesHeader
  <1>1. ViewInit => ViewInv
    BY ViewInitKeeps
  <1>2. ViewInv /\ [ViewNext]_viewVars => ViewInv'
    BY ViewNextKeeps
  <1>3. ViewInv => DescribesHeader
    BY ViewInvDescribes
  <1>4. QED BY <1>1, <1>2, <1>3, PTL DEF ViewSpec

(* Both compilers of headers keep what they promise to the programs that    *)
(* include what they write (mkfldhdr32, viewc32).                           *)
THEOREM HeadersAlwaysRight == TableSpec /\ ViewSpec => []HeadersRight
  BY IdentifiersAlwaysSayTypes, HeaderDescribed, PTL DEF HeadersRight

-----------------------------------------------------------------------------
(* Sums over sets of blocks. *)

Pick(s) == CHOOSE x \in s : TRUE
IsSum(b, S, g) == g = [s \in SUBSET S |-> IF s = {} THEN 0 ELSE b[Pick(s)].actual + g[s \ {Pick(s)}]]
TheSum(b, S) == CHOOSE g : IsSum(b, S, g)

\* The fold over a set is the value of a function that the library chooses.
LEMMA BytesChoice == ASSUME NEW b, NEW S
   PROVE BytesOf(b, S) = TheSum(b, S)[S]
  BY DEF BytesOf, MapThenSumSet, MapThenFoldSet, IsSum, Pick, TheSum

\* The element that is taken out first is one of the set.
LEMMA PickIn == ASSUME NEW s, s # {} PROVE Pick(s) \in s
  BY DEF Pick

\* One step of a sum.
LEMMA SumStep ==
  ASSUME NEW b, NEW S, NEW g, IsSum(b, S, g), NEW s \in SUBSET S
  PROVE  g[s] = IF s = {} THEN 0 ELSE b[Pick(s)].actual + g[s \ {Pick(s)}]
  BY DEF IsSum

\* The same for the whole set.
LEMMA SumWhole ==
  ASSUME NEW b, NEW S, NEW g, IsSum(b, S, g)
  PROVE  g[S] = IF S = {} THEN 0 ELSE b[Pick(S)].actual + g[S \ {Pick(S)}]
  <1>1. S \in SUBSET S
    OBVIOUS
  <1>2. QED BY <1>1, SumStep

\* There is one sum only, whatever larger set it was computed for.
LEMMA SumUnique ==
  ASSUME NEW b, NEW S, NEW U, IsFiniteSet(S), NEW g, NEW h, IsSum(b, S, g), IsSum(b, U, h)
  PROVE  \A s \in SUBSET (S \cap U) : g[s] = h[s]
  <1> DEFINE T == {s \in SUBSET (S \cap U) : g[s] # h[s]}
  <1> SUFFICES ASSUME T # {} PROVE FALSE
    OBVIOUS
  <1>1. PICK m \in T : \A s \in T : s \subseteq m => s = m
    <2>1. T \subseteq SUBSET S /\ T # {}
      OBVIOUS
    <2> HIDE DEF T
    <2>2. QED BY <2>1, SmallestSet
  <1>2. m \in SUBSET S /\ m \in SUBSET U /\ g[m] # h[m]
    OBVIOUS
  <1>3. m # {}
    BY <1>2, SumStep
  <1> DEFINE r == m \ {Pick(m)}
  <1>4. r # m /\ r \subseteq m
    BY <1>3, PickIn
  <1>5. r \notin T
    BY <1>1, <1>4
  <1>6. g[r] = h[r]
    BY <1>5, <1>4
  <1>7. g[m] = b[Pick(m)].actual + g[r] /\ h[m] = b[Pick(m)].actual + h[r]
    BY <1>2, <1>3, SumStep
  <1>8. QED BY <1>2, <1>6, <1>7

\* There is a sum: the one of the set without the first element, and that.
LEMMA SumExists ==
  ASSUME NEW b, NEW S, IsFiniteSet(S)
  PROVE  IsSum(b, S, TheSum(b, S))
  <1> DEFINE T == {s \in SUBSET S : ~ IsSum(b, s, TheSum(b, s))}
  <1> SUFFICES ASSUME T # {} PROVE FALSE
    OBVIOUS
  <1>1. PICK m \in T : \A s \in T : s \subseteq m => s = m
    <2>1. T \subseteq SUBSET S /\ T # {}
      OBVIOUS
    <2> HIDE DEF T
    <2>2. QED BY <2>1, SmallestSet
  <1>2. m \in SUBSET S /\ ~ IsSum(b, m, TheSum(b, m))
    OBVIOUS
  <1>3. \A s \in SUBSET m : s # m => IsSum(b, s, TheSum(b, s)) /\ IsFiniteSet(s)
    <2>1. \A s \in SUBSET m : s # m => s \notin T
      BY <1>1
    <2>2. \A s \in SUBSET m : s \in SUBSET S
      BY <1>2
    <2>3. QED BY <2>1, <2>2, FS_Subset
  <1> DEFINE h == [s \in SUBSET m |-> IF s = {} THEN 0
                      ELSE b[Pick(s)].actual + TheSum(b, s \ {Pick(s)})[s \ {Pick(s)}]]
  <1>4. ASSUME NEW s \in SUBSET m, s # {}
        PROVE  h[s \ {Pick(s)}] = TheSum(b, s \ {Pick(s)})[s \ {Pick(s)}]
    <2> DEFINE r == s \ {Pick(s)}
    <2>1. r \in SUBSET m /\ r # m
      BY <1>4, PickIn
    <2>2. IsSum(b, r, TheSum(b, r)) /\ IsFiniteSet(r)
      BY <2>1, <1>3
    <2>3. TheSum(b, r)[r] = IF r = {} THEN 0 ELSE b[Pick(r)].actual + TheSum(b, r)[r \ {Pick(r)}]
      <3> HIDE DEF r, h, T
      <3>1. QED BY <2>2, SumWhole
    <2>4. CASE r = {}
      BY <2>4, <2>1, <2>3
    <2>5. CASE r # {}
      <3> DEFINE q == r \ {Pick(r)}
      <3>1. q \in SUBSET m /\ q # m /\ q \in SUBSET (r \cap q)
        BY <2>1
      <3>2. IsSum(b, q, TheSum(b, q))
        BY <3>1, <1>3
      <3>3. TheSum(b, r)[q] = TheSum(b, q)[q]
        BY <2>2, <3>1, <3>2, SumUnique
      <3>4. h[r] = b[Pick(r)].actual + TheSum(b, q)[q]
        BY <2>1, <2>5
      <3>5. TheSum(b, r)[r] = b[Pick(r)].actual + TheSum(b, r)[q]
        BY <2>3, <2>5
      <3>6. QED BY <3>3, <3>4, <3>5, Zenon
    <2>6. QED BY <2>4, <2>5
  <1>5. h = [s \in SUBSET m |-> IF s = {} THEN 0 ELSE b[Pick(s)].actual + h[s \ {Pick(s)}]]
    <2>1. \A s \in SUBSET m : h[s] = IF s = {} THEN 0 ELSE b[Pick(s)].actual + h[s \ {Pick(s)}]
      <3> HIDE DEF h
      <3>1. \A s \in SUBSET m : h[s] = IF s = {} THEN 0
                      ELSE b[Pick(s)].actual + TheSum(b, s \ {Pick(s)})[s \ {Pick(s)}]
        BY DEF h
      <3>2. QED BY <3>1, <1>4
    <2>2. h = [s \in SUBSET m |-> h[s]]
      OBVIOUS
    <2> HIDE DEF h
    <2>3. QED BY <2>1, <2>2, Zenon
  <1> HIDE DEF h
  <1>6. IsSum(b, m, h)
    BY <1>5 DEF IsSum
  <1>7. IsSum(b, m, TheSum(b, m))
    BY <1>6 DEF TheSum
  <1>8. QED BY <1>2, <1>7

\* What the manager sums up, block by block.
LEMMA BytesStep ==
  ASSUME NEW b, NEW S, IsFiniteSet(S)
  PROVE  BytesOf(b, S) = IF S = {} THEN 0 ELSE b[Pick(S)].actual + BytesOf(b, S \ {Pick(S)})
  <1>1. IsSum(b, S, TheSum(b, S))
    BY SumExists
  <1>3. TheSum(b, S)[S] = IF S = {} THEN 0 ELSE b[Pick(S)].actual + TheSum(b, S)[S \ {Pick(S)}]
    BY <1>1, SumWhole
  <1> DEFINE r == S \ {Pick(S)}
  <1>4. IsFiniteSet(r)
    BY FS_Subset
  <1>5. IsSum(b, r, TheSum(b, r))
    BY <1>4, SumExists
  <1>6. r \in SUBSET (S \cap r)
    OBVIOUS
  <1>7. TheSum(b, S)[r] = TheSum(b, r)[r]
    BY <1>1, <1>5, <1>6, SumUnique
  <1>8. QED BY <1>3, <1>7, BytesChoice

\* No blocks have no bytes.
LEMMA BytesEmpty == ASSUME NEW b PROVE BytesOf(b, {}) = 0
  BY FS_EmptySet, BytesStep

\* Blocks have a natural number of bytes.
LEMMA BytesType ==
  ASSUME NEW b, NEW S, IsFiniteSet(S), \A p \in S : b[p].actual \in Nat
  PROVE  BytesOf(b, S) \in Nat
  <1> DEFINE T == {s \in SUBSET S : BytesOf(b, s) \notin Nat}
  <1> SUFFICES ASSUME T # {} PROVE FALSE
    OBVIOUS
  <1>1. PICK m \in T : \A s \in T : s \subseteq m => s = m
    <2>1. T \subseteq SUBSET S /\ T # {}
      OBVIOUS
    <2> HIDE DEF T
    <2>2. QED BY <2>1, SmallestSet
  <1>2. m \in SUBSET S /\ BytesOf(b, m) \notin Nat /\ IsFiniteSet(m)
    BY FS_Subset
  <1>3. m # {}
    <2>1. BytesOf(b, {}) \in Nat
      BY BytesEmpty
    <2>2. QED BY <1>2, <2>1
  <1> DEFINE r == m \ {Pick(m)}
  <1>4. r # m /\ r \subseteq m /\ Pick(m) \in S
    BY <1>2, <1>3, PickIn
  <1>5. BytesOf(b, r) \in Nat
    BY <1>1, <1>2, <1>4
  <1>6. BytesOf(b, m) = b[Pick(m)].actual + BytesOf(b, r)
    BY <1>2, <1>3, BytesStep
  <1>7. QED BY <1>2, <1>4, <1>5, <1>6

\* Any block can be the one that is counted last.
LEMMA BytesRemove ==
  ASSUME NEW b, NEW S, IsFiniteSet(S), \A p \in S : b[p].actual \in Nat, NEW x \in S
  PROVE  BytesOf(b, S) = b[x].actual + BytesOf(b, S \ {x})
  <1> DEFINE T == {s \in SUBSET S : \E y \in s : BytesOf(b, s) # b[y].actual + BytesOf(b, s \ {y})}
  <1> SUFFICES ASSUME T # {} PROVE FALSE
    OBVIOUS
  <1>1. PICK m \in T : \A s \in T : s \subseteq m => s = m
    <2>1. T \subseteq SUBSET S /\ T # {}
      OBVIOUS
    <2> HIDE DEF T
    <2>2. QED BY <2>1, SmallestSet
  <1>2. PICK y \in m : BytesOf(b, m) # b[y].actual + BytesOf(b, m \ {y})
    OBVIOUS
  <1>3. m \in SUBSET S /\ IsFiniteSet(m) /\ m # {}
    BY FS_Subset
  <1> DEFINE c == Pick(m)
  <1>4. c \in m /\ c # y
    <2>1. c \in m
      BY <1>3, PickIn
    <2>2. BytesOf(b, m) = b[c].actual + BytesOf(b, m \ {c})
      BY <1>3, BytesStep
    <2>3. QED BY <2>1, <2>2, <1>2
  <1>5. BytesOf(b, m) = b[c].actual + BytesOf(b, m \ {c})
    BY <1>3, BytesStep
  <1> HIDE DEF c
  <1>6. m \ {c} \subseteq m /\ m \ {c} # m /\ y \in m \ {c}
    BY <1>4
  <1>7. m \ {y} \subseteq m /\ m \ {y} # m /\ c \in m \ {y}
    BY <1>4
  <1>8. \A s \in SUBSET m : s # m => \A z \in s : BytesOf(b, s) = b[z].actual + BytesOf(b, s \ {z})
    BY <1>1, <1>3
  <1>9. BytesOf(b, m \ {c}) = b[y].actual + BytesOf(b, (m \ {c}) \ {y})
    BY <1>6, <1>8
  <1>10. BytesOf(b, m \ {y}) = b[c].actual + BytesOf(b, (m \ {y}) \ {c})
    BY <1>7, <1>8
  <1>11. (m \ {y}) \ {c} = (m \ {c}) \ {y}
    OBVIOUS
  <1>12. IsFiniteSet((m \ {c}) \ {y}) /\ (m \ {c}) \ {y} \in SUBSET S
    BY <1>3, FS_Subset
  <1>13. BytesOf(b, (m \ {c}) \ {y}) \in Nat
    BY <1>12, BytesType
  <1>14. b[c].actual \in Nat /\ b[y].actual \in Nat
    BY <1>3, <1>4
  <1> HIDE DEF T
  <1>15. BytesOf(b, m \ {y}) = b[c].actual + BytesOf(b, (m \ {c}) \ {y})
    BY <1>10, <1>11
  <1> DEFINE bc == b[c].actual  by == b[y].actual  rest == BytesOf(b, (m \ {c}) \ {y})
  <1>16. BytesOf(b, m) = bc + (by + rest) /\ by + BytesOf(b, m \ {y}) = by + (bc + rest)
    BY <1>5, <1>9, <1>15
  <1>17. bc \in Nat /\ by \in Nat /\ rest \in Nat
    BY <1>13, <1>14
  <1> HIDE DEF bc, rest
  <1>18. QED BY <1>2, <1>16, <1>17

\* Only the sizes count.
LEMMA BytesSame ==
  ASSUME NEW b, NEW c, NEW S, IsFiniteSet(S), \A p \in S : b[p].actual = c[p].actual
  PROVE  BytesOf(b, S) = BytesOf(c, S)
  <1> DEFINE T == {s \in SUBSET S : BytesOf(b, s) # BytesOf(c, s)}
  <1> SUFFICES ASSUME T # {} PROVE FALSE
    OBVIOUS
  <1>1. PICK m \in T : \A s \in T : s \subseteq m => s = m
    <2>1. T \subseteq SUBSET S /\ T # {}
      OBVIOUS
    <2> HIDE DEF T
    <2>2. QED BY <2>1, SmallestSet
  <1>2. m \in SUBSET S /\ BytesOf(b, m) # BytesOf(c, m) /\ IsFiniteSet(m)
    BY FS_Subset
  <1>3. m # {}
    BY <1>2, BytesStep
  <1> DEFINE r == m \ {Pick(m)}
  <1>4. r # m /\ r \subseteq m /\ Pick(m) \in S
    BY <1>2, <1>3, PickIn
  <1>5. BytesOf(b, r) = BytesOf(c, r)
    BY <1>1, <1>2, <1>4
  <1>6. BytesOf(b, m) = b[Pick(m)].actual + BytesOf(b, r) /\ BytesOf(c, m) = c[Pick(m)].actual + BytesOf(c, r)
    BY <1>2, <1>3, BytesStep
  <1>7. QED BY <1>2, <1>4, <1>5, <1>6

\* Some of the blocks have no more bytes than all.
LEMMA BytesPart ==
  ASSUME NEW b, NEW S, IsFiniteSet(S), \A p \in S : b[p].actual \in Nat, NEW U \in SUBSET S
  PROVE  BytesOf(b, U) <= BytesOf(b, S)
  <1> DEFINE T == {s \in SUBSET S : U \subseteq s /\ ~ (BytesOf(b, U) <= BytesOf(b, s))}
  <1> SUFFICES ASSUME T # {} PROVE FALSE
    OBVIOUS
  <1>1. PICK m \in T : \A s \in T : s \subseteq m => s = m
    <2>1. T \subseteq SUBSET S /\ T # {}
      OBVIOUS
    <2> HIDE DEF T
    <2>2. QED BY <2>1, SmallestSet
  <1>2. m \in SUBSET S /\ U \subseteq m /\ ~ (BytesOf(b, U) <= BytesOf(b, m)) /\ IsFiniteSet(m) /\ IsFiniteSet(U)
    BY FS_Subset
  <1>3. BytesOf(b, U) \in Nat /\ BytesOf(b, m) \in Nat
    BY <1>2, BytesType
  <1>4. PICK x \in m : x \notin U
    BY <1>2, <1>3
  <1>5. m \ {x} # m /\ m \ {x} \subseteq m /\ U \subseteq m \ {x}
    BY <1>2, <1>4
  <1>6. BytesOf(b, U) <= BytesOf(b, m \ {x})
    BY <1>1, <1>2, <1>5
  <1>7. BytesOf(b, m) = b[x].actual + BytesOf(b, m \ {x})
    <2>1. \A p \in m : b[p].actual \in Nat
      BY <1>2
    <2>2. QED BY <1>2, <2>1, BytesRemove
  <1>8. b[x].actual \in Nat /\ BytesOf(b, m \ {x}) \in Nat
    <2>1. IsFiniteSet(m \ {x}) /\ m \ {x} \in SUBSET S /\ x \in S
      BY <1>2, FS_Subset
    <2>2. QED BY <2>1, BytesType
  <1>9. QED BY <1>2, <1>3, <1>6, <1>7, <1>8

\* One block makes room for another: the sum changes by the difference.
LEMMA BytesChange ==
  ASSUME NEW b, NEW c, NEW S, NEW U, IsFiniteSet(S), NEW p \in S, NEW q \in U,
         S \ {p} = U \ {q},
         \A x \in S : b[x].actual \in Nat, \A x \in U : c[x].actual \in Nat,
         \A x \in S \ {p} : b[x].actual = c[x].actual
  PROVE  BytesOf(c, U) = BytesOf(b, S) - b[p].actual + c[q].actual
  <1>1. IsFiniteSet(S \ {p})
    BY FS_RemoveElement
  <1>2. IsFiniteSet(U)
    <2>1. U = (U \ {q}) \cup {q}
      OBVIOUS
    <2>2. QED BY <2>1, <1>1, FS_AddElement
  <1>3. BytesOf(b, S) = b[p].actual + BytesOf(b, S \ {p})
    BY BytesRemove
  <1>4. BytesOf(c, U) = c[q].actual + BytesOf(c, U \ {q})
    BY <1>2, BytesRemove
  <1>5. BytesOf(c, U \ {q}) = BytesOf(b, S \ {p})
    BY <1>1, BytesSame
  <1>6. BytesOf(b, S \ {p}) \in Nat
    BY <1>1, BytesType
  <1>7. b[p].actual \in Nat /\ c[q].actual \in Nat
    OBVIOUS
  <1>8. QED BY <1>3, <1>4, <1>5, <1>6, <1>7

-----------------------------------------------------------------------------
(* The typed buffers of a program. *)

USE AtmiAssumption

AnyItem == [current : Nat, actual : Nat, type : BufferType, sub : SubType \cup {NoSub}, inUse : BOOLEAN]
Grants == [type : BufferType, size : Nat, sub : SubType \cup {NoSub}]

AtmiTypes ==
  /\ IsFiniteSet(DOMAIN bufferList)
  /\ bufferList \in [DOMAIN bufferList -> AnyItem]
  /\ granted \in [DOMAIN granted -> Grants]
  /\ totalSize \in Nat

\* A block that has not been a view has no name.
Nameless == \A p \in DOMAIN bufferList \ torn : p \notin wasView => bufferList[p].sub = NoSub

AtmiInv == AtmiTypes /\ Nameless /\ BuffersKept

NowIdle == {p \in DOMAIN bufferList \ torn : ~bufferList[p].inUse}

\* A buffer that is not refused is at least as large as was asked for.
LEMMA WantedSize ==
  ASSUME NEW type \in BufferType, NEW sub, NEW size \in Nat, Refusal(type, sub, size) = "none"
  PROVE  Wanted(type, sub, size) \in Nat /\ (type = "VIEW32" => sub \in SubType)
  <1>1. type = "VIEW32" => sub \in SubType
    BY DEF Refusal
  <1> DEFINE S == {size, LeastSize[type]} \cup (IF type = "VIEW32" THEN {SizeOfView[sub]} ELSE {})
  <1>2. S \subseteq Nat
    BY <1>1
  <1>3. \E x \in S : \A y \in S : x >= y
    <2>1. LeastSize[type] \in Nat
      OBVIOUS
    <2>2. CASE type = "VIEW32"
      <3>1. SizeOfView[sub] \in Nat
        BY <1>1, <2>2
      <3>2. S = {size, LeastSize[type], SizeOfView[sub]}
        BY <2>2
      <3> HIDE DEF S
      <3>3. \E x \in {size, LeastSize[type], SizeOfView[sub]} :
               \A y \in {size, LeastSize[type], SizeOfView[sub]} : x >= y
        BY <2>1, <3>1
      <3>4. QED BY <3>2, <3>3
    <2>3. CASE type # "VIEW32"
      <3>2. S = {size, LeastSize[type]}
        BY <2>3
      <3> HIDE DEF S
      <3>3. \E x \in {size, LeastSize[type]} : \A y \in {size, LeastSize[type]} : x >= y
        BY <2>1
      <3>4. QED BY <3>2, <3>3
    <2>4. QED BY <2>2, <2>3
  <1>4. Max(S) \in S
    <2> HIDE DEF S
    <2>1. QED BY <1>3 DEF Max
  <1>5. Wanted(type, sub, size) = Max(S)
    BY DEF Wanted
  <1>6. QED BY <1>1, <1>2, <1>4, <1>5, Zenon

\* tprealloc changes one block, which may move, and the total with it
\* (ReallocateBuffer).
LEMMA ReallocateRight ==
  ASSUME AtmiInv, NEW p \in Held, Registered(p), NEW q, NEW size \in Nat, Reallocate(p, q, size)
  PROVE  /\ DOMAIN bufferList' = (DOMAIN bufferList \ {p}) \cup {q}
         /\ q = p \/ q \notin DOMAIN bufferList
         /\ bufferList' \in [DOMAIN bufferList' -> AnyItem]
         /\ \A x \in DOMAIN bufferList \ {p} : bufferList'[x] = bufferList[x]
         /\ totalSize' = totalSize - bufferList[p].actual + bufferList'[q].actual
         /\ torn \subseteq torn'
         /\ bufferList'[q].actual >= size
         /\ q \notin torn' =>
               /\ p \notin torn /\ bufferList'[q].inUse
               /\ bufferList'[q].actual >= bufferList'[q].current
               /\ bufferList'[q].type = bufferList[p].type /\ bufferList'[q].sub = bufferList[p].sub
  <1>0. bufferList[p] \in AnyItem /\ p \in DOMAIN bufferList /\ bufferList[p].inUse /\ totalSize \in Nat
        /\ bufferList \in [DOMAIN bufferList -> AnyItem]
    BY DEF AtmiInv, AtmiTypes, Registered
  <1>a. p \notin torn => bufferList[p].actual >= bufferList[p].current
    BY DEF AtmiInv, BuffersKept, RoomAsGranted
  <1>1. CASE bufferList[p].actual >= size
    <2>1. q = p /\ bufferList' = bufferList /\ totalSize' = totalSize /\ torn' = torn
      BY <1>1 DEF Reallocate
    <2>2. totalSize = totalSize - bufferList[p].actual + bufferList[p].actual
      BY <1>0 DEF AnyItem
    <2>3. QED BY <1>0, <1>a, <1>1, <2>1, <2>2
  <1>2. CASE ~ (bufferList[p].actual >= size) /\ q = p
    <2>1. bufferList' = [bufferList EXCEPT ![p].current = size, ![p].actual = size] /\ torn' = torn
          /\ totalSize' = totalSize - bufferList[p].actual + size
      BY <1>2 DEF Reallocate, StayInPlace, Grown
    <2>2. PICK item \in AnyItem : item = bufferList[p]
      BY <1>0
    <2>3. bufferList'[p] = [item EXCEPT !.current = size, !.actual = size]
      BY <2>1, <2>2, <1>0
    <2>4. bufferList'[p] \in AnyItem /\ bufferList'[p].inUse = item.inUse /\ bufferList'[p].actual = size
          /\ bufferList'[p].current = size /\ bufferList'[p].type = item.type
          /\ bufferList'[p].sub = item.sub
      BY <2>3 DEF AnyItem
    <2>5. DOMAIN bufferList' = DOMAIN bufferList /\ \A x \in DOMAIN bufferList \ {p} : bufferList'[x] = bufferList[x]
      BY <2>1, <1>0
    <2>6. bufferList' \in [DOMAIN bufferList' -> AnyItem]
      BY <2>1, <2>4, <2>5, <1>0
    <2>7. /\ bufferList'[p].actual >= size /\ bufferList'[p].actual >= bufferList'[p].current
          /\ totalSize' = totalSize - bufferList[p].actual + bufferList'[p].actual
      BY <2>1, <2>4
    <2>8. DOMAIN bufferList' = (DOMAIN bufferList \ {p}) \cup {p}
      BY <2>5, <1>0
    <2>9. bufferList'[p].inUse /\ torn \subseteq torn' /\ (p \notin torn' => p \notin torn)
      BY <1>0, <2>1, <2>2, <2>4
    <2>10. bufferList'[p].type = bufferList[p].type /\ bufferList'[p].sub = bufferList[p].sub
      BY <2>2, <2>4
    <2>11. q = p
      BY <1>2
    <2> HIDE DEF AtmiInv
    <2>12. QED BY <2>5, <2>6, <2>7, <2>8, <2>9, <2>10, <2>11
  <1>3. CASE ~ (bufferList[p].actual >= size) /\ q # p
    <2>1. q \notin DOMAIN bufferList /\ MoveBlock(p, q, size) /\ totalSize' = totalSize - bufferList[p].actual + size
      BY <1>3 DEF Reallocate, Grown
    <2>2. PICK item \in AfterErasure(bufferList[p]) :
             /\ bufferList' = Enter(Without(bufferList, p), q, [item EXCEPT !.current = size, !.actual = size])
             /\ torn' = IF p \in torn \/ item # bufferList[p] THEN torn \cup {q} ELSE torn
      BY <2>1 DEF MoveBlock
    <2>3. item \in AnyItem
      <3>1. PICK old \in AnyItem : old = bufferList[p]
        BY <1>0
      <3>a. item \in AfterErasure(old)
        BY <3>1, <2>2
      <3> QED BY <3>a DEF AfterErasure, AnyItem
    <2> DEFINE new == [item EXCEPT !.current = size, !.actual = size]
    <2>4. new \in AnyItem /\ new.inUse = item.inUse /\ new.actual = size /\ new.current = size
          /\ new.type = item.type /\ new.sub = item.sub
      BY <2>3 DEF AnyItem
    <2> HIDE DEF new
    <2>5. bufferList' = [x \in (DOMAIN bufferList \ {p}) \cup {q} |->
                            IF x = q THEN new ELSE [y \in DOMAIN bufferList \ {p} |-> bufferList[y]][x]]
      BY <2>2 DEF Enter, Without, Restrict, new
    <2>6. /\ DOMAIN bufferList' = (DOMAIN bufferList \ {p}) \cup {q}
          /\ bufferList'[q] = new
          /\ \A x \in DOMAIN bufferList \ {p} : bufferList'[x] = bufferList[x]
      BY <2>5, <2>1
    <2>7. bufferList' \in [DOMAIN bufferList' -> AnyItem]
      BY <2>4, <2>5, <2>1, <1>0
    <2>8. torn \subseteq torn' /\ (q \notin torn' => p \notin torn /\ item = bufferList[p])
      BY <2>2
    <2>9. /\ bufferList'[q].actual >= size /\ bufferList'[q].actual >= bufferList'[q].current
          /\ totalSize' = totalSize - bufferList[p].actual + bufferList'[q].actual
      BY <2>1, <2>4, <2>6
    <2>10. q \notin torn' => /\ p \notin torn /\ bufferList'[q].inUse
                             /\ bufferList'[q].type = bufferList[p].type
                             /\ bufferList'[q].sub = bufferList[p].sub
      BY <1>0, <2>4, <2>6, <2>8
    <2>12. QED BY <2>1, <2>6, <2>7, <2>8, <2>9, <2>10
  <1>4. QED BY <1>1, <1>2, <1>3

(* A record with another size. *)
LEMMA Resized ==
  ASSUME NEW g \in Grants, NEW size \in Nat
  PROVE  /\ [g EXCEPT !.size = size] \in Grants
         /\ [g EXCEPT !.size = size].size = size
         /\ [g EXCEPT !.size = size].type = g.type
         /\ [g EXCEPT !.size = size].sub = g.sub
  BY DEF Grants

\* The sizes of blocks are natural numbers.
LEMMA ActualNat == ASSUME AtmiTypes PROVE \A x \in DOMAIN bufferList : bufferList[x].actual \in Nat
  BY DEF AtmiTypes, AnyItem

\* The idle blocks stay within the limit when none is added.
LEMMA IdleShrinks ==
  ASSUME AtmiInv, NowIdle' \subseteq NowIdle, \A x \in NowIdle' : bufferList'[x] = bufferList[x]
  PROVE  IdleBounded'
  <1> DEFINE S == NowIdle  U == NowIdle'  b == bufferList  c == bufferList'
  <1>1. IsFiniteSet(S) /\ \A x \in S : b[x].actual \in Nat
    BY ActualNat, FS_Subset DEF AtmiInv, AtmiTypes, NowIdle
  <1>2. U \in SUBSET S /\ \A x \in U : b[x].actual = c[x].actual
    OBVIOUS
  <1>3. BytesOf(b, S) <= CachedSize
    BY DEF AtmiInv, BuffersKept, IdleBounded, NowIdle
  <1> HIDE DEF S, U, b, c
  <1>4. IsFiniteSet(U)
    BY <1>1, <1>2, FS_Subset
  <1>5. BytesOf(b, U) <= BytesOf(b, S)
    BY <1>1, <1>2, BytesPart
  <1>6. BytesOf(b, U) = BytesOf(c, U)
    BY <1>2, <1>4, BytesSame
  <1>7. BytesOf(b, U) \in Nat /\ BytesOf(b, S) \in Nat
    BY <1>1, <1>2, <1>4, BytesType
  <1>8. BytesOf(c, U) <= CachedSize
    BY <1>3, <1>5, <1>6, <1>7
  <1>9. QED BY <1>8 DEF c, U, IdleBounded, NowIdle

\* What is left to the program of the blocks it holds, when it has given p away.
LEMMA GivenAwayRight ==
  ASSUME AtmiInv, NEW p, NEW rest \in GivenAway(p)
  PROVE  /\ rest \in [DOMAIN rest -> Grants] /\ DOMAIN rest \subseteq Held
         /\ \A x \in DOMAIN rest : rest[x] = granted[x]
         /\ p \notin torn => p \notin DOMAIN rest
  BY DEF AtmiInv, AtmiTypes, GivenAway, Without, Restrict, Held

\* A reallocation and what the program is told of it keep the invariant.
LEMMA ReallocateKeeps ==
  ASSUME AtmiInv, NEW p \in Held, Registered(p), NEW q, NEW size \in Nat, Reallocate(p, q, size),
         NEW rest \in GivenAway(p), granted' = Enter(rest, q, [granted[p] EXCEPT !.size = size]),
         wasView' = Moved(wasView, p, q)
  PROVE  AtmiInv'
  <1>1. /\ DOMAIN bufferList' = (DOMAIN bufferList \ {p}) \cup {q}
        /\ q = p \/ q \notin DOMAIN bufferList
        /\ bufferList' \in [DOMAIN bufferList' -> AnyItem]
        /\ \A x \in DOMAIN bufferList \ {p} : bufferList'[x] = bufferList[x]
        /\ totalSize' = totalSize - bufferList[p].actual + bufferList'[q].actual
        /\ torn \subseteq torn'
        /\ bufferList'[q].actual >= size
    BY ReallocateRight
  <1>a. q \notin torn' =>
               /\ p \notin torn /\ bufferList'[q].inUse
               /\ bufferList'[q].actual >= bufferList'[q].current
               /\ bufferList'[q].type = bufferList[p].type /\ bufferList'[q].sub = bufferList[p].sub
    BY ReallocateRight
  <1>2. /\ IsFiniteSet(DOMAIN bufferList) /\ bufferList \in [DOMAIN bufferList -> AnyItem]
        /\ granted \in [DOMAIN granted -> Grants]
        /\ totalSize \in Nat /\ p \in DOMAIN granted /\ p \in DOMAIN bufferList /\ bufferList[p].inUse
        /\ \A x \in DOMAIN bufferList : bufferList[x].actual \in Nat
    BY ActualNat DEF AtmiInv, AtmiTypes, Held, Registered
  <1>3. /\ DOMAIN granted' = DOMAIN rest \cup {q}
        /\ \A x \in DOMAIN rest \ {q} : granted'[x] = granted[x] /\ x \in Held
        /\ granted'[q] = [granted[p] EXCEPT !.size = size]
        /\ p \notin torn => p \notin DOMAIN rest
    BY GivenAwayRight DEF Enter
  <1>4. /\ granted'[q] \in Grants /\ granted'[q].size = size /\ granted'[q].type = granted[p].type
        /\ granted'[q].sub = granted[p].sub
    <2>1. PICK g \in Grants : g = granted[p]
      BY <1>2
    <2>2. granted'[q] = [g EXCEPT !.size = size]
      BY <1>3, <2>1
    <2> DEFINE h == [g EXCEPT !.size = size]
    <2>3. h \in Grants /\ h.size = size /\ h.type = g.type /\ h.sub = g.sub
      BY Resized
    <2> HIDE DEF h
    <2>4. granted'[q] = h
      BY <2>2 DEF h
    <2>5. QED BY <2>1, <2>3, <2>4
  <1>5. granted' \in [DOMAIN granted' -> Grants]
    <2>1. granted' = [x \in DOMAIN granted' |-> granted'[x]]
      BY DEF Enter
    <2>2. \A x \in DOMAIN granted' : granted'[x] \in Grants
      BY <1>2, <1>3, <1>4 DEF Held
    <2>3. QED BY <2>1, <2>2
  <1>7. IsFiniteSet(DOMAIN bufferList')
    <2>1. IsFiniteSet(DOMAIN bufferList \ {p})
      BY <1>2, FS_RemoveElement
    <2>2. QED BY <2>1, <1>1, FS_AddElement
  <1>8. \A x \in DOMAIN bufferList' : bufferList'[x].actual \in Nat
    BY <1>1 DEF AnyItem
  <1>9. BytesOf(bufferList', DOMAIN bufferList') =
           BytesOf(bufferList, DOMAIN bufferList) - bufferList[p].actual + bufferList'[q].actual
    <2> DEFINE S == DOMAIN bufferList  U == DOMAIN bufferList'  b == bufferList  c == bufferList'
    <2>1. S \ {p} = U \ {q} /\ p \in S /\ q \in U
      BY <1>1, <1>2
    <2>2. \A x \in S \ {p} : b[x].actual = c[x].actual
      BY <1>1
    <2>3. IsFiniteSet(S) /\ (\A x \in S : b[x].actual \in Nat) /\ \A x \in U : c[x].actual \in Nat
      BY <1>2, <1>8
    <2> HIDE DEF S, U, b, c
    <2>4. BytesOf(c, U) = BytesOf(b, S) - b[p].actual + c[q].actual
      BY <2>1, <2>2, <2>3, BytesChange
    <2>5. QED BY <2>4 DEF S, U, b, c
  <1>10. TotalIsSum'
    BY <1>1, <1>9 DEF AtmiInv, BuffersKept, TotalIsSum
  <1>11. totalSize' \in Nat
    BY <1>7, <1>8, <1>10, BytesType DEF TotalIsSum
  <1>12. AtmiTypes'
    BY <1>1, <1>5, <1>7, <1>11 DEF AtmiTypes
\* A block that is not the one changed was there before, not torn.
  <1>b. \A x \in DOMAIN bufferList' \ torn' : x # q =>
           x \in DOMAIN bufferList \ torn /\ x # p /\ bufferList'[x] = bufferList[x]
    BY <1>1
  <1>c. \A x \in Held' \ torn' : x # q => x \in Held \ torn /\ x # p /\ granted'[x] = granted[x]
    BY <1>1, <1>3 DEF Held
  <1>d. \A x : x # q /\ x # p /\ x \notin wasView' => x \notin wasView
    BY DEF Moved
  <1>e. q \notin wasView' => p \notin wasView
    BY DEF Moved
  <1>13. IdleBounded'
    <2>1. NowIdle' \subseteq NowIdle /\ \A x \in NowIdle' : bufferList'[x] = bufferList[x]
      BY <1>a, <1>b DEF NowIdle
    <2>2. QED BY <2>1, IdleShrinks
  <1>14. RoomAsGranted'
    <2>1. ASSUME NEW x \in Held' \ torn', x # q
          PROVE  /\ x \in DOMAIN bufferList' /\ bufferList'[x].inUse
                 /\ bufferList'[x].actual >= granted'[x].size /\ bufferList'[x].actual >= bufferList'[x].current
      <3>1. x \in Held \ torn /\ x # p /\ granted'[x] = granted[x]
        BY <1>c, <2>1
      <3>2. /\ x \in DOMAIN bufferList /\ bufferList[x].inUse
            /\ bufferList[x].actual >= granted[x].size /\ bufferList[x].actual >= bufferList[x].current
        BY <3>1 DEF AtmiInv, BuffersKept, RoomAsGranted, Registered
      <3> QED
        BY <1>1, <3>1, <3>2
    <2>2. ASSUME q \notin torn'
          PROVE  /\ q \in DOMAIN bufferList' /\ bufferList'[q].inUse
                 /\ bufferList'[q].actual >= granted'[q].size /\ bufferList'[q].actual >= bufferList'[q].current
      BY <1>1, <1>a, <1>4, <2>2
    <2>3. QED BY <2>1, <2>2 DEF RoomAsGranted, Registered
  <1>15. TypeAsGranted'
    <2>1. \A x \in Held \ torn : /\ bufferList[x].type = granted[x].type
             /\ (granted[x].type = "VIEW32" \/ x \notin wasView => bufferList[x].sub = granted[x].sub)
      BY DEF AtmiInv, BuffersKept, TypeAsGranted
    <2>2. \A x \in Held' \ torn' : x # q => bufferList'[x] = bufferList[x]
      BY <1>1, <1>c DEF AtmiInv, BuffersKept, RoomAsGranted, Registered
    <2>3. \A x \in Held' \ torn' : /\ bufferList'[x].type = granted'[x].type
             /\ (granted'[x].type = "VIEW32" \/ x \notin wasView' => bufferList'[x].sub = granted'[x].sub)
      BY <2>1, <2>2, <1>a, <1>c, <1>d, <1>e, <1>4
    <2> QED
      BY <2>3 DEF TypeAsGranted
  <1>f. Nameless'
    <2>1. \A x \in DOMAIN bufferList \ torn : x \notin wasView => bufferList[x].sub = NoSub
      BY DEF AtmiInv, Nameless
    <2>2. \A x \in DOMAIN bufferList' \ torn' : x \notin wasView' => bufferList'[x].sub = NoSub
      BY <2>1, <1>2, <1>a, <1>b, <1>d, <1>e
    <2> QED
      BY <2>2 DEF Nameless
  <1>16. QED BY <1>10, <1>12, <1>13, <1>14, <1>15, <1>f DEF AtmiInv, BuffersKept

(* A block that was idle or not there is the program's. *)
LEMMA GrantKeeps ==
  ASSUME AtmiInv, NEW p, NEW type \in BufferType, NEW sub \in SubType \cup {NoSub}, NEW size \in Nat,
         Grant(p, type, sub, size), wasView' = BecomesView(wasView, p, type),
         ~Registered(p),
         DOMAIN bufferList' = DOMAIN bufferList \cup {p},
         bufferList' \in [DOMAIN bufferList' -> AnyItem],
         \A x \in DOMAIN bufferList \ {p} : bufferList'[x] = bufferList[x],
         bufferList'[p].inUse, bufferList'[p].current = size, bufferList'[p].actual >= size,
         bufferList'[p].type = type, type = "VIEW32" => bufferList'[p].sub = sub,
         p \in torn \/ p \in wasView' \/ bufferList'[p].sub = NoSub,
         totalSize' \in Nat, torn' = torn, TotalIsSum'
  PROVE  AtmiInv'
  <1>1. /\ IsFiniteSet(DOMAIN bufferList) /\ bufferList \in [DOMAIN bufferList -> AnyItem]
        /\ granted \in [DOMAIN granted -> Grants]
        /\ \A x \in DOMAIN bufferList : bufferList[x].actual \in Nat
    BY ActualNat DEF AtmiInv, AtmiTypes
  <1> DEFINE told == [type |-> type, size |-> size, sub |-> IF type = "VIEW32" THEN sub ELSE NoSub]
  <1>2. told \in Grants /\ told.size = size /\ told.type = type
        /\ told.sub = IF type = "VIEW32" THEN sub ELSE NoSub
    BY DEF Grants
  <1>4. granted' = Enter(granted, p, told)
    BY DEF Grant
  <1> HIDE DEF told
  <1>5. /\ DOMAIN granted' = DOMAIN granted \cup {p}
        /\ \A x \in DOMAIN granted \ {p} : granted'[x] = granted[x]
        /\ granted'[p] = told
    BY <1>4 DEF Enter
  <1>6. granted' \in [DOMAIN granted' -> Grants]
    <2>1. granted' = [x \in DOMAIN granted' |-> granted'[x]]
      BY <1>4 DEF Enter
    <2>2. \A x \in DOMAIN granted' : granted'[x] \in Grants
      BY <1>1, <1>2, <1>5
    <2>3. QED BY <2>1, <2>2
  <1>7. IsFiniteSet(DOMAIN bufferList')
    BY <1>1, FS_AddElement
  <1>9. AtmiTypes'
    BY <1>1, <1>6, <1>7 DEF AtmiTypes
  <1>10. IdleBounded'
    <2>1. NowIdle' \subseteq NowIdle /\ \A x \in NowIdle' : bufferList'[x] = bufferList[x]
      BY DEF NowIdle
    <2>2. QED BY <2>1, IdleShrinks
  <1>a. \A x : x # p /\ x \notin wasView' => x \notin wasView
    BY DEF BecomesView
  <1>b. type # "VIEW32" /\ p \notin wasView' /\ p \notin torn => bufferList'[p].sub = NoSub
    OBVIOUS
\* The blocks the program held before.
  <1>c. ASSUME NEW x \in Held' \ torn', x # p
        PROVE  /\ x \in Held \ torn /\ Registered(x) /\ granted'[x] = granted[x] /\ bufferList'[x] = bufferList[x]
               /\ x \in DOMAIN bufferList'
    <2>1. x \in Held \ torn /\ granted'[x] = granted[x]
      BY <1>5, <1>c DEF Held
    <2>2. Registered(x)
      BY <2>1 DEF AtmiInv, BuffersKept, RoomAsGranted
    <2> QED
      BY <1>c, <2>1, <2>2 DEF Registered
  <1>11. RoomAsGranted'
    <2>1. \A x \in Held \ torn : /\ bufferList[x].inUse
             /\ bufferList[x].actual >= granted[x].size /\ bufferList[x].actual >= bufferList[x].current
      BY DEF AtmiInv, BuffersKept, RoomAsGranted, Registered
    <2>2. bufferList'[p].actual >= granted'[p].size /\ bufferList'[p].actual >= bufferList'[p].current
      BY <1>2, <1>5
    <2>3. \A x \in Held' \ torn' : /\ x \in DOMAIN bufferList' /\ bufferList'[x].inUse
             /\ bufferList'[x].actual >= granted'[x].size /\ bufferList'[x].actual >= bufferList'[x].current
      BY <1>c, <2>1, <2>2
    <2>4. QED BY <2>3 DEF RoomAsGranted, Registered
  <1>12. TypeAsGranted'
    <2>1. \A x \in Held \ torn : /\ bufferList[x].type = granted[x].type
             /\ (granted[x].type = "VIEW32" \/ x \notin wasView => bufferList[x].sub = granted[x].sub)
      BY DEF AtmiInv, BuffersKept, TypeAsGranted
    <2>2. p \notin torn' => /\ bufferList'[p].type = granted'[p].type
             /\ (granted'[p].type = "VIEW32" \/ p \notin wasView' => bufferList'[p].sub = granted'[p].sub)
      BY <1>2, <1>5, <1>b
    <2>3. \A x \in Held' \ torn' : /\ bufferList'[x].type = granted'[x].type
             /\ (granted'[x].type = "VIEW32" \/ x \notin wasView' => bufferList'[x].sub = granted'[x].sub)
      BY <1>a, <1>c, <2>1, <2>2
    <2> QED
      BY <2>3 DEF TypeAsGranted
  <1>d. Nameless'
    <2>1. \A x \in DOMAIN bufferList \ torn : x \notin wasView => bufferList[x].sub = NoSub
      BY DEF AtmiInv, Nameless
    <2>2. \A x \in DOMAIN bufferList' \ torn' : x \notin wasView' => bufferList'[x].sub = NoSub
      BY <2>1, <1>a
    <2> QED
      BY <2>2 DEF Nameless
  <1>13. QED BY <1>9, <1>10, <1>11, <1>12, <1>d DEF AtmiInv, BuffersKept

\* tpalloc, whether it takes an idle block or a new one.
LEMMA TpallocKeeps ==
  ASSUME AtmiInv, NEW type \in BufferType, NEW sub \in SubType \cup {NoSub}, NEW asked \in BufferSize,
         Tpalloc(type, sub, asked), Refusal(type, sub, asked) = "none"
  PROVE  AtmiInv'
  <1> DEFINE size == Wanted(type, sub, asked)
  <1>1. size \in Nat /\ (type = "VIEW32" => sub \in SubType)
    BY WantedSize DEF BufferSize
  <1>2. /\ IsFiniteSet(DOMAIN bufferList) /\ bufferList \in [DOMAIN bufferList -> AnyItem]
        /\ totalSize \in Nat /\ TotalIsSum
        /\ \A x \in DOMAIN bufferList : bufferList[x].actual \in Nat
    BY ActualNat DEF AtmiInv, AtmiTypes, BuffersKept
  <1>3. /\ torn' = torn
        /\ \/ \E p \in Idle(size) :
                  /\ bufferList' = [bufferList EXCEPT ![p] = Reused(p, type, sub, size)]
                  /\ Grant(p, type, sub, size)
                  /\ wasView' = BecomesView(wasView, p, type)
                  /\ totalSize' = totalSize
           \/ \E p \in Block \ DOMAIN bufferList :
                     /\ bufferList' = Enter(bufferList, p,
                            [current |-> size, actual |-> size, type |-> type, inUse |-> TRUE,
                             sub |-> IF type = "VIEW32" THEN sub ELSE NoSub])
                     /\ totalSize' = totalSize + size
                     /\ Grant(p, type, sub, size)
                     /\ wasView' = BecomesView(wasView, p, type)
    BY DEF Tpalloc
  <1> HIDE DEF size
  <1>4. ASSUME NEW p \in Idle(size), bufferList' = [bufferList EXCEPT ![p] = Reused(p, type, sub, size)],
               Grant(p, type, sub, size), totalSize' = totalSize,
               wasView' = BecomesView(wasView, p, type)
        PROVE  AtmiInv'
    <2>1. p \in DOMAIN bufferList /\ ~bufferList[p].inUse /\ size <= bufferList[p].actual
      BY DEF Idle
    <2>2. PICK old \in AnyItem : old = bufferList[p]
      BY <1>2, <2>1
    <2>3. bufferList'[p] = [old EXCEPT !.inUse = TRUE, !.current = size, !.type = type,
                                       !.sub = IF type = "VIEW32" THEN sub ELSE @]
      BY <1>4, <2>1, <2>2 DEF Reused
    <2>4. /\ bufferList'[p] \in AnyItem /\ bufferList'[p].inUse /\ bufferList'[p].current = size
          /\ bufferList'[p].actual = old.actual /\ bufferList'[p].type = type
          /\ type = "VIEW32" => bufferList'[p].sub = sub
      BY <1>1, <2>3 DEF AnyItem
    <2>5. DOMAIN bufferList' = DOMAIN bufferList /\ \A x \in DOMAIN bufferList \ {p} : bufferList'[x] = bufferList[x]
      BY <1>4, <1>2
    <2>6. bufferList' \in [DOMAIN bufferList' -> AnyItem]
      BY <1>2, <1>4, <2>4, <2>5
    <2>7. bufferList'[p].actual >= size
      BY <2>1, <2>2, <2>4, <1>1 DEF AnyItem
    <2>8. \A x \in DOMAIN bufferList : bufferList[x].actual = bufferList'[x].actual
      BY <2>2, <2>4, <2>5
    <2>9. BytesOf(bufferList, DOMAIN bufferList) = BytesOf(bufferList', DOMAIN bufferList)
      BY <2>8, <1>2, BytesSame
    <2>10. TotalIsSum'
      BY <1>4, <1>2, <2>5, <2>9 DEF TotalIsSum
    <2>11. DOMAIN bufferList' = DOMAIN bufferList \cup {p}
      BY <2>1, <2>5
    <2>12. totalSize' \in Nat /\ torn' = torn
      BY <1>2, <1>3, <1>4
    <2>a. p \in torn \/ p \in wasView' \/ bufferList'[p].sub = NoSub
      <3>1. type # "VIEW32" => bufferList'[p].sub = old.sub
        BY <2>3 DEF AnyItem
      <3>2. type # "VIEW32" => wasView' = wasView
        BY <1>4 DEF BecomesView
      <3>3. type = "VIEW32" => p \in wasView'
        BY <1>4 DEF BecomesView
      <3>4. p \in torn \/ p \in wasView \/ old.sub = NoSub
        BY <2>1, <2>2 DEF AtmiInv, Nameless
      <3> QED
        BY <3>1, <3>2, <3>3, <3>4
    <2>b. ~Registered(p)
      BY <2>1 DEF Registered
    <2>13. QED BY <1>1, <1>4, <2>a, <2>b, <2>4, <2>5, <2>6, <2>7, <2>10, <2>11, <2>12, GrantKeeps
  <1>5. ASSUME NEW p \in Block \ DOMAIN bufferList,
               bufferList' = Enter(bufferList, p,
                            [current |-> size, actual |-> size, type |-> type, inUse |-> TRUE,
                             sub |-> IF type = "VIEW32" THEN sub ELSE NoSub]),
               totalSize' = totalSize + size, Grant(p, type, sub, size),
               wasView' = BecomesView(wasView, p, type)
        PROVE  AtmiInv'
    <2> DEFINE new == [current |-> size, actual |-> size, type |-> type, inUse |-> TRUE,
                       sub |-> IF type = "VIEW32" THEN sub ELSE NoSub]
    <2>1. new \in AnyItem /\ new.inUse /\ new.current = size /\ new.actual = size /\ new.type = type
          /\ (type = "VIEW32" => new.sub = sub)
      BY <1>1 DEF AnyItem
    <2>2. bufferList' = Enter(bufferList, p, new)
      BY <1>5
    <2> HIDE DEF new
    <2>3. /\ DOMAIN bufferList' = DOMAIN bufferList \cup {p}
          /\ bufferList'[p] = new
          /\ \A x \in DOMAIN bufferList : bufferList'[x] = bufferList[x]
      BY <2>2 DEF Enter
    <2>4. bufferList' \in [DOMAIN bufferList' -> AnyItem]
      <3>1. bufferList' = [x \in DOMAIN bufferList' |-> bufferList'[x]]
        BY <2>2 DEF Enter
      <3>2. \A x \in DOMAIN bufferList' : bufferList'[x] \in AnyItem
        BY <2>1, <2>3, <1>2
      <3>3. QED BY <3>1, <3>2
    <2>5. BytesOf(bufferList', DOMAIN bufferList') = size + BytesOf(bufferList', DOMAIN bufferList' \ {p})
      <3> DEFINE U == DOMAIN bufferList'  c == bufferList'
      <3>1. IsFiniteSet(U)
        BY <2>3, <1>2, FS_AddElement
      <3>2. p \in U /\ \A x \in U : c[x].actual \in Nat
        BY <2>3, <2>4 DEF AnyItem
      <3>3. c[p].actual = size
        BY <2>1, <2>3
      <3> HIDE DEF U, c
      <3>4. BytesOf(c, U) = c[p].actual + BytesOf(c, U \ {p})
        BY <3>1, <3>2, BytesRemove
      <3>5. QED BY <3>3, <3>4 DEF U, c
    <2>6. DOMAIN bufferList' \ {p} = DOMAIN bufferList
      BY <2>3
    <2>7. \A x \in DOMAIN bufferList : bufferList[x].actual = bufferList'[x].actual
      BY <2>3
    <2>8. BytesOf(bufferList, DOMAIN bufferList) = BytesOf(bufferList', DOMAIN bufferList)
      BY <2>7, <1>2, BytesSame
    <2>9. TotalIsSum'
      <3>1. totalSize = BytesOf(bufferList, DOMAIN bufferList)
        BY <1>2 DEF TotalIsSum
      <3>2. BytesOf(bufferList', DOMAIN bufferList') = size + totalSize
        BY <2>5, <2>6, <2>8, <3>1
      <3>3. totalSize' = BytesOf(bufferList', DOMAIN bufferList')
        BY <1>1, <1>2, <1>5, <3>2
      <3>4. QED BY <3>3 DEF TotalIsSum
    <2>10. totalSize' \in Nat /\ torn' = torn /\ bufferList'[p].actual >= size
      BY <1>1, <1>2, <1>3, <1>5, <2>1, <2>3
    <2>11. \A x \in DOMAIN bufferList \ {p} : bufferList'[x] = bufferList[x]
      BY <2>3
    <2>a. p \in torn \/ p \in wasView' \/ bufferList'[p].sub = NoSub
      <3>1. type = "VIEW32" => p \in wasView'
        BY <1>5 DEF BecomesView
      <3>2. type # "VIEW32" => new.sub = NoSub
        BY DEF new
      <3> QED
        BY <2>3, <3>1, <3>2
    <2>12. /\ ~Registered(p)
           /\ bufferList'[p].inUse /\ bufferList'[p].current = size
           /\ bufferList'[p].type = type /\ (type = "VIEW32" => bufferList'[p].sub = sub)
      BY <1>5, <2>1, <2>3 DEF Registered
    <2>13. QED BY <1>1, <1>5, <2>a, <2>3, <2>4, <2>9, <2>10, <2>11, <2>12, GrantKeeps
  <1>6. QED BY <1>3, <1>4, <1>5

\* tpfree, whether the block is kept or given back.
LEMMA TpfreeKeeps ==
  ASSUME AtmiInv, NEW p \in Held, Tpfree(p)
  PROVE  AtmiInv'
  <1>1. /\ IsFiniteSet(DOMAIN bufferList) /\ bufferList \in [DOMAIN bufferList -> AnyItem]
        /\ granted \in [DOMAIN granted -> Grants]
        /\ totalSize \in Nat /\ TotalIsSum /\ IdleBounded
        /\ \A x \in DOMAIN bufferList : bufferList[x].actual \in Nat
    BY ActualNat DEF AtmiInv, AtmiTypes, BuffersKept
  <1>2. PICK rest \in GivenAway(p) : granted' = rest
    BY DEF Tpfree
  <1>3. /\ granted' \in [DOMAIN granted' -> Grants] /\ torn' = torn
        /\ \A x \in Held' : granted'[x] = granted[x] /\ x \in Held
        /\ p \notin torn => p \notin Held'
    BY <1>2, GivenAwayRight DEF Tpfree, Held
\* The other blocks of the program are untouched.
  <1>a. ASSUME \A x \in DOMAIN bufferList \ {p} : x \in DOMAIN bufferList' /\ bufferList'[x] = bufferList[x],
               DOMAIN bufferList' \subseteq DOMAIN bufferList,
               p \in DOMAIN bufferList' \ torn => bufferList'[p].sub = bufferList[p].sub,
               \A x : x # p => (x \in wasView' <=> x \in wasView),
               p \in DOMAIN bufferList' => (p \in wasView' <=> p \in wasView)
        PROVE  RoomAsGranted' /\ TypeAsGranted' /\ Nameless'
    <2>1. \A x \in Held \ torn : /\ x \in DOMAIN bufferList /\ bufferList[x].inUse
             /\ bufferList[x].actual >= granted[x].size /\ bufferList[x].actual >= bufferList[x].current
             /\ bufferList[x].type = granted[x].type
             /\ (granted[x].type = "VIEW32" \/ x \notin wasView => bufferList[x].sub = granted[x].sub)
      BY DEF AtmiInv, BuffersKept, RoomAsGranted, TypeAsGranted, Registered
    <2>2. \A x \in Held' \ torn' : /\ x \in Held \ torn /\ x # p /\ granted'[x] = granted[x]
      BY <1>3
    <2>3. ASSUME NEW x \in Held' \ torn'
          PROVE  /\ x \in DOMAIN bufferList' /\ bufferList'[x] = bufferList[x]
                 /\ x \in wasView' <=> x \in wasView
      <3>1. x \in Held \ torn /\ x # p
        BY <2>2
      <3>2. x \in DOMAIN bufferList
        BY <2>1, <3>1
      <3> QED
        BY <1>a, <3>1, <3>2
    <2>4. RoomAsGranted'
      BY <2>1, <2>2, <2>3 DEF RoomAsGranted, Registered
    <2>5. TypeAsGranted'
      BY <2>1, <2>2, <2>3 DEF TypeAsGranted
    <2>6. Nameless'
      BY <1>3, <1>a DEF AtmiInv, Nameless
    <2> QED
      BY <2>4, <2>5, <2>6
  <1>b. CASE ~Registered(p)
    <2>1. bufferList' = bufferList /\ totalSize' = totalSize /\ wasView' = wasView
      BY <1>b DEF Tpfree
    <2>2. AtmiTypes' /\ TotalIsSum'
      BY <1>1, <1>3, <2>1 DEF AtmiTypes, TotalIsSum
    <2>3. IdleBounded'
      <3>1. NowIdle' = NowIdle
        BY <1>3, <2>1 DEF NowIdle
      <3> QED
        BY <2>1, <3>1, IdleShrinks
    <2>4. RoomAsGranted' /\ TypeAsGranted' /\ Nameless'
      BY <1>a, <2>1
    <2> QED
      BY <2>2, <2>3, <2>4 DEF AtmiInv, BuffersKept
  <1>c. Registered(p) => p \in DOMAIN bufferList /\ bufferList[p].inUse
    BY DEF Registered
  <1>4. CASE Registered(p) /\ OverCache(p)
    <2>1. totalSize' = totalSize - bufferList[p].actual /\ wasView' = wasView \ {p}
          /\ bufferList' = [x \in DOMAIN bufferList \ {p} |-> bufferList[x]]
      BY <1>4 DEF Tpfree, Without, Restrict
    <2>2. bufferList' \in [DOMAIN bufferList' -> AnyItem] /\ DOMAIN bufferList' = DOMAIN bufferList \ {p}
          /\ \A x \in DOMAIN bufferList' : bufferList'[x] = bufferList[x]
      BY <1>1, <2>1
    <2>3. IsFiniteSet(DOMAIN bufferList \ {p})
      BY <1>1, FS_RemoveElement
    <2>4. \A x \in DOMAIN bufferList \ {p} : bufferList[x].actual = bufferList'[x].actual
      BY <2>2
    <2>5. BytesOf(bufferList, DOMAIN bufferList \ {p}) = BytesOf(bufferList', DOMAIN bufferList \ {p})
      BY <2>3, <2>4, BytesSame
    <2>6. BytesOf(bufferList, DOMAIN bufferList) = bufferList[p].actual + BytesOf(bufferList, DOMAIN bufferList \ {p})
      BY <1>1, <1>c, <1>4, BytesRemove
    <2>7. BytesOf(bufferList, DOMAIN bufferList \ {p}) \in Nat /\ bufferList[p].actual \in Nat
      BY <1>1, <1>c, <1>4, <2>3, BytesType
    <2>8. totalSize' = BytesOf(bufferList', DOMAIN bufferList') /\ totalSize' \in Nat
      <3>1. totalSize = bufferList[p].actual + BytesOf(bufferList, DOMAIN bufferList \ {p})
        BY <1>1, <2>6 DEF TotalIsSum
      <3>2. totalSize' = BytesOf(bufferList, DOMAIN bufferList \ {p})
        BY <2>1, <2>7, <3>1
      <3>3. QED BY <2>2, <2>5, <2>7, <3>2
    <2>9. TotalIsSum'
      BY <2>8 DEF TotalIsSum
    <2>10. NowIdle' \subseteq NowIdle /\ \A x \in NowIdle' : bufferList'[x] = bufferList[x]
      BY <1>3, <2>2 DEF NowIdle
    <2>13. IdleBounded'
      BY <2>10, IdleShrinks
    <2>14. AtmiTypes'
      BY <1>1, <1>3, <2>2, <2>3, <2>8 DEF AtmiTypes
    <2>16. RoomAsGranted' /\ TypeAsGranted' /\ Nameless'
      <3>1. p \notin DOMAIN bufferList' /\ \A x : x # p => (x \in wasView' <=> x \in wasView)
        BY <2>1, <2>2
      <3> QED
        BY <1>a, <2>2, <3>1
    <2>18. QED BY <2>9, <2>13, <2>14, <2>16 DEF AtmiInv, BuffersKept
  <1>5. CASE Registered(p) /\ ~OverCache(p)
    <2>1. totalSize' = totalSize /\ bufferList' = [bufferList EXCEPT ![p].inUse = FALSE]
          /\ totalSize <= CachedSize /\ wasView' = wasView
      BY <1>1, <1>5 DEF Tpfree, OverCache
    <2>2. PICK old \in AnyItem : old = bufferList[p]
      BY <1>1, <1>c, <1>5
    <2>3. bufferList'[p] = [old EXCEPT !.inUse = FALSE]
      BY <1>1, <1>c, <1>5, <2>1, <2>2
    <2>4. bufferList'[p] \in AnyItem /\ bufferList'[p].actual = old.actual /\ bufferList'[p].sub = old.sub
      BY <2>3 DEF AnyItem
    <2>5. DOMAIN bufferList' = DOMAIN bufferList /\ \A x \in DOMAIN bufferList \ {p} : bufferList'[x] = bufferList[x]
      BY <1>1, <2>1
    <2>6. bufferList' \in [DOMAIN bufferList' -> AnyItem]
      BY <1>1, <2>1, <2>4, <2>5
    <2>7. \A x \in DOMAIN bufferList : bufferList[x].actual = bufferList'[x].actual
      BY <2>2, <2>4, <2>5
    <2>8. BytesOf(bufferList, DOMAIN bufferList) = BytesOf(bufferList', DOMAIN bufferList)
      BY <1>1, <2>7, BytesSame
    <2>9. TotalIsSum'
      BY <1>1, <2>1, <2>5, <2>8 DEF TotalIsSum
    <2>10. IdleBounded'
      <3> DEFINE U == NowIdle'  S == DOMAIN bufferList  b == bufferList'
      <3>1. U \in SUBSET S
        BY <2>5 DEF NowIdle
      <3>2. IsFiniteSet(S) /\ \A x \in S : b[x].actual \in Nat
        BY <1>1, <2>7
      <3>3. totalSize = BytesOf(b, S)
        BY <1>1, <2>8 DEF TotalIsSum
      <3> HIDE DEF U, S, b
      <3>4. BytesOf(b, U) <= BytesOf(b, S)
        BY <3>1, <3>2, BytesPart
      <3>5. IsFiniteSet(U) /\ \A x \in U : b[x].actual \in Nat
        BY <3>1, <3>2, FS_Subset
      <3>6. BytesOf(b, U) \in Nat
        BY <3>5, BytesType
      <3>7. BytesOf(b, U) <= CachedSize
        BY <1>1, <2>1, <3>3, <3>4, <3>6
      <3>8. QED BY <3>7 DEF b, U, IdleBounded, NowIdle
    <2>11. AtmiTypes'
      BY <1>1, <1>3, <2>1, <2>5, <2>6 DEF AtmiTypes
    <2>12. RoomAsGranted' /\ TypeAsGranted' /\ Nameless'
      <3>1. bufferList'[p].sub = bufferList[p].sub
        BY <2>2, <2>4
      <3>2. \A x \in DOMAIN bufferList \ {p} : x \in DOMAIN bufferList' /\ bufferList'[x] = bufferList[x]
        BY <2>5
      <3> QED
        BY <1>a, <2>1, <2>5, <3>1, <3>2
    <2>15. QED BY <2>9, <2>10, <2>11, <2>12 DEF AtmiInv, BuffersKept
  <1>6. QED BY <1>b, <1>4, <1>5

\* What has not changed is as right as it was.
LEMMA AtmiSame ==
  ASSUME AtmiInv, UNCHANGED <<bufferList, totalSize, granted, torn, wasView>>
  PROVE  AtmiInv'
  <1>1. AtmiTypes'
    BY DEF AtmiInv, AtmiTypes
  <1>2. TotalIsSum'
    BY DEF AtmiInv, BuffersKept, TotalIsSum
  <1>3. IdleBounded'
    BY Zenon DEF AtmiInv, BuffersKept, IdleBounded
  <1>4. RoomAsGranted' /\ TypeAsGranted' /\ Nameless'
    BY DEF AtmiInv, BuffersKept, RoomAsGranted, TypeAsGranted, Held, Registered, Nameless
  <1>5. QED BY <1>1, <1>2, <1>3, <1>4 DEF AtmiInv, BuffersKept

\* Every call of the program keeps the invariant.
LEMMA AtmiNextKeeps == ASSUME AtmiInv, AtmiNext PROVE AtmiInv'
  <1>1. ASSUME NEW type \in BufferType, NEW sub \in SubType \cup {NoSub}, NEW size \in BufferSize,
               Tpalloc(type, sub, size)
        PROVE  AtmiInv'
    <2>1. CASE Refusal(type, sub, size) # "none"
      BY <1>1, <2>1, AtmiSame DEF Tpalloc
    <2>2. QED BY <1>1, <2>1, TpallocKeeps
  <1>2. ASSUME NEW p \in Held, NEW size \in BufferSize \ {0}, Tprealloc(p, size)
        PROVE  AtmiInv'
    <2>1. CASE ~Registered(p)
      BY <1>2, <2>1, AtmiSame DEF Tprealloc
    <2>2. CASE Registered(p)
      <3>1. PICK q \in Block, rest \in GivenAway(p) :
               /\ Reallocate(p, q, size)
               /\ granted' = Enter(rest, q, [granted[p] EXCEPT !.size = size])
               /\ wasView' = Moved(wasView, p, q)
        BY <1>2, <2>2 DEF Tprealloc
      <3> QED
        BY <2>2, <3>1, ReallocateKeeps DEF BufferSize
    <2>3. QED BY <2>1, <2>2
  <1>3. ASSUME NEW p \in Held, NEW error, TpcallWithoutReply(p, error)
        PROVE  AtmiInv'
    BY <1>3, AtmiSame DEF TpcallWithoutReply
  <1>4. ASSUME NEW p \in Held, NEW q \in Held, NEW reply \in TypedReply, TpcallWithReply(p, q, reply)
        PROVE  AtmiInv'
    <2>1. CASE ~Registered(q) \/ ~SameType(q, reply)
      BY <1>4, <2>1, AtmiSame DEF TpcallWithReply
    <2>2. CASE Registered(q) /\ SameType(q, reply)
      <3>1. PICK r \in Block, rest \in GivenAway(q) :
               /\ Reallocate(q, r, reply.size + 1)
               /\ granted' = Enter(rest, r, [granted[q] EXCEPT !.size = reply.size + 1])
               /\ wasView' = Moved(wasView, q, r)
        BY <1>4, <2>2 DEF TpcallWithReply
      <3>2. reply.size + 1 \in Nat
        BY DEF TypedReply
      <3> DEFINE size == reply.size + 1
      <3> HIDE DEF size
      <3>3. QED BY <2>2, <3>1, <3>2, ReallocateKeeps DEF size
    <2>3. QED BY <2>1, <2>2
  <1>5. QED BY <1>1, <1>2, <1>3, <1>4, TpfreeKeeps DEF AtmiNext

\* A program begins with no buffers.
LEMMA AtmiInitKeeps == AtmiInit => AtmiInv
  <1> SUFFICES ASSUME AtmiInit PROVE AtmiInv
    OBVIOUS
  <1>1. DOMAIN bufferList = {} /\ DOMAIN granted = {} /\ totalSize = 0 /\ torn = {}
    BY DEF AtmiInit
  <1>2. bufferList = [x \in {} |-> 0] /\ granted = [x \in {} |-> 0]
    BY DEF AtmiInit
  <1>3. AtmiTypes
    BY <1>1, <1>2, FS_EmptySet DEF AtmiTypes
  <1>4. \A S : S \subseteq {} => BytesOf(bufferList, S) = 0
    <2>1. \A S : S \subseteq {} => S = {}
      OBVIOUS
    <2>2. QED BY <2>1, BytesEmpty
  <1>5. TotalIsSum /\ IdleBounded
    BY <1>1, <1>4 DEF TotalIsSum, IdleBounded
  <1>6. RoomAsGranted /\ TypeAsGranted /\ Nameless
    BY <1>1 DEF RoomAsGranted, TypeAsGranted, Held, Nameless
  <1>7. QED BY <1>3, <1>5, <1>6 DEF AtmiInv, BuffersKept


\* The typed buffers of a program are what it was told, unless an entry says
\* something else since it was read after its erasure: as long as granted, of
\* the type granted, and taking answers with its name but where it is left from
\* a view; those kept idle are within the limit.  The total the manager keeps
\* is the sum of the blocks whatever happens (ATMIBufferManager).
THEOREM AtmiBuffersKept == AtmiSpec => []BuffersKept
  <1>1. AtmiInit => AtmiInv
    BY AtmiInitKeeps
  <1>2. AtmiInv /\ [AtmiNext]_atmiVars => AtmiInv'
    BY AtmiNextKeeps, AtmiSame DEF atmiVars
  <1>3. AtmiInv => BuffersKept
    BY DEF AtmiInv
  <1>4. QED BY <1>1, <1>2, <1>3, PTL DEF AtmiSpec

=============================================================================
