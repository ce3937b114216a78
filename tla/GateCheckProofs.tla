--------------------------- MODULE GateCheckProofs ---------------------------
(***************************************************************************)
(* Theorems about GateCheck, for any gates, callers and bounds.            *)
(***************************************************************************)
EXTENDS GateCheck, TLAPS

USE GateLenAssumption, ThreadAssumption, BoundAssumption

-----------------------------------------------------------------------------
(* Sequences of messages. *)

LEMMA AppendMessage ==
  ASSUME NEW q \in Seq(Message), NEW m \in Message
  PROVE  /\ Append(q, m) \in Seq(Message)
         /\ \A i \in DOMAIN Append(q, m) :
              \/ i \in DOMAIN q /\ Append(q, m)[i] = q[i]
              \/ i = Len(q) + 1 /\ Append(q, m)[i] = m
         /\ Len(q) + 1 \notin DOMAIN q
OBVIOUS

LEMMA TailMessages ==
  ASSUME NEW q \in Seq(Message), q # <<>>
  PROVE  /\ Tail(q) \in Seq(Message)
         /\ 1 \in DOMAIN q /\ Head(q) = q[1] /\ q[1] \in Message
         /\ \A i \in DOMAIN Tail(q) : i \in Nat /\ i > 0 /\ i + 1 \in DOMAIN q /\ Tail(q)[i] = q[i + 1]
OBVIOUS

LEMMA NothingSent == <<>> \in Seq(Message) /\ DOMAIN <<>> = {}
OBVIOUS

-----------------------------------------------------------------------------
(* The conversation with the gate: a request is with the WSH, or its       *)
(* answer is on the way, or none is waited for, whatever notices there are. *)

NoAnswer(q) == \A i \in DOMAIN q : q[i].kind = "notice"
OneAnswer(q) ==
  \A i, j \in DOMAIN q : (q[i].kind # "notice" /\ q[j].kind # "notice") => i = j

Conversation ==
  /\ request = "none" => (work.at = "idle" /\ NoAnswer(inbox))
  /\ work.at # "idle" => (link # None /\ work.kind = request /\ NoAnswer(inbox))
  /\ OneAnswer(inbox)
  /\ AnswerIsForRequest
  /\ inbox # <<>> => link # None
  /\ work.at = "listed" => work.kind = "register"

(* What a number and a word about the service mean on the board of the     *)
(* gate: the number is one the board has had, and when the board still has *)
(* it, the word is true.                                                   *)
Tells(seq, up) == seq <= board[link].seq /\ ((seq = board[link].seq /\ up) => board[link].up)

(* As long as the connection lasts, this holds of everything the gate says *)
(* and of what the application has heard there.                            *)
Truthful ==
  /\ same => link # None
  /\ (link # None /\ ~broken) =>
       /\ (work.at = "answer" /\ work.kind = "subscribe") => Tells(work.seq, work.info)
       /\ \A i \in DOMAIN inbox : inbox[i].kind = "subscribe" => Tells(inbox[i].seq, inbox[i].info)
       /\ same => Tells(seqSubscibe, stub = "proxy")

IInv == TypeOK /\ Conversation /\ Truthful

LEMMA InitIInv == Init => IInv
<1> SUFFICES ASSUME Init PROVE IInv
  OBVIOUS
<1>1. TypeOK
  <2>1. GatesOK
    BY DEF Init, GatesOK, Fresh, Gate
  <2>2. LineOK
    <3>1. inbox \in Seq(Message)
      BY NothingSent DEF Init
    <3>2. 0 \in Gate /\ 0 \in 0 .. SeqMax
      BY DEF Gate
    <3>3. QED BY <3>1, <3>2, Zenon DEF Init, LineOK, Idle, Work
  <2>3. KnownOK /\ LocksOK
    <3>1. seqSubscibe \in 0 .. SeqMax
      BY DEF Init
    <3>2. QED BY <3>1, Zenon DEF Init, KnownOK, LocksOK
  <2>4. ThreadsOK
    BY DEF Init, ThreadsOK
  <2>5. HistoryOK
    BY DEF Init, HistoryOK
  <2>6. QED BY <2>1, <2>2, <2>3, <2>4, <2>5 DEF TypeOK
<1>2. Conversation
  BY NothingSent DEF Init, Conversation, NoAnswer, OneAnswer, AnswerIsForRequest, Idle
<1>3. Truthful
  BY DEF Init, Truthful
<1>4. QED BY <1>1, <1>2, <1>3 DEF IInv

-----------------------------------------------------------------------------
(* What steps do to the conversation, one lemma for each kind of step.     *)

LineInv == LineOK /\ Conversation /\ Truthful

(* Boards change, gates come and go, a connection dies.                    *)
LEMMA GatesMove ==
  ASSUME IInv, GatesOK',
         UNCHANGED <<link, depot, inbox, work, request, gateIndex, seqSubscibe, stub, same>>,
         broken' \in BOOLEAN, ~broken' => ~broken,
         (~broken' /\ link # None) =>
           \/ board'[link].seq > board[link].seq
           \/ board'[link].seq = board[link].seq /\ board'[link].up = board[link].up
  PROVE  LineInv'
<1>1. LineOK'
  BY DEF IInv, TypeOK, LineOK
<1>2. Conversation'
  BY DEF IInv, Conversation, AnswerIsForRequest
<1>3. Truthful'
  <2>1. (same => link # None)'
    BY DEF IInv, Truthful
  <2>2. ASSUME link # None, ~broken', NEW seq \in 0 .. SeqMax, NEW up \in BOOLEAN, Tells(seq, up)
        PROVE  seq <= board'[link].seq /\ ((seq = board'[link].seq /\ up) => board'[link].up)
    <3>1. link \in Gate /\ board \in [Gate -> [seq : 0 .. SeqMax, up : BOOLEAN, owes : BOOLEAN]]
          /\ board' \in [Gate -> [seq : 0 .. SeqMax, up : BOOLEAN, owes : BOOLEAN]]
      BY <2>2 DEF IInv, TypeOK, GatesOK, LineOK
    <3>2. board[link].seq \in Nat /\ board'[link].seq \in Nat
      BY <3>1
    <3>3. QED BY <2>2, <3>2 DEF Tells
  <2>3. work.seq \in 0 .. SeqMax /\ work.info \in BOOLEAN
    BY DEF IInv, TypeOK, LineOK, Work
  <2>4. \A i \in DOMAIN inbox : inbox[i].seq \in 0 .. SeqMax /\ inbox[i].info \in BOOLEAN
    <3>1. \A i \in DOMAIN inbox : inbox[i] \in Message
      BY DEF IInv, TypeOK, LineOK
    <3>2. \A m \in Message : m.seq \in 0 .. SeqMax /\ m.info \in BOOLEAN
      BY DEF Message
    <3>3. QED BY <3>1, <3>2
  <2>5. seqSubscibe \in 0 .. SeqMax /\ (stub = "proxy") \in BOOLEAN
    BY DEF IInv, TypeOK, KnownOK
  <2>6. QED BY <2>1, <2>2, <2>3, <2>4, <2>5 DEF IInv, Truthful, Tells
<1>4. QED BY <1>1, <1>2, <1>3 DEF LineInv

(* A notice is written. *)
LEMMA NoticeSent ==
  ASSUME IInv, link # None,
         UNCHANGED <<link, broken, depot, work, request, gateIndex, seqSubscibe, stub, same>>,
         board'[link].seq = board[link].seq, board'[link].up = board[link].up,
         inbox' = Append(inbox, Notice)
  PROVE  LineInv'
<1> DEFINE q == Append(inbox, Notice)
<1>1. inbox \in Seq(Message) /\ Notice \in Message
  BY DEF IInv, TypeOK, LineOK, Notice, Message
<1>2. /\ q \in Seq(Message)
      /\ \A i \in DOMAIN q : (i \in DOMAIN inbox /\ q[i] = inbox[i]) \/ q[i] = Notice
  BY <1>1, AppendMessage
<1>3. Notice.kind = "notice"
  BY DEF Notice
<1>4. LineOK'
  BY <1>2 DEF IInv, TypeOK, LineOK
<1> HIDE DEF q
<1>5. inbox' = q
  BY DEF q
<1>6. Conversation'
  BY <1>2, <1>3, <1>5 DEF IInv, Conversation, NoAnswer, OneAnswer, AnswerIsForRequest
<1>7. Truthful'
  BY <1>2, <1>3, <1>5 DEF IInv, Truthful, Tells
<1>8. QED BY <1>4, <1>6, <1>7 DEF LineInv

(* The WSH works on a request. *)
LEMMA WorkMoves ==
  ASSUME IInv, work.at # "idle",
         work' \in Work, work'.at # "idle", work'.kind = work.kind,
         work'.at = "listed" => work'.kind = "register",
         (work'.at = "answer" /\ work'.kind = "subscribe") => Tells(work'.seq, work'.info),
         depot' \in {"none", "app", "client"},
         UNCHANGED <<board, link, broken, inbox, request, gateIndex, seqSubscibe, stub, same>>
  PROVE  LineInv'
<1>1. LineOK'
  BY DEF IInv, TypeOK, LineOK
<1>2. Conversation'
  BY DEF IInv, Conversation, NoAnswer, OneAnswer, AnswerIsForRequest
<1>3. Truthful'
  BY DEF IInv, Truthful, Tells
<1>4. QED BY <1>1, <1>2, <1>3 DEF LineInv

(* The answer is written. *)
LEMMA AnswerSent ==
  ASSUME IInv, SendAnswer
  PROVE  LineInv'
<1> DEFINE m == [kind |-> work.kind, seq |-> work.seq, info |-> work.info]
           q == Append(inbox, m)
<1>1. /\ work.at = "answer" /\ inbox' = q /\ work' = Idle
      /\ UNCHANGED <<board, link, broken, depot, request, gateIndex, seqSubscibe, stub, same>>
  BY DEF SendAnswer, SeqOfAnswer, gates, known
<1>2. inbox \in Seq(Message) /\ m \in Message
  BY DEF IInv, TypeOK, LineOK, Message, Work
<1>3. /\ q \in Seq(Message)
      /\ \A i \in DOMAIN q : \/ i \in DOMAIN inbox /\ q[i] = inbox[i]
                             \/ i = Len(inbox) + 1 /\ q[i] = m
  BY <1>2, AppendMessage
<1>4. m.kind = work.kind /\ m.seq = work.seq /\ m.info = work.info
  OBVIOUS
<1>5. Idle \in Work /\ Idle.at = "idle"
  BY DEF Idle, Work
<1> HIDE DEF m, q
<1>6. LineOK'
  BY <1>1, <1>3, <1>5 DEF IInv, TypeOK, LineOK
<1>7. work.kind = request /\ NoAnswer(inbox) /\ request # "none" /\ link # None
  BY <1>1 DEF IInv, Conversation
<1>8. Conversation'
  <2>1. request' # "none" /\ work'.at = "idle" /\ link' # None
    BY <1>1, <1>5, <1>7
  <2>2. OneAnswer(inbox)'
    BY <1>1, <1>3, <1>7 DEF NoAnswer, OneAnswer
  <2>3. AnswerIsForRequest'
    BY <1>1, <1>3, <1>4, <1>7 DEF NoAnswer, AnswerIsForRequest
  <2>4. QED BY <2>1, <2>2, <2>3 DEF Conversation
<1>9. Truthful'
  BY <1>1, <1>3, <1>4, <1>5 DEF IInv, Truthful, Tells
<1>10. QED BY <1>6, <1>8, <1>9 DEF LineInv

(* The first message is read. *)
LEMMA Read ==
  ASSUME IInv, inbox # <<>>, inbox' = Tail(inbox)
  PROVE  /\ inbox' \in Seq(Message)
         /\ \A i \in DOMAIN inbox' : i \in Nat /\ i > 0 /\ i + 1 \in DOMAIN inbox
                                   /\ inbox'[i] = inbox[i + 1]
         /\ 1 \in DOMAIN inbox /\ Head(inbox) = inbox[1] /\ Head(inbox) \in Message
BY TailMessages DEF IInv, TypeOK, LineOK

LEMMA NoticeRead ==
  ASSUME IInv, inbox # <<>>, inbox' = Tail(inbox),
         UNCHANGED <<board, link, broken, depot, work, request, gateIndex, seqSubscibe, stub, same>>
  PROVE  LineInv'
<1>1. LineOK'
  BY Read DEF IInv, TypeOK, LineOK
<1>2. Conversation'
  <2>1. link # None
    BY DEF IInv, Conversation
  <2>2. (request = "none" => (work.at = "idle" /\ NoAnswer(inbox)))'
    BY Read DEF IInv, Conversation, NoAnswer
  <2>3. (work.at # "idle" => (link # None /\ work.kind = request /\ NoAnswer(inbox)))'
    BY Read DEF IInv, Conversation, NoAnswer
  <2>4. OneAnswer(inbox)'
    BY Read DEF IInv, Conversation, OneAnswer
  <2>5. AnswerIsForRequest'
    BY Read DEF IInv, Conversation, AnswerIsForRequest
  <2>6. (work.at = "listed" => work.kind = "register")'
    BY DEF IInv, Conversation
  <2>7. QED BY <2>1, <2>2, <2>3, <2>4, <2>5, <2>6 DEF Conversation
<1>3. Truthful'
  BY Read DEF IInv, Truthful, Tells
<1>4. QED BY <1>1, <1>2, <1>3 DEF LineInv

(* A request is sent, on a new connection or on the one there is. *)
LEMMA Asked ==
  ASSUME IInv, NEW kind \in {"register", "subscribe"}, NEW info \in BOOLEAN, Ask(kind, info)
  PROVE  LineInv'
<1>1. /\ request = "none" /\ request' = kind
      /\ work' = [at |-> "asked", kind |-> kind, seq |-> 0, info |-> info]
      /\ UNCHANGED <<board, seqSubscibe, stub>>
      /\ ConnectGate
  BY DEF Ask, gates
<1>2. work' \in Work /\ work'.at = "asked" /\ work'.kind = kind
  BY <1>1 DEF Work
<1>3. CASE link # None
  <2>1. UNCHANGED <<link, gateIndex, broken, depot, inbox, same>>
    BY <1>1, <1>3 DEF ConnectGate
  <2>2. LineOK'
    BY <1>1, <1>2, <2>1 DEF IInv, TypeOK, LineOK
  <2>3. Conversation'
    BY <1>1, <1>2, <1>3, <2>1 DEF IInv, Conversation, NoAnswer, OneAnswer, AnswerIsForRequest
  <2>4. Truthful'
    BY <1>1, <1>2, <2>1 DEF IInv, Truthful, Tells
  <2>5. QED BY <2>2, <2>3, <2>4 DEF LineInv
<1>4. CASE link = None
  <2>1. PICK k \in Gate :
          /\ link' = Nth(k) /\ gateIndex' = (Nth(k) + 1) % GateLen
          /\ broken' = FALSE /\ depot' = "none" /\ inbox' = <<>> /\ same' = FALSE
    BY <1>1, <1>4 DEF ConnectGate
  <2>2. Nth(k) \in Gate /\ (Nth(k) + 1) % GateLen \in Gate
    BY DEF Nth, Gate, IInv, TypeOK, LineOK
  <2>3. link' # None
    BY <2>1, <2>2 DEF Gate, None
  <2>4. LineOK'
    BY <1>1, <1>2, <2>1, <2>2, NothingSent DEF LineOK
  <2>5. Conversation'
    BY <1>1, <1>2, <2>1, <2>3, NothingSent DEF Conversation, NoAnswer, OneAnswer, AnswerIsForRequest
  <2>6. Truthful'
    BY <1>2, <2>1, <2>3, NothingSent DEF Truthful
  <2>7. QED BY <2>4, <2>5, <2>6 DEF LineInv
<1>5. QED BY <1>3, <1>4

(* The connection is closed, and what was on it is gone. *)
LEMMA Disconnected ==
  ASSUME IInv, DisconnectGate, request' \in {request, "none"}
  PROVE  LineInv'
<1>1. /\ link' = None /\ broken' = FALSE /\ depot' = "none" /\ inbox' = <<>> /\ work' = Idle
      /\ same' = FALSE /\ gateIndex' = gateIndex
  BY DEF DisconnectGate
<1>2. Idle \in Work /\ Idle.at = "idle"
  BY DEF Idle, Work
<1>3. LineOK'
  BY <1>1, <1>2, NothingSent DEF IInv, TypeOK, LineOK
<1>4. Conversation'
  BY <1>1, <1>2, NothingSent DEF Conversation, NoAnswer, OneAnswer, AnswerIsForRequest
<1>5. Truthful'
  BY <1>1 DEF Truthful
<1>6. QED BY <1>3, <1>4, <1>5 DEF LineInv

(* The answer is read: the request was waiting for it, and nothing but     *)
(* notices is left.                                                        *)
LEMMA AnswerRead ==
  ASSUME IInv, NEW kind, Answered(kind)
  PROVE  /\ LineOK' /\ Conversation'
         /\ Head(inbox) \in Message /\ Head(inbox).kind = kind
         /\ work.at = "idle" /\ work' = work
         /\ UNCHANGED <<board, link, broken>>
         /\ \A i \in DOMAIN inbox' : inbox'[i].kind = "notice"
         /\ kind = "subscribe" =>
              ((link # None /\ ~broken) => Tells(Head(inbox).seq, Head(inbox).info))
<1>1. /\ request = kind /\ inbox # <<>> /\ Head(inbox).kind # "notice"
      /\ request' = "none" /\ inbox' = Tail(inbox)
      /\ UNCHANGED <<board, link, broken, depot, work, gateIndex>>
  BY DEF Answered, gates
<1>2. /\ Head(inbox) = inbox[1] /\ Head(inbox) \in Message /\ 1 \in DOMAIN inbox
      /\ Head(inbox).kind = kind
  BY <1>1, Read DEF IInv, Conversation, AnswerIsForRequest
<1>3. work.at = "idle"
  BY <1>1, <1>2 DEF IInv, Conversation, NoAnswer
<1>4. \A i \in DOMAIN inbox' : inbox'[i].kind = "notice"
  BY <1>1, <1>2, Read DEF IInv, Conversation, OneAnswer
<1>5. LineOK'
  BY <1>1, Read DEF IInv, TypeOK, LineOK
<1>6. Conversation'
  <2>1. link' # None /\ work'.at = "idle"
    BY <1>1, <1>3 DEF IInv, Conversation
  <2>2. NoAnswer(inbox)' /\ OneAnswer(inbox)' /\ AnswerIsForRequest'
    BY <1>4 DEF NoAnswer, OneAnswer, AnswerIsForRequest
  <2>3. QED BY <2>1, <2>2 DEF Conversation
<1>7. kind = "subscribe" => ((link # None /\ ~broken) => Tells(Head(inbox).seq, Head(inbox).info))
  BY <1>2 DEF IInv, Truthful
<1>8. QED BY <1>1, <1>2, <1>3, <1>4, <1>5, <1>6, <1>7

LEMMA SubscriptionRead ==
  ASSUME IInv, Subscibed
  PROVE  LineInv' /\ KnownOK'
<1>1. /\ Answered("subscribe")
      /\ notified' = FALSE /\ seqSubscibe' = Head(inbox).seq
      /\ stub' = IF Head(inbox).info THEN "proxy" ELSE "absent"
      /\ same' = TRUE
  BY DEF Subscibed
<1>2. KnownOK'
  BY <1>1, AnswerRead DEF KnownOK, Message
<1>3. link # None
  BY DEF Subscibed, Answered, IInv, Conversation
<1>4. Truthful'
  BY <1>1, <1>3, AnswerRead DEF Truthful, Tells, Message
<1>5. QED BY <1>1, <1>2, <1>4, AnswerRead DEF LineInv

-----------------------------------------------------------------------------
(* The steps of the gates. *)

LEMMA ChangeKeeps ==
  ASSUME IInv, NEW g \in Gate, Change(g)
  PROVE  IInv'
<1>1. PICK up \in BOOLEAN :
        /\ board' = [board EXCEPT ![g] = [seq |-> board[g].seq + 1, up |-> up, owes |-> TRUE]]
        /\ served' = [t \in Caller |-> served[t] /\ up]
  BY DEF Change
<1>2. board[g].seq < SeqMax /\ board[g].seq \in Nat
  BY DEF Change, IInv, TypeOK, GatesOK
<1>3. UNCHANGED <<alive, line, known, locks, threads, failures>>
  BY DEF Change
<1>4. GatesOK'
  BY <1>1, <1>2, <1>3 DEF IInv, TypeOK, GatesOK
<1>5. HistoryOK'
  <2>1. \A t \in Caller : (served[t] /\ up) \in BOOLEAN
    OBVIOUS
  <2>2. served' \in [Caller -> BOOLEAN]
    BY <1>1, <2>1, Zenon
  <2>3. QED BY <1>3, <2>2 DEF IInv, TypeOK, HistoryOK
<1>6. (link # None) =>
        \/ board'[link].seq > board[link].seq
        \/ board'[link].seq = board[link].seq /\ board'[link].up = board[link].up
  BY <1>1, <1>2 DEF IInv, TypeOK, GatesOK, LineOK
<1>7. LineInv'
  BY <1>3, <1>4, <1>6, GatesMove DEF line, known, IInv, TypeOK, LineOK
<1>8. KnownOK' /\ LocksOK' /\ ThreadsOK'
  BY <1>3 DEF IInv, TypeOK, KnownOK, LocksOK, ThreadsOK, known, locks, threads
<1>9. QED BY <1>4, <1>5, <1>7, <1>8 DEF IInv, TypeOK, LineInv

LEMMA BroadcastKeeps ==
  ASSUME IInv, NEW g \in Gate, Broadcast(g)
  PROVE  IInv'
<1>1. /\ board' = [board EXCEPT ![g] = [seq |-> board[g].seq, up |-> board[g].up, owes |-> FALSE]]
      /\ inbox' = IF link = g /\ ~broken /\ depot = "client" THEN Append(inbox, Notice) ELSE inbox
      /\ UNCHANGED <<alive, link, broken, depot, work, request, gateIndex, known, locks, threads, history>>
  BY DEF Broadcast
<1>2. GatesOK'
  BY <1>1 DEF IInv, TypeOK, GatesOK
<1>3. \A h \in Gate : board'[h].seq = board[h].seq /\ board'[h].up = board[h].up
  BY <1>1 DEF IInv, TypeOK, GatesOK
<1>4. CASE link = g /\ ~broken /\ depot = "client"
  <2>1. link # None
    BY <1>4 DEF Gate, None
  <2>2. LineInv'
    BY <1>1, <1>3, <1>4, <2>1, NoticeSent DEF known
  <2>3. QED BY <1>1, <1>2, <2>2 DEF LineInv, IInv, TypeOK, KnownOK, LocksOK, ThreadsOK, HistoryOK,
                                   known, locks, threads, history
<1>5. CASE ~(link = g /\ ~broken /\ depot = "client")
  <2>1. UNCHANGED <<link, depot, inbox, work, request, gateIndex, seqSubscibe, stub, same, broken>>
    BY <1>1, <1>5 DEF known
  <2>2. LineInv'
    BY <1>2, <1>3, <2>1, GatesMove DEF IInv, TypeOK, LineOK
  <2>3. QED BY <1>1, <1>2, <2>2 DEF LineInv, IInv, TypeOK, KnownOK, LocksOK, ThreadsOK, HistoryOK,
                                   known, locks, threads, history
<1>6. QED BY <1>4, <1>5

LEMMA GateEndsKeeps ==
  ASSUME IInv, NEW g \in Gate, GateEnds(g)
  PROVE  IInv'
<1>1. /\ alive' = alive \ {g} /\ board' = [board EXCEPT ![g] = Fresh]
      /\ broken' = (broken \/ link = g)
      /\ served' = [t \in Caller |-> FALSE]
      /\ failures' = failures + 1 /\ failures < FailMax
      /\ UNCHANGED <<link, depot, inbox, work, request, gateIndex, known, locks, threads>>
  BY DEF GateEnds
<1>2. GatesOK'
  BY <1>1 DEF IInv, TypeOK, GatesOK, Fresh
<1>3. HistoryOK'
  BY <1>1 DEF IInv, TypeOK, HistoryOK
<1>4. broken' \in BOOLEAN /\ (~broken' => ~broken /\ link # g)
  BY <1>1
<1>5. (~broken' /\ link # None) =>
        board'[link].seq = board[link].seq /\ board'[link].up = board[link].up
  BY <1>1, <1>4 DEF IInv, TypeOK, GatesOK, LineOK
<1>6. LineInv'
  BY <1>1, <1>2, <1>4, <1>5, GatesMove DEF known
<1>7. KnownOK' /\ LocksOK' /\ ThreadsOK'
  BY <1>1 DEF IInv, TypeOK, KnownOK, LocksOK, ThreadsOK, known, locks, threads
<1>8. QED BY <1>2, <1>3, <1>6, <1>7 DEF IInv, TypeOK, LineInv

LEMMA GateStartsKeeps ==
  ASSUME IInv, NEW g \in Gate, GateStarts(g)
  PROVE  IInv'
<1>1. alive' = alive \cup {g} /\ UNCHANGED <<board, line, known, locks, threads, history>>
  BY DEF GateStarts
<1>2. GatesOK'
  BY <1>1 DEF IInv, TypeOK, GatesOK
<1>3. LineInv'
  BY <1>1, <1>2, GatesMove DEF line, known, IInv, TypeOK, LineOK
<1>4. QED BY <1>1, <1>2, <1>3 DEF LineInv, IInv, TypeOK, KnownOK, LocksOK, ThreadsOK, HistoryOK,
                                 known, locks, threads, history

LEMMA BreakKeeps ==
  ASSUME IInv, Break
  PROVE  IInv'
<1>1. /\ broken' = TRUE /\ failures' = failures + 1 /\ failures < FailMax
      /\ UNCHANGED <<gates, link, depot, inbox, work, request, gateIndex, known, locks, threads, served>>
  BY DEF Break
<1>2. GatesOK'
  BY <1>1 DEF IInv, TypeOK, GatesOK, gates
<1>3. HistoryOK'
  BY <1>1 DEF IInv, TypeOK, HistoryOK
<1>4. LineInv'
  BY <1>1, <1>2, GatesMove DEF known
<1>5. QED BY <1>1, <1>2, <1>3, <1>4 DEF LineInv, IInv, TypeOK, KnownOK, LocksOK, ThreadsOK,
                                       known, locks, threads

LEMMA WshKeeps ==
  ASSUME IInv, Wsh
  PROVE  IInv'
<1>1. UNCHANGED <<gates, link, broken, request, gateIndex, known, locks, threads, history>>
  BY DEF Wsh, ListApp, AnswerRegister, AnswerSubscibe, SendAnswer
<1>2. LineInv'
  <2>1. CASE ListApp
    <3>1. /\ work' = [at |-> "listed", kind |-> "register", seq |-> 0, info |-> work.info]
          /\ work.at = "asked" /\ work.kind = "register"
          /\ depot' \in {"none", "app", "client"} /\ inbox' = inbox
      BY <2>1 DEF ListApp
    <3>2. work' \in Work /\ work'.at = "listed" /\ work'.kind = "register"
      BY <3>1 DEF IInv, TypeOK, LineOK, Work
    <3>3. QED BY <1>1, <3>1, <3>2, WorkMoves DEF gates, known
  <2>2. CASE AnswerRegister
    <3>1. /\ work' = [at |-> "answer", kind |-> "register", seq |-> board[link].seq, info |-> FALSE]
          /\ work.at = "listed" /\ inbox' = inbox /\ depot' = depot
      BY <2>2 DEF AnswerRegister
    <3>2. link \in Gate /\ work.kind = request
      BY <3>1 DEF IInv, TypeOK, LineOK, Conversation
    <3>3. work.kind = "register"
      BY <3>1 DEF IInv, Conversation
    <3>4. work' \in Work /\ work'.at = "answer" /\ work'.kind = "register"
      BY <3>1, <3>2 DEF IInv, TypeOK, GatesOK, Work
    <3>5. QED BY <1>1, <3>1, <3>3, <3>4, WorkMoves DEF gates, known, IInv, TypeOK, LineOK
  <2>3. CASE AnswerSubscibe
    <3>1. /\ work' = [at |-> "answer", kind |-> "subscribe", seq |-> board[link].seq,
                      info |-> work.info /\ board[link].up]
          /\ work.at = "asked" /\ work.kind = "subscribe" /\ inbox' = inbox /\ depot' = depot
      BY <2>3 DEF AnswerSubscibe
    <3>2. link \in Gate
      BY <3>1 DEF IInv, TypeOK, LineOK, Conversation
    <3>3. board[link].seq \in 0 .. SeqMax
      BY <3>2 DEF IInv, TypeOK, GatesOK
    <3>4. work' \in Work /\ work'.at = "answer" /\ work'.kind = "subscribe"
      BY <3>1, <3>3 DEF Work
    <3>5. Tells(work'.seq, work'.info)
      <4>1. work'.seq = board[link].seq
        BY <3>1
      <4>2. work'.info => board[link].up
        BY <3>1
      <4>3. QED BY <3>3, <4>1, <4>2 DEF Tells
    <3>6. QED BY <1>1, <3>1, <3>4, <3>5, WorkMoves DEF gates, known, IInv, TypeOK, LineOK
  <2>4. CASE SendAnswer
    BY <2>4, AnswerSent
  <2>5. QED BY <2>1, <2>2, <2>3, <2>4 DEF Wsh
<1>3. QED BY <1>1, <1>2 DEF LineInv, IInv, TypeOK, GatesOK, KnownOK, LocksOK, ThreadsOK, HistoryOK,
                           gates, known, locks, threads, history

-----------------------------------------------------------------------------
(* The steps of the application: what they do to all but the threads and   *)
(* their locks ...                                                         *)

AllButThreads == GatesOK /\ LineInv /\ KnownOK /\ HistoryOK

LEMMA StandsStill ==
  ASSUME IInv, UNCHANGED <<gates, line, seqSubscibe, same, history>>, notified' \in BOOLEAN,
         stub' \in {stub, "empty"}, stub = "proxy" => stub' = stub
  PROVE  AllButThreads'
<1>1. UNCHANGED <<board, alive, link, broken, depot, inbox, work, request, gateIndex,
                  seqSubscibe, same, served, failures>>
  BY DEF gates, line, history
<1>2. LineOK' /\ Conversation'
  BY <1>1 DEF IInv, TypeOK, LineOK, Conversation, AnswerIsForRequest
<1>3. stub' = "proxy" => stub = "proxy"
  OBVIOUS
<1>4. Truthful'
  BY <1>1, <1>3 DEF IInv, Truthful, Tells
<1>5. GatesOK' /\ HistoryOK' /\ KnownOK'
  BY <1>1 DEF IInv, TypeOK, GatesOK, HistoryOK, KnownOK
<1>6. QED BY <1>2, <1>4, <1>5 DEF AllButThreads, LineInv

LEMMA AskKeeps ==
  ASSUME IInv, NEW kind \in {"register", "subscribe"}, NEW info \in BOOLEAN, Ask(kind, info)
  PROVE  AllButThreads'
<1>1. UNCHANGED <<gates, seqSubscibe, notified, stub, history>> /\ ConnectGate
  BY DEF Ask
<1>2. same' \in BOOLEAN
  BY <1>1 DEF ConnectGate, IInv, TypeOK, KnownOK
<1>3. KnownOK' /\ GatesOK' /\ HistoryOK'
  BY <1>1, <1>2 DEF IInv, TypeOK, KnownOK, GatesOK, HistoryOK, gates, history
<1>4. QED BY <1>3, Asked DEF AllButThreads

LEMMA FailKeeps ==
  ASSUME IInv, Fail
  PROVE  AllButThreads'
<1>1. /\ failures' = failures \/ (failures < FailMax /\ failures' = failures + 1)
      /\ request' = "none" /\ DisconnectGate /\ same' = FALSE
      /\ UNCHANGED <<gates, seqSubscibe, notified, stub, served>>
  BY DEF Fail, DisconnectGate
<1>2. KnownOK' /\ GatesOK'
  BY <1>1 DEF IInv, TypeOK, KnownOK, GatesOK, gates
<1>3. HistoryOK'
  BY <1>1 DEF IInv, TypeOK, HistoryOK
<1>4. QED BY <1>1, <1>2, <1>3, Disconnected DEF AllButThreads

LEMMA SubscibedKeeps ==
  ASSUME IInv, Subscibed
  PROVE  AllButThreads'
<1>1. UNCHANGED <<gates, history>>
  BY DEF Subscibed, Answered
<1>2. QED BY <1>1, SubscriptionRead DEF AllButThreads, IInv, TypeOK, GatesOK, HistoryOK, gates, history

LEMMA AskSubscibeKeeps ==
  ASSUME IInv, AskSubscibe
  PROVE  AllButThreads'
<1>1. (stub # "absent") \in BOOLEAN
  OBVIOUS
<1>2. QED BY <1>1, AskKeeps DEF AskSubscibe

LEMMA RegisteredKeeps ==
  ASSUME IInv, Registered
  PROVE  AllButThreads'
<1>1. Answered("register") /\ UNCHANGED known
  BY DEF Registered
<1>2. UNCHANGED <<gates, history>>
  BY <1>1 DEF Answered
<1>3. GatesOK' /\ HistoryOK' /\ KnownOK'
  BY <1>1, <1>2 DEF IInv, TypeOK, GatesOK, HistoryOK, KnownOK, gates, known, history
<1>4. /\ LineOK' /\ Conversation' /\ work.at = "idle" /\ work' = work
      /\ UNCHANGED <<board, link, broken, seqSubscibe, stub, same>>
      /\ \A i \in DOMAIN inbox' : inbox'[i].kind = "notice"
  BY <1>1, AnswerRead DEF known
<1>5. Truthful'
  BY <1>4 DEF IInv, Truthful, Tells
<1>6. QED BY <1>3, <1>4, <1>5 DEF AllButThreads, LineInv

LEMMA NoticeKeeps ==
  ASSUME IInv, SkipNotice \/ ReadNotice
  PROVE  AllButThreads'
<1>1. /\ inbox # <<>> /\ inbox' = Tail(inbox) /\ notified' \in {notified, TRUE}
      /\ UNCHANGED <<gates, link, broken, depot, work, request, gateIndex, seqSubscibe, stub, same, history>>
  BY DEF SkipNotice, ReadNotice, known
<1>2. GatesOK' /\ HistoryOK' /\ KnownOK'
  BY <1>1 DEF IInv, TypeOK, GatesOK, HistoryOK, KnownOK, gates, history
<1>3. LineInv'
  BY <1>1, NoticeRead DEF gates
<1>4. QED BY <1>2, <1>3 DEF AllButThreads

(* ... and to them.                                                        *)

LEMMA Parts ==
  ASSUME AllButThreads', LocksOK', ThreadsOK'
  PROVE  IInv'
BY DEF AllButThreads, LineInv, IInv, TypeOK

LEMMA CallMoves ==
  ASSUME IInv, NEW t \in Caller, NEW fresh \in BOOLEAN, NEW picked \in BOOLEAN,
         NEW place \in {"idle", "pick", "resource", "gate", "subscribe", "found", "nogate", "notfound"},
         Go(t, place, fresh, picked), client' \in {client, TRUE}, check' = check
  PROVE  ThreadsOK'
BY DEF Go, IInv, TypeOK, ThreadsOK

LEMMA AtMoves ==
  ASSUME IInv, NEW t \in Caller,
         NEW place \in {"idle", "pick", "resource", "gate", "subscribe", "found", "nogate", "notfound"},
         At(t, place), HandsOff
  PROVE  ThreadsOK'
<1>1. call[t].fresh \in BOOLEAN /\ call[t].picked \in BOOLEAN
  BY DEF IInv, TypeOK, ThreadsOK
<1>2. QED BY <1>1, CallMoves DEF At, HandsOff

LEMMA CheckThreadKeeps ==
  ASSUME IInv, Check \/ CheckFails
  PROVE  IInv'
<1>1. AllButThreads'
  <2>1. CASE LockGate \/ Woken \/ LetOthersGo
    <3>1. UNCHANGED <<gates, line, known, history>>
      BY <2>1 DEF LockGate, Woken, LetOthersGo
    <3>2. notified \in BOOLEAN
      BY DEF IInv, TypeOK, KnownOK
    <3>3. QED BY <3>1, <3>2, StandsStill DEF known
  <2>2. CASE Beat
    <3>1. CASE Ask("register", client)
      <4>1. client \in BOOLEAN
        BY DEF IInv, TypeOK, ThreadsOK
      <4>2. QED BY <3>1, <4>1, AskKeeps
    <3>2. CASE UNCHANGED <<gates, line, known, history>>
      BY <3>2, StandsStill DEF known, IInv, TypeOK, KnownOK
    <3>3. QED BY <2>2, <3>1, <3>2 DEF Beat
  <2>3. CASE Registered
    BY <2>3, RegisteredKeeps
  <2>4. CASE CheckSubscibes
    BY <2>4, AskSubscibeKeeps, SubscibedKeeps DEF CheckSubscibes
  <2>5. CASE ReadNotice
    BY <2>5, NoticeKeeps
  <2>6. CASE GateGone
    <3>1. /\ DisconnectGate /\ same' = FALSE
          /\ UNCHANGED <<gates, request, seqSubscibe, notified, stub, history>>
      BY <2>6 DEF GateGone, DisconnectGate
    <3>2. GatesOK' /\ HistoryOK' /\ KnownOK'
      BY <3>1 DEF IInv, TypeOK, GatesOK, HistoryOK, KnownOK, gates, history
    <3>3. QED BY <3>1, <3>2, Disconnected DEF AllButThreads
  <2>7. CASE CheckFails
    BY <2>7, FailKeeps DEF CheckFails
  <2>8. QED BY <2>1, <2>2, <2>3, <2>4, <2>5, <2>6, <2>7 DEF Check
<1>2. check' \in {"lock", "beat1", "beat2", "sub1", "sub2", "wait", "resource"}
  BY DEF Check, LockGate, Woken, LetOthersGo, LeaveWait, Beat, NextTry, Registered, CheckSubscibes,
         ReadNotice, GateGone, CheckFails, threads, IInv, TypeOK, ThreadsOK
<1>3. UNCHANGED <<client, call, mutexResource>>
  BY DEF Check, LockGate, Woken, LetOthersGo, LeaveWait, Beat, Registered, CheckSubscibes,
         ReadNotice, GateGone, CheckFails, StayingOut, locks, threads
<1>4. mutexGate' \in {mutexGate, "check", Nobody} /\ pipe' \in {pipe, FALSE}
  BY DEF Check, LockGate, Woken, LetOthersGo, LeaveWait, Beat, Registered, CheckSubscibes,
         ReadNotice, GateGone, CheckFails, StayingOut, locks
<1>5. LocksOK'
  BY <1>3, <1>4 DEF IInv, TypeOK, LocksOK
<1>6. ThreadsOK'
  BY <1>2, <1>3 DEF IInv, TypeOK, ThreadsOK
<1>7. QED BY <1>1, <1>5, <1>6, Parts

LEMMA SkipNoticeKeeps ==
  ASSUME IInv, SkipNotice
  PROVE  IInv'
<1>1. UNCHANGED <<locks, threads>>
  BY DEF SkipNotice
<1>2. LocksOK' /\ ThreadsOK'
  BY <1>1 DEF locks, threads, IInv, TypeOK, LocksOK, ThreadsOK
<1>3. QED BY <1>2, NoticeKeeps, Parts

LEMMA CallKeeps ==
  ASSUME IInv, NEW t \in Caller, Call(t)
  PROVE  IInv'
<1>1. /\ client' = TRUE /\ check' = check /\ UNCHANGED <<gates, line, known, locks, failures>>
      /\ Go(t, IF notified THEN "resource" ELSE "pick", FALSE, FALSE)
      /\ served' = [served EXCEPT ![t] = alive = Gate /\ \A g \in Gate : board[g].up]
  BY DEF Call
<1>2. ThreadsOK'
  BY <1>1, CallMoves
<1>3. LocksOK' /\ GatesOK' /\ KnownOK'
  BY <1>1 DEF IInv, TypeOK, LocksOK, GatesOK, KnownOK, locks, gates, known
<1>4. HistoryOK'
  <2>1. (alive = Gate /\ \A g \in Gate : board[g].up) \in BOOLEAN
    OBVIOUS
  <2>2. served' \in [Caller -> BOOLEAN]
    BY <1>1, <2>1 DEF IInv, TypeOK, HistoryOK
  <2>3. QED BY <1>1, <2>2 DEF IInv, TypeOK, HistoryOK
<1>5. LineInv'
  BY <1>1, <1>3, GatesMove DEF gates, line, known, IInv, TypeOK, LineOK
<1>6. QED BY <1>2, <1>3, <1>4, <1>5, Parts DEF AllButThreads

LEMMA LocksMove ==
  ASSUME IInv, mutexGate' \in {mutexGate, Nobody} \cup Caller,
         mutexResource' \in {mutexResource, Nobody} \cup Caller, pipe' \in {pipe, TRUE}
  PROVE  LocksOK'
BY DEF IInv, TypeOK, LocksOK

LEMMA CallerKeeps ==
  ASSUME IInv, NEW t \in Caller, InCall(t) \/ NotDownloaded(t)
  PROVE  IInv'
<1>1. notified \in BOOLEAN /\ call[t].fresh \in BOOLEAN /\ call[t].picked \in BOOLEAN
  BY DEF IInv, TypeOK, KnownOK, ThreadsOK
<1>2. CASE LockResource(t) \/ CallerLocksGate(t)
  <2>1. AllButThreads'
    <3>1. UNCHANGED <<gates, line, known, history>>
      BY <1>2 DEF LockResource, CallerLocksGate
    <3>2. QED BY <1>1, <3>1, StandsStill DEF known
  <2>2. ThreadsOK'
    BY <1>2, AtMoves DEF LockResource, CallerLocksGate
  <2>3. LocksOK'
    BY <1>2, LocksMove DEF LockResource, CallerLocksGate
  <2>4. QED BY <2>1, <2>2, <2>3, Parts
<1>3. CASE CallerAsks(t)
  <2>1. AskSubscibe /\ UNCHANGED <<mutexGate, mutexResource, pipe, client, check, call>>
    BY <1>3 DEF CallerAsks, HandsOff, locks
  <2>2. LocksOK' /\ ThreadsOK'
    BY <2>1 DEF IInv, TypeOK, LocksOK, ThreadsOK
  <2>3. QED BY <2>1, <2>2, AskSubscibeKeeps, Parts
<1>4. CASE Downloaded(t)
  <2>1. /\ Subscibed /\ Go(t, "pick", TRUE, call[t].picked)
        /\ mutexGate' = Nobody /\ mutexResource' = Nobody /\ UNCHANGED <<pipe, client, check>>
    BY <1>4 DEF Downloaded, Unlock, HandsOff
  <2>2. LocksOK' /\ ThreadsOK'
    BY <1>1, <2>1, LocksMove, CallMoves
  <2>3. QED BY <2>1, <2>2, SubscibedKeeps, Parts
<1>5. CASE NotDownloaded(t)
  <2>1. /\ At(t, IF call[t].picked THEN "nogate" ELSE "pick") /\ HandsOff
        /\ mutexGate' = Nobody /\ mutexResource' = Nobody /\ UNCHANGED pipe
        /\ Fail \/ UNCHANGED <<gates, line, known, history>>
    BY <1>5 DEF NotDownloaded, Unlock
  <2>2. LocksOK' /\ ThreadsOK'
    BY <2>1, LocksMove, AtMoves
  <2>3. AllButThreads'
    BY <1>1, <2>1, FailKeeps, StandsStill DEF known
  <2>4. QED BY <2>2, <2>3, Parts
<1>6. CASE PickServers(t)
  <2>1. /\ stub' = IF stub = "absent" THEN "empty" ELSE stub
        /\ HandsOff /\ UNCHANGED <<gates, line, seqSubscibe, notified, same, locks, history>>
    BY <1>6 DEF PickServers
  <2>2. AllButThreads'
    BY <1>1, <2>1, StandsStill
  <2>3. LocksOK'
    BY <2>1, LocksMove DEF locks
  <2>4. ThreadsOK'
    BY <1>1, <1>6, <2>1, AtMoves, CallMoves DEF PickServers, HandsOff
  <2>5. QED BY <2>2, <2>3, <2>4, Parts
<1>7. QED BY <1>2, <1>3, <1>4, <1>5, <1>6 DEF InCall

-----------------------------------------------------------------------------

LEMMA NextKeeps == IInv /\ [Next]_vars => IInv'
<1> SUFFICES ASSUME IInv, [Next]_vars PROVE IInv'
  OBVIOUS
<1>1. CASE Wsh \/ Break \/ SkipNotice \/ Check \/ CheckFails
  BY <1>1, WshKeeps, BreakKeeps, SkipNoticeKeeps, CheckThreadKeeps
<1>2. CASE \E g \in Gate : Change(g) \/ Broadcast(g) \/ GateEnds(g) \/ GateStarts(g)
  BY <1>2, ChangeKeeps, BroadcastKeeps, GateEndsKeeps, GateStartsKeeps
<1>3. CASE \E t \in Caller : Call(t) \/ InCall(t) \/ NotDownloaded(t)
  BY <1>3, CallKeeps, CallerKeeps
<1>4. CASE UNCHANGED vars
  <2>1. UNCHANGED <<gates, line, known, locks, threads, history>>
    BY <1>4 DEF vars
  <2>2. LocksOK' /\ ThreadsOK'
    BY <2>1 DEF IInv, TypeOK, LocksOK, ThreadsOK, locks, threads
  <2>3. AllButThreads'
    BY <2>1, StandsStill DEF known, IInv, TypeOK, KnownOK
  <2>4. QED BY <2>2, <2>3, Parts
<1>5. QED BY <1>1, <1>2, <1>3, <1>4 DEF Next

LEMMA Invariance == Spec => []IInv
BY InitIInv, NextKeeps, PTL DEF Spec

(* The variables of GateCheck keep their types. *)
THEOREM TypeCorrect == Spec => []TypeOK
<1>1. IInv => TypeOK BY DEF IInv
<1>2. QED BY <1>1, Invariance, PTL

(* Every answer that waits to be read belongs to the request the           *)
(* application waits for: a request that has timed out takes its late      *)
(* answer with it, because GateCheckThread.cpp:248 and 291 close the       *)
(* connection.                                                             *)
THEOREM AnswersBelong == Spec => []AnswerIsForRequest
<1>1. IInv => AnswerIsForRequest BY DEF IInv, Conversation
<1>2. QED BY <1>1, Invariance, PTL

(* With equal numbers, on the connection of the last subscription, what    *)
(* the application has is what the board has: GateNSHandlerImpl.cpp        *)
(* 201-219 reads the two together, and numbers do not come back while a    *)
(* gate runs.                                                              *)
THEOREM ServersAreNotStale == Spec => []NoStaleServer
<1>1. IInv => NoStaleServer
  <2> SUFFICES ASSUME IInv, same, ~broken, seqSubscibe = board[link].seq, stub = "proxy"
               PROVE  board[link].up
    BY DEF NoStaleServer
  <2>1. QED BY DEF IInv, Truthful, Tells
<1>2. QED BY <1>1, Invariance, PTL

=============================================================================
