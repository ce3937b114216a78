----------------------------- MODULE ViewAdjust ------------------------------
(***************************************************************************)
(* The data of a view on its way from a client to a server and back.  Both *)
(* were compiled from one view file, each for its own host, and load what  *)
(* viewc32 has measured there; the sender says how its host lays the view  *)
(* out, the receiver moves every element to where its own host has it      *)
(* (View32Manager::AdjustStructData).                                      *)
(*                                                                         *)
(* The hosts differ in the order of bytes and in the width of a long;      *)
(* numbers are signed, in two's complement.                                *)
(* Integers of fixed width (short, int) are of one kind, "short"; data     *)
(* that is copied as it is (char, string, float, double) of another.       *)
(***************************************************************************)
EXTENDS ByteOrder, FiniteSets

CONSTANTS Narrow, Wide,  \* bytes of a long: 4 and 8 in the code
          FixedCount,         \* bytes of an integer of fixed width
          Kind,          \* kinds of items: "plain", "short", "long"
          Element,       \* counts of elements
          GivenCount,         \* what the client may put into an element, of either sign
          ItemMax        \* bound: items of a view

ASSUME ViewAssumption ==
    /\ {Narrow, Wide, FixedCount, ItemMax} \subseteq Nat \ {0} /\ Narrow < Wide
    /\ Kind \subseteq {"plain", "short", "long"} /\ Element \subseteq Nat \ {0}
    /\ GivenCount \subseteq Int

VARIABLES view,    \* the items of the view
          clientSide, serverSide,
          values,  \* what the client has put into the elements
          hops,    \* how often the data has been sent: to the server and back
          data     \* the structure in the memory of the host that has it

adjustVars == <<view, clientSide, serverSide, values, hops, data>>

Host == [order : Order, long : {Narrow, Wide}]
ViewItem == [kind : Kind, count : Element]

Size(item, host) ==
    CASE item.kind = "plain" -> 1 [] item.kind = "short" -> FixedCount [] item.kind = "long" -> host.long

\* What host's compiler makes of the view: each item on a multiple of its size.
RoundUp(n, bytes) == ((n + bytes - 1) \div bytes) * bytes
Place(items, host) ==
    LET at[k \in 1 .. Len(items) + 1] ==
          LET end == IF k = 1 THEN 0
                     ELSE at[k - 1] + items[k - 1].count * Size(items[k - 1], host)
          IN IF k > Len(items) THEN end ELSE RoundUp(end, Size(items[k], host))
    IN at
StructSize(items, host) == Place(items, host)[Len(items) + 1]

Elements(items) == UNION {{<<k, e>> : e \in 1 .. items[k].count} : k \in DOMAIN items}

\* The bytes of an element are those behind its offset.
ElementAt(items, host, p) == Place(items, host)[p[1]] + (p[2] - 1) * Size(items[p[1]], host)
Bytes(memory, items, host, p) ==
    LET at == ElementAt(items, host, p)
    IN SubSeq(memory, at + 1, at + Size(items[p[1]], host))

\* The elements are written one after the other: the latest lies over the others.
Latest(ps) == CHOOSE p \in ps : \A q \in ps : q[1] < p[1] \/ (q[1] = p[1] /\ q[2] <= p[2])

\* A structure of host with bytes[p] behind at[p], zero between them.
Structure(items, host, at, bytes) ==
    [b \in 1 .. StructSize(items, host) |->
        LET over == {p \in Elements(items) : at[p] < b /\ b <= at[p] + Len(bytes[p])}
        IN IF over = {} THEN 0 ELSE bytes[Latest(over)][b - at[Latest(over)]]]

\* A structure as the program on host has filled it.
StoredItems(items, host, vals) ==
    Structure(items, host, [p \in Elements(items) |-> ElementAt(items, host, p)],
              [p \in Elements(items) |-> InMemory(vals[p], Size(items[p[1]], host), host.order)])

-----------------------------------------------------------------------------
AdjustInit ==
    /\ view \in UNION {[1 .. n -> ViewItem] : n \in 1 .. ItemMax}
    /\ clientSide \in Host /\ serverSide \in Host
    /\ values \in [Elements(view) -> GivenCount]
    /\ hops = 0 /\ data = StoredItems(view, clientSide, values)

(* A mistake: the elements are laid a remote size apart. *)
LocalAtRemoteStride(items, to, from, p) ==
    Place(items, to)[p[1]] + (p[2] - 1) * Size(items[p[1]], from)

\* Where the receiver writes an element.
LocalAt(items, to, from, p) == ElementAt(items, to, p)

\* One element: read in the width of the sender, without its sign, turned round
\* if need be, and written in the width of the receiver; plain data as it is.
Adjusted(memory, items, from, to, p) ==
    LET there == Bytes(memory, items, from, p)
        v == IntegerToLocalByte(FromMemory(there, to.order), Len(there), to.order,
                                from.order = "big")
    IN IF items[p[1]].kind = "plain" THEN there ELSE InMemory(v, Size(items[p[1]], to), to.order)

\* The receiver's structure begins as zeros; element for element is written.
AdjustStructData(memory, items, from, to) ==
    Structure(items, to, [p \in Elements(items) |-> LocalAt(items, to, from, p)],
              [p \in Elements(items) |-> Adjusted(memory, items, from, to, p)])

Holder == IF hops = 1 THEN serverSide ELSE clientSide
Sends(from, to) == /\ hops' = hops + 1
                   /\ data' = AdjustStructData(data, view, from, to)
                   /\ UNCHANGED <<view, clientSide, serverSide, values>>

\* The request in the server, and the reply, the same structure, in the client.
RequestView == hops = 0 /\ Sends(clientSide, serverSide)
ReplyView == hops = 1 /\ Sends(serverSide, clientSide)

AdjustNext == RequestView \/ ReplyView
AdjustSpec == AdjustInit /\ [][AdjustNext]_adjustVars

-----------------------------------------------------------------------------
\* How many numbers n bytes tell apart; the signed number that is left of v in
\* them, and the one that a program reads where they hold u.
Capacity(n) ==
    LET powers[k \in 0 .. n] == IF k = 0 THEN 1 ELSE powers[k - 1] * ByteBase IN powers[n]
Signed(u, n) == IF 2 * u < Capacity(n) THEN u ELSE u - Capacity(n)
Cut(v, n) == Signed(v % Capacity(n), n)

\* A long of a wide host that has come from a narrow one.
Widened(p) ==
    /\ view[p[1]].kind = "long" /\ hops > 0
    /\ Holder.long = Wide /\ Narrow \in {clientSide.long, serverSide.long}

(* Every element of a view arrives, in the server and back in the client,  *)
(* whatever the byte orders, the widths and the offsets of the two: a      *)
(* program reads the number that was put in, or what its own host can hold *)
(* of it.  A long that a narrow host has sent to a wide one is the number  *)
(* of its bytes without a sign (188-194): what is not negative arrives,    *)
(* and -1 as Capacity(Narrow) - 1.                                         *)
ElementsArrive ==
    \A p \in Elements(view) :
        LET n == Size(view[p[1]], Holder)
            u == FromMemory(Bytes(data, view, Holder, p), Holder.order)
        IN Signed(u, n) = IF Widened(p) THEN values[p] % Capacity(Narrow) ELSE Cut(values[p], n)
=============================================================================
