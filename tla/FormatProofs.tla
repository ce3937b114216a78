----------------------------- MODULE FormatProofs ----------------------------
(***************************************************************************)
(* Theorems about the formats whose bytes are modelled.                    *)
(*                                                                         *)
(* Fml32 implements FieldedBuffer, for any fields, values and size of the  *)
(* body.  The buffer is related to a list of fields L and to the places s  *)
(* where they begin and end (Represents).  Each field is read back as it   *)
(* was written (ReadBack), so a walk comes by all of them (WalkFrom, from  *)
(* the end backwards), and what a program reads is L (ContentsAre).        *)
(* Fadd32 puts one more behind them, Fchg32 writes over the cells of one,  *)
(* or moves those behind it (Deleted).                                     *)
(*                                                                         *)
(* ViewAdjust brings every element of a view across, for any view, hosts   *)
(* and values.  Bytes are rests of repeated division (DigitsAre), read     *)
(* back by multiplication (ValueIs); no two elements of a structure share  *)
(* a byte (ElementsApart).  The structure of the host that has the data is *)
(* always what its compiler would make of what has come (AdjustInv).       *)
(*                                                                         *)
(* A message of Messages arrives whole, for any texts, numbers, addresses  *)
(* and byte orders.  What was written lies in the stream in pieces, each   *)
(* behind those before it (PartsLie), and a walk over the entries reads    *)
(* each where it lies (FieldIsRead, TupleRead, ListIsRead, EntryIsRead);   *)
(* the receiver asks for the same conditions as the sender, because what   *)
(* they ask has come before (SameConditions).  MessageInv says where the   *)
(* bytes of the message are in every stage.                                *)
(***************************************************************************)
EXTENDS Fml32, ViewAdjust, Messages, SequenceTheorems, FiniteSetTheorems, WellFoundedInduction, TLAPS

\* A function of 1 .. n is a sequence of n.
LEMMA SequenceOf ==
  ASSUME NEW S, NEW n \in Nat, NEW d \in [1 .. n -> S]
  PROVE  d \in Seq(S) /\ Len(d) = n
OBVIOUS

\* A set of numbers that is not empty has a least one: what the inductions below rest on.
LEMMA LeastNumber ==
  ASSUME NEW T, T \subseteq Nat, T # {}
  PROVE  \E m \in T : \A k \in T : m <= k
<1>1. IsWellFoundedOn(OpToRel(<, Nat), Nat)
  BY NatLessThanWellFounded, Zenon
<1>2. \E m \in T : \A k \in T : ~ (<<k, m>> \in OpToRel(<, Nat))
  BY <1>1, WFMin, Zenon
<1>3. PICK m \in T : \A k \in T : ~ (<<k, m>> \in OpToRel(<, Nat))
  BY <1>2, Zenon
<1>4. ASSUME NEW k \in T
      PROVE  m <= k
  <2>1. m \in Nat /\ k \in Nat
    BY Zenon
  <2>2. ~ (k < m)
    BY <1>3, <2>1, Zenon DEF OpToRel
  <2>3. QED BY <2>1, <2>2
<1>5. QED BY <1>4, Zenon

\* A function that goes forwards or ends (-1), and the walk it defines.
Forwards(N, next) == \A n \in 0 .. N : next[n] = -1 \/ next[n] \in n + 1 .. N
Walks(N, next, f) == f = [n \in 0 .. N |-> IF next[n] = -1 THEN <<>> ELSE <<n>> \o f[next[n]]]

\* A recursion that only goes forwards in 0 .. N, as Walk's does, defines a function.
LEMMA WalkExists ==
  ASSUME NEW N \in Nat, NEW next, Forwards(N, next)
  PROVE  \E f : Walks(N, next, f)
<1>0. \A n \in 0 .. N : next[n] = -1 \/ next[n] \in n + 1 .. N
  BY DEF Forwards
<1> DEFINE Rec(d, f) == f = [n \in N - d .. N |-> IF next[n] = -1 THEN <<>> ELSE <<n>> \o f[next[n]]]
<1> DEFINE T == {d \in 0 .. N : ~ \E f : Rec(d, f)}
<1>1. SUFFICES ASSUME T # {} PROVE FALSE
  <2>1. N \in 0 .. N /\ N - N = 0
    OBVIOUS
  <2>2. \E f : Rec(N, f)
    BY <2>1
  <2>3. QED BY <2>1, <2>2 DEF Walks
<1>2. PICK m \in T : \A d \in T : m <= d
  <2>1. T \subseteq 0 .. N
    BY Zenon
  <2> HIDE DEF T
  <2>2. T \subseteq Nat
    <3>1. \A k \in 0 .. N : k \in Nat
      OBVIOUS
    <3>2. QED BY <2>1, <3>1, Zenon
  <2>3. QED BY <1>1, <2>2, LeastNumber
<1>3. m \in 0 .. N /\ ~ \E f : Rec(m, f)
  OBVIOUS
<1>4. CASE m = 0
  <2>1. next[N] = -1
    BY <1>0
  <2> DEFINE f == [n \in N - 0 .. N |-> <<>>]
  <2>2. \A n \in N - 0 .. N : n = N
    OBVIOUS
  <2>3. f = [n \in N - 0 .. N |-> IF next[n] = -1 THEN <<>> ELSE <<n>> \o f[next[n]]]
    BY <2>1, <2>2
  <2>4. Rec(m, f)
    BY <1>4, <2>3
  <2>5. QED BY <1>3, <2>4
<1>5. CASE m > 0
  <2>1. m - 1 \in 0 .. N /\ ~ (m <= m - 1)
    BY <1>3, <1>5
  <2>2. m - 1 \notin T
    BY <1>2, <2>1
  <2>3. PICK g : Rec(m - 1, g)
    BY <2>1, <2>2
  <2> DEFINE a == N - m
  <2> DEFINE f == [n \in N - m .. N |-> IF n = a THEN IF next[a] = -1 THEN <<>> ELSE <<a>> \o g[next[a]] ELSE g[n]]
  <2>4. \A n \in N - m .. N : next[n] = -1 \/ (next[n] \in N - m .. N /\ next[n] # a)
    BY <1>0, <1>3
  <2>5. \A n \in N - m .. N : next[n] = -1 \/ f[next[n]] = g[next[n]]
    BY <2>4
  <2>6. \A n \in N - (m - 1) .. N : g[n] = IF next[n] = -1 THEN <<>> ELSE <<n>> \o g[next[n]]
    BY <2>3
  <2>7. ASSUME NEW n \in N - m .. N
        PROVE  f[n] = IF next[n] = -1 THEN <<>> ELSE <<n>> \o f[next[n]]
    <3>1. f[n] = IF next[n] = -1 THEN <<>> ELSE <<n>> \o g[next[n]]
      <4>1. CASE n = a
        BY <4>1
      <4>2. CASE n # a
        <5>1. n \in N - (m - 1) .. N
          BY <1>3, <4>2
        <5>2. f[n] = g[n]
          BY <4>2
        <5> HIDE DEF f
        <5>3. QED BY <2>6, <5>1, <5>2
      <4>3. QED BY <4>1, <4>2
    <3> HIDE DEF f
    <3>2. QED BY <2>5, <3>1
  <2>8. f = [n \in N - m .. N |-> f[n]]
    OBVIOUS
  <2>9. Rec(m, f)
    <3> HIDE DEF f
    <3>1. QED BY <2>7, <2>8, Zenon
  <2>10. QED BY <1>3, <2>9
<1>6. QED BY <1>3, <1>4, <1>5

\* Of a set of numbers up to n there is one with oc others before it just if it has more than oc.
LEMMA OneOfEachRank ==
  ASSUME NEW n \in Nat, NEW H \in SUBSET (1 .. n), NEW oc \in Nat
  PROVE  /\ (\E j \in H : Cardinality({m \in H : m < j}) = oc) <=> oc < Cardinality(H)
         /\ Cardinality(H) \in Nat
<1> DEFINE U(k) == {m \in H : m <= k}
<1> DEFINE P(k) == (\E j \in U(k) : Cardinality({m \in H : m < j}) = oc) <=> oc < Cardinality(U(k))
<1> DEFINE T == {k \in 0 .. n : ~ P(k)}
<1>0. \A m \in H : m \in 1 .. n
  OBVIOUS
<1>1. \A k \in 0 .. n : IsFiniteSet(U(k)) /\ Cardinality(U(k)) \in Nat
  <2>1. IsFiniteSet(1 .. n)
    BY FS_Interval
  <2>2. \A k \in 0 .. n : U(k) \in SUBSET (1 .. n)
    OBVIOUS
  <2> HIDE DEF U
  <2>3. QED BY <2>1, <2>2, FS_Subset, FS_CardinalityType
<1>2. U(n) = H
  <2>1. \A m \in H : m <= n
    BY <1>0
  <2>2. QED BY <2>1
<1>3. T = {}
  <2>1. SUFFICES ASSUME T # {} PROVE FALSE
    OBVIOUS
  <2>2. PICK k \in T : \A e \in T : k <= e
    <3>1. T \subseteq 0 .. n
      BY Zenon
    <3> HIDE DEF T
    <3>2. T \subseteq Nat
      <4>1. \A e \in 0 .. n : e \in Nat
        OBVIOUS
      <4>2. QED BY <3>1, <4>1, Zenon
    <3>3. QED BY <2>1, <3>2, LeastNumber
  <2>3. k \in 0 .. n /\ ~ P(k)
    OBVIOUS
  <2>4. CASE k = 0
    <3>1. U(k) = {}
      <4>1. \A m \in H : ~ (m <= k)
        BY <1>0, <2>4
      <4>2. QED BY <4>1
    <3>2. Cardinality(U(k)) = 0
      BY <3>1, FS_EmptySet
    <3> HIDE DEF U
    <3>3. QED BY <2>3, <3>1, <3>2
  <2>5. CASE k # 0
    <3>1. k - 1 \in 0 .. n /\ ~ (k <= k - 1) /\ k \in Nat
      BY <2>3, <2>5
    <3>2. P(k - 1)
      BY <2>2, <3>1
    <3>3. CASE k \notin H
      <4>1. U(k) = U(k - 1)
        <5>1. \A m \in H : m <= k <=> m <= k - 1
          BY <1>0, <3>1, <3>3
        <5>2. QED BY <5>1
      <4> HIDE DEF U
      <4>2. QED BY <2>3, <3>2, <4>1
    <3>4. CASE k \in H
      <4>0. /\ \A m \in H : m <= k <=> m <= k - 1 \/ m = k
            /\ \A m \in H : m < k <=> m <= k - 1
            /\ ~ (k <= k - 1)
            /\ k <= k
        BY <1>0, <3>1
      <4>1. U(k) = U(k - 1) \cup {k} /\ k \notin U(k - 1)
        BY <3>4, <4>0
      <4>2. {m \in H : m < k} = U(k - 1)
        BY <4>0
      <4>3. IsFiniteSet(U(k - 1)) /\ Cardinality(U(k - 1)) \in Nat
        BY <1>1, <3>1
      <4> HIDE DEF U
      <4>4. Cardinality(U(k)) = Cardinality(U(k - 1)) + 1
        BY <4>1, <4>3, FS_AddElement
      <4>5. (\E j \in U(k) : Cardinality({m \in H : m < j}) = oc)
               <=> (\E j \in U(k - 1) : Cardinality({m \in H : m < j}) = oc) \/ Cardinality(U(k - 1)) = oc
        BY <4>1, <4>2
      <4>6. oc < Cardinality(U(k)) <=> oc < Cardinality(U(k - 1)) \/ Cardinality(U(k - 1)) = oc
        BY <4>3, <4>4
      <4>7. QED BY <2>3, <3>2, <4>5, <4>6
    <3>5. QED BY <3>3, <3>4
  <2>6. QED BY <2>4, <2>5
<1>4. P(n)
  <2>1. n \in 0 .. n
    OBVIOUS
  <2> HIDE DEF P
  <2>2. QED BY <1>3, <2>1
<1>5. n \in 0 .. n
  OBVIOUS
<1> HIDE DEF U
<1>6. QED BY <1>1, <1>2, <1>4, <1>5

-----------------------------------------------------------------------------
(* The cells of a field: how many there are, and that they lie at k. *)
Width(f, v) == Len(Layout(f, v))
ReadsAs(k, f, v) == \A i \in 1 .. Width(f, v) : At(k + i - 1) = Layout(f, v)[i]

\* What a field is laid out as, by its type.
ShortLayout(f, v) == Width(f, v) = 2 /\ Layout(f, v)[1] = Id(f) /\ Layout(f, v)[2] = Byte(v[1])
LongLayout(f, v) == Width(f, v) = 3 /\ Layout(f, v)[1] = Id(f) /\ Layout(f, v)[2] = Byte("half")
                    /\ Layout(f, v)[3] = Byte(v[1])
TextLayout(f, v) ==
  /\ Len(v) \in Nat /\ Width(f, v) = 2 + Len(v)
  /\ Layout(f, v)[1] = Id(f) /\ Layout(f, v)[2] = TextLength(Len(v))
  /\ \A i \in 3 .. Len(v) + 2 : Layout(f, v)[i] = Byte(v[i - 2])

\* There are three types of fields.
LEMMA TypeKnown ==
  ASSUME NEW f \in Field
  PROVE  TypeOf[f] = "short" \/ TypeOf[f] = "long" \/ TypeOf[f] = "string"
<1>1. TypeOf[f] \in {"short", "long", "string"}
  BY FmlAssumption
<1>2. QED BY <1>1

\* The cells of a short, a long and a text, one by one.
LEMMA ShortLaidOut ==
  ASSUME NEW f, NEW v, TypeOf[f] = "short"
  PROVE  ShortLayout(f, v)
<1>1. Layout(f, v) = <<Id(f), Byte(v[1])>>
  BY DEF Layout
<1>2. QED BY <1>1 DEF ShortLayout, Width

\* See ShortLaidOut.
LEMMA LongLaidOut ==
  ASSUME NEW f, NEW v, TypeOf[f] = "long"
  PROVE  LongLayout(f, v)
<1>1. "long" # "short"
  OBVIOUS
<1>2. Layout(f, v) = <<Id(f), Byte("half"), Byte(v[1])>>
  BY <1>1 DEF Layout
<1>3. QED BY <1>2 DEF LongLayout, Width

\* Two cells and n more.
LEMMA TwoAndMore ==
  ASSUME NEW a, NEW b, NEW n \in Nat, NEW B(_)
  PROVE  /\ Len(<<a, b>> \o [k \in 1 .. n |-> B(k)]) = n + 2
         /\ (<<a, b>> \o [k \in 1 .. n |-> B(k)])[1] = a
         /\ (<<a, b>> \o [k \in 1 .. n |-> B(k)])[2] = b
         /\ \A i \in 3 .. n + 2 : (<<a, b>> \o [k \in 1 .. n |-> B(k)])[i] = B(i - 2)
<1> DEFINE t == [k \in 1 .. n |-> B(k)]
<1> DEFINE S == {a, b} \cup {B(k) : k \in 1 .. n}
<1>1. t \in Seq(S) /\ Len(t) = n /\ \A k \in 1 .. n : t[k] = B(k)
  OBVIOUS
<1>2. <<a, b>> \in Seq(S) /\ Len(<<a, b>>) = 2 /\ <<a, b>>[1] = a /\ <<a, b>>[2] = b
  OBVIOUS
<1> HIDE DEF t, S
<1>3. /\ Len(<<a, b>> \o t) = 2 + n
      /\ \A i \in 1 .. 2 + n : (<<a, b>> \o t)[i] = IF i <= 2 THEN <<a, b>>[i] ELSE t[i - 2]
  BY <1>1, <1>2, ConcatProperties
<1>4. \A i \in 3 .. n + 2 : (<<a, b>> \o t)[i] = B(i - 2)
  <2>1. \A i \in 3 .. n + 2 : i \in 1 .. 2 + n /\ ~ (i <= 2) /\ i - 2 \in 1 .. n
    OBVIOUS
  <2>2. QED BY <1>1, <1>3, <2>1
<1>5. QED BY <1>2, <1>3, <1>4 DEF t

\* A text is the sequence of its bytes.
LEMMA TextIsSequence ==
  ASSUME NEW v \in Text
  PROVE  Len(v) \in Nat /\ v = [k \in 1 .. Len(v) |-> v[k]]
<1>1. v \in Seq({v[k] : k \in DOMAIN v})
  BY FmlAssumption
<1>2. QED BY <1>1

\* See ShortLaidOut.
LEMMA TextLaidOut ==
  ASSUME NEW f, NEW v \in Text, TypeOf[f] = "string"
  PROVE  TextLayout(f, v)
<1>1. "string" # "short" /\ "string" # "long"
  OBVIOUS
<1>2. Layout(f, v) = <<Id(f), TextLength(Len(v))>> \o [k \in 1 .. Len(v) |-> Byte(v[k])]
  BY <1>1 DEF Layout
<1>3. Len(v) \in Nat
  BY TextIsSequence
<1> DEFINE B(k) == Byte(v[k])
<1>4. <<Id(f), TextLength(Len(v))>> \o [k \in 1 .. Len(v) |-> B(k)] = Layout(f, v)
  BY <1>2
<1> HIDE DEF B
<1>5. /\ Width(f, v) = Len(v) + 2
      /\ Layout(f, v)[1] = Id(f) /\ Layout(f, v)[2] = TextLength(Len(v))
      /\ \A i \in 3 .. Len(v) + 2 : Layout(f, v)[i] = B(i - 2)
  BY <1>3, <1>4, TwoAndMore DEF Width
<1>6. Width(f, v) = 2 + Len(v)
  BY <1>3, <1>5
<1>7. QED BY <1>3, <1>5, <1>6 DEF TextLayout, B

\* A field has at least two cells, and the first is its identifier.
LEMMA WidthPositive ==
  ASSUME NEW f \in Field, NEW v \in ValuesOf(f)
  PROVE  Width(f, v) \in Nat /\ Width(f, v) >= 2 /\ Layout(f, v)[1] = Id(f)
<1>1. CASE TypeOf[f] = "short"
  <2>1. ShortLayout(f, v)
    BY <1>1, ShortLaidOut
  <2>2. QED BY <2>1 DEF ShortLayout
<1>2. CASE TypeOf[f] = "long"
  <2>1. LongLayout(f, v)
    BY <1>2, LongLaidOut
  <2>2. QED BY <2>1 DEF LongLayout
<1>3. CASE TypeOf[f] = "string"
  <2>1. v \in Text
    BY <1>3 DEF ValuesOf
  <2>2. TextLayout(f, v)
    BY <1>3, <2>1, TextLaidOut
  <2>3. QED BY <2>2 DEF TextLayout
<1>4. QED BY <1>1, <1>2, <1>3, TypeKnown

\* The field at k is f and its value v, and the next one begins behind it.
Read(k, f, v) ==
  /\ At(k) = Id(f)
  /\ FMLFieldNextOffset(k) = Width(f, v)
  /\ [id |-> At(k).of, value |-> ValueAt(k)] = [id |-> f, value |-> v]

\* What an identifier's cell says.
LEMMA IdOf ==
  ASSUME NEW f, NEW k, At(k) = Id(f)
  PROVE  At(k).kind = "id" /\ At(k).of = f
<1>1. QED BY DEF Id

\* A field that lies at k is read at k: FMLFieldNextOffset and Fget32 undo what Fadd32 writes.
LEMMA ReadBack ==
  ASSUME NEW f \in Field, NEW v \in ValuesOf(f), NEW k \in Nat, ReadsAs(k, f, v)
  PROVE  Read(k, f, v)
<1>1. At(k) = Id(f)
  <2>1. Width(f, v) \in Nat /\ Width(f, v) >= 2 /\ Layout(f, v)[1] = Id(f)
    BY WidthPositive
  <2>2. 1 \in 1 .. Width(f, v) /\ k + 1 - 1 = k
    BY <2>1
  <2>3. QED BY <2>1, <2>2 DEF ReadsAs
<1>2. At(k).kind = "id" /\ At(k).of = f
  BY <1>1, IdOf
<1>3. CASE TypeOf[f] = "short"
  <2>1. ShortLayout(f, v)
    BY <1>3, ShortLaidOut
  <2>2. At(k + 1) = Byte(v[1])
    <3>1. 2 \in 1 .. 2 /\ k + 2 - 1 = k + 1
      OBVIOUS
    <3>2. QED BY <2>1, <3>1 DEF ReadsAs, ShortLayout
  <2>3. v = <<v[1]>>
    <3>1. "short" # "string"
      OBVIOUS
    <3>2. v \in Small
      BY <1>3, <3>1 DEF ValuesOf
    <3>3. QED BY <3>2, FmlAssumption
  <2>4. ValueAt(k) = v
    <3>1. ValueAt(k) = <<At(k + 1).of>>
      BY <1>2, <1>3 DEF ValueAt
    <3>2. At(k + 1).of = v[1]
      BY <2>2 DEF Byte
    <3>3. QED BY <2>3, <3>1, <3>2
  <2>5. FMLFieldNextOffset(k) = 2
    BY <1>2, <1>3 DEF FMLFieldNextOffset
  <2>6. QED BY <1>1, <1>2, <2>1, <2>4, <2>5 DEF Read, ShortLayout
<1>4. CASE TypeOf[f] = "long"
  <2>0. "long" # "string" /\ "long" # "short"
    OBVIOUS
  <2>1. LongLayout(f, v)
    BY <1>4, LongLaidOut
  <2>2. At(k + 2) = Byte(v[1])
    <3>1. 3 \in 1 .. 3 /\ k + 3 - 1 = k + 2
      OBVIOUS
    <3>2. QED BY <2>1, <3>1 DEF ReadsAs, LongLayout
  <2>3. v = <<v[1]>>
    <3>2. v \in Small
      BY <1>4, <2>0 DEF ValuesOf
    <3>3. QED BY <3>2, FmlAssumption
  <2>4. ValueAt(k) = v
    <3>1. ValueAt(k) = <<At(k + 2).of>>
      BY <1>2, <1>4, <2>0 DEF ValueAt
    <3>2. At(k + 2).of = v[1]
      BY <2>2 DEF Byte
    <3>3. QED BY <2>3, <3>1, <3>2
  <2>5. FMLFieldNextOffset(k) = 3
    BY <1>2, <1>4, <2>0 DEF FMLFieldNextOffset
  <2>6. QED BY <1>1, <1>2, <2>1, <2>4, <2>5 DEF Read, LongLayout
<1>5. CASE TypeOf[f] = "string"
  <2>0. "string" # "long" /\ "string" # "short" /\ v \in Text
    BY <1>5 DEF ValuesOf
  <2>1. TextLayout(f, v)
    BY <1>5, <2>0, TextLaidOut
  <2>2. Len(v) \in Nat /\ v = [j \in 1 .. Len(v) |-> v[j]]
    BY <2>0, TextIsSequence
  <2>3. At(k + 1) = TextLength(Len(v))
    <3>1. 2 \in 1 .. 2 + Len(v) /\ k + 2 - 1 = k + 1
      BY <2>2
    <3>2. QED BY <2>1, <3>1 DEF ReadsAs, TextLayout
  <2>4. At(k + 1).kind = "length" /\ At(k + 1).len = Len(v)
    BY <2>3 DEF TextLength
  <2>5. \A j \in 1 .. Len(v) : At(k + 1 + j).of = v[j]
    <3>1. TAKE j \in 1 .. Len(v)
    <3>2. PICK i : i = j + 2
      OBVIOUS
    <3>3. i \in 3 .. Len(v) + 2 /\ i \in 1 .. 2 + Len(v) /\ k + i - 1 = k + 1 + j /\ i - 2 = j
      BY <2>2, <3>2
    <3>4. Layout(f, v)[i] = Byte(v[j])
      BY <2>1, <3>3 DEF TextLayout
    <3>5. At(k + 1 + j) = Byte(v[j])
      BY <2>1, <3>3, <3>4 DEF ReadsAs, TextLayout
    <3>6. QED BY <3>5 DEF Byte
  <2>6. ValueAt(k) = v
    <3>1. ValueAt(k) = [j \in 1 .. Len(v) |-> At(k + 1 + j).of]
      BY <1>2, <1>5, <2>0, <2>4 DEF ValueAt
    <3>2. QED BY <2>2, <2>5, <3>1
  <2>7. FMLFieldNextOffset(k) = 2 + Len(v)
    BY <1>2, <1>5, <2>0, <2>4 DEF FMLFieldNextOffset
  <2>8. QED BY <1>1, <1>2, <2>1, <2>6, <2>7 DEF Read, TextLayout
<1>6. QED BY <1>3, <1>4, <1>5, TypeKnown

-----------------------------------------------------------------------------
(* The buffer holds a list of fields: field j lies from s[j - 1] to s[j].  *)
(* This is what the inductive invariant says of a buffer until a text has  *)
(* been changed or a field deleted.                                        *)
FieldList == {L \in Seq([id : Field, value : Value]) : \A j \in 1 .. Len(L) : L[j].value \in ValuesOf(L[j].id)}

Starts(L, s) ==
  /\ s \in [0 .. Len(L) -> Nat] /\ s[0] = 0 /\ s[Len(L)] = offset
  /\ \A j \in 1 .. Len(L) : s[j] = s[j - 1] + Width(L[j].id, L[j].value)
  /\ \A a \in 0 .. Len(L) : \A b \in a .. Len(L) : s[a] <= s[b]

Written(L, s) == \A j \in 1 .. Len(L) : ReadsAs(s[j - 1], L[j].id, L[j].value)

Represents(L, s) == L \in FieldList /\ Starts(L, s) /\ Written(L, s)

\* The body is made of cells, and the fields end inside of what is valid.
BufferOK ==
  /\ cells \in [0 .. BodySize - 1 -> Cell]
  /\ size \in 0 .. BodySize /\ offset \in 0 .. size

FmlInv ==
  /\ spoiled \in BOOLEAN
  /\ ~ spoiled => BufferOK /\ \E L, s : Represents(L, s)

\* The fields of a list have identifiers, and values of their types.
LEMMA FieldAt ==
  ASSUME NEW L \in FieldList, NEW j \in 1 .. Len(L)
  PROVE  /\ Len(L) \in Nat
         /\ L[j].id \in Field /\ L[j].value \in ValuesOf(L[j].id) /\ L[j].value \in Value
         /\ L[j] = [id |-> L[j].id, value |-> L[j].value]
<1>1. L \in Seq([id : Field, value : Value]) /\ L[j].value \in ValuesOf(L[j].id)
  BY DEF FieldList
<1>2. Len(L) \in Nat /\ L[j] \in [id : Field, value : Value]
  BY <1>1, LenProperties, ElementOfSeq
<1>3. QED BY <1>1, <1>2

\* Every field of the list can be read where it starts, and it starts before the end.
LEMMA FieldRead ==
  ASSUME NEW L, NEW s, Represents(L, s), NEW j \in 1 .. Len(L)
  PROVE  /\ Read(s[j - 1], L[j].id, L[j].value)
         /\ s[j - 1] \in Nat /\ s[j] \in Nat /\ s[j - 1] < s[j] /\ s[j] <= offset
         /\ FMLFieldNextOffset(s[j - 1]) = s[j] - s[j - 1]
         /\ s[j] - s[j - 1] >= 2
<1>1. L \in FieldList /\ Len(L) \in Nat
  <2>1. L \in FieldList
    BY DEF Represents
  <2>2. QED BY <2>1, FieldAt
<1>2. L[j].id \in Field /\ L[j].value \in ValuesOf(L[j].id)
  BY <1>1, FieldAt
<1>3. Width(L[j].id, L[j].value) \in Nat /\ Width(L[j].id, L[j].value) >= 2
  BY <1>2, WidthPositive
<1>4. j - 1 \in 0 .. Len(L) /\ j \in 0 .. Len(L) /\ Len(L) \in j .. Len(L)
  BY <1>1
<1>5. s[j - 1] \in Nat /\ s[j] \in Nat /\ s[j] <= offset /\ s[j] = s[j - 1] + Width(L[j].id, L[j].value)
  BY <1>4 DEF Represents, Starts
<1>6. ReadsAs(s[j - 1], L[j].id, L[j].value)
  BY DEF Represents, Written
<1>7. Read(s[j - 1], L[j].id, L[j].value)
  BY <1>2, <1>5, <1>6, ReadBack
<1>8. FMLFieldNextOffset(s[j - 1]) = Width(L[j].id, L[j].value)
  BY <1>7 DEF Read
<1>9. QED BY <1>3, <1>5, <1>7, <1>8

\* An identifier or a length among the cells.
LEMMA AtCell ==
  ASSUME BufferOK, NEW k
  PROVE  At(k) \in Cell
<1>1. Byte("zero") \in Cell
  BY DEF Byte, Cell
<1>2. CASE k \in DOMAIN cells
  BY <1>2 DEF BufferOK, At
<1>3. CASE k \notin DOMAIN cells
  BY <1>1, <1>3 DEF At
<1>4. QED BY <1>2, <1>3

\* Identifiers are of fields, and lengths are bounded.
LEMMA CellKinds ==
  ASSUME NEW c \in Cell
  PROVE  /\ c.kind = "id" => c.of \in Field
         /\ c.kind = "length" => c.len \in 0 .. BodySize
<1>1. CASE c \in [kind : {"id"}, of : Field]
  <2>1. c.kind # "length"
    BY <1>1
  <2>2. QED BY <1>1, <2>1
<1>2. CASE c \in [kind : {"length"}, len : 0 .. BodySize]
  <2>1. c.kind # "id"
    BY <1>2
  <2>2. QED BY <1>2, <2>1
<1>3. CASE c.kind = "byte"
  BY <1>3
<1>4. QED BY <1>1, <1>2, <1>3 DEF Cell

\* A step of a walk stays within what Walk is defined for.
LEMMA StepBounded ==
  ASSUME BufferOK, NEW k \in 0 .. 4 * BodySize, k < offset, FMLFieldNextOffset(k) # 0
  PROVE  k + FMLFieldNextOffset(k) \in k + 1 .. 4 * BodySize
<1>1. BodySize \in Nat /\ k \in Nat /\ k < BodySize
  BY FmlAssumption DEF BufferOK
<1>2. At(k).kind = "id"
  BY DEF FMLFieldNextOffset
<1>3. At(k).of \in Field
  BY <1>2, AtCell, CellKinds
<1>4. PICK n : n = IF At(k + 1).kind = "length" THEN At(k + 1).len ELSE 0
  OBVIOUS
<1>5. n \in 0 .. BodySize
  BY <1>1, <1>4, AtCell, CellKinds
<1>6. CASE TypeOf[At(k).of] = "short"
  <2>1. FMLFieldNextOffset(k) = 2
    BY <1>2, <1>6 DEF FMLFieldNextOffset
  <2>2. QED BY <1>1, <2>1
<1>7. CASE TypeOf[At(k).of] = "long"
  <2>0. "long" # "short"
    OBVIOUS
  <2>1. FMLFieldNextOffset(k) = 3
    BY <1>2, <1>7, <2>0 DEF FMLFieldNextOffset
  <2>2. QED BY <1>1, <2>1
<1>8. CASE TypeOf[At(k).of] = "string"
  <2>0. "string" # "short" /\ "string" # "long"
    OBVIOUS
  <2>1. FMLFieldNextOffset(k) = 2 + n
    BY <1>2, <1>4, <1>8, <2>0 DEF FMLFieldNextOffset
  <2>2. QED BY <1>1, <1>5, <2>1
<1>9. QED BY <1>3, <1>6, <1>7, <1>8, TypeKnown

\* The recursion of Walk goes forwards, so that there is such a function.
LEMMA WalkDefined ==
  ASSUME BufferOK
  PROVE  \A k \in 0 .. 4 * BodySize :
            Walk[k] = IF k >= offset \/ FMLFieldNextOffset(k) = 0 THEN <<>>
                      ELSE <<k>> \o Walk[k + FMLFieldNextOffset(k)]
<1> DEFINE N == 4 * BodySize
<1> DEFINE next == [n \in 0 .. N |-> IF n >= offset \/ FMLFieldNextOffset(n) = 0 THEN -1
                                     ELSE n + FMLFieldNextOffset(n)]
<1>1. N \in Nat /\ offset \in Nat
  BY FmlAssumption DEF BufferOK
<1>2. ASSUME NEW n \in 0 .. N
      PROVE  IF n >= offset \/ FMLFieldNextOffset(n) = 0 THEN next[n] = -1
             ELSE next[n] = n + FMLFieldNextOffset(n) /\ next[n] \in n + 1 .. N
  <2>1. CASE n >= offset \/ FMLFieldNextOffset(n) = 0
    BY <2>1
  <2>2. CASE ~ (n >= offset \/ FMLFieldNextOffset(n) = 0)
    <3>1. n < offset
      BY <1>1, <2>2
    <3>2. n + FMLFieldNextOffset(n) \in n + 1 .. N
      BY <2>2, <3>1, StepBounded
    <3>3. QED BY <2>2, <3>2
  <2>3. QED BY <2>1, <2>2
<1> HIDE DEF N, next
<1>3. Forwards(N, next)
  BY <1>2 DEF Forwards
<1>4. PICK f : Walks(N, next, f)
  BY <1>1, <1>3, WalkExists
<1>5. ASSUME NEW f1
      PROVE  Walks(N, next, f1) <=>
             f1 = [k \in 0 .. 4 * BodySize |-> IF k >= offset \/ FMLFieldNextOffset(k) = 0 THEN <<>>
                                               ELSE <<k>> \o f1[k + FMLFieldNextOffset(k)]]
  <2>1. ASSUME NEW k \in 0 .. N
        PROVE  (IF next[k] = -1 THEN <<>> ELSE <<k>> \o f1[next[k]])
                 = IF k >= offset \/ FMLFieldNextOffset(k) = 0 THEN <<>> ELSE <<k>> \o f1[k + FMLFieldNextOffset(k)]
    <3>1. CASE k >= offset \/ FMLFieldNextOffset(k) = 0
      <4>1. next[k] = -1
        BY <1>2, <3>1
      <4>2. QED BY <3>1, <4>1
    <3>2. CASE ~ (k >= offset \/ FMLFieldNextOffset(k) = 0)
      <4>1. next[k] = k + FMLFieldNextOffset(k) /\ next[k] \in k + 1 .. N
        BY <1>2, <3>2
      <4>2. next[k] # -1
        BY <4>1
      <4>3. QED BY <3>2, <4>1, <4>2
    <3>3. QED BY <3>1, <3>2
  <2>2. [k \in 0 .. N |-> IF next[k] = -1 THEN <<>> ELSE <<k>> \o f1[next[k]]]
          = [k \in 0 .. N |-> IF k >= offset \/ FMLFieldNextOffset(k) = 0 THEN <<>>
                              ELSE <<k>> \o f1[k + FMLFieldNextOffset(k)]]
    BY <2>1, Zenon
  <2>3. QED BY <2>2, Zenon DEF Walks, N
<1>6. Walk = CHOOSE f1 : f1 = [k \in 0 .. 4 * BodySize |->
                                 IF k >= offset \/ FMLFieldNextOffset(k) = 0 THEN <<>>
                                 ELSE <<k>> \o f1[k + FMLFieldNextOffset(k)]]
  BY DEF Walk
<1>7. Walk = [k \in 0 .. 4 * BodySize |->
                 IF k >= offset \/ FMLFieldNextOffset(k) = 0 THEN <<>>
                 ELSE <<k>> \o Walk[k + FMLFieldNextOffset(k)]]
  BY <1>4, <1>5, <1>6, Zenon
<1>8. QED BY <1>7, Zenon

\* A walk from field j on comes by the fields from j on, one after the other.
LEMMA WalkFrom ==
  ASSUME BufferOK, NEW L, NEW s, Represents(L, s), NEW e \in 0 .. Len(L)
  PROVE  Walk[s[e]] = [i \in 1 .. Len(L) - e |-> s[e + i - 1]]
<1>1. L \in FieldList /\ Len(L) \in Nat
  <2>1. L \in FieldList
    BY DEF Represents
  <2>2. L \in Seq([id : Field, value : Value])
    BY <2>1 DEF FieldList
  <2>3. QED BY <2>1, <2>2, LenProperties
<1> DEFINE G(d) == Walk[s[Len(L) - d]] = [i \in 1 .. d |-> s[Len(L) - d + i - 1]]
<1> DEFINE T == {d \in 0 .. Len(L) : ~ G(d)}
<1>2. s[Len(L)] = offset /\ \A a \in 0 .. Len(L) : s[a] \in Nat /\ s[a] <= offset
  <2>1. \A a \in 0 .. Len(L) : Len(L) \in a .. Len(L)
    BY <1>1
  <2>2. QED BY <2>1 DEF Represents, Starts
<1>3. \A a \in 0 .. Len(L) : s[a] \in 0 .. 4 * BodySize
  <2>1. offset \in Nat /\ BodySize \in Nat /\ offset <= BodySize
    BY FmlAssumption DEF BufferOK
  <2>2. offset <= 4 * BodySize
    BY <2>1
  <2>3. QED BY <1>2, <2>1, <2>2
<1>4. T = {}
  <2>1. SUFFICES ASSUME T # {} PROVE FALSE
    OBVIOUS
  <2>2. PICK d \in T : \A k \in T : d <= k
    <3>1. T \subseteq 0 .. Len(L)
      BY Zenon
    <3> HIDE DEF T
    <3>2. T \subseteq Nat
      <4>1. \A k \in 0 .. Len(L) : k \in Nat
        OBVIOUS
      <4>2. QED BY <3>1, <4>1, Zenon
    <3>3. QED BY <2>1, <3>2, LeastNumber
  <2>3. d \in 0 .. Len(L) /\ ~ G(d) /\ d \in Nat
    OBVIOUS
  <2>4. CASE d = 0
    <3>1. Len(L) - d = Len(L) /\ Len(L) \in 0 .. Len(L)
      BY <1>1, <2>4
    <3>2. Walk[s[Len(L)]] = <<>>
      BY <1>2, <1>3, <3>1, WalkDefined
    <3>3. [i \in 1 .. 0 |-> s[Len(L) - 0 + i - 1]] = <<>>
      OBVIOUS
    <3>4. QED BY <2>3, <2>4, <3>1, <3>2, <3>3
  <2>5. CASE d # 0
    <3>1. d - 1 \in 0 .. Len(L) /\ ~ (d <= d - 1)
      BY <2>3, <2>5
    <3>2. G(d - 1)
      BY <2>2, <3>1
    <3>3. PICK j : j = Len(L) - (d - 1)
      OBVIOUS
    <3>4. j \in 1 .. Len(L) /\ j - 1 = Len(L) - d /\ j - 1 \in 0 .. Len(L) /\ j \in 0 .. Len(L)
      BY <1>1, <2>3, <2>5, <3>3
    <3>5. /\ s[j - 1] < s[j] /\ s[j] <= offset /\ s[j - 1] \in Nat /\ s[j] \in Nat
          /\ FMLFieldNextOffset(s[j - 1]) = s[j] - s[j - 1]
      BY <3>4, FieldRead
    <3>6. Walk[s[j - 1]] = <<s[j - 1]>> \o Walk[s[j]]
      <4>1. /\ ~ (s[j - 1] >= offset) /\ FMLFieldNextOffset(s[j - 1]) # 0
            /\ s[j - 1] + FMLFieldNextOffset(s[j - 1]) = s[j]
        <5>1. offset \in Nat
          BY DEF BufferOK
        <5>2. PICK a, b, w : a = s[j - 1] /\ b = s[j] /\ w = FMLFieldNextOffset(s[j - 1])
          OBVIOUS
        <5>3. a \in Nat /\ b \in Nat /\ a < b /\ b <= offset /\ w = b - a
          BY <3>5, <5>2, Zenon
        <5>4. ~ (a >= offset) /\ w # 0 /\ a + w = b
          BY <5>1, <5>3
        <5>5. QED BY <5>2, <5>4
      <4>2. QED BY <1>3, <3>4, <4>1, WalkDefined
    <3>7. Walk[s[j]] = [i \in 1 .. d - 1 |-> s[j + i - 1]]
      BY <3>2, <3>3
    <3>8. <<s[j - 1]>> \o [i \in 1 .. d - 1 |-> s[j + i - 1]] = [i \in 1 .. d |-> s[j - 1 + i - 1]]
      <4> DEFINE t == [i \in 1 .. d - 1 |-> s[j + i - 1]]
      <4> DEFINE r == [i \in 1 .. d |-> s[j - 1 + i - 1]]
      <4>0. d - 1 \in Nat /\ j \in Nat
        BY <2>3, <2>5, <3>4
      <4>1. \A i \in 1 .. d - 1 : t[i] \in Nat
        <5>1. \A i \in 1 .. d - 1 : j + i - 1 \in 0 .. Len(L)
          BY <1>1, <2>3, <3>3
        <5>2. QED BY <1>2, <5>1
      <4>2. t \in Seq(Nat) /\ Len(t) = d - 1
        BY <4>0, <4>1
      <4>3. \A i \in 1 .. d : r[i] \in Nat
        <5>1. \A i \in 1 .. d : j - 1 + i - 1 \in 0 .. Len(L)
          BY <1>1, <2>3, <3>3
        <5>2. QED BY <1>2, <5>1
      <4>4. r \in Seq(Nat) /\ Len(r) = d
        <5>1. r \in [1 .. d -> Nat] /\ d \in Nat
          BY <2>3, <4>3
        <5> HIDE DEF r
        <5>2. QED BY <5>1, SequenceOf
      <4>5. <<s[j - 1]>> \in Seq(Nat) /\ Len(<<s[j - 1]>>) = 1
        BY <3>5
      <4>6. \A i \in 1 .. d : r[i] = IF i <= 1 THEN <<s[j - 1]>>[i] ELSE t[i - 1]
        <5>1. TAKE i \in 1 .. d
        <5>2. CASE i = 1
          <6>1. j - 1 + i - 1 = j - 1
            BY <4>0, <5>2
          <6>2. QED BY <5>2, <6>1
        <5>3. CASE i # 1
          <6>1. i - 1 \in 1 .. d - 1 /\ j + (i - 1) - 1 = j - 1 + i - 1 /\ ~ (i <= 1)
            BY <4>0, <5>3
          <6>2. QED BY <6>1
        <5>4. QED BY <5>2, <5>3
      <4> HIDE DEF t, r
      <4>7. /\ <<s[j - 1]>> \o t \in Seq(Nat) /\ Len(<<s[j - 1]>> \o t) = 1 + (d - 1)
            /\ \A i \in 1 .. 1 + (d - 1) : (<<s[j - 1]>> \o t)[i] = IF i <= 1 THEN <<s[j - 1]>>[i] ELSE t[i - 1]
        BY <4>2, <4>5, ConcatProperties
      <4>8. 1 + (d - 1) = d
        BY <2>3
      <4>9. Len(<<s[j - 1]>> \o t) = Len(r) /\ \A i \in 1 .. Len(r) : (<<s[j - 1]>> \o t)[i] = r[i]
        BY <4>4, <4>6, <4>7, <4>8
      <4>10. <<s[j - 1]>> \o t = r
        BY <4>4, <4>7, <4>9, SeqEqual
      <4>11. QED BY <4>10 DEF t, r
    <3>9. G(d)
      BY <3>4, <3>6, <3>7, <3>8
    <3>10. QED BY <2>3, <3>9
  <2>6. QED BY <2>4, <2>5
<1>5. PICK d : d = Len(L) - e
  OBVIOUS
<1>6. d \in 0 .. Len(L) /\ Len(L) - d = e
  BY <1>1, <1>5
<1>7. G(d)
  BY <1>4, <1>6
<1>8. QED BY <1>5, <1>6, <1>7

\* From the beginning: the places of all fields.
LEMMA WalkIs ==
  ASSUME BufferOK, NEW L, NEW s, Represents(L, s)
  PROVE  Walk[0] = [j \in 1 .. Len(L) |-> s[j - 1]]
<1>1. L \in Seq([id : Field, value : Value]) /\ Len(L) \in Nat
  <2>1. L \in Seq([id : Field, value : Value])
    BY DEF Represents, FieldList
  <2>2. QED BY <2>1, LenProperties
<1>2. s[0] = 0 /\ 0 \in 0 .. Len(L)
  BY <1>1 DEF Represents, Starts
<1>3. Walk[s[0]] = [i \in 1 .. Len(L) - 0 |-> s[0 + i - 1]]
  BY <1>2, WalkFrom
<1>4. Len(L) - 0 = Len(L) /\ \A i \in 1 .. Len(L) : 0 + i - 1 = i - 1
  BY <1>1
<1>5. QED BY <1>2, <1>3, <1>4

\* So what a program reads out of the buffer is the list.
LEMMA ContentsAre == \A L, s : BufferOK /\ Represents(L, s) => Contents = L
<1> SUFFICES ASSUME NEW L, NEW s, BufferOK, Represents(L, s) PROVE Contents = L
  OBVIOUS
<1>1. L \in Seq([id : Field, value : Value]) /\ Len(L) \in Nat /\ L = [j \in 1 .. Len(L) |-> L[j]]
  <2>1. L \in Seq([id : Field, value : Value])
    BY DEF Represents, FieldList
  <2>2. DOMAIN L = 1 .. Len(L) /\ Len(L) \in Nat
    BY <2>1, LenProperties
  <2>3. QED BY <2>1, <2>2
<1>2. \A j \in 1 .. Len(L) : [id |-> At(s[j - 1]).of, value |-> ValueAt(s[j - 1])] = L[j]
  <2>1. TAKE j \in 1 .. Len(L)
  <2>2. L[j] = [id |-> L[j].id, value |-> L[j].value]
    BY FieldAt DEF Represents
  <2>3. Read(s[j - 1], L[j].id, L[j].value)
    BY FieldRead
  <2>4. QED BY <2>2, <2>3, Zenon DEF Read
<1> DEFINE places == [j \in 1 .. Len(L) |-> s[j - 1]]
<1>3. Contents = [j \in DOMAIN places |-> [id |-> At(places[j]).of, value |-> ValueAt(places[j])]]
  BY WalkIs, Zenon DEF Contents
<1>4. DOMAIN places = 1 .. Len(L)
  OBVIOUS
<1>5. Contents = [j \in 1 .. Len(L) |-> [id |-> At(s[j - 1]).of, value |-> ValueAt(s[j - 1])]]
  BY <1>3
<1>6. QED BY <1>1, <1>2, <1>5, Zenon

\* Fields before place j with id f; occurrence oc of f is at place j of the list.
Before(L, f, j) == {m \in 1 .. j - 1 : L[m].id = f}
OccurrenceAt(L, f, oc, j) == j \in 1 .. Len(L) /\ L[j].id = f /\ Cardinality(Before(L, f, j)) = oc

\* The walk of Fget32 and Fchg32 finds occurrence oc where the list has it.
LEMMA PlaceFound ==
  ASSUME BufferOK, NEW L, NEW s, Represents(L, s), NEW f, NEW oc
  PROVE  /\ PlaceOf(f, oc) # -1 <=> \E j : OccurrenceAt(L, f, oc, j)
         /\ PlaceOf(f, oc) # -1 => \E j : OccurrenceAt(L, f, oc, j) /\ PlaceOf(f, oc) = s[j - 1]
<1> DEFINE places == Walk[0]
<1> DEFINE hits == {j \in DOMAIN places :
                     /\ At(places[j]).of = f
                     /\ Cardinality({m \in 1 .. j - 1 : At(places[m]).of = f}) = oc}
<1>1. places = [j \in 1 .. Len(L) |-> s[j - 1]]
  BY WalkIs
<1>2. \A j \in 1 .. Len(L) : At(places[j]).of = L[j].id
  <2>1. TAKE j \in 1 .. Len(L)
  <2>2. Read(s[j - 1], L[j].id, L[j].value)
    BY FieldRead
  <2>3. At(s[j - 1]).of = L[j].id
    BY <2>2, IdOf DEF Read
  <2>4. QED BY <1>1, <2>3
<1>3. DOMAIN places = 1 .. Len(L)
  BY <1>1
<1>4. PlaceOf(f, oc) = IF hits = {} THEN -1 ELSE places[CHOOSE j \in hits : TRUE]
  BY Zenon DEF PlaceOf
<1>5. Len(L) \in Nat
  BY LenProperties DEF Represents, FieldList
<1>6. \A j : j \in hits <=> OccurrenceAt(L, f, oc, j)
  <2>1. TAKE j
  <2>2. CASE j \in 1 .. Len(L)
    <3>1. \A m \in 1 .. j - 1 : m \in 1 .. Len(L)
      BY <1>5, <2>2
    <3>2. {m \in 1 .. j - 1 : At(places[m]).of = f} = Before(L, f, j)
      BY <1>2, <3>1, Zenon DEF Before
    <3>3. QED BY <1>2, <1>3, <2>2, <3>2, Zenon DEF OccurrenceAt
  <2>3. CASE j \notin 1 .. Len(L)
    BY <1>3, <2>3, Zenon DEF OccurrenceAt
  <2>4. QED BY <2>2, <2>3
<1> HIDE DEF places, hits
<1>7. \A j \in hits : j \in 1 .. Len(L) /\ places[j] = s[j - 1] /\ s[j - 1] \in Nat
  <2>1. TAKE j \in hits
  <2>2. j \in 1 .. Len(L)
    BY <1>6, Zenon DEF OccurrenceAt
  <2>3. s[j - 1] \in Nat
    BY <2>2, FieldRead
  <2>4. QED BY <1>1, <2>2, <2>3
<1>8. CASE hits = {}
  BY <1>4, <1>6, <1>8, Zenon
<1>9. CASE hits # {}
  <2>1. PICK j : j = CHOOSE i \in hits : TRUE
    OBVIOUS
  <2>2. j \in hits
    BY <1>9, <2>1, Zenon
  <2>3. PlaceOf(f, oc) = s[j - 1] /\ s[j - 1] \in Nat
    BY <1>4, <1>7, <1>9, <2>1, <2>2, Zenon
  <2>4. PlaceOf(f, oc) # -1
    BY <2>3
  <2>5. QED BY <1>6, <2>2, <2>3, <2>4, Zenon
<1>10. QED BY <1>8, <1>9

\* An occurrence of the list is one for the abstract buffer.
LEMMA AbstractOccurrence ==
  ASSUME NEW L, Len(L) \in Nat, NEW f, NEW oc, NEW j, OccurrenceAt(L, f, oc, j)
  PROVE  Abstract!IsOccurrence(L, f, oc, j) /\ oc \in Nat /\ oc + 1 \in 1 .. Len(L)
<1>1. j \in 1 .. Len(L) /\ L[j].id = f /\ Cardinality(Before(L, f, j)) = oc
  BY DEF OccurrenceAt
<1>2. IsFiniteSet(1 .. j - 1) /\ Cardinality(1 .. j - 1) = j - 1
  <2>1. IsFiniteSet(1 .. j - 1) /\ Cardinality(1 .. j - 1) = IF 1 > j - 1 THEN 0 ELSE j - 1 - 1 + 1
    <3>1. 1 \in Int /\ j - 1 \in Int
      BY <1>1
    <3>2. QED BY <3>1, FS_Interval
  <2>2. QED BY <1>1, <2>1
<1>3. Cardinality(Before(L, f, j)) \in Nat /\ Cardinality(Before(L, f, j)) <= j - 1
  <2>1. Before(L, f, j) \in SUBSET (1 .. j - 1)
    BY DEF Before
  <2>2. QED BY <1>2, <2>1, FS_Subset, FS_CardinalityType
<1>4. oc \in Nat /\ oc + 1 \in 1 .. Len(L)
  <2>1. oc \in Nat /\ oc <= j - 1
    BY <1>1, <1>3, Zenon
  <2>2. PICK n : n = Len(L)
    OBVIOUS
  <2>3. j \in 1 .. n /\ n \in Nat
    BY <1>1, <2>2
  <2>4. oc + 1 \in 1 .. n
    BY <2>1, <2>3
  <2>5. QED BY <2>1, <2>2, <2>4
<1>5. Before(L, f, j) = {m \in 1 .. j - 1 : L[m].id = f}
  BY DEF Before
<1>6. Abstract!IsOccurrence(L, f, oc, j)
  <2>1. Abstract!Cardinality(Before(L, f, j)) = Cardinality(Before(L, f, j))
    BY DEF Abstract!Cardinality, Cardinality
  <2>2. QED BY <1>1, <1>5, <2>1, Zenon DEF Abstract!IsOccurrence
<1>7. QED BY <1>4, <1>6

-----------------------------------------------------------------------------
(* The three properties of a buffer *)

\* The walk ends where the header says.
LEMMA EndsAtOffset ==
  ASSUME FmlInv
  PROVE  WellFormed
<1>1. CASE spoiled
  BY <1>1 DEF WellFormed
<1>2. CASE ~ spoiled
  <2>1. PICK L, s : Represents(L, s)
    BY <1>2 DEF FmlInv
  <2>2. BufferOK
    BY <1>2 DEF FmlInv
  <2>3. Walk[0] = [j \in 1 .. Len(L) |-> s[j - 1]]
    BY <2>1, <2>2, WalkIs
  <2>4. Len(L) \in Nat /\ s[0] = 0 /\ s[Len(L)] = offset
    BY <2>1, LenProperties DEF Represents, FieldList, Starts
  <2>5. CASE Len(L) = 0
    <3>1. offset = 0
      BY <2>4, <2>5
    <3>2. offset <= size
      BY <2>2 DEF BufferOK
    <3>3. QED BY <3>1, <3>2, Zenon DEF WellFormed
  <2>6. CASE Len(L) # 0
    <3>1. PICK n : n = Len(L)
      OBVIOUS
    <3>2. n \in 1 .. Len(L) /\ n \in Nat /\ n # 0
      BY <2>4, <2>6, <3>1
    <3>3. Len(Walk[0]) = n
      <4> DEFINE w == [j \in 1 .. n |-> s[j - 1]]
      <4>1. \A j \in 1 .. n : w[j] \in Nat
        BY <2>1, <3>1, FieldRead
      <4>2. w \in Seq(Nat) /\ Len(w) = n
        BY <3>2, <4>1
      <4>3. QED BY <2>3, <3>1, <4>2
    <3>4. Walk[0][n] = s[n - 1]
      BY <2>3, <3>2
    <3>5. FMLFieldNextOffset(s[n - 1]) = s[n] - s[n - 1] /\ s[n] \in Nat /\ s[n - 1] \in Nat
      BY <2>1, <3>2, FieldRead
    <3>6. s[n - 1] + FMLFieldNextOffset(s[n - 1]) = s[n]
      <4>1. PICK a, b : a = s[n] /\ b = s[n - 1]
        OBVIOUS
      <4>2. FMLFieldNextOffset(s[n - 1]) = a - b /\ a \in Nat /\ b \in Nat
        BY <3>5, <4>1
      <4>3. b + (a - b) = a
        BY <4>2
      <4>4. QED BY <4>1, <4>2, <4>3
    <3>7. s[n] = offset
      BY <2>4, <3>1
    <3>8. offset <= size
      BY <2>2 DEF BufferOK
    <3>9. Walk[0][Len(Walk[0])] + FMLFieldNextOffset(Walk[0][Len(Walk[0])]) = offset
      BY <3>3, <3>4, <3>6, <3>7
    <3>10. QED BY <3>8, <3>9, Zenon DEF WellFormed
  <2>7. QED BY <2>5, <2>6
<1>3. QED BY <1>1, <1>2

\* Two ways to a difference.
LEMMA Difference ==
  ASSUME NEW a \in Nat, NEW b \in Nat, NEW p \in Nat, NEW w \in Nat \ {0}, a - b = w, b = p - w
  PROVE  a = p
OBVIOUS

\* Fields as long as the first start at multiples of its width, and so does the one behind them.
LEMMA EquallyLong ==
  ASSUME BufferOK, NEW L, NEW s, Represents(L, s), Len(L) # 0, NEW w, w = FMLFieldNextOffset(0),
         NEW n \in 0 .. Len(L), \A i \in 1 .. n : FMLFieldNextOffset(s[i - 1]) = w
  PROVE  w \in Nat \ {0} /\ \A j \in 0 .. n : s[j] = j * w
<1>1. Len(L) \in Nat /\ s[0] = 0
  BY LenProperties DEF Represents, FieldList, Starts
<1>2. \A i \in 1 .. n : i \in 1 .. Len(L)
  BY <1>1
<1>3. \A j \in 1 .. n : s[j] \in Nat /\ s[j - 1] \in Nat /\ s[j] - s[j - 1] = w
  BY <1>2, FieldRead
<1>4. w \in Nat \ {0}
  <2>1. 1 \in 1 .. Len(L)
    BY <1>1
  <2>2. FMLFieldNextOffset(s[0]) = s[1] - s[0] /\ s[1] \in Nat /\ s[0] \in Nat /\ s[1] - s[0] >= 2
    <3>1. 1 - 1 = 0
      OBVIOUS
    <3> QED
      BY <2>1, <3>1, FieldRead
  <2>3. w = s[1] - s[0]
    BY <1>1, <2>2
  <2> QED
    BY <2>2, <2>3
<1> DEFINE T == {j \in 0 .. n : s[j] # j * w}
<1>5. T = {}
  <2>1. SUFFICES ASSUME T # {} PROVE FALSE
    OBVIOUS
  <2>2. PICK k \in T : \A e \in T : k <= e
    <3>1. T \subseteq 0 .. n
      BY Zenon
    <3> HIDE DEF T
    <3>2. T \subseteq Nat
      <4>1. \A e \in 0 .. n : e \in Nat
        OBVIOUS
      <4>2. QED BY <3>1, <4>1, Zenon
    <3>3. QED BY <2>1, <3>2, LeastNumber
  <2>3. k \in 0 .. n /\ s[k] # k * w
    OBVIOUS
  <2>4. CASE k = 0
    BY <1>1, <1>4, <2>3, <2>4
  <2>5. CASE k # 0
    <3>1. k - 1 \in 0 .. n /\ ~ (k <= k - 1) /\ k \in 1 .. n
      BY <1>1, <2>3, <2>5
    <3>2. s[k - 1] = (k - 1) * w
      BY <2>2, <3>1
    <3>3. (k - 1) * w = k * w - w
      BY <1>4, <3>1
    <3>4. s[k] - s[k - 1] = w /\ s[k] \in Nat /\ s[k - 1] \in Nat
      BY <1>3, <3>1
    <3>5. PICK p : p = k * w
      OBVIOUS
    <3>6. s[k] = p
      <4>1. PICK a, b : a = s[k] /\ b = s[k - 1]
        OBVIOUS
      <4>2. a \in Nat /\ b \in Nat /\ a - b = w
        BY <3>4, <4>1
      <4>3. b = p - w
        BY <3>2, <3>3, <3>5, <4>1
      <4>4. p \in Nat
        BY <1>4, <2>3, <3>5
      <4>5. a = p
        BY <1>4, <4>2, <4>3, <4>4, Difference
      <4>6. QED BY <4>1, <4>5
    <3>7. QED BY <2>3, <3>5, <3>6
  <2>6. QED BY <2>4, <2>5
<1>6. \A j \in 0 .. n : s[j] = j * w
  BY <1>5
<1>7. QED BY <1>4, <1>6

\* A number below a multiple of w that w divides is a smaller multiple.
LEMMA Multiples ==
  ASSUME NEW w \in Nat \ {0}, NEW n \in Nat, NEW k \in Nat, k < n * w, k % w = 0
  PROVE  \E j \in 1 .. n : k = (j - 1) * w
<1>1. k = w * (k \div w) /\ k \div w \in Nat
  OBVIOUS
<1>2. PICK q : q = k \div w
  OBVIOUS
<1>3. q \in Nat /\ k = w * q
  BY <1>1, <1>2
<1>4. q < n
  <2>1. SUFFICES ASSUME q >= n PROVE FALSE
    BY <1>3
  <2>2. PICK d \in Nat : q = n + d
    <3>1. q - n \in Nat /\ q = n + (q - n)
      BY <1>3, <2>1
    <3>2. QED BY <3>1
  <2>3. w * q = n * w + w * d /\ w * d \in Nat /\ n * w \in Nat
    BY <2>2
  <2>4. QED BY <1>3, <2>3
<1>5. PICK j : j = q + 1
  OBVIOUS
<1>6. j \in 1 .. n /\ (j - 1) * w = w * q
  BY <1>3, <1>4, <1>5
<1>7. QED BY <1>3, <1>6

\* Multiples of w leave nothing.
LEMMA MultipleOf ==
  ASSUME NEW w \in Nat \ {0}, NEW n \in Nat, NEW j \in 1 .. n
  PROVE  (j - 1) * w \in 0 .. n * w - 1 /\ ((j - 1) * w) % w = 0
<1>1. PICK q : q = j - 1
  OBVIOUS
<1>2. q \in Nat /\ q + 1 <= n
  BY <1>1
<1>3. PICK d \in Nat : n = q + 1 + d
  <2>1. n - (q + 1) \in Nat /\ n = q + 1 + (n - (q + 1))
    BY <1>2
  <2>2. QED BY <2>1
<1>4. n * w = q * w + w + d * w /\ d * w \in Nat /\ q * w \in Nat
  BY <1>2, <1>3
<1>5. q * w \in 0 .. n * w - 1
  BY <1>4
<1>6. (q * w) % w = 0
  BY <1>2
<1>7. QED BY <1>1, <1>5, <1>6

\* Foccur32 counts the fields of the list that are f.
LEMMA CountIs ==
  ASSUME BufferOK, NEW L, NEW s, Represents(L, s), Uniform, NEW f
  PROVE  Foccur32(f) = {Cardinality({j \in 1 .. Len(L) : L[j].id = f})}
<1> DEFINE H == {j \in 1 .. Len(L) : L[j].id = f}
<1> DEFINE C == FoccurHits(f)
<1>1. Len(L) \in Nat /\ s[0] = 0 /\ s[Len(L)] = offset
  BY LenProperties DEF Represents, FieldList, Starts
<1>a. Walk[0] = [j \in 1 .. Len(L) |-> s[j - 1]]
  BY WalkIs
<1>b. \A j \in 1 .. Len(L) : s[j - 1] \in FieldPlaces
  BY <1>a DEF FieldPlaces
<1>c. IsFiniteSet(H) /\ Cardinality(H) \in Nat
  <2>1. IsFiniteSet(1 .. Len(L))
    BY <1>1, FS_Interval
  <2>2. H \in SUBSET (1 .. Len(L))
    OBVIOUS
  <2> HIDE DEF H
  <2>3. QED BY <2>1, <2>2, FS_Subset, FS_CardinalityType
<1>2. CASE Len(L) = 0
  <2>1. offset = 0
    BY <1>1, <1>2
  <2>2. C = {}
    BY <2>1 DEF FoccurSteps, FoccurHits
  <2>3. H = {}
    BY <1>2
  <2>4. FoccurSteps \ FieldPlaces = {}
    BY <2>1 DEF FoccurSteps
  <2>5. Cardinality({}) = 0
    BY FS_EmptySet
  <2>6. Foccur32(f) = 0 .. 0 + 0 /\ Cardinality(H) = 0
    BY <2>2, <2>3, <2>4, <2>5 DEF Foccur32
  <2> HIDE DEF H
  <2>7. Foccur32(f) = {Cardinality(H)}
    BY <2>6
  <2>8. QED BY <2>7 DEF H
<1>3. CASE Len(L) # 0
  <2>1. PICK w : w = FMLFieldNextOffset(0)
    OBVIOUS
  <2>2. w \in Nat \ {0} /\ \A j \in 0 .. Len(L) : s[j] = j * w
    <3>1. \A j \in 1 .. Len(L) : FMLFieldNextOffset(s[j - 1]) = w
      <4>1. TAKE j \in 1 .. Len(L)
      <4>2. j \in DOMAIN Walk[0] /\ Walk[0][j] = s[j - 1]
        BY <1>a
      <4>3. \A i \in DOMAIN Walk[0] : FMLFieldNextOffset(Walk[0][i]) = FMLFieldNextOffset(0)
        BY Zenon DEF Uniform
      <4>4. FMLFieldNextOffset(Walk[0][j]) = w
        BY <2>1, <4>2, <4>3, Zenon
      <4>5. QED BY <4>2, <4>4
    <3>2. PICK m \in 0 .. Len(L) : m = Len(L)
      BY <1>1
    <3>3. \A j \in 1 .. m : FMLFieldNextOffset(s[j - 1]) = w
      BY <3>1, <3>2, Zenon
    <3>4. w \in Nat \ {0} /\ \A j \in 0 .. m : s[j] = j * w
      BY <1>3, <2>1, <3>3, EquallyLong
    <3>5. QED BY <3>2, <3>4, Zenon
  <2>3. \A j \in 1 .. Len(L) : s[j - 1] = (j - 1) * w /\ (At(s[j - 1]) = Id(f) <=> L[j].id = f)
    <3>1. TAKE j \in 1 .. Len(L)
    <3>2. Read(s[j - 1], L[j].id, L[j].value)
      BY FieldRead
    <3>3. At(s[j - 1]) = Id(L[j].id)
      BY <3>2 DEF Read
    <3>4. Id(L[j].id) = Id(f) <=> L[j].id = f
      BY DEF Id
    <3>5. j - 1 \in 0 .. Len(L)
      BY <1>1
    <3>6. s[j - 1] = (j - 1) * w
      BY <2>2, <3>5
    <3>7. QED BY <3>3, <3>4, <3>6
  <2>4. offset = Len(L) * w
    <3>1. Len(L) \in 0 .. Len(L)
      BY <1>1
    <3>2. QED BY <1>1, <2>2, <3>1
  <2>5. FoccurSteps = {k \in 0 .. offset - 1 : k % w = 0}
    BY <2>1, <2>2 DEF FoccurSteps
  <2> DEFINE b == [j \in H |-> (j - 1) * w]
  <2>6. \A j \in H : b[j] \in C
    <3>1. TAKE j \in H
    <3>2. j \in 1 .. Len(L) /\ L[j].id = f
      OBVIOUS
    <3>3. (j - 1) * w \in 0 .. Len(L) * w - 1 /\ ((j - 1) * w) % w = 0
      BY <1>1, <2>2, <3>2, MultipleOf
    <3>4. (j - 1) * w \in FoccurSteps
      BY <2>4, <2>5, <3>3
    <3>5. At((j - 1) * w) = Id(f)
      BY <2>3, <3>2
    <3>6. (j - 1) * w \in FieldPlaces
      BY <1>b, <2>3, <3>2
    <3>7. QED BY <3>4, <3>5, <3>6 DEF FoccurHits
  <2>a. ASSUME NEW k \in FoccurSteps PROVE \E j \in 1 .. Len(L) : k = (j - 1) * w
    <3>3. k \in Nat /\ k < Len(L) * w /\ k % w = 0
      <4>1. k \in 0 .. offset - 1 /\ k % w = 0
        BY <2>5
      <4>2. offset \in Nat
        BY DEF BufferOK
      <4>3. k \in Nat /\ k < offset
        BY <4>1, <4>2
      <4>4. QED BY <2>4, <4>1, <4>3
    <3> QED
      BY <1>1, <2>2, <3>3, Multiples
  <2>b. FoccurSteps \ FieldPlaces = {}
    <3>1. \A k \in FoccurSteps : k \in FieldPlaces
      BY <1>b, <2>3, <2>a
    <3> QED
      BY <3>1
  <2>7. \A k \in C : \E j \in H : b[j] = k
    <3>1. TAKE k \in C
    <3>2. k \in FoccurSteps /\ At(k) = Id(f)
      BY DEF FoccurHits
    <3>4. PICK j \in 1 .. Len(L) : k = (j - 1) * w
      BY <2>a, <3>2
    <3>5. L[j].id = f
      BY <2>3, <3>2, <3>4
    <3>6. QED BY <3>4, <3>5
  <2>8. \A i, j \in H : i # j => b[i] # b[j]
    <3>1. TAKE i, j \in H
    <3>2. i \in 1 .. Len(L) /\ j \in 1 .. Len(L)
      OBVIOUS
    <3>3. i # j => (i - 1) * w # (j - 1) * w
      BY <2>2, <3>2
    <3>4. QED BY <3>3
  <2>10. b \in Bijection(H, C)
    <3>1. b \in [H -> C]
      BY <2>6
    <3> HIDE DEF H, C, b
    <3>2. \A i, j \in H : b[i] = b[j] => i = j
      BY <2>8, Zenon
    <3>3. b \in Injection(H, C)
      BY <3>1, <3>2 DEF Injection, IsInjective
    <3>4. b \in Surjection(H, C)
      BY <2>7, <3>1, Zenon DEF Surjection
    <3>5. QED BY <3>3, <3>4, Zenon DEF Bijection
  <2> HIDE DEF H, C, b
  <2>11. Cardinality(C) = Cardinality(H)
    BY <1>c, <2>10, FS_Bijection DEF ExistsBijection
  <2>12. Cardinality({}) = 0
    BY FS_EmptySet
  <2>13. Foccur32(f) = Cardinality(C) .. Cardinality(C) + 0
    BY <2>b, <2>12 DEF Foccur32, C
  <2>14. Foccur32(f) = {Cardinality(H)}
    BY <1>c, <2>11, <2>13
  <2>15. QED BY <2>14 DEF H
<1>4. QED BY <1>2, <1>3

\* It counts at least those that its steps are sure to come by.
LEMMA CountsReached ==
  ASSUME BufferOK, NEW L, NEW s, Represents(L, s), NEW f, NEW n \in Foccur32(f)
  PROVE  n >= Cardinality({j \in Reached : At(Walk[0][j]).of = f})
<1> DEFINE R == {j \in Reached : At(Walk[0][j]).of = f}
           C == FoccurHits(f)
           b == [j \in R |-> s[j - 1]]
<1>1. Len(L) \in Nat /\ s[0] = 0 /\ s[Len(L)] = offset /\ offset \in Nat
  BY LenProperties DEF Represents, FieldList, Starts, BufferOK
<1>2. Walk[0] = [j \in 1 .. Len(L) |-> s[j - 1]]
  BY WalkIs
<1>3. PICK w : w = FMLFieldNextOffset(0)
  OBVIOUS
<1>4. ASSUME NEW j \in Reached
      PROVE  /\ j \in 1 .. Len(L) /\ w \in Nat \ {0} /\ s[j - 1] = (j - 1) * w
             /\ s[j - 1] \in 0 .. offset - 1 /\ s[j - 1] = Walk[0][j]
  <2>1. j \in 1 .. Len(L) /\ \A m \in 1 .. j - 1 : FMLFieldNextOffset(Walk[0][m]) = w
    BY <1>2, <1>3 DEF Reached
  <2>2. j - 1 \in 0 .. Len(L) /\ Len(L) # 0 /\ \A m \in 1 .. j - 1 : m \in 1 .. Len(L)
    BY <1>1, <2>1
  <2>3. PICK k \in 0 .. Len(L) : k = j - 1
    BY <2>2
  <2>4. \A m \in 1 .. k : FMLFieldNextOffset(s[m - 1]) = w
    BY <1>2, <2>1, <2>2, <2>3
  <2>5. w \in Nat \ {0} /\ \A i \in 0 .. k : s[i] = i * w
    BY <1>3, <2>2, <2>4, EquallyLong
  <2>6. s[j - 1] = (j - 1) * w
    BY <2>3, <2>5
  <2>7. s[j - 1] \in Nat /\ s[j] \in Nat /\ s[j - 1] < s[j] /\ s[j] <= offset
    BY <2>1, FieldRead
  <2>8. s[j - 1] \in 0 .. offset - 1
    <3>1. PICK x, y : x = s[j - 1] /\ y = s[j]
      OBVIOUS
    <3> QED
      BY <1>1, <2>7, <3>1
  <2> QED
    BY <1>2, <2>1, <2>5, <2>6, <2>8
<1>5. \A j \in R : b[j] \in C
  <2> TAKE j \in R
  <2>1. j \in Reached /\ At(Walk[0][j]).of = f
    OBVIOUS
  <2>2. j \in 1 .. Len(L) /\ w \in Nat \ {0} /\ s[j - 1] = (j - 1) * w /\ s[j - 1] \in 0 .. offset - 1
        /\ s[j - 1] = Walk[0][j]
    BY <1>4, <2>1
  <2>3. s[j - 1] \in FoccurSteps
    <3>1. ((j - 1) * w) % w = 0
      BY <1>1, <2>2, MultipleOf
    <3> QED
      BY <1>3, <2>2, <3>1 DEF FoccurSteps
  <2>4. s[j - 1] \in FieldPlaces
    BY <1>2, <2>2 DEF FieldPlaces
  <2>5. At(s[j - 1]) = Id(f)
    <3>1. At(s[j - 1]) = Id(L[j].id)
      BY <2>2, FieldRead DEF Read
    <3>2. L[j].id = f
      BY <2>1, <2>2, <3>1, IdOf
    <3> QED
      BY <3>1, <3>2
  <2> QED
    BY <2>3, <2>4, <2>5 DEF FoccurHits
<1>6. \A i, j \in R : i # j => b[i] # b[j]
  <2> TAKE i, j \in R
  <2>1. i \in 1 .. Len(L) /\ j \in 1 .. Len(L) /\ w \in Nat \ {0} /\ b[i] = (i - 1) * w /\ b[j] = (j - 1) * w
    BY <1>4
  <2> HIDE DEF b
  <2>2. i # j => (i - 1) * w # (j - 1) * w
    BY <2>1
  <2> QED
    BY <2>1, <2>2
<1>7. IsFiniteSet(C)
  <2>1. IsFiniteSet(0 .. offset - 1)
    BY <1>1, FS_Interval
  <2>2. C \in SUBSET (0 .. offset - 1)
    BY DEF FoccurHits, FoccurSteps
  <2> HIDE DEF C
  <2> QED
    BY <2>1, <2>2, FS_Subset
<1>8. b \in Injection(R, C)
  <2>1. b \in [R -> C]
    BY <1>5
  <2> HIDE DEF R, C, b
  <2>2. \A i, j \in R : b[i] = b[j] => i = j
    BY <1>6, Zenon
  <2> QED
    BY <2>1, <2>2 DEF Injection, IsInjective
<1> HIDE DEF R, b
<1>9. Cardinality(R) <= Cardinality(C) /\ Cardinality(R) \in Nat /\ Cardinality(C) \in Nat
  <2> HIDE DEF C
  <2> QED
    BY <1>7, <1>8, FS_Injection, FS_CardinalityType
<1>10. n \in Int /\ n >= Cardinality(C)
  BY <1>9 DEF Foccur32
<1>11. n >= Cardinality(R)
  <2> HIDE DEF C
  <2> QED
    BY <1>9, <1>10
<1> QED
  BY <1>11 DEF R

\* What was counted can be read, and no more.
LEMMA CountedIsRead ==
  ASSUME FmlInv
  PROVE  OccurrencesRead
<1> SUFFICES ASSUME ~ spoiled, NEW f \in Field, NEW n \in Foccur32(f)
             PROVE  /\ n >= Cardinality({j \in Reached : At(Walk[0][j]).of = f})
                    /\ Uniform => \A oc \in 0 .. n : Fget32(f, oc).ret = "OK" <=> oc < n
  BY Zenon DEF OccurrencesRead
<1>1. PICK L, s : Represents(L, s)
  BY DEF FmlInv
<1>2. BufferOK
  BY DEF FmlInv
<1>a. n >= Cardinality({j \in Reached : At(Walk[0][j]).of = f})
  BY <1>1, <1>2, CountsReached
<1>b. SUFFICES ASSUME Uniform, NEW oc \in 0 .. n
               PROVE  Fget32(f, oc).ret = "OK" <=> oc < n
  BY <1>a
<1>3. Len(L) \in Nat
  BY <1>1, LenProperties DEF Represents, FieldList
<1> DEFINE H == {j \in 1 .. Len(L) : L[j].id = f}
<1>4. n = Cardinality(H)
  BY <1>1, <1>2, <1>b, CountIs
<1>5. H \in SUBSET (1 .. Len(L))
  OBVIOUS
<1>6. \A j \in H : {m \in H : m < j} = Before(L, f, j)
  <2>1. TAKE j \in H
  <2>2. j \in 1 .. Len(L)
    OBVIOUS
  <2>3. \A m : m \in 1 .. j - 1 <=> m \in 1 .. Len(L) /\ m < j
    BY <1>3, <2>2
  <2>4. QED BY <2>3, Zenon DEF Before
<1>7. oc \in Nat
  OBVIOUS
<1>8. \A j : OccurrenceAt(L, f, oc, j) <=> j \in H /\ Cardinality(Before(L, f, j)) = oc
  BY Zenon DEF OccurrenceAt
<1> HIDE DEF H
<1>9. (\E j \in H : Cardinality({m \in H : m < j}) = oc) <=> oc < Cardinality(H)
  BY <1>3, <1>5, <1>7, OneOfEachRank
<1>10. (\E j : OccurrenceAt(L, f, oc, j)) <=> oc < n
  BY <1>4, <1>6, <1>8, <1>9, Zenon
<1>11. PlaceOf(f, oc) # -1 <=> oc < n
  BY <1>1, <1>2, <1>10, PlaceFound
<1>12. Fget32(f, oc).ret = "OK" <=> PlaceOf(f, oc) # -1
  <2>1. "FNOTPRES" # "OK"
    OBVIOUS
  <2>2. QED BY <2>1 DEF Fget32
<1>13. QED BY <1>11, <1>12

-----------------------------------------------------------------------------
(* The steps *)

\* A layout is made of cells if its text fits in a body.
LEMMA LayoutCells ==
  ASSUME NEW f \in Field, NEW v \in ValuesOf(f), Width(f, v) <= BodySize
  PROVE  \A i \in 1 .. Width(f, v) : Layout(f, v)[i] \in Cell
<1>1. Id(f) \in Cell /\ Byte("half") \in Cell
  BY DEF Id, Byte, Cell
<1>2. \A u \in Value : \A k \in DOMAIN u : Byte(u[k]) \in Cell
  <2>1. TAKE u \in Value
  <2>2. TAKE k \in DOMAIN u
  <2>3. u[k] \in UNION {{x[e] : e \in DOMAIN x} : x \in Value}
    <3>1. u[k] \in {u[e] : e \in DOMAIN u}
      OBVIOUS
    <3>2. {u[e] : e \in DOMAIN u} \in {{x[e] : e \in DOMAIN x} : x \in Value}
      OBVIOUS
    <3>3. QED BY <3>1, <3>2, Zenon
  <2>4. QED BY <2>3 DEF Byte, Cell
<1>3. v \in Value
  BY DEF ValuesOf, Value
<1>4. CASE TypeOf[f] = "string"
  <2>1. v \in Text
    BY <1>4 DEF ValuesOf
  <2>2. TextLayout(f, v)
    BY <1>4, <2>1, TextLaidOut
  <2>3. Len(v) \in Nat /\ DOMAIN v = 1 .. Len(v)
    <3>1. v \in Seq({v[k] : k \in DOMAIN v})
      BY <2>1, FmlAssumption
    <3>2. QED BY <3>1, LenProperties
  <2>4. Len(v) \in 0 .. BodySize
    <3>1. 2 + Len(v) <= BodySize /\ BodySize \in Nat
      BY <2>2, FmlAssumption DEF TextLayout
    <3>2. QED BY <2>3, <3>1
  <2>5. TextLength(Len(v)) \in Cell
    BY <2>4 DEF TextLength, Cell
  <2>6. \A i \in 3 .. Len(v) + 2 : Layout(f, v)[i] \in Cell
    <3>1. TAKE i \in 3 .. Len(v) + 2
    <3>2. i - 2 \in DOMAIN v
      BY <2>3
    <3>3. Byte(v[i - 2]) \in Cell
      BY <1>2, <1>3, <3>2, Zenon
    <3>4. QED BY <2>2, <3>3, Zenon DEF TextLayout
  <2>7. TAKE i \in 1 .. Width(f, v)
  <2>8. i = 1 \/ i = 2 \/ i \in 3 .. Len(v) + 2
    <3>1. Width(f, v) = 2 + Len(v)
      BY <2>2 DEF TextLayout
    <3>2. QED BY <2>3, <3>1
  <2>9. Layout(f, v)[1] \in Cell /\ Layout(f, v)[2] \in Cell
    BY <1>1, <2>2, <2>5, Zenon DEF TextLayout
  <2>10. QED BY <2>6, <2>8, <2>9, Zenon
<1>5. CASE TypeOf[f] # "string"
  <2>1. v \in Small
    BY <1>5 DEF ValuesOf
  <2>2. v = <<v[1]>>
    BY <2>1, FmlAssumption
  <2>3. 1 \in DOMAIN v
    <3>1. 1 \in DOMAIN <<v[1]>>
      OBVIOUS
    <3>2. QED BY <2>2, <3>1, Zenon
  <2>4. Byte(v[1]) \in Cell
    BY <1>2, <1>3, <2>3, Zenon
  <2>5. CASE TypeOf[f] = "short"
    <3>1. ShortLayout(f, v)
      BY <2>5, ShortLaidOut
    <3>2. \A i \in 1 .. 2 : i = 1 \/ i = 2
      OBVIOUS
    <3>3. QED BY <1>1, <2>4, <3>1, <3>2, Zenon DEF ShortLayout
  <2>6. CASE TypeOf[f] = "long"
    <3>1. LongLayout(f, v)
      BY <2>6, LongLaidOut
    <3>2. \A i \in 1 .. 3 : i = 1 \/ i = 2 \/ i = 3
      OBVIOUS
    <3>3. QED BY <1>1, <2>4, <3>1, <3>2, Zenon DEF LongLayout
  <2>7. QED BY <1>5, <2>5, <2>6, TypeKnown
<1>6. QED BY <1>4, <1>5

\* A layout has its width's many cells.
LEMMA LayoutDomain ==
  ASSUME NEW f \in Field, NEW v \in ValuesOf(f)
  PROVE  DOMAIN Layout(f, v) = 1 .. Width(f, v)
<1>1. CASE TypeOf[f] = "short"
  <2>1. Layout(f, v) = <<Id(f), Byte(v[1])>>
    BY <1>1 DEF Layout
  <2>2. DOMAIN Layout(f, v) = 1 .. 2 /\ Len(Layout(f, v)) = 2
    BY <2>1
  <2>3. QED BY <2>2, Zenon DEF Width
<1>2. CASE TypeOf[f] = "long"
  <2>0. "long" # "short"
    OBVIOUS
  <2>1. Layout(f, v) = <<Id(f), Byte("half"), Byte(v[1])>>
    BY <1>2, <2>0 DEF Layout
  <2>2. DOMAIN Layout(f, v) = 1 .. 3 /\ Len(Layout(f, v)) = 3
    BY <2>1
  <2>3. QED BY <2>2, Zenon DEF Width
<1>3. CASE TypeOf[f] = "string"
  <2>0. "string" # "short" /\ "string" # "long" /\ v \in Text
    BY <1>3 DEF ValuesOf
  <2>1. Layout(f, v) = <<Id(f), TextLength(Len(v))>> \o [k \in 1 .. Len(v) |-> Byte(v[k])]
    BY <1>3, <2>0 DEF Layout
  <2>2. Len(v) \in Nat
    BY <2>0, TextIsSequence
  <2> DEFINE t == [k \in 1 .. Len(v) |-> Byte(v[k])]
  <2> DEFINE S == {Id(f), TextLength(Len(v))} \cup {Byte(v[k]) : k \in 1 .. Len(v)}
  <2>3. t \in Seq(S)
    BY <2>2
  <2>4. <<Id(f), TextLength(Len(v))>> \in Seq(S)
    OBVIOUS
  <2> HIDE DEF t, S
  <2>5. <<Id(f), TextLength(Len(v))>> \o t \in Seq(S)
    BY <2>3, <2>4, ConcatProperties
  <2>6. Layout(f, v) \in Seq(S)
    BY <2>1, <2>5 DEF t
  <2>7. QED BY <2>6, LenProperties DEF Width
<1>4. QED BY <1>1, <1>2, <1>3, TypeKnown

\* What a write of a field at k does to the cells.
LEMMA WriteDoes ==
  ASSUME BufferOK, NEW f \in Field, NEW v \in ValuesOf(f), NEW k \in Nat, k + Width(f, v) <= size,
         cells' = Write(k, Layout(f, v))
  PROVE  /\ cells' \in [0 .. BodySize - 1 -> Cell]
         /\ ReadsAs(k, f, v)'
         /\ \A j \in Nat : j < k \/ j >= k + Width(f, v) => At(j)' = At(j)
<1>1. /\ BodySize \in Nat /\ size \in Nat /\ size <= BodySize
      /\ cells \in [0 .. BodySize - 1 -> Cell]
  BY FmlAssumption DEF BufferOK
<1>2. Width(f, v) \in Nat /\ Width(f, v) >= 2
  BY WidthPositive
<1>3. DOMAIN Layout(f, v) = 1 .. Width(f, v)
  BY LayoutDomain
<1>4. \A i \in 1 .. Width(f, v) : Layout(f, v)[i] \in Cell
  BY <1>1, <1>2, LayoutCells
<1> DEFINE W == Width(f, v)
<1> DEFINE Y == Layout(f, v)
<1>5. cells' = [j \in 0 .. BodySize - 1 |-> IF j - k + 1 \in 1 .. W THEN Y[j - k + 1] ELSE cells[j]]
  BY <1>1, <1>3 DEF Write
<1>6. W \in Nat /\ k + W <= size /\ \A i \in 1 .. W : Y[i] \in Cell
  BY <1>2, <1>4
<1>7. ReadsAs(k, f, v)' <=> \A i \in 1 .. W : At(k + i - 1)' = Y[i]
  BY DEF ReadsAs, Width, Layout, Byte, Id, TextLength
<1> HIDE DEF W, Y
<1>8. cells' \in [0 .. BodySize - 1 -> Cell]
  BY <1>1, <1>5, <1>6
<1>9. \A i \in 1 .. W : At(k + i - 1)' = Y[i]
  <2>1. TAKE i \in 1 .. W
  <2>2. PICK p : p = k + i - 1
    OBVIOUS
  <2>3. p \in 0 .. BodySize - 1 /\ p - k + 1 = i
    BY <1>1, <1>6, <2>2
  <2>4. cells'[p] = Y[i]
    BY <1>5, <2>3
  <2>5. At(p)' = cells'[p]
    BY <1>8, <2>3 DEF At
  <2>6. QED BY <2>2, <2>4, <2>5
<1>10. \A j \in Nat : j < k \/ j >= k + W => At(j)' = At(j)
  <2>1. SUFFICES ASSUME NEW j \in Nat, j < k \/ j >= k + W PROVE At(j)' = At(j)
    OBVIOUS
  <2>2. j - k + 1 \notin 1 .. W
    BY <1>6, <2>1
  <2>3. DOMAIN cells = 0 .. BodySize - 1 /\ DOMAIN cells' = 0 .. BodySize - 1
    BY <1>1, <1>5
  <2>4. CASE j \in 0 .. BodySize - 1
    <3>1. cells'[j] = cells[j]
      BY <1>5, <2>2, <2>4
    <3>2. QED BY <2>3, <2>4, <3>1 DEF At
  <2>5. CASE j \notin 0 .. BodySize - 1
    BY <2>3, <2>5 DEF At, Byte
  <2>6. QED BY <2>4, <2>5
<1>11. QED BY <1>7, <1>8, <1>9, <1>10 DEF W

\* The cells of a field of the list.
LEMMA FieldCells ==
  ASSUME BufferOK, NEW L, NEW s, Represents(L, s), NEW j \in 1 .. Len(L),
         NEW i \in 1 .. Width(L[j].id, L[j].value)
  PROVE  s[j - 1] + i - 1 \in s[j - 1] .. s[j] - 1 /\ s[j - 1] + i - 1 \in 0 .. offset - 1
         /\ s[j - 1] + i - 1 \in Nat
<1>1. PICK a, b, w : a = s[j - 1] /\ b = s[j] /\ w = Width(L[j].id, L[j].value)
  OBVIOUS
<1>2. a \in Nat /\ b \in Nat /\ a < b /\ b <= offset
  BY <1>1, FieldRead
<1>3. b = a + w
  BY <1>1 DEF Represents, Starts
<1>4. w \in Nat
  <2>1. L[j].id \in Field /\ L[j].value \in ValuesOf(L[j].id)
    BY FieldAt DEF Represents
  <2>2. QED BY <1>1, <2>1, WidthPositive
<1>5. i \in 1 .. w /\ offset \in Nat
  BY <1>1 DEF BufferOK
<1>6. a + i - 1 \in a .. b - 1 /\ a + i - 1 \in 0 .. offset - 1 /\ a + i - 1 \in Nat
  BY <1>2, <1>3, <1>4, <1>5
<1>7. QED BY <1>1, <1>6

\* A field stays what it is if its cells do.
LEMMA FieldStays ==
  ASSUME NEW k, NEW f, NEW v, ReadsAs(k, f, v), \A i \in 1 .. Width(f, v) : At(k + i - 1)' = At(k + i - 1)
  PROVE  ReadsAs(k, f, v)'
<1>1. ReadsAs(k, f, v)' <=> \A i \in 1 .. Width(f, v) : At(k + i - 1)' = Layout(f, v)[i]
  BY DEF ReadsAs, Width, Layout, Byte, Id, TextLength
<1>2. \A i \in 1 .. Width(f, v) : At(k + i - 1) = Layout(f, v)[i]
  BY DEF ReadsAs
<1> HIDE DEF ReadsAs
<1>3. QED BY <1>1, <1>2, Zenon

\* Fields stay where they are if no cell before the offset changes.
LEMMA StillWritten ==
  ASSUME BufferOK, NEW L, NEW s, Represents(L, s), \A k \in 0 .. offset - 1 : At(k)' = At(k)
  PROVE  Written(L, s)'
<1>1. SUFFICES ASSUME NEW j \in 1 .. Len(L)
               PROVE  ReadsAs(s[j - 1], L[j].id, L[j].value)'
  BY Zenon DEF Written
<1>2. ReadsAs(s[j - 1], L[j].id, L[j].value)
  BY DEF Represents, Written
<1>3. \A i \in 1 .. Width(L[j].id, L[j].value) : At(s[j - 1] + i - 1)' = At(s[j - 1] + i - 1)
  BY FieldCells, Zenon
<1>4. QED BY <1>2, <1>3, FieldStays

\* And the offset with them: then the buffer holds the same list.
LEMMA SameFields ==
  ASSUME BufferOK, NEW L, NEW s, Represents(L, s), \A k \in 0 .. offset - 1 : At(k)' = At(k), offset' = offset
  PROVE  Represents(L, s)'
<1>1. Written(L, s)'
  BY StillWritten
<1>2. Starts(L, s)'
  <2>1. Starts(L, s)
    BY DEF Represents
  <2>2. QED BY <2>1 DEF Starts, Width, Layout, Byte, Id, TextLength
<1>3. L \in FieldList
  BY DEF Represents
<1>4. (L \in FieldList)'
  BY <1>3 DEF FieldList, Value, ValuesOf
<1>5. QED BY <1>1, <1>2, <1>4 DEF Represents

\* Fadd32 with room puts the field behind the last one.
LEMMA Added ==
  ASSUME BufferOK, NEW L, NEW s, Represents(L, s), NEW f \in Field, NEW v \in ValuesOf(f),
         Fadd32(f, v), Room(f, v), NEW M, M = Append(L, [id |-> f, value |-> v])
  PROVE  BufferOK' /\ \E s2 : Represents(M, s2)'
<1> DEFINE r == [id |-> f, value |-> v]
<1>0. PICK o : o = offset
  OBVIOUS
<1>1. /\ cells' = Write(offset, Layout(f, v)) /\ size' = size
      /\ offset' = offset + Width(f, v)
  BY DEF Fadd32, Width
<1>2. Width(f, v) \in Nat
  BY WidthPositive
<1>3. offset \in Nat /\ size \in 0 .. BodySize /\ offset + Width(f, v) <= size
  BY DEF BufferOK, Room, Width
<1>4. /\ cells' \in [0 .. BodySize - 1 -> Cell]
      /\ ReadsAs(o, f, v)'
      /\ \A j \in Nat : j < offset \/ j >= offset + Width(f, v) => At(j)' = At(j)
  BY <1>0, <1>1, <1>3, WriteDoes
<1>5. BufferOK'
  <2>1. size \in Nat /\ offset + Width(f, v) \in 0 .. size
    BY <1>2, <1>3, FmlAssumption
  <2>2. (Cell = Cell)'
    OBVIOUS
  <2>3. QED BY <1>1, <1>3, <1>4, <2>1 DEF BufferOK, Cell, Value
<1>6. L \in Seq([id : Field, value : Value]) /\ Len(L) \in Nat /\ r \in [id : Field, value : Value]
  <2>1. L \in Seq([id : Field, value : Value])
    BY DEF Represents, FieldList
  <2>2. v \in Value
    BY DEF ValuesOf, Value
  <2>3. QED BY <2>1, <2>2, LenProperties
<1>7. /\ M \in Seq([id : Field, value : Value]) /\ Len(M) = Len(L) + 1
      /\ \A j \in 1 .. Len(L) : M[j] = L[j]
      /\ M[Len(L) + 1] = r
  BY <1>6, AppendProperties
<1>8. PICK n : n = Len(L)
  OBVIOUS
<1>9. n \in Nat /\ Len(M) = n + 1 /\ M[n + 1] = r /\ \A j \in 1 .. n + 1 : j \in 1 .. n \/ j = n + 1
  BY <1>6, <1>7, <1>8
<1>10. M \in FieldList
  <2>1. \A j \in 1 .. n + 1 : M[j].value \in ValuesOf(M[j].id)
    <3>1. \A j \in 1 .. n : L[j].value \in ValuesOf(L[j].id)
      BY <1>8 DEF Represents, FieldList
    <3>2. r.value \in ValuesOf(r.id)
      OBVIOUS
    <3> HIDE DEF r
    <3>3. QED BY <1>7, <1>8, <1>9, <3>1, <3>2, Zenon
  <2>2. QED BY <1>7, <1>9, <2>1, Zenon DEF FieldList
<1> DEFINE s3 == [j \in 0 .. n + 1 |-> IF j \in 0 .. n THEN s[j] ELSE offset + Width(f, v)]
<1>11. /\ s \in [0 .. n -> Nat] /\ s[0] = 0 /\ s[n] = offset
       /\ \A j \in 1 .. n : s[j] = s[j - 1] + Width(L[j].id, L[j].value)
       /\ \A a \in 0 .. n : \A b \in a .. n : s[a] <= s[b]
  BY <1>8 DEF Represents, Starts
<1>12. /\ \A j \in 0 .. n : s3[j] = s[j]
       /\ s3[n + 1] = offset + Width(f, v)
       /\ s3 \in [0 .. n + 1 -> Nat]
  <2>1. n + 1 \in 0 .. n + 1 /\ n + 1 \notin 0 .. n /\ \A j \in 0 .. n : j \in 0 .. n + 1
    BY <1>9
  <2>2. offset + Width(f, v) \in Nat
    BY <1>2, <1>3
  <2>3. QED BY <1>11, <2>1, <2>2
<1> HIDE DEF s3
<1>13. PICK s2 : s2 = s3
  OBVIOUS
<1>14. /\ \A j \in 0 .. n : s2[j] = s[j]
       /\ s2[n + 1] = offset + Width(f, v)
       /\ s2 \in [0 .. n + 1 -> Nat]
  BY <1>12, <1>13, Zenon
<1>15. s2[0] = 0
  BY <1>9, <1>11, <1>14
<1>16. \A j \in 1 .. n + 1 : s2[j] = s2[j - 1] + Width(M[j].id, M[j].value)
  <2>1. TAKE j \in 1 .. n + 1
  <2>2. CASE j \in 1 .. n
    <3>1. j \in 0 .. n /\ j - 1 \in 0 .. n
      BY <1>9, <2>2
    <3>2. M[j] = L[j]
      BY <1>7, <1>8, <2>2
    <3>3. QED BY <1>11, <1>14, <2>2, <3>1, <3>2, Zenon
  <2>3. CASE j = n + 1
    <3>1. j - 1 = n /\ n \in 0 .. n
      BY <1>9, <2>3
    <3>2. M[j].id = f /\ M[j].value = v
      BY <1>9, <2>3
    <3>3. QED BY <1>11, <1>14, <2>3, <3>1, <3>2, Zenon
  <2>4. QED BY <1>9, <2>2, <2>3
<1>17. \A a \in 0 .. n + 1 : \A b \in a .. n + 1 : s2[a] <= s2[b]
  <2>1. TAKE a \in 0 .. n + 1
  <2>2. TAKE b \in a .. n + 1
  <2>3. CASE b \in 0 .. n
    <3>1. a \in 0 .. n /\ b \in a .. n
      BY <1>9, <2>3
    <3>2. QED BY <1>11, <1>14, <2>3, <3>1
  <2>4. CASE b = n + 1
    <3>1. CASE a = n + 1
      BY <1>2, <1>3, <1>14, <2>4, <3>1
    <3>2. CASE a # n + 1
      <4>1. a \in 0 .. n /\ n \in a .. n
        BY <1>9, <3>2
      <4>2. s[a] <= offset /\ s[a] \in Nat
        BY <1>11, <4>1
      <4>3. QED BY <1>2, <1>3, <1>14, <2>4, <4>1, <4>2
    <3>3. QED BY <3>1, <3>2
  <2>5. QED BY <1>9, <2>3, <2>4
<1>18. Starts(M, s2)'
  <2>1. s2[n + 1] = offset'
    BY <1>1, <1>14
  <2>2. Starts(M, s2)' <=> /\ s2 \in [0 .. Len(M) -> Nat] /\ s2[0] = 0 /\ s2[Len(M)] = offset'
                           /\ \A j \in 1 .. Len(M) : s2[j] = s2[j - 1] + Width(M[j].id, M[j].value)
                           /\ \A a \in 0 .. Len(M) : \A b \in a .. Len(M) : s2[a] <= s2[b]
    BY DEF Starts, Width, Layout, Byte, Id, TextLength
  <2>3. QED BY <1>9, <1>14, <1>15, <1>16, <1>17, <2>1, <2>2
<1>19. Written(M, s2)'
  <2>1. Written(L, s)'
    <3>1. \A k \in 0 .. offset - 1 : At(k)' = At(k)
      <4>1. \A k \in 0 .. offset - 1 : k \in Nat /\ k < offset
        BY <1>3
      <4>2. QED BY <1>4, <4>1, Zenon
    <3>2. QED BY <3>1, StillWritten
  <2>2. SUFFICES ASSUME NEW j \in 1 .. n + 1
                 PROVE  ReadsAs(s2[j - 1], M[j].id, M[j].value)'
    BY <1>9, Zenon DEF Written
  <2>3. CASE j \in 1 .. n
    <3>1. ReadsAs(s[j - 1], L[j].id, L[j].value)'
      BY <1>8, <2>1, <2>3, Zenon DEF Written
    <3>2. M[j] = L[j] /\ s2[j - 1] = s[j - 1]
      <4>1. j - 1 \in 0 .. n
        BY <1>9, <2>3
      <4>2. QED BY <1>7, <1>8, <1>14, <2>3, <4>1
    <3>3. QED BY <3>1, <3>2
  <2>4. CASE j = n + 1
    <3>1. j - 1 = n /\ n \in 0 .. n
      BY <1>9, <2>4
    <3>2. M[j].id = f /\ M[j].value = v
      BY <1>9, <2>4
    <3>3. s2[j - 1] = o
      BY <1>0, <1>11, <1>14, <3>1
    <3>4. QED BY <1>4, <3>2, <3>3
  <2>5. QED BY <1>9, <2>3, <2>4
<1>20. Represents(M, s2)'
  <2>1. (M \in FieldList)'
    BY <1>10 DEF FieldList, Value, ValuesOf
  <2>2. QED BY <1>18, <1>19, <2>1 DEF Represents
<1>21. QED BY <1>5, <1>20

\* Numbers of the same field are equally wide.
LEMMA FixedWidth ==
  ASSUME NEW f \in Field, TypeOf[f] # "string", NEW u, NEW v
  PROVE  Width(f, u) = Width(f, v)
<1>1. CASE TypeOf[f] = "short"
  BY <1>1, ShortLaidOut DEF ShortLayout
<1>2. CASE TypeOf[f] = "long"
  BY <1>2, LongLaidOut DEF LongLayout
<1>3. QED BY <1>1, <1>2, TypeKnown

\* Fchg32 of a number writes over the field it found and over no other.
LEMMA Changed ==
  ASSUME BufferOK, NEW L, NEW s, Represents(L, s), NEW f \in Field, NEW v \in ValuesOf(f),
         TypeOf[f] # "string", NEW oc, NEW a, OccurrenceAt(L, f, oc, a), NEW M, M = [L EXCEPT ![a].value = v],
         cells' = Fixed(s[a - 1], f, v), size' = size, offset' = offset
  PROVE  BufferOK' /\ Represents(M, s)'
<1>1. a \in 1 .. Len(L) /\ L[a].id = f
  BY DEF OccurrenceAt
<1>2. L \in Seq([id : Field, value : Value]) /\ Len(L) \in Nat /\ DOMAIN L = 1 .. Len(L)
  <2>1. L \in Seq([id : Field, value : Value])
    BY DEF Represents, FieldList
  <2>2. QED BY <2>1, LenProperties
<1>3. Width(f, v) = Width(f, L[a].value) /\ Width(f, v) \in Nat
  BY FixedWidth, WidthPositive
<1>4. PICK k, e : k = s[a - 1] /\ e = s[a]
  OBVIOUS
<1>5. k \in Nat /\ e \in Nat /\ e = k + Width(f, v) /\ e <= offset
  <2>1. s[a - 1] \in Nat /\ s[a] \in Nat /\ s[a] <= offset
    BY <1>1, FieldRead
  <2>2. s[a] = s[a - 1] + Width(L[a].id, L[a].value)
    BY <1>1 DEF Represents, Starts
  <2>3. QED BY <1>1, <1>3, <1>4, <2>1, <2>2
<1>6. k + Width(f, v) <= size
  <2>1. offset <= size /\ size \in Nat /\ offset \in Nat
    BY FmlAssumption DEF BufferOK
  <2>2. QED BY <1>5, <2>1
<1>7. /\ cells' \in [0 .. BodySize - 1 -> Cell]
      /\ ReadsAs(k, f, v)'
      /\ \A j \in Nat : j < k \/ j >= k + Width(f, v) => At(j)' = At(j)
  <2>1. cells' = Write(k, Layout(f, v))
    BY <1>4 DEF Fixed
  <2>2. QED BY <1>5, <1>6, <2>1, WriteDoes
<1>8. BufferOK'
  BY <1>7 DEF BufferOK, Cell, Value
<1>9. v \in Value
  BY DEF ValuesOf, Value
<1>10. /\ Len(M) = Len(L) /\ DOMAIN M = 1 .. Len(L) /\ M \in Seq([id : Field, value : Value])
       /\ \A j \in 1 .. Len(L) : j # a => M[j] = L[j]
       /\ M[a].id = f /\ M[a].value = v
  <2>1. PICK r : r = [L[a] EXCEPT !.value = v]
    OBVIOUS
  <2>2. L[a] \in [id : Field, value : Value]
    BY <1>1, <1>2, ElementOfSeq
  <2>3. r.id = f /\ r.value = v /\ r \in [id : Field, value : Value]
    BY <1>1, <1>9, <2>1, <2>2
  <2>4. M = [L EXCEPT ![a] = r]
    BY <2>1
  <2>5. M \in Seq([id : Field, value : Value]) /\ Len(M) = Len(L)
    <3>1. M = [j \in 1 .. Len(L) |-> IF j = a THEN r ELSE L[j]]
      BY <1>2, <2>4
    <3>2. \A j \in 1 .. Len(L) : M[j] \in [id : Field, value : Value]
      <4>1. \A j \in 1 .. Len(L) : L[j] \in [id : Field, value : Value]
        BY <1>2, ElementOfSeq
      <4>2. QED BY <2>3, <3>1, <4>1
    <3>3. M \in [1 .. Len(L) -> [id : Field, value : Value]]
      BY <3>1, <3>2
    <3>4. QED BY <1>2, <3>3
  <2>6. M[a] = r /\ \A j \in 1 .. Len(L) : j # a => M[j] = L[j]
    BY <1>1, <1>2, <2>4
  <2>7. DOMAIN M = 1 .. Len(L)
    BY <1>2, <2>4
  <2>8. QED BY <2>3, <2>5, <2>6, <2>7
<1>11. M \in FieldList
  <2>1. \A j \in 1 .. Len(L) : L[j].value \in ValuesOf(L[j].id)
    BY DEF Represents, FieldList
  <2>2. \A j \in 1 .. Len(M) : M[j].value \in ValuesOf(M[j].id)
    BY <1>10, <2>1
  <2>3. QED BY <1>10, <2>2, Zenon DEF FieldList
<1>12. \A j \in 1 .. Len(L) : Width(M[j].id, M[j].value) = Width(L[j].id, L[j].value)
  BY <1>1, <1>3, <1>10
<1>13. Starts(M, s)'
  <2>1. Starts(M, s)' <=> /\ s \in [0 .. Len(M) -> Nat] /\ s[0] = 0 /\ s[Len(M)] = offset'
                          /\ \A j \in 1 .. Len(M) : s[j] = s[j - 1] + Width(M[j].id, M[j].value)
                          /\ \A b \in 0 .. Len(M) : \A c \in b .. Len(M) : s[b] <= s[c]
    BY DEF Starts, Width, Layout, Byte, Id, TextLength
  <2>2. /\ s \in [0 .. Len(L) -> Nat] /\ s[0] = 0 /\ s[Len(L)] = offset
        /\ \A j \in 1 .. Len(L) : s[j] = s[j - 1] + Width(L[j].id, L[j].value)
        /\ \A b \in 0 .. Len(L) : \A c \in b .. Len(L) : s[b] <= s[c]
    BY DEF Represents, Starts
  <2>3. QED BY <1>10, <1>12, <2>1, <2>2
<1>14. ASSUME NEW j \in 1 .. Len(L), j # a
       PROVE  ReadsAs(s[j - 1], M[j].id, M[j].value)'
  <2>1. M[j] = L[j]
    BY <1>10, <1>14
  <2>2. ReadsAs(s[j - 1], L[j].id, L[j].value)
    BY DEF Represents, Written
  <2>3. ASSUME NEW i \in 1 .. Width(L[j].id, L[j].value)
        PROVE  At(s[j - 1] + i - 1)' = At(s[j - 1] + i - 1)
    <3>1. PICK p : p = s[j - 1] + i - 1
      OBVIOUS
    <3>2. p \in s[j - 1] .. s[j] - 1 /\ p \in Nat
      BY <3>1, FieldCells
    <3>3. s[j - 1] \in Nat /\ s[j] \in Nat
      BY FieldRead
    <3>4. CASE j < a
      <4>1. j \in 0 .. Len(L) /\ a - 1 \in j .. Len(L)
        BY <1>1, <1>2, <3>4
      <4>2. s[j] <= k
        BY <1>4, <4>1 DEF Represents, Starts
      <4>3. p < k
        BY <1>5, <3>2, <3>3, <4>2
      <4>4. At(p)' = At(p)
        BY <1>7, <3>2, <4>3
      <4>5. QED BY <3>1, <4>4
    <3>5. CASE j > a
      <4>1. a \in 0 .. Len(L) /\ j - 1 \in a .. Len(L)
        BY <1>1, <1>2, <3>5
      <4>2. e <= s[j - 1]
        BY <1>4, <4>1 DEF Represents, Starts
      <4>3. p >= k + Width(f, v)
        BY <1>5, <3>2, <3>3, <4>2
      <4>4. At(p)' = At(p)
        BY <1>7, <3>2, <4>3
      <4>5. QED BY <3>1, <4>4
    <3>6. j < a \/ j > a
      BY <1>1, <1>14
    <3>7. QED BY <3>4, <3>5, <3>6
  <2>4. ReadsAs(s[j - 1], L[j].id, L[j].value)'
    BY <2>2, <2>3, FieldStays
  <2>5. QED BY <2>1, <2>4
<1>15. Written(M, s)'
  <2>1. ReadsAs(s[a - 1], M[a].id, M[a].value)'
    BY <1>4, <1>7, <1>10
  <2>2. \A j \in 1 .. Len(M) : ReadsAs(s[j - 1], M[j].id, M[j].value)'
    BY <1>10, <1>14, <2>1
  <2>3. QED BY <2>2, Zenon DEF Written
<1>16. (M \in FieldList)'
  BY <1>11 DEF FieldList, Value, ValuesOf
<1>17. QED BY <1>8, <1>13, <1>15, <1>16 DEF Represents

\* The rest moved over a field, and the length of the field taken off: the field is gone.
LEMMA Deleted ==
  ASSUME BufferOK, NEW L, NEW s, Represents(L, s), NEW a \in 1 .. Len(L),
         cells' = Move(s[a - 1], s[a], offset - s[a]), size' = size, offset' = offset - (s[a] - s[a - 1]),
         NEW M, M = SubSeq(L, 1, a - 1) \o SubSeq(L, a + 1, Len(L))
  PROVE  BufferOK' /\ \E s2 : Represents(M, s2)'
<1> DEFINE FieldEntry == [id : Field, value : Value]
<1>1. L \in Seq(FieldEntry) /\ Len(L) \in Nat /\ \A j \in 1 .. Len(L) : L[j] \in FieldEntry /\ L[j].value \in ValuesOf(L[j].id)
  <2>1. L \in Seq(FieldEntry) /\ \A j \in 1 .. Len(L) : L[j].value \in ValuesOf(L[j].id)
    BY DEF Represents, FieldList
  <2>2. QED BY <2>1, LenProperties, ElementOfSeq
<1>2. PICK n \in Nat, k \in Nat, e \in Nat, o \in Nat, w \in Nat :
        n = Len(L) - 1 /\ k = s[a - 1] /\ e = s[a] /\ o = offset /\ w = e - k /\ k < e /\ e <= o
  <2>1. s[a - 1] \in Nat /\ s[a] \in Nat /\ s[a - 1] < s[a] /\ s[a] <= offset /\ offset \in Nat
    BY FieldRead DEF BufferOK
  <2>2. Len(L) - 1 \in Nat
    BY <1>1
  <2>3. PICK x, y : x = s[a - 1] /\ y = s[a]
    OBVIOUS
  <2>4. y - x \in Nat
    BY <2>1, <2>3
  <2>5. QED BY <2>1, <2>2, <2>3, <2>4
<1>a. w = e - k /\ k < e /\ e <= o
  BY <1>2, Zenon
<1>b. e - w = k /\ k + (o - e) - 1 = (o - w) - 1
  BY <1>a
<1>3. /\ Len(L) = n + 1 /\ a \in 1 .. n + 1
      /\ o = offset /\ size \in 0 .. BodySize /\ o <= size /\ BodySize \in Nat
      /\ cells \in [0 .. BodySize - 1 -> Cell]
  <2>1. Len(L) = n + 1 /\ a \in 1 .. n + 1
    BY <1>1, <1>2
  <2>2. QED BY <1>2, <2>1, FmlAssumption DEF BufferOK
<1>c. size \in Nat /\ o <= size /\ size <= BodySize /\ BodySize \in Nat
  <2>1. size \in 0 .. BodySize /\ o <= size /\ BodySize \in Nat
    BY <1>3, Zenon
  <2>2. QED BY <2>1
<1>4. /\ M \in Seq(FieldEntry) /\ Len(M) = n
      /\ \A j \in 1 .. n : M[j] = IF j < a THEN L[j] ELSE L[j + 1]
  <2> HIDE DEF FieldEntry
  <2>1. PICK front, back : front = SubSeq(L, 1, a - 1) /\ back = SubSeq(L, a + 1, n + 1)
    OBVIOUS
  <2>2. front \in Seq(FieldEntry) /\ Len(front) = a - 1 /\ \A j \in 1 .. a - 1 : front[j] = L[j]
    BY <1>1, <1>3, <2>1, SubSeqProperties
  <2>3. /\ back \in Seq(FieldEntry) /\ Len(back) = n + 1 - a
        /\ \A j \in 1 .. n + 1 - a : back[j] = L[a + j]
    <3>1. back \in Seq(FieldEntry)
      BY <1>1, <1>3, <2>1, SubSeqProperties
    <3>2. Len(back) = n + 1 - a /\ \A j \in 1 .. n + 1 - a : back[j] = L[a + 1 + j - 1] /\ a + 1 + j - 1 = a + j
      BY <1>1, <1>3, <2>1, SubSeqProperties
    <3>3. QED BY <3>1, <3>2
  <2>4. M = front \o back
    BY <1>3, <2>1
  <2>5. /\ M \in Seq(FieldEntry) /\ Len(M) = Len(front) + Len(back)
        /\ \A j \in 1 .. Len(front) + Len(back) : M[j] = IF j <= Len(front) THEN front[j] ELSE back[j - Len(front)]
    <3>1. front \in Seq(FieldEntry) /\ back \in Seq(FieldEntry)
      BY <2>2, <2>3
    <3>2. /\ front \o back \in Seq(FieldEntry) /\ Len(front \o back) = Len(front) + Len(back)
          /\ \A j \in 1 .. Len(front) + Len(back) :
                (front \o back)[j] = IF j <= Len(front) THEN front[j] ELSE back[j - Len(front)]
      BY <3>1, ConcatProperties
    <3>3. QED BY <2>4, <3>2, Zenon
  <2>6. ASSUME NEW j \in 1 .. n
        PROVE  M[j] = IF j < a THEN L[j] ELSE L[j + 1]
    <3>1. CASE j < a
      <4>1. j \in 1 .. a - 1 /\ j <= Len(front) /\ j \in 1 .. Len(front) + Len(back)
        BY <1>3, <2>2, <2>3, <3>1
      <4>2. QED BY <2>2, <2>5, <3>1, <4>1
    <3>2. CASE ~ (j < a)
      <4>1. j - (a - 1) \in 1 .. n + 1 - a /\ ~ (j <= Len(front)) /\ j \in 1 .. Len(front) + Len(back)
            /\ a + (j - (a - 1)) = j + 1
        BY <1>3, <2>2, <2>3, <3>2
      <4>2. M[j] = back[j - (a - 1)]
        BY <2>2, <2>5, <4>1, Zenon
      <4>3. back[j - (a - 1)] = L[j + 1]
        BY <2>3, <4>1, Zenon
      <4>4. QED BY <3>2, <4>2, <4>3
    <3>3. QED BY <3>1, <3>2
  <2>7. Len(M) = n
    BY <1>3, <2>2, <2>3, <2>5
  <2>8. QED BY <2>5, <2>6, <2>7
<1>5. M \in FieldList
  <2>1. ASSUME NEW j \in 1 .. Len(M)
        PROVE  M[j].value \in ValuesOf(M[j].id)
    <3>1. j \in 1 .. n /\ j \in 1 .. Len(L) /\ j + 1 \in 1 .. Len(L)
      BY <1>3, <1>4
    <3>2. M[j] = L[j] \/ M[j] = L[j + 1]
      BY <1>4, <3>1
    <3>3. QED BY <1>1, <3>1, <3>2
  <2>2. QED BY <1>4, <2>1 DEF FieldList
<1>6. /\ s \in [0 .. n + 1 -> Nat] /\ s[0] = 0 /\ s[n + 1] = o
      /\ \A j \in 1 .. n + 1 : s[j] = s[j - 1] + Width(L[j].id, L[j].value)
      /\ \A x \in 0 .. n + 1 : \A y \in x .. n + 1 : s[x] <= s[y]
  BY <1>3 DEF Represents, Starts
<1> DEFINE s2 == [j \in 0 .. n |-> IF j < a THEN s[j] ELSE s[j + 1] - w]
<1>7. ASSUME NEW j \in 0 .. n
      PROVE  /\ s2[j] \in Nat /\ s2[j] = IF j < a THEN s[j] ELSE s[j + 1] - w
             /\ j < a => s[j] <= k
             /\ ~ (j < a) => s[j + 1] >= e
  <2>1. s2[j] = IF j < a THEN s[j] ELSE s[j + 1] - w
    OBVIOUS
  <2> HIDE DEF s2
  <2>2. j \in 0 .. n + 1 /\ j + 1 \in 0 .. n + 1 /\ a - 1 \in 0 .. n + 1 /\ a \in 0 .. n + 1
    BY <1>3
  <2>3. s[j] \in Nat /\ s[j + 1] \in Nat
    BY <1>6, <2>2
  <2>4. CASE j < a
    <3>1. a - 1 \in j .. n + 1
      BY <1>3, <2>4
    <3>2. s[j] <= k
      BY <1>2, <1>6, <2>2, <3>1
    <3>3. QED BY <2>1, <2>3, <2>4, <3>2
  <2>5. CASE ~ (j < a)
    <3>1. j + 1 \in a .. n + 1
      BY <1>3, <2>5
    <3>2. e <= s[j + 1]
      BY <1>2, <1>6, <2>2, <3>1
    <3>3. PICK x \in Nat : x = s[j + 1]
      BY <2>3
    <3>4. x - w \in Nat /\ x >= e
      <4>1. x >= e
        BY <3>2, <3>3
      <4>2. x - w \in Nat
        BY <1>a, <4>1
      <4>3. QED BY <4>1, <4>2
    <3>5. QED BY <2>1, <2>5, <3>3, <3>4
  <2>6. QED BY <2>4, <2>5
<1> HIDE DEF s2
<1>8. s2 \in [0 .. n -> Nat]
  BY <1>7 DEF s2
<1>9. s2[0] = 0
  <2>1. 0 \in 0 .. n /\ 0 < a
    BY <1>3
  <2>2. QED BY <1>6, <1>7, <2>1, Zenon
<1>10. ASSUME NEW j \in 1 .. n
       PROVE  /\ s2[j] = s2[j - 1] + Width(M[j].id, M[j].value)
              /\ s2[j - 1] = IF j < a THEN s[j - 1] ELSE s[j] - w
  <2>1. j \in 0 .. n /\ j - 1 \in 0 .. n /\ j \in 1 .. n + 1 /\ j + 1 \in 1 .. n + 1 /\ (j + 1) - 1 = j /\ (j - 1) + 1 = j
    OBVIOUS
  <2>2. CASE j < a
    <3>1. s2[j] = s[j] /\ s2[j - 1] = s[j - 1]
      <4>1. j - 1 < a
        BY <1>3, <2>1, <2>2
      <4>2. QED BY <1>7, <2>1, <2>2, <4>1
    <3>2. M[j] = L[j]
      BY <1>4, <2>2
    <3>3. QED BY <1>6, <2>1, <2>2, <3>1, <3>2
  <2>3. CASE ~ (j < a)
    <3>1. s2[j] = s[j + 1] - w
      BY <1>7, <2>1, <2>3
    <3>2. s2[j - 1] = s[j] - w
      <4>1. CASE j = a
        <5>1. s2[j - 1] = k /\ s[j] = e
          BY <1>2, <1>3, <1>7, <2>1, <4>1
        <5>2. QED BY <1>b, <5>1
      <4>2. CASE j # a
        <5>1. ~ (j - 1 < a)
          BY <1>3, <2>1, <2>3, <4>2
        <5>2. QED BY <1>7, <2>1, <5>1
      <4>3. QED BY <4>1, <4>2
    <3>3. M[j] = L[j + 1]
      BY <1>4, <2>3
    <3>4. PICK x \in Nat, y \in Nat, z \in Nat : x = s[j] /\ y = s[j + 1] /\ z = Width(M[j].id, M[j].value) /\ y = x + z
      <4>1. s[j + 1] = s[j] + Width(L[j + 1].id, L[j + 1].value)
        BY <1>6, <2>1
      <4>2. s[j] \in Nat /\ s[j + 1] \in Nat
        BY <1>6, <2>1
      <4>3. Width(M[j].id, M[j].value) \in Nat
        <5>1. M[j] \in FieldEntry /\ M[j].value \in ValuesOf(M[j].id)
          BY <1>1, <1>3, <2>1, <3>3
        <5>2. PICK f \in Field : f = M[j].id
          BY <5>1
        <5>3. PICK v \in ValuesOf(f) : v = M[j].value
          BY <5>1, <5>2
        <5>4. QED BY <5>2, <5>3, WidthPositive
      <4>4. QED BY <3>3, <4>1, <4>2, <4>3
    <3>5. y - w = (x - w) + z
      <4>1. y = x + z
        BY <3>4, Zenon
      <4>2. QED BY <4>1
    <3>6. QED BY <2>3, <3>1, <3>2, <3>4, <3>5
  <2>4. QED BY <2>2, <2>3
<1>11. \A x \in 0 .. n : \A y \in x .. n : s2[x] <= s2[y]
  <2> TAKE x \in 0 .. n
  <2> TAKE y \in x .. n
  <2>1. y \in 0 .. n /\ x \in 0 .. n + 1 /\ y \in 0 .. n + 1 /\ x + 1 \in 0 .. n + 1 /\ y + 1 \in 0 .. n + 1
        /\ y \in x .. n + 1 /\ y + 1 \in x + 1 .. n + 1
    OBVIOUS
  <2>2. s[x] <= s[y] /\ s[x + 1] <= s[y + 1] /\ s[y] \in Nat /\ s[x] \in Nat /\ s[x + 1] \in Nat /\ s[y + 1] \in Nat
    BY <1>6, <2>1
  <2>3. /\ s2[x] = IF x < a THEN s[x] ELSE s[x + 1] - w
        /\ s2[y] = IF y < a THEN s[y] ELSE s[y + 1] - w
        /\ x < a => s[x] <= k
        /\ ~ (y < a) => s[y + 1] >= e
    BY <1>7, <2>1
  <2>4. PICK b \in Nat, c \in Nat, g \in Nat, h \in Nat : b = s[x] /\ c = s[x + 1] /\ g = s[y] /\ h = s[y + 1]
    BY <2>2
  <2>5. s2[x] = (IF x < a THEN b ELSE c - w) /\ s2[y] = (IF y < a THEN g ELSE h - w) /\ b <= g /\ c <= h
        /\ (x < a => b <= k) /\ (~ (y < a) => h >= e)
    BY <2>2, <2>3, <2>4
  <2>6. a \in Int
    BY <1>3
  <2>7. QED BY <1>a, <2>5, <2>6
<1>12. offset' = o - w /\ s2[n] = o - w
  <2>1. offset' = o - w
    BY <1>2
  <2>2. n \in 0 .. n
    OBVIOUS
  <2>3. CASE n < a
    <3>1. a = n + 1
      BY <1>3, <2>3
    <3>2. e = o /\ s2[n] = s[n] /\ s[n] = k
      <4>1. a - 1 = n
        BY <3>1
      <4>2. QED BY <1>2, <1>6, <1>7, <2>2, <2>3, <3>1, <4>1
    <3>3. o - w = k
      BY <1>2, <3>2
    <3>4. QED BY <2>1, <3>2, <3>3
  <2>4. CASE ~ (n < a)
    BY <1>6, <1>7, <2>1, <2>2, <2>4
  <2>5. QED BY <2>3, <2>4
\* The cells: in front they stay, behind they come from w further on.
<1>13. PICK C : C = cells'
  OBVIOUS
<1>14. /\ C \in [0 .. BodySize - 1 -> Cell]
       /\ \A j \in 0 .. k - 1 : j \in 0 .. BodySize - 1 /\ C[j] = cells[j]
       /\ \A j \in k .. (o - w) - 1 : j \in 0 .. BodySize - 1 /\ j + w \in 0 .. BodySize - 1 /\ C[j] = cells[j + w]
  <2>1. C = [j \in 0 .. BodySize - 1 |-> IF j \in k .. k + (o - e) - 1 THEN At(e + j - k) ELSE cells[j]]
    BY <1>2, <1>3, <1>13 DEF Move
  <2>2. k + (o - e) - 1 = (o - w) - 1 /\ \A j \in k .. (o - w) - 1 : e + j - k = j + w
    BY <1>a
  <2>3. C = [j \in 0 .. BodySize - 1 |-> IF j \in k .. (o - w) - 1 THEN At(j + w) ELSE cells[j]]
    BY <2>1, <2>2, Zenon
  <2>4. \A j \in k .. (o - w) - 1 : j \in 0 .. BodySize - 1 /\ j + w \in 0 .. BodySize - 1 /\ At(j + w) = cells[j + w]
    <3>1. \A j \in k .. (o - w) - 1 : j \in 0 .. BodySize - 1 /\ j + w \in 0 .. BodySize - 1
      BY <1>a, <1>c
    <3>2. DOMAIN cells = 0 .. BodySize - 1
      BY <1>3
    <3>3. QED BY <3>1, <3>2 DEF At
  <2>5. \A j \in 0 .. BodySize - 1 : C[j] \in Cell
    BY <1>3, <2>3, <2>4
  <2>6. C \in [0 .. BodySize - 1 -> Cell]
    BY <2>3, <2>5
  <2>7. \A j \in 0 .. k - 1 : j \in 0 .. BodySize - 1 /\ j \notin k .. (o - w) - 1
    BY <1>a, <1>c
  <2>8. QED BY <2>3, <2>4, <2>6, <2>7
<1>15. /\ \A j \in 0 .. k - 1 : At(j)' = At(j)
       /\ \A j \in k .. (o - w) - 1 : At(j)' = At(j + w)
  <2>1. DOMAIN cells = 0 .. BodySize - 1 /\ DOMAIN cells' = 0 .. BodySize - 1
    BY <1>3, <1>13, <1>14
  <2>2. \A j \in 0 .. BodySize - 1 : At(j) = cells[j] /\ At(j)' = cells'[j]
    BY <2>1 DEF At
  <2>3. QED BY <1>13, <1>14, <2>2
<1>16. BufferOK'
  <2>1. o - w \in 0 .. size
    BY <1>a, <1>c
  <2>2. QED BY <1>3, <1>12, <1>13, <1>14, <2>1 DEF BufferOK, Cell, Value
<1>17. Starts(M, s2)'
  <2>1. Starts(M, s2)' <=> /\ s2 \in [0 .. Len(M) -> Nat] /\ s2[0] = 0 /\ s2[Len(M)] = offset'
                           /\ \A j \in 1 .. Len(M) : s2[j] = s2[j - 1] + Width(M[j].id, M[j].value)
                           /\ \A x \in 0 .. Len(M) : \A y \in x .. Len(M) : s2[x] <= s2[y]
    BY DEF Starts, Width, Layout, Byte, Id, TextLength
  <2>2. QED BY <1>4, <1>8, <1>9, <1>10, <1>11, <1>12, <2>1
<1>18. ASSUME NEW j \in 1 .. n
       PROVE  ReadsAs(s2[j - 1], M[j].id, M[j].value)'
  <2>0. PICK q \in Nat : q = s2[j - 1]
    <3>1. j - 1 \in 0 .. n
      OBVIOUS
    <3>2. QED BY <1>7, <3>1
  <2>1. CASE j < a
    <3>0. j \in 1 .. n + 1 /\ Len(L) = n + 1
      BY <1>3
    <3>1. j \in 1 .. Len(L) /\ M[j] = L[j] /\ q = s[j - 1]
      BY <1>4, <1>10, <2>0, <2>1, <3>0, Zenon
    <3>2. ReadsAs(s[j - 1], L[j].id, L[j].value)
      BY <3>1 DEF Represents, Written
    <3>3. \A i \in 1 .. Width(L[j].id, L[j].value) : At(s[j - 1] + i - 1)' = At(s[j - 1] + i - 1)
      <4> TAKE i \in 1 .. Width(L[j].id, L[j].value)
      <4>1. PICK p : p = s[j - 1] + i - 1
        OBVIOUS
      <4>2. p \in s[j - 1] .. s[j] - 1 /\ p \in Nat
        BY <3>1, <4>1, FieldCells
      <4>3. s[j] <= k /\ s[j] \in Nat /\ s[j - 1] \in Nat
        <5>1. j \in 0 .. n + 1 /\ a - 1 \in j .. n + 1 /\ j - 1 \in 0 .. n + 1
          BY <1>3, <2>1
        <5>2. QED BY <1>2, <1>6, <5>1
      <4>4. p \in 0 .. k - 1
        BY <4>2, <4>3
      <4>5. At(p)' = At(p)
        BY <1>15, <4>4
      <4>6. QED BY <4>1, <4>5
    <3>4. ReadsAs(s[j - 1], L[j].id, L[j].value)'
      BY <3>2, <3>3, FieldStays
    <3>5. QED BY <2>0, <3>1, <3>4
  <2>2. CASE ~ (j < a)
    <3>0. j + 1 \in 1 .. n + 1 /\ Len(L) = n + 1 /\ (j + 1) - 1 = j
      BY <1>3
    <3>1. j + 1 \in 1 .. Len(L) /\ (j + 1) - 1 = j /\ M[j] = L[j + 1] /\ q = s[j] - w
      BY <1>4, <1>10, <2>0, <2>2, <3>0, Zenon
    <3>2. ReadsAs(s[j], L[j + 1].id, L[j + 1].value)
      BY <3>1 DEF Represents, Written
    <3>3. ASSUME NEW i \in 1 .. Width(M[j].id, M[j].value)
          PROVE  At(q + i - 1)' = Layout(M[j].id, M[j].value)[i]
      <4>1. PICK p, r : p = s[j] + i - 1 /\ r = q + i - 1
        OBVIOUS
      <4>2. p \in s[j] .. s[j + 1] - 1 /\ p \in 0 .. offset - 1 /\ p \in Nat
        BY <3>1, <4>1, FieldCells
      <4>3. s[j] \in Nat /\ s[j] >= e
        <5>1. j \in 0 .. n + 1 /\ a \in 0 .. n + 1 /\ j \in a .. n + 1
          BY <1>3, <2>2
        <5>2. QED BY <1>2, <1>6, <5>1
      <4>4. PICK x \in Nat : x = s[j] /\ x >= e
        BY <4>3
      <4>5. i \in Int /\ p = x + i - 1 /\ r = (x - w) + i - 1
        BY <3>1, <4>1, <4>4
      <4>6. p >= x /\ p < o
        BY <1>2, <4>2, <4>4
      <4>7. r \in k .. (o - w) - 1 /\ r + w = p
        <5>1. x >= e /\ i \in Int /\ p = x + i - 1 /\ r = (x - w) + i - 1 /\ p >= x /\ p < o
          BY <4>4, <4>5, <4>6, Zenon
        <5>2. QED BY <1>a, <5>1
      <4>8. At(r)' = At(p)
        BY <1>15, <4>7
      <4>9. At(p) = Layout(L[j + 1].id, L[j + 1].value)[i]
        BY <3>1, <3>2, <4>1 DEF ReadsAs
      <4>10. QED BY <3>1, <4>1, <4>8, <4>9
    <3>4. ReadsAs(q, M[j].id, M[j].value)' <=>
            \A i \in 1 .. Width(M[j].id, M[j].value) : At(q + i - 1)' = Layout(M[j].id, M[j].value)[i]
      BY DEF ReadsAs, Width, Layout, Byte, Id, TextLength
    <3>5. ReadsAs(q, M[j].id, M[j].value)'
      BY <3>3, <3>4, Zenon
    <3>6. QED BY <2>0, <3>5
  <2>3. QED BY <2>1, <2>2
<1>19. Written(M, s2)'
  BY <1>4, <1>18, Zenon DEF Written
<1>20. (M \in FieldList)'
  BY <1>5 DEF FieldList, Value, ValuesOf
<1>21. Represents(M, s2)'
  BY <1>17, <1>19, <1>20 DEF Represents
<1>22. QED BY <1>16, <1>21

\* Nothing is added and nothing is changed.
LEMMA Unchanged ==
  ASSUME BufferOK, NEW L, NEW s, Represents(L, s), UNCHANGED <<cells, offset>>, size' = size
  PROVE  BufferOK' /\ Represents(L, s)'
<1>1. \A k \in 0 .. offset - 1 : At(k)' = At(k)
  BY DEF At, Byte
<1>2. Represents(L, s)'
  BY <1>1, SameFields
<1>3. QED BY <1>2 DEF BufferOK, Cell, Value

\* A tpcall carries all fields.
LEMMA Carried ==
  ASSUME BufferOK, NEW L, NEW s, Represents(L, s), Tpcall
  PROVE  BufferOK' /\ Represents(L, s)'
<1>1. /\ cells \in [0 .. BodySize - 1 -> Cell] /\ size \in 0 .. BodySize /\ offset \in 0 .. size
      /\ BodySize \in Nat
  BY FmlAssumption DEF BufferOK
<1>2. /\ cells' = [j \in 0 .. BodySize - 1 |-> IF j < offset THEN cells[j] ELSE Byte("zero")]
      /\ size' = offset /\ offset' = offset
  BY <1>1 DEF Tpcall, FMLValidSize
<1>3. Byte("zero") \in Cell
  BY DEF Byte, Cell
<1>4. cells' \in [0 .. BodySize - 1 -> Cell]
  BY <1>1, <1>2, <1>3
<1>5. BufferOK'
  BY <1>1, <1>2, <1>4 DEF BufferOK, Cell, Value
<1>6. ASSUME NEW k \in 0 .. offset - 1
      PROVE  At(k)' = At(k)
  <2>1. k \in 0 .. BodySize - 1 /\ k < offset
    BY <1>1
  <2>2. cells'[k] = cells[k]
    BY <1>2, <2>1
  <2>3. QED BY <1>1, <1>4, <2>1, <2>2 DEF At
<1>7. QED BY <1>2, <1>5, <1>6, SameFields

\* In the beginning there is no field.
LEMMA FmlInit == Init => FmlInv
<1> SUFFICES ASSUME Init PROVE FmlInv
  OBVIOUS
<1>1. BodySize \in Nat
  BY FmlAssumption
<1>2. Byte("zero") \in Cell
  BY DEF Byte, Cell
<1>3. BufferOK
  BY <1>1, <1>2 DEF Init, BufferOK
<1>4. PICK L : L = <<>>
  OBVIOUS
<1>5. Len(L) = 0 /\ L \in Seq([id : Field, value : Value])
  BY <1>4
<1>6. L \in FieldList
  BY <1>5 DEF FieldList
<1>7. PICK s : s = [j \in 0 .. 0 |-> 0]
  OBVIOUS
<1>8. Starts(L, s)
  BY <1>5, <1>7 DEF Starts, Init
<1>9. Written(L, s)
  BY <1>5 DEF Written
<1>10. Represents(L, s)
  BY <1>6, <1>8, <1>9 DEF Represents
<1>11. QED BY <1>3, <1>10 DEF FmlInv, Init

\* What a step leaves of the list, and what the abstract buffer does meanwhile.
FmlStep == FmlInv' /\ (spoiled' \/ UNCHANGED <<cells, offset>> \/ UNCHANGED Contents \/ Abstract!Next)

\* A list that is represented is what is read, after a step as well.
LEMMA ContentsNext == \A L, s : (BufferOK /\ Represents(L, s))' => Contents' = L
<1>1. (\A L, s : BufferOK /\ Represents(L, s) => Contents = L)'
  BY ContentsAre, PTL
<1>2. QED BY <1>1, Zenon

\* Adding a field of the list.
LEMMA FaddStep ==
  ASSUME spoiled = FALSE, BufferOK, NEW L, NEW s, Represents(L, s), NEW f \in Field, NEW v \in ValuesOf(f),
         Fadd32(f, v)
  PROVE  FmlStep
<1>1. spoiled' = spoiled
  BY DEF Fadd32
<1>2. CASE Room(f, v)
  <2>1. PICK M : M = Append(L, [id |-> f, value |-> v])
    OBVIOUS
  <2>2. BufferOK' /\ \E s2 : Represents(M, s2)'
    BY <1>2, <2>1, Added
  <2>3. FmlInv'
    BY <1>1, <2>2 DEF FmlInv
  <2>4. Contents = L
    BY ContentsAre, Zenon
  <2>5. Contents' = M
    BY <2>2, ContentsNext, Zenon
  <2>6. v \in Value
    BY DEF ValuesOf, Value
  <2>7. Abstract!Add(f, v)
    BY <2>1, <2>4, <2>5, Zenon DEF Abstract!Add
  <2>8. Abstract!Next
    BY <2>6, <2>7, Zenon DEF Abstract!Next
  <2>9. QED BY <2>3, <2>8 DEF FmlStep
<1>3. CASE ~ Room(f, v)
  <2>1. UNCHANGED <<cells, offset>> /\ size' = size
    BY <1>3 DEF Fadd32
  <2>2. BufferOK' /\ Represents(L, s)'
    BY <2>1, Unchanged
  <2>3. FmlInv'
    BY <1>1, <2>2 DEF FmlInv
  <2>4. QED BY <2>1, <2>3 DEF FmlStep
<1>4. QED BY <1>2, <1>3

\* Changing a number.
LEMMA FchgFixedStep ==
  ASSUME spoiled = FALSE, BufferOK, NEW L, NEW s, Represents(L, s), NEW f \in Field, NEW v \in ValuesOf(f),
         NEW oc, FchgFixed(f, oc, v)
  PROVE  FmlStep
<1>1. spoiled' = spoiled /\ size' = size /\ offset' = offset /\ TypeOf[f] # "string"
  BY DEF FchgFixed
<1>2. CASE PlaceOf(f, oc) # -1
  <2>1. PICK a : OccurrenceAt(L, f, oc, a) /\ PlaceOf(f, oc) = s[a - 1]
    BY <1>2, PlaceFound
  <2>2. cells' = Fixed(s[a - 1], f, v)
    BY <1>2, <2>1, Zenon DEF FchgFixed
  <2>3. PICK M : M = [L EXCEPT ![a].value = v]
    OBVIOUS
  <2>4. BufferOK' /\ Represents(M, s)'
    BY <1>1, <2>1, <2>2, <2>3, Changed
  <2>5. FmlInv'
    BY <1>1, <2>4 DEF FmlInv
  <2>6. Contents = L
    BY ContentsAre, Zenon
  <2>7. Contents' = M
    BY <2>4, ContentsNext, Zenon
  <2>8. v \in Value
    BY DEF ValuesOf, Value
  <2>9. Len(L) \in Nat /\ DOMAIN L = 1 .. Len(L)
    BY LenProperties DEF Represents, FieldList
  <2>10. Abstract!IsOccurrence(L, f, oc, a) /\ oc \in Nat /\ oc + 1 \in 1 .. Len(L)
    BY <2>1, <2>9, AbstractOccurrence
  <2>11. PICK p : p = oc + 1
    OBVIOUS
  <2>12. p \in DOMAIN L /\ p - 1 = oc /\ a \in DOMAIN L
    BY <2>1, <2>9, <2>10, <2>11 DEF OccurrenceAt
  <2>13. Abstract!Change(f, p - 1, v)
    <3>1. Abstract!IsOccurrence(Contents, f, p - 1, a) /\ a \in DOMAIN Contents
      BY <2>6, <2>10, <2>12
    <3>2. Contents' = [Contents EXCEPT ![a].value = v]
      BY <2>3, <2>6, <2>7
    <3>3. QED BY <3>1, <3>2, Zenon DEF Abstract!Change
  <2>14. p \in DOMAIN Contents
    BY <2>6, <2>12
  <2>15. Abstract!Next
    BY <2>8, <2>13, <2>14, Zenon DEF Abstract!Next
  <2>16. QED BY <2>5, <2>15 DEF FmlStep
<1>3. CASE ~ (PlaceOf(f, oc) # -1)
  <2>1. UNCHANGED <<cells, offset>> /\ size' = size
    BY <1>1, <1>3 DEF FchgFixed
  <2>2. BufferOK' /\ Represents(L, s)'
    BY <2>1, Unchanged
  <2>3. FmlInv'
    BY <1>1, <2>2 DEF FmlInv
  <2>4. QED BY <2>1, <2>3 DEF FmlStep
<1>4. QED BY <1>2, <1>3

\* Where an occurrence is, and how long it is.
LEMMA SectionOf ==
  ASSUME BufferOK, NEW L, NEW s, Represents(L, s), NEW f, NEW oc, PlaceOf(f, oc) # -1
  PROVE  \E a \in 1 .. Len(L), k \in Nat, e \in Nat, o \in Nat :
            /\ OccurrenceAt(L, f, oc, a) /\ PlaceOf(f, oc) = k /\ s[a - 1] = k /\ s[a] = e /\ offset = o
            /\ k < e /\ e <= o /\ FMLFieldNextOffset(k) = e - k
<1>1. PICK a : OccurrenceAt(L, f, oc, a) /\ PlaceOf(f, oc) = s[a - 1]
  BY PlaceFound
<1>2. a \in 1 .. Len(L)
  BY <1>1 DEF OccurrenceAt
<1>3. PICK k, e, o : k = s[a - 1] /\ e = s[a] /\ o = offset
  OBVIOUS
<1>4. k \in Nat /\ e \in Nat /\ k < e /\ e <= o /\ o \in Nat /\ FMLFieldNextOffset(k) = e - k
  BY <1>2, <1>3, FieldRead DEF BufferOK
<1>5. QED BY <1>1, <1>2, <1>3, <1>4

\* A move to where the cells are changes none, and neither does one of no cells.
LEMMA MovedNowhere ==
  ASSUME BufferOK, NEW k \in Nat, NEW e \in Nat, NEW n \in Nat, cells' = Move(k, e, n), k = e \/ n = 0
  PROVE  cells' = cells
<1>1. DOMAIN cells = 0 .. BodySize - 1 /\ cells = [j \in 0 .. BodySize - 1 |-> cells[j]] /\ BodySize \in Nat
  BY FmlAssumption DEF BufferOK
<1>2. \A j \in 0 .. BodySize - 1 : (IF j \in k .. k + n - 1 THEN At(e + j - k) ELSE cells[j]) = cells[j]
  <2> TAKE j \in 0 .. BodySize - 1
  <2>1. CASE j \notin k .. k + n - 1
    BY <2>1
  <2>2. CASE j \in k .. k + n - 1
    <3>1. n # 0 /\ e = k /\ e + j - k = j
      BY <2>2
    <3>2. At(e + j - k) = cells[j]
      BY <1>1, <3>1 DEF At
    <3>3. QED BY <2>2, <3>2
  <2>3. QED BY <2>1, <2>2
<1>3. cells' = [j \in 0 .. BodySize - 1 |-> IF j \in k .. k + n - 1 THEN At(e + j - k) ELSE cells[j]]
  BY <1>1 DEF Move
<1>4. QED BY <1>1, <1>2, <1>3

\* Nothing has changed, or the buffer is followed no further.
LEMMA NothingOrTorn ==
  ASSUME spoiled = FALSE, BufferOK, NEW L, NEW s, Represents(L, s), size' = size, spoiled' \in BOOLEAN,
         spoiled' \/ UNCHANGED <<cells, offset>>
  PROVE  FmlStep
<1>1. CASE spoiled'
  BY <1>1 DEF FmlStep, FmlInv
<1>2. CASE ~ spoiled'
  <2>1. UNCHANGED <<cells, offset>>
    BY <1>2
  <2>2. BufferOK' /\ Represents(L, s)'
    BY <2>1, Unchanged
  <2>3. FmlInv'
    BY <1>2, <2>2 DEF FmlInv
  <2>4. QED BY <2>1, <2>3 DEF FmlStep
<1>3. QED BY <1>1, <1>2

\* Changing a text does nothing at all, or tears the fields.
LEMMA FchgTextStep ==
  ASSUME spoiled = FALSE, BufferOK, NEW L, NEW s, Represents(L, s), NEW f \in Field, NEW v \in ValuesOf(f),
         NEW oc, FchgText(f, oc, v)
  PROVE  FmlStep
<1>1. size' = size /\ TypeOf[f] = "string" /\ Len(v) \in Nat
  <2>1. size' = size /\ TypeOf[f] = "string"
    BY DEF FchgText
  <2>2. v \in Text
    BY <2>1 DEF ValuesOf
  <2>3. QED BY <2>1, <2>2, TextIsSequence
<1>2. PICK k, section, grown :
        /\ k = PlaceOf(f, oc) /\ section = FMLFieldNextOffset(k) /\ grown = Len(v) - (section - 2)
        /\ IF k = -1 THEN UNCHANGED <<cells, offset>> /\ ret' = "FNOTPRES"
           ELSE IF k + section + grown > size
           THEN UNCHANGED <<cells, offset>> /\ ret' = "FNOSPACE"
           ELSE /\ cells' = Move(k + 2 + Len(v), k + section, offset - (k + section))
                /\ offset' = offset + grown
                /\ ret' = "OK"
        /\ spoiled' = (ret' = "OK" /\ grown # 0)
  BY DEF FchgText
<1>3. spoiled' \in BOOLEAN
  BY <1>2
<1>4. CASE ret' # "OK" \/ grown # 0
  <2>1. spoiled' \/ UNCHANGED <<cells, offset>>
    BY <1>2, <1>4
  <2>2. QED BY <1>1, <1>3, <2>1, NothingOrTorn
<1>5. CASE ret' = "OK" /\ grown = 0
  <2>1. k # -1 /\ cells' = Move(k + 2 + Len(v), k + section, offset - (k + section)) /\ offset' = offset + grown
    BY <1>2, <1>5
  <2>2. PICK kk \in Nat, e \in Nat, o \in Nat :
          PlaceOf(f, oc) = kk /\ offset = o /\ kk < e /\ e <= o /\ FMLFieldNextOffset(kk) = e - kk
    <3>1. PlaceOf(f, oc) # -1
      BY <1>2, <2>1, Zenon
    <3>2. \E a \in 1 .. Len(L), k1 \in Nat, e \in Nat, o \in Nat :
            /\ OccurrenceAt(L, f, oc, a) /\ PlaceOf(f, oc) = k1 /\ s[a - 1] = k1 /\ s[a] = e /\ offset = o
            /\ k1 < e /\ e <= o /\ FMLFieldNextOffset(k1) = e - k1
      BY <3>1, SectionOf
    <3>3. QED BY <3>2, Zenon
  <2>3. k = kk /\ section = e - k /\ k + section = e
    BY <1>2, <2>2
  <2>4. k + 2 + Len(v) = e /\ offset - (k + section) \in Nat /\ offset' = offset
    BY <1>1, <1>2, <1>5, <2>1, <2>2, <2>3
  <2>5. cells' = Move(e, e, offset - (k + section))
    BY <2>1, <2>3, <2>4
  <2>6. cells' = cells
    BY <2>4, <2>5, MovedNowhere
  <2>7. QED BY <1>1, <1>3, <2>4, <2>6, NothingOrTorn
<1>6. QED BY <1>4, <1>5

\* Deleting a field does so only if the rest is as long; it does nothing to the last one.
LEMMA FchgDeleteStep ==
  ASSUME spoiled = FALSE, BufferOK, NEW L, NEW s, Represents(L, s), NEW f \in Field, NEW oc, FchgDelete(f, oc)
  PROVE  FmlStep
<1>1. PICK k, rest :
        /\ k = PlaceOf(f, oc) /\ rest = offset - (k + FMLFieldNextOffset(k))
        /\ IF k = -1 THEN UNCHANGED <<cells, offset>> /\ ret' = "FNOTPRES"
           ELSE /\ cells' = Move(k, k + FMLFieldNextOffset(k), rest)
                /\ offset' = offset - rest
                /\ ret' = "OK"
        /\ spoiled' = (ret' = "OK" /\ rest \notin {0, FMLFieldNextOffset(k)})
        /\ size' = size
  BY Zenon DEF FchgDelete
<1>2. spoiled' \in BOOLEAN
  BY <1>1
<1>3. CASE k = -1
  <2>1. UNCHANGED <<cells, offset>>
    BY <1>1, <1>3
  <2>2. QED BY <1>1, <1>2, <2>1, NothingOrTorn
<1>4. CASE k # -1
  <2>1. PICK a \in 1 .. Len(L), kk \in Nat, e \in Nat, o \in Nat :
          /\ OccurrenceAt(L, f, oc, a) /\ PlaceOf(f, oc) = kk /\ s[a - 1] = kk /\ s[a] = e /\ offset = o
          /\ kk < e /\ e <= o /\ FMLFieldNextOffset(kk) = e - kk
    BY <1>1, <1>4, SectionOf
  <2>2. /\ k = kk /\ k + FMLFieldNextOffset(k) = e /\ rest = o - e /\ rest \in Nat
        /\ cells' = Move(kk, e, rest) /\ offset' = o - rest
    BY <1>1, <1>4, <2>1
  <2>3. CASE rest = 0
    <3>1. cells' = cells
      BY <2>2, <2>3, MovedNowhere
    <3>2. offset' = offset
      BY <2>1, <2>2, <2>3
    <3>3. QED BY <1>1, <1>2, <3>1, <3>2, NothingOrTorn
  <2>4. CASE rest # 0 /\ rest # e - kk
    <3>1. spoiled'
      BY <1>1, <1>4, <2>1, <2>2, <2>4
    <3>2. QED BY <1>1, <1>2, <3>1, NothingOrTorn
  <2>5. CASE rest = e - kk
    <3>1. cells' = Move(s[a - 1], s[a], offset - s[a]) /\ offset' = offset - (s[a] - s[a - 1]) /\ size' = size
      BY <1>1, <2>1, <2>2, <2>5
    <3>2. PICK M : M = SubSeq(L, 1, a - 1) \o SubSeq(L, a + 1, Len(L))
      OBVIOUS
    <3>3. BufferOK' /\ \E s2 : Represents(M, s2)'
      BY <3>1, <3>2, Deleted
    <3>4. FmlInv'
      <4>1. spoiled' = FALSE
        BY <1>1, <2>1, <2>2, <2>5
      <4>2. QED BY <3>3, <4>1 DEF FmlInv
    <3>5. Contents = L /\ Contents' = M
      BY <3>3, ContentsAre, ContentsNext, Zenon
    <3>6. Len(L) \in Nat /\ DOMAIN L = 1 .. Len(L)
      BY LenProperties DEF Represents, FieldList
    <3>7. Abstract!IsOccurrence(L, f, oc, a) /\ oc \in Nat /\ oc + 1 \in 1 .. Len(L)
      BY <2>1, <3>6, AbstractOccurrence
    <3>8. PICK p : p = oc + 1
      OBVIOUS
    <3>9. p \in DOMAIN Contents /\ p - 1 = oc /\ a \in DOMAIN Contents
      BY <3>5, <3>6, <3>7, <3>8
    <3>10. Abstract!Delete(f, p - 1)
      <4>1. Abstract!IsOccurrence(Contents, f, p - 1, a)
        BY <3>5, <3>7, <3>9
      <4>2. Contents' = SubSeq(Contents, 1, a - 1) \o SubSeq(Contents, a + 1, Len(Contents))
        BY <3>2, <3>5
      <4>3. QED BY <3>9, <4>1, <4>2, Zenon DEF Abstract!Delete
    <3>11. Abstract!Next
      BY <3>9, <3>10, Zenon DEF Abstract!Next
    <3>12. QED BY <3>4, <3>11 DEF FmlStep
  <2>6. QED BY <2>3, <2>4, <2>5
<1>5. QED BY <1>3, <1>4

\* A tpcall.
LEMMA TpcallStep ==
  ASSUME spoiled = FALSE, BufferOK, NEW L, NEW s, Represents(L, s), Tpcall
  PROVE  FmlStep
<1>1. BufferOK' /\ Represents(L, s)'
  BY Carried
<1>2. spoiled' = spoiled
  BY DEF Tpcall
<1>3. FmlInv'
  BY <1>1, <1>2 DEF FmlInv
<1>4. Contents = L /\ Contents' = L
  BY <1>1, ContentsAre, ContentsNext, Zenon
<1>5. QED BY <1>3, <1>4 DEF FmlStep

\* FmlInv is inductive, and every step is the abstract buffer's or leaves the list alone.
LEMMA StepsAre ==
  ASSUME FmlInv, [Next]_vars
  PROVE  FmlStep
<1>1. CASE UNCHANGED vars
  <2>1. spoiled' = spoiled /\ UNCHANGED <<cells, offset>> /\ size' = size
    BY <1>1 DEF vars
  <2>2. CASE spoiled
    BY <2>1, <2>2 DEF FmlStep, FmlInv
  <2>3. CASE ~ spoiled
    <3>1. PICK L, s : Represents(L, s)
      BY <2>3 DEF FmlInv
    <3>2. BufferOK
      BY <2>3 DEF FmlInv
    <3>3. BufferOK' /\ Represents(L, s)'
      BY <2>1, <3>1, <3>2, Unchanged
    <3>4. FmlInv'
      BY <2>1, <2>3, <3>3 DEF FmlInv
    <3>5. QED BY <2>1, <3>4 DEF FmlStep
  <2>4. QED BY <2>2, <2>3
<1>2. CASE Next
  <2>1. spoiled = FALSE
    BY <1>2 DEF Next, FmlInv
  <2>2. BufferOK
    BY <2>1 DEF FmlInv
  <2>3. PICK L, s : Represents(L, s)
    BY <2>1 DEF FmlInv
  <2>4. CASE Tpcall
    BY <2>1, <2>2, <2>3, <2>4, TpcallStep
  <2>5. CASE \E f \in Field : \E v \in ValuesOf(f) : Fadd32(f, v)
    BY <2>1, <2>2, <2>3, <2>5, FaddStep
  <2>6. CASE \E f \in Field : \E oc \in 0 .. Len(Walk[0]) : \E v \in ValuesOf(f) : FchgFixed(f, oc, v)
    BY <2>1, <2>2, <2>3, <2>6, FchgFixedStep
  <2>7. CASE \E f \in Field : \E oc \in 0 .. Len(Walk[0]) : \E v \in ValuesOf(f) : FchgText(f, oc, v)
    BY <2>1, <2>2, <2>3, <2>7, FchgTextStep
  <2>8. CASE \E f \in Field : \E oc \in 0 .. Len(Walk[0]) : FchgDelete(f, oc)
    BY <2>1, <2>2, <2>3, <2>8, FchgDeleteStep
  <2>9. QED BY <1>2, <2>4, <2>5, <2>6, <2>7, <2>8, Zenon DEF Next
<1>3. QED BY <1>1, <1>2

(* Until Fchg32 tears the fields (a text of another length, a deletion     *)
(* before a rest of another length than the field's) a fielded buffer is   *)
(* the list of the fields that the program has made: the fields end at the *)
(* offset; what Foccur32 counted Fget32 reads, where all fields are equally*)
(* long, and elsewhere it counts those before the first different one; and *)
(* every step of FML32 and a tpcall adds, changes or deletes one field of  *)
(* the list or leaves all as they are, for buffers of every size.          *)
THEOREM FieldsAlwaysKept == Spec => FieldsKept
<1>1. Init => FmlInv
  BY FmlInit
<1>2. FmlInv /\ [Next]_vars => FmlInv'
  BY StepsAre DEF FmlStep
<1>3. FmlInv => WellFormed /\ OccurrencesRead
  BY EndsAtOffset, CountedIsRead
<1>4. FmlInv /\ [Next]_vars
        => [spoiled' \/ UNCHANGED <<cells, offset>> \/ UNCHANGED Contents \/ Abstract!Next]_vars
  BY StepsAre DEF FmlStep
<1>5. QED BY <1>1, <1>2, <1>3, <1>4, PTL DEF Spec, FieldsKept, KeptFields

-----------------------------------------------------------------------------
(* The bytes of integers. *)

\* What is true of 0, and of k + 1 when it is of k, is true of all numbers up to N.
LEMMA UpToN ==
  ASSUME NEW N \in Nat, NEW T, 0 \in T, \A k \in 0 .. N - 1 : k \in T => k + 1 \in T
  PROVE  \A k \in 0 .. N : k \in T
<1> DEFINE U == {k \in 0 .. N : k \notin T}
<1>1. SUFFICES ASSUME U # {} PROVE FALSE
  OBVIOUS
<1>2. U \subseteq Nat
  OBVIOUS
<1>3. PICK m \in U : \A k \in U : m <= k
  <2> HIDE DEF U
  <2>1. QED BY <1>1, <1>2, LeastNumber
<1>4. m \in 0 .. N /\ m \notin T /\ m # 0
  OBVIOUS
<1>5. m - 1 \in 0 .. N - 1 /\ ~ (m <= m - 1) /\ (m - 1) + 1 = m
  BY <1>4
<1>6. m - 1 \in T
  BY <1>3, <1>5
<1>7. QED BY <1>4, <1>5, <1>6

\* A function of 0 .. N that goes on by steps within S.
StepsOn(S, N, step) == \A k \in 1 .. N : \A x \in S : step[k][x] \in S
InSteps(N, base, step, f) == f = [k \in 0 .. N |-> IF k = 0 THEN base ELSE step[k][f[k - 1]]]

\* There is one, and it stays in S.
LEMMA RecursionExists ==
  ASSUME NEW S, NEW N \in Nat, NEW base \in S, NEW step, StepsOn(S, N, step)
  PROVE  \E f : InSteps(N, base, step, f)
<1> DEFINE T == {m \in 0 .. N : \E f \in [0 .. m -> S] : InSteps(m, base, step, f)}
<1>1. 0 \in T
  <2> DEFINE f == [k \in 0 .. 0 |-> base]
  <2>1. f \in [0 .. 0 -> S]
    OBVIOUS
  <2>2. f = [k \in 0 .. 0 |-> IF k = 0 THEN base ELSE step[k][f[k - 1]]]
    OBVIOUS
  <2>3. InSteps(0, base, step, f)
    <3> HIDE DEF f
    <3>1. QED BY <2>2, Zenon DEF InSteps
  <2> HIDE DEF f
  <2>4. QED BY <2>1, <2>3
<1>2. ASSUME NEW m \in 0 .. N - 1, m \in T
      PROVE  m + 1 \in T
  <2>1. PICK g \in [0 .. m -> S] : InSteps(m, base, step, g)
    BY <1>2
  <2> DEFINE f == [k \in 0 .. m + 1 |-> IF k = m + 1 THEN step[m + 1][g[m]] ELSE g[k]]
  <2>2. \A k \in 0 .. m : g[k] = IF k = 0 THEN base ELSE step[k][g[k - 1]]
    BY <2>1 DEF InSteps
  <2>3. m \in 0 .. m /\ m + 1 \in 1 .. N /\ m + 1 \in 0 .. N /\ m \in Nat
    OBVIOUS
  <2>4. step[m + 1][g[m]] \in S
    BY <2>1, <2>3 DEF StepsOn
  <2>5. f \in [0 .. m + 1 -> S]
    <3>1. \A k \in 0 .. m + 1 : k # m + 1 => k \in 0 .. m
      OBVIOUS
    <3>2. QED BY <2>4, <3>1
  <2>6. ASSUME NEW k \in 0 .. m + 1
        PROVE  f[k] = IF k = 0 THEN base ELSE step[k][f[k - 1]]
    <3>1. CASE k = m + 1
      <4>1. f[k] = step[k][g[m]] /\ k # 0 /\ k - 1 = m /\ m \in 0 .. m + 1 /\ m # m + 1
        BY <2>3, <3>1
      <4>2. f[k - 1] = g[m]
        BY <4>1
      <4> HIDE DEF f
      <4>3. QED BY <4>1, <4>2
    <3>2. CASE k # m + 1
      <4>1. k \in 0 .. m /\ f[k] = g[k]
        BY <3>2
      <4>2. ASSUME k # 0 PROVE f[k - 1] = g[k - 1]
        <5>1. k - 1 \in 0 .. m + 1 /\ k - 1 # m + 1
          BY <4>1, <4>2
        <5>2. QED BY <5>1
      <4> HIDE DEF f
      <4>3. QED BY <2>2, <4>1, <4>2
    <3>3. QED BY <3>1, <3>2
  <2>7. f = [k \in 0 .. m + 1 |-> f[k]]
    OBVIOUS
  <2>8. InSteps(m + 1, base, step, f)
    <3> HIDE DEF f
    <3>1. QED BY <2>6, <2>7, Zenon DEF InSteps
  <2> HIDE DEF f
  <2>9. QED BY <2>3, <2>5, <2>8
<1>3. N \in T
  <2> HIDE DEF T
  <2>1. \A k \in 0 .. N : k \in T
    BY <1>1, <1>2, UpToN
  <2>2. QED BY <2>1
<1>4. QED BY <1>3

\* What follows of it.
Follows(S, N, base, step, f) ==
  f \in [0 .. N -> S] /\ f[0] = base /\ \A k \in 1 .. N : f[k] = step[k][f[k - 1]]
LEMMA RecursionIs ==
  ASSUME NEW S, NEW N \in Nat, NEW base \in S, NEW step, StepsOn(S, N, step),
         NEW f, InSteps(N, base, step, f)
  PROVE  Follows(S, N, base, step, f)
<1>1. \A k \in 0 .. N : f[k] = IF k = 0 THEN base ELSE step[k][f[k - 1]]
  BY DEF InSteps
<1>2. f[0] = base
  BY <1>1
<1>3. \A k \in 1 .. N : f[k] = step[k][f[k - 1]]
  <2>1. \A k \in 1 .. N : k \in 0 .. N /\ k # 0
    OBVIOUS
  <2>2. QED BY <1>1, <2>1
<1> DEFINE T == {k \in 0 .. N : f[k] \in S}
<1>4. 0 \in T
  BY <1>2
<1>5. ASSUME NEW k \in 0 .. N - 1, k \in T
      PROVE  k + 1 \in T
  <2>1. k + 1 \in 1 .. N /\ (k + 1) - 1 = k /\ k + 1 \in 0 .. N
    OBVIOUS
  <2>2. f[k + 1] = step[k + 1][f[k]] /\ f[k] \in S
    BY <1>3, <1>5, <2>1
  <2>3. f[k + 1] \in S
    BY <2>1, <2>2 DEF StepsOn
  <2>4. QED BY <2>1, <2>3
<1>6. \A k \in 0 .. N : k \in T
  <2> HIDE DEF T
  <2>1. QED BY <1>4, <1>5, UpToN
<1>7. f \in [0 .. N -> S]
  <2>1. \A k \in 0 .. N : f[k] \in S
    BY <1>6
  <2>2. f = [k \in 0 .. N |-> f[k]]
    BY Zenon DEF InSteps
  <2>3. QED BY <2>1, <2>2
<1>8. QED BY <1>2, <1>3, <1>7 DEF Follows

\* What is left of v without its last k digits.
Rests(v, n, rest) ==
  /\ rest \in [0 .. n -> Int] /\ rest[0] = v
  /\ \A k \in 1 .. n : rest[k] = rest[k - 1] \div ByteBase

\* The digits of v are what is left over when such rests are divided.
LEMMA DigitsAre ==
  ASSUME NEW v \in Int, NEW n \in Nat
  PROVE  \E rest : Rests(v, n, rest) /\ Digits(v, n) = [i \in 1 .. n |-> rest[n - i] % ByteBase]
<1> DEFINE step == [k \in 1 .. n |-> [x \in Int |-> x \div ByteBase]]
           Right(f) == f = [k \in 0 .. n |-> IF k = 0 THEN v ELSE f[k - 1] \div ByteBase]
<1>0. ByteBase \in Nat \ {0}
  BY BaseAssumption
<1>1. \A k \in 1 .. n : \A x \in Int : step[k][x] = x \div ByteBase
  OBVIOUS
<1> HIDE DEF step
<1>2. StepsOn(Int, n, step)
  BY <1>0, <1>1 DEF StepsOn
<1>3. PICK f : InSteps(n, v, step, f)
  BY <1>2, RecursionExists
<1>4. f \in [0 .. n -> Int] /\ f[0] = v /\ \A k \in 1 .. n : f[k] = step[k][f[k - 1]]
  <2>1. Follows(Int, n, v, step, f)
    BY <1>2, <1>3, RecursionIs
  <2>2. QED BY <2>1 DEF Follows
<1>5. ASSUME NEW k \in 1 .. n PROVE f[k] = f[k - 1] \div ByteBase
  <2>1. k - 1 \in 0 .. n
    OBVIOUS
  <2>2. f[k - 1] \in Int /\ step[k][f[k - 1]] = f[k - 1] \div ByteBase
    BY <1>1, <1>4, <2>1
  <2>3. QED BY <1>4, <2>2
<1>6. Right(f)
  <2>1. \A k \in 0 .. n : f[k] = IF k = 0 THEN v ELSE f[k - 1] \div ByteBase
    <3> TAKE k \in 0 .. n
    <3>1. CASE k = 0
      BY <1>4, <3>1
    <3>2. CASE k # 0
      <4>1. k \in 1 .. n
        BY <3>2
      <4>2. QED BY <1>5, <3>2, <4>1
    <3>3. QED BY <3>1, <3>2
  <2>2. QED BY <1>4, <2>1
<1> DEFINE rest == CHOOSE g : Right(g)
<1>7. Digits(v, n) = [i \in 1 .. n |-> rest[n - i] % ByteBase]
  BY DEF Digits
<1>8. Right(rest)
  <2> HIDE DEF Right
  <2>1. QED BY <1>6
<1> HIDE DEF rest
<1>9. \A k \in 0 .. n : rest[k] = IF k = 0 THEN v ELSE rest[k - 1] \div ByteBase
  BY <1>8
<1>10. rest[0] = v /\ \A k \in 1 .. n : rest[k] = rest[k - 1] \div ByteBase
  <2>1. \A k \in 1 .. n : k \in 0 .. n /\ k # 0
    OBVIOUS
  <2>2. QED BY <1>9, <2>1
<1> DEFINE T == {k \in 0 .. n : rest[k] = f[k]}
<1>11. 0 \in T
  BY <1>4, <1>10
<1>12. ASSUME NEW k \in 0 .. n - 1, k \in T
       PROVE  k + 1 \in T
  <2>1. k + 1 \in 1 .. n /\ (k + 1) - 1 = k /\ k + 1 \in 0 .. n
    OBVIOUS
  <2>2. QED BY <1>5, <1>10, <1>12, <2>1
<1>13. \A k \in 0 .. n : k \in T
  <2> HIDE DEF T
  <2>1. QED BY <1>11, <1>12, UpToN
<1>14. rest \in [0 .. n -> Int]
  <2>1. \A k \in 0 .. n : rest[k] \in Int
    BY <1>4, <1>13
  <2>2. rest = [k \in 0 .. n |-> rest[k]]
    <3>1. rest = [k \in 0 .. n |-> IF k = 0 THEN v ELSE rest[k - 1] \div ByteBase]
      BY <1>8
    <3>2. QED BY <3>1, Zenon
  <2>3. QED BY <2>1, <2>2
<1>15. Rests(v, n, rest)
  BY <1>10, <1>14 DEF Rests
<1>16. QED BY <1>7, <1>15

ByteValue == 0 .. ByteBase - 1

\* The values of the first digits of d.
Partial(d, n, val) ==
  /\ val \in [0 .. n -> Nat] /\ val[0] = 0
  /\ \A k \in 1 .. n : val[k] = val[k - 1] * ByteBase + d[k]

\* The value of digits is the last of the values of the first of them.
LEMMA ValueIs ==
  ASSUME NEW n \in Nat, NEW d \in [1 .. n -> ByteValue]
  PROVE  \E val : Partial(d, n, val) /\ ValueOf(d) = val[n]
<1> DEFINE step == [k \in 1 .. n |-> [x \in Nat |-> x * ByteBase + d[k]]]
           Right(f) == f = [k \in 0 .. n |-> IF k = 0 THEN 0 ELSE f[k - 1] * ByteBase + d[k]]
<1>1. ByteBase \in Nat /\ \A k \in 1 .. n : d[k] \in Nat
  BY BaseAssumption DEF ByteValue
<1>2. \A k \in 1 .. n : \A x \in Nat : step[k][x] = x * ByteBase + d[k]
  OBVIOUS
<1> HIDE DEF step
<1>3. StepsOn(Nat, n, step)
  <2>1. \A x \in Nat : \A c \in Nat : x * ByteBase + c \in Nat
    BY <1>1
  <2>2. QED BY <1>1, <1>2, <2>1 DEF StepsOn
<1>4. PICK f : InSteps(n, 0, step, f)
  BY <1>3, RecursionExists
<1>5. f \in [0 .. n -> Nat] /\ f[0] = 0 /\ \A k \in 1 .. n : f[k] = step[k][f[k - 1]]
  <2>1. Follows(Nat, n, 0, step, f)
    BY <1>3, <1>4, RecursionIs
  <2>2. QED BY <2>1 DEF Follows
<1>6. ASSUME NEW k \in 1 .. n PROVE f[k] = f[k - 1] * ByteBase + d[k]
  <2>1. k - 1 \in 0 .. n
    OBVIOUS
  <2>2. f[k - 1] \in Nat /\ step[k][f[k - 1]] = f[k - 1] * ByteBase + d[k]
    BY <1>2, <1>5, <2>1
  <2>3. QED BY <1>5, <2>2
<1>7. Right(f)
  <2>1. \A k \in 0 .. n : f[k] = IF k = 0 THEN 0 ELSE f[k - 1] * ByteBase + d[k]
    <3> TAKE k \in 0 .. n
    <3>1. CASE k = 0
      BY <1>5, <3>1
    <3>2. CASE k # 0
      <4>1. k \in 1 .. n
        BY <3>2
      <4>2. QED BY <1>6, <3>2, <4>1
    <3>3. QED BY <3>1, <3>2
  <2>2. f = [k \in 0 .. n |-> f[k]]
    BY <1>5
  <2>3. QED BY <2>1, <2>2, Zenon
<1> DEFINE val == CHOOSE g : Right(g)
<1>8. ValueOf(d) = val[n]
  <2>1. Len(d) = n
    OBVIOUS
  <2>2. QED BY <2>1, Zenon DEF ValueOf
<1>9. Right(val)
  <2> HIDE DEF Right
  <2>1. QED BY <1>7
<1> HIDE DEF val
<1>10. val[0] = 0 /\ \A k \in 1 .. n : val[k] = val[k - 1] * ByteBase + d[k]
  <2>1. \A k \in 0 .. n : val[k] = IF k = 0 THEN 0 ELSE val[k - 1] * ByteBase + d[k]
    BY <1>9
  <2>2. \A k \in 1 .. n : k \in 0 .. n /\ k # 0
    OBVIOUS
  <2>3. QED BY <2>1, <2>2
<1> DEFINE T == {k \in 0 .. n : val[k] \in Nat}
<1>11. 0 \in T
  BY <1>10
<1>12. ASSUME NEW k \in 0 .. n - 1, k \in T
       PROVE  k + 1 \in T
  <2>1. k + 1 \in 1 .. n /\ (k + 1) - 1 = k /\ k + 1 \in 0 .. n
    OBVIOUS
  <2>2. val[k + 1] = val[k] * ByteBase + d[k + 1] /\ val[k] \in Nat /\ d[k + 1] \in Nat
    BY <1>1, <1>10, <1>12, <2>1
  <2>3. val[k] * ByteBase \in Nat
    BY <1>1, <2>2
  <2>4. QED BY <2>1, <2>2, <2>3
<1>13. \A k \in 0 .. n : k \in T
  <2> HIDE DEF T
  <2>1. QED BY <1>11, <1>12, UpToN
<1>14. val \in [0 .. n -> Nat]
  <2>1. \A k \in 0 .. n : val[k] \in Nat
    BY <1>13
  <2>2. val = [k \in 0 .. n |-> val[k]]
    <3>1. val = [k \in 0 .. n |-> IF k = 0 THEN 0 ELSE val[k - 1] * ByteBase + d[k]]
      BY <1>9
    <3>2. QED BY <3>1, Zenon
  <2>3. QED BY <2>1, <2>2
<1>15. Partial(d, n, val)
  BY <1>10, <1>14 DEF Partial
<1>16. QED BY <1>8, <1>15

\* Dividing and putting the rest behind again; and no other way to do so.
LEMMA DivisionBy ==
  ASSUME NEW x \in Int, NEW r \in Nat \ {0}
  PROVE  /\ x \div r \in Int /\ x % r \in 0 .. r - 1
         /\ x = (x \div r) * r + (x % r)
<1> DEFINE q == x \div r  m == x % r
<1>2. q \in Int /\ m \in 0 .. r - 1 /\ x = r * q + m
  OBVIOUS
<1> HIDE DEF q, m
<1>4. r * q = q * r
  BY <1>2
<1>5. q \in Int /\ m \in 0 .. r - 1 /\ x = q * r + m
  BY <1>2, <1>4
<1>6. QED BY <1>5, Zenon DEF q, m

LEMMA RestIs ==
  ASSUME NEW x \in Int, NEW r \in Nat \ {0}, NEW a \in Int, NEW u \in 0 .. r - 1, x = a * r + u
  PROVE  x \div r = a /\ x % r = u
<1>3. PICK q \in Int, m \in 0 .. r - 1 : q = x \div r /\ m = x % r /\ x = q * r + m
  <2>1. x \div r \in Int /\ x % r \in 0 .. r - 1 /\ x = (x \div r) * r + (x % r)
    BY DivisionBy
  <2>2. QED BY <2>1, Zenon
<1>4. q = a
  <2>1. CASE q >= a + 1
    <3>1. PICK e \in Nat : q = a + 1 + e
      <4>1. q - (a + 1) \in Nat /\ q = a + 1 + (q - (a + 1))
        BY <2>1
      <4>2. QED BY <4>1
    <3>2. q * r = a * r + r + e * r /\ e * r \in Nat /\ a * r \in Int
      BY <3>1
    <3>3. QED BY <1>3, <3>2
  <2>2. CASE a >= q + 1
    <3>1. PICK e \in Nat : a = q + 1 + e
      <4>1. a - (q + 1) \in Nat /\ a = q + 1 + (a - (q + 1))
        BY <2>2
      <4>2. QED BY <4>1
    <3>2. a * r = q * r + r + e * r /\ e * r \in Nat /\ q * r \in Int
      BY <3>1
    <3>3. QED BY <1>3, <3>2
  <2>3. QED BY <2>1, <2>2
<1>5. m = u
  <2>1. a * r \in Int /\ q * r = a * r
    BY <1>4
  <2>2. QED BY <1>3, <2>1
<1>6. QED BY <1>3, <1>4, <1>5

\* The same for the base of bytes.
LEMMA Division ==
  ASSUME NEW x \in Int
  PROVE  /\ x \div ByteBase \in Int /\ x % ByteBase \in ByteValue
         /\ x = (x \div ByteBase) * ByteBase + (x % ByteBase)
<1>1. ByteBase \in Nat \ {0}
  BY BaseAssumption
<1> QED
  BY <1>1, DivisionBy DEF ByteValue

\* A digit behind a number is its rest, and the number what is left.
LEMMA LastDigit ==
  ASSUME NEW x \in Nat, NEW c \in ByteValue
  PROVE  (x * ByteBase + c) \div ByteBase = x /\ (x * ByteBase + c) % ByteBase = c
<1>0. ByteBase \in Nat \ {0} /\ c \in 0 .. ByteBase - 1
  BY BaseAssumption DEF ByteValue
<1>1. PICK y \in Int : y = x * ByteBase + c
  <2>1. x * ByteBase \in Int
    BY <1>0
  <2> QED
    BY <1>0, <2>1
<1> QED
  BY <1>0, <1>1, RestIs

\* Digits are bytes, n of them.
LEMMA DigitsType ==
  ASSUME NEW v \in Int, NEW n \in Nat
  PROVE  Digits(v, n) \in [1 .. n -> ByteValue]
<1>1. PICK rest : Rests(v, n, rest) /\ Digits(v, n) = [i \in 1 .. n |-> rest[n - i] % ByteBase]
  BY DigitsAre
<1>2. \A i \in 1 .. n : n - i \in 0 .. n
  OBVIOUS
<1>3. \A i \in 1 .. n : rest[n - i] % ByteBase \in ByteValue
  <2> TAKE i \in 1 .. n
  <2>1. rest[n - i] \in Int
    BY <1>1, <1>2 DEF Rests
  <2>2. QED BY <2>1, Division
<1>4. QED BY <1>1, <1>3

\* The value of digits is a number.
LEMMA ValueType ==
  ASSUME NEW n \in Nat, NEW d \in [1 .. n -> ByteValue]
  PROVE  ValueOf(d) \in Nat
<1>1. PICK val : Partial(d, n, val) /\ ValueOf(d) = val[n]
  BY ValueIs
<1>2. QED BY <1>1 DEF Partial

\* What is left of the value of m digits without its last k digits, of n that are looked at.
LEMMA RestOfValue ==
  ASSUME NEW m \in Nat, NEW n \in Nat, n >= m, NEW d \in [1 .. m -> ByteValue],
         NEW val, Partial(d, m, val), NEW rest, Rests(val[m], n, rest)
  PROVE  /\ \A k \in 0 .. m : rest[k] = val[m - k]
         /\ \A k \in m .. n : rest[k] = 0
<1>0. /\ val \in [0 .. m -> Nat] /\ val[0] = 0
      /\ \A k \in 1 .. m : val[k] = val[k - 1] * ByteBase + d[k]
      /\ rest[0] = val[m] /\ \A k \in 1 .. n : rest[k] = rest[k - 1] \div ByteBase
  BY DEF Partial, Rests
<1> DEFINE T == {k \in 0 .. m : rest[k] = val[m - k]}
<1>1. 0 \in T
  BY <1>0
<1>2. ASSUME NEW k \in 0 .. m - 1, k \in T
      PROVE  k + 1 \in T
  <2>1. k + 1 \in 1 .. n /\ (k + 1) - 1 = k /\ k + 1 \in 0 .. m /\ m - k \in 1 .. m /\ (m - k) - 1 = m - (k + 1) /\ m - (k + 1) \in 0 .. m
    OBVIOUS
  <2>2. rest[k + 1] = val[m - k] \div ByteBase /\ val[m - k] = val[m - (k + 1)] * ByteBase + d[m - k]
    BY <1>0, <1>2, <2>1
  <2>3. val[m - (k + 1)] \in Nat /\ d[m - k] \in ByteValue
    BY <1>0, <2>1
  <2>4. rest[k + 1] = val[m - (k + 1)]
    BY <2>2, <2>3, LastDigit
  <2>5. QED BY <2>1, <2>4
<1>3. \A k \in 0 .. m : k \in T
  <2> HIDE DEF T
  <2>1. QED BY <1>1, <1>2, UpToN
<1>4. \A k \in 0 .. m : rest[k] = val[m - k]
  BY <1>3
<1> HIDE DEF T
<1> DEFINE U == {j \in 0 .. n - m : rest[m + j] = 0}
<1>5. 0 \in U
  <2>1. m \in 0 .. m /\ m - m = 0 /\ m + 0 = m /\ 0 \in 0 .. n - m
    OBVIOUS
  <2>2. QED BY <1>0, <1>4, <2>1
<1>6. ASSUME NEW j \in 0 .. (n - m) - 1, j \in U
      PROVE  j + 1 \in U
  <2>1. m + (j + 1) \in 1 .. n /\ (m + (j + 1)) - 1 = m + j /\ j + 1 \in 0 .. n - m
    OBVIOUS
  <2>2. rest[m + (j + 1)] = 0 \div ByteBase
    BY <1>0, <1>6, <2>1
  <2>3. 0 \div ByteBase = 0
    BY BaseAssumption
  <2>4. QED BY <2>1, <2>2, <2>3
<1>7. \A j \in 0 .. n - m : j \in U
  <2>1. n - m \in Nat
    OBVIOUS
  <2> HIDE DEF U
  <2>2. QED BY <1>5, <1>6, <2>1, UpToN
<1>8. \A k \in m .. n : rest[k] = 0
  <2> TAKE k \in m .. n
  <2>1. k - m \in 0 .. n - m /\ m + (k - m) = k
    OBVIOUS
  <2>2. QED BY <1>7, <2>1
<1>9. QED BY <1>4, <1>8

\* The digits of the value of n digits are these.
LEMMA DigitsOfValue ==
  ASSUME NEW n \in Nat, NEW d \in [1 .. n -> ByteValue]
  PROVE  Digits(ValueOf(d), n) = d
<1>1. PICK val : Partial(d, n, val) /\ ValueOf(d) = val[n]
  BY ValueIs
<1>2. val[n] \in Nat
  BY <1>1 DEF Partial
<1>3. PICK rest : Rests(val[n], n, rest) /\ Digits(val[n], n) = [i \in 1 .. n |-> rest[n - i] % ByteBase]
  <2>1. PICK v \in Int : v = val[n]
    BY <1>2
  <2>2. PICK rest : Rests(v, n, rest) /\ Digits(v, n) = [i \in 1 .. n |-> rest[n - i] % ByteBase]
    BY DigitsAre
  <2> QED
    BY <2>1, <2>2
<1>4. \A k \in 0 .. n : rest[k] = val[n - k]
  BY <1>1, <1>3, RestOfValue
<1>5. ASSUME NEW i \in 1 .. n PROVE rest[n - i] % ByteBase = d[i]
  <2>1. n - i \in 0 .. n /\ n - (n - i) = i /\ i - 1 \in 0 .. n
    OBVIOUS
  <2>2. rest[n - i] = val[i] /\ val[i] = val[i - 1] * ByteBase + d[i] /\ val[i - 1] \in Nat
    BY <1>1, <1>4, <2>1 DEF Partial
  <2>3. QED BY <2>2, LastDigit
<1>6. QED BY <1>1, <1>3, <1>5

\* The value of the last n digits of a number that has no more is the number.
LEMMA ValueOfDigits ==
  ASSUME NEW v \in Int, NEW n \in Nat, NEW rest, Rests(v, n, rest), rest[n] = 0
  PROVE  ValueOf(Digits(v, n)) = v
<1>1. PICK r : Rests(v, n, r) /\ Digits(v, n) = [i \in 1 .. n |-> r[n - i] % ByteBase]
  BY DigitsAre
<1> DEFINE T == {k \in 0 .. n : r[k] = rest[k]}
<1>2. 0 \in T
  BY <1>1 DEF Rests
<1>3. ASSUME NEW k \in 0 .. n - 1, k \in T
      PROVE  k + 1 \in T
  <2>1. k + 1 \in 1 .. n /\ (k + 1) - 1 = k /\ k + 1 \in 0 .. n
    OBVIOUS
  <2>2. QED BY <1>1, <1>3, <2>1 DEF Rests
<1>4. \A k \in 0 .. n : k \in T
  <2> HIDE DEF T
  <2>1. QED BY <1>2, <1>3, UpToN
<1>5. r[n] = 0
  BY <1>4
<1> HIDE DEF T
<1> DEFINE d == Digits(v, n)
<1>6. d \in [1 .. n -> ByteValue] /\ \A i \in 1 .. n : d[i] = r[n - i] % ByteBase
  BY <1>1, DigitsType
<1> HIDE DEF d
<1>7. PICK val : Partial(d, n, val) /\ ValueOf(d) = val[n]
  BY <1>6, ValueIs
<1> DEFINE U == {k \in 0 .. n : val[k] = r[n - k]}
<1>8. 0 \in U
  BY <1>5, <1>7 DEF Partial
<1>9. ASSUME NEW k \in 0 .. n - 1, k \in U
      PROVE  k + 1 \in U
  <2>1. k + 1 \in 1 .. n /\ (k + 1) - 1 = k /\ k + 1 \in 0 .. n /\ n - k \in 1 .. n /\ (n - k) - 1 = n - (k + 1) /\ n - (k + 1) \in 0 .. n
    OBVIOUS
  <2>2. val[k + 1] = r[n - k] * ByteBase + (r[n - (k + 1)] % ByteBase)
    <3>1. val[k + 1] = val[k] * ByteBase + d[k + 1]
      BY <1>7, <2>1 DEF Partial
    <3>2. d[k + 1] = r[n - (k + 1)] % ByteBase
      BY <1>6, <2>1
    <3>3. val[k] = r[n - k]
      BY <1>9
    <3> HIDE DEF U
    <3>4. QED BY <3>1, <3>2, <3>3, Zenon
  <2>3. r[n - k] = r[n - (k + 1)] \div ByteBase /\ r[n - (k + 1)] \in Int
    BY <1>1, <2>1 DEF Rests
  <2>4. val[k + 1] = r[n - (k + 1)]
    BY <2>2, <2>3, Division
  <2>5. QED BY <2>1, <2>4
<1>10. \A k \in 0 .. n : k \in U
  <2> HIDE DEF U
  <2>1. QED BY <1>8, <1>9, UpToN
<1>11. val[n] = r[0]
  BY <1>10
<1>12. r[0] = v
  BY <1>1 DEF Rests
<1>13. QED BY <1>7, <1>11, <1>12 DEF d

\* A number of m digits is what n digits can hold, if n is not less.
LEMMA HeldWide ==
  ASSUME NEW m \in Nat, NEW n \in Nat, n >= m, NEW d \in [1 .. m -> ByteValue]
  PROVE  ValueOf(Digits(ValueOf(d), n)) = ValueOf(d)
<1>1. PICK val : Partial(d, m, val) /\ ValueOf(d) = val[m]
  BY ValueIs
<1>2. val[m] \in Nat
  BY <1>1 DEF Partial
<1>3. PICK rest : Rests(val[m], n, rest)
  <2>1. PICK v \in Int : v = val[m]
    BY <1>2
  <2>2. PICK rest : Rests(v, n, rest)
    BY DigitsAre
  <2> QED
    BY <2>1, <2>2
<1>4. rest[n] = 0
  <2>1. n \in m .. n
    OBVIOUS
  <2>2. QED BY <1>1, <1>3, <2>1, RestOfValue
<1>5. QED BY <1>1, <1>2, <1>3, <1>4, ValueOfDigits

\* What n bytes hold of a number.
Held(v, n) == ValueOf(Digits(v, n))

\* Bytes turned round twice are as they were.
LEMMA TurnedRound ==
  ASSUME NEW n \in Nat, NEW d \in [1 .. n -> ByteValue]
  PROVE  Reverse(d) \in [1 .. n -> ByteValue] /\ Reverse(Reverse(d)) = d
<1>1. Len(d) = n
  OBVIOUS
<1>2. Reverse(d) = [i \in 1 .. n |-> d[(n - i) + 1]]
  BY <1>1 DEF Reverse
<1>3. \A i \in 1 .. n : (n - i) + 1 \in 1 .. n /\ (n - ((n - i) + 1)) + 1 = i
  OBVIOUS
<1>4. PICK r : r = Reverse(d)
  OBVIOUS
<1>5. r \in [1 .. n -> ByteValue] /\ \A i \in 1 .. n : r[i] = d[(n - i) + 1]
  BY <1>2, <1>3, <1>4
<1>6. Len(r) = n
  BY <1>5
<1>7. Reverse(r) = [i \in 1 .. n |-> r[(n - i) + 1]]
  BY <1>6 DEF Reverse
<1>8. \A i \in 1 .. n : r[(n - i) + 1] = d[i]
  BY <1>3, <1>5
<1>9. Reverse(r) = d
  BY <1>7, <1>8
<1>10. QED BY <1>4, <1>5, <1>9

\* In memory there are n bytes.
LEMMA MemoryType ==
  ASSUME NEW v \in Int, NEW n \in Nat, NEW order
  PROVE  InMemory(v, n, order) \in [1 .. n -> ByteValue]
BY DigitsType, TurnedRound DEF InMemory

\* What n bytes hold of a number is a number.
LEMMA HeldType ==
  ASSUME NEW v \in Int, NEW n \in Nat
  PROVE  Held(v, n) \in Nat
BY DigitsType, ValueType DEF Held

\* What is read in the order in which it was written.
LEMMA ReadAsStored ==
  ASSUME NEW v \in Int, NEW n \in Nat, NEW order
  PROVE  FromMemory(InMemory(v, n, order), order) = Held(v, n)
<1>1. Digits(v, n) \in [1 .. n -> ByteValue]
  BY DigitsType
<1>2. Reverse(Reverse(Digits(v, n))) = Digits(v, n)
  BY <1>1, TurnedRound
<1>3. QED BY <1>2 DEF InMemory, FromMemory, Held

\* The bytes of a number are those of what they hold of it.
LEMMA StoredAsHeld ==
  ASSUME NEW v \in Int, NEW n \in Nat, NEW order
  PROVE  InMemory(Held(v, n), n, order) = InMemory(v, n, order)
<1>1. Digits(v, n) \in [1 .. n -> ByteValue]
  BY DigitsType
<1>2. Digits(Held(v, n), n) = Digits(v, n)
  BY <1>1, DigitsOfValue DEF Held
<1>3. QED BY <1>2 DEF InMemory

\* What the receiver makes of an integer that the sender has stored.
LEMMA ReadFromAnyHost ==
  ASSUME NEW v \in Int, NEW n \in Nat, NEW from \in Order, NEW to \in Order
  PROVE  IntegerToLocalByte(FromMemory(InMemory(v, n, from), to), n, to, from = "big") = Held(v, n)
<1> DEFINE there == InMemory(v, n, from)
<1>1. Digits(v, n) \in [1 .. n -> ByteValue]
  BY DigitsType
<1>2. CASE from = to
  <2>1. FromMemory(there, to) = Held(v, n)
    BY <1>2, ReadAsStored
  <2>2. ~ ((to = "big") # (from = "big"))
    BY <1>2
  <2>3. QED BY <2>1, <2>2 DEF IntegerToLocalByte
<1>3. CASE from # to
  <2> DEFINE turned == Reverse(Digits(v, n))
  <2>1. turned \in [1 .. n -> ByteValue] /\ Reverse(turned) = Digits(v, n)
    BY <1>1, TurnedRound
  <2>2. FromMemory(there, to) = ValueOf(turned)
    <3>1. CASE to = "big"
      <4>1. from # "big"
        BY <1>3, <3>1
      <4>2. QED BY <3>1, <4>1 DEF FromMemory, InMemory
    <3>2. CASE to # "big"
      <4>1. from = "big"
        BY <1>3, <3>2 DEF Order
      <4>2. QED BY <3>2, <4>1 DEF FromMemory, InMemory
    <3>3. QED BY <3>1, <3>2
  <2>3. (to = "big") # (from = "big")
    BY <1>3 DEF Order
  <2> HIDE DEF there, turned
  <2>4. Digits(ValueOf(turned), n) = turned
    BY <2>1, DigitsOfValue
  <2>5. SwapBytes(ValueOf(turned), n) = Held(v, n)
    BY <2>1, <2>4 DEF SwapBytes, Held
  <2>6. IntegerToLocalByte(FromMemory(there, to), n, to, from = "big") = Held(v, n)
    BY <2>2, <2>3, <2>5 DEF IntegerToLocalByte
  <2>7. QED BY <2>6 DEF there
<1>4. QED BY <1>2, <1>3

\* A byte is the same in any order.
LEMMA OneByte ==
  ASSUME NEW v \in Int, NEW from, NEW to
  PROVE  InMemory(v, 1, from) = InMemory(v, 1, to)
<1> DEFINE d == Digits(v, 1)
<1>1. d \in [1 .. 1 -> ByteValue]
  BY DigitsType
<1> HIDE DEF d
<1>2. Len(d) = 1
  BY <1>1
<1>3. Reverse(d) = [i \in 1 .. 1 |-> d[(1 - i) + 1]]
  BY <1>2 DEF Reverse
<1>4. \A i \in 1 .. 1 : (1 - i) + 1 = i
  OBVIOUS
<1>5. Reverse(d) = d
  BY <1>1, <1>3, <1>4
<1>6. QED BY <1>5 DEF InMemory, d

\* What comes back from a host is what it could hold.
LEMMA HeldTwice ==
  ASSUME NEW v \in Int, NEW m \in Nat, NEW n \in Nat
  PROVE  Held(Held(Held(v, m), n), m) = Held(Held(v, m), n)
<1>1. Digits(v, m) \in [1 .. m -> ByteValue] /\ Held(v, m) \in Nat
  BY DigitsType, HeldType
<1>2. CASE n >= m
  <2>1. Held(Held(v, m), n) = Held(v, m)
    BY <1>1, <1>2, HeldWide DEF Held
  <2>2. Held(Held(v, m), m) = Held(v, m)
    <3>1. m >= m
      OBVIOUS
    <3>2. QED BY <1>1, <3>1, HeldWide DEF Held
  <2>3. QED BY <2>1, <2>2
<1>3. CASE m >= n
  <2>1. Digits(Held(v, m), n) \in [1 .. n -> ByteValue]
    BY <1>1, DigitsType
  <2>2. QED BY <1>3, <2>1, HeldWide DEF Held
<1>4. QED BY <1>2, <1>3

-----------------------------------------------------------------------------
(* Where the elements of a view lie. *)

\* The size of an item, and the next multiple of it.
LEMMA SizeType ==
  ASSUME NEW item \in ViewItem, NEW host \in Host
  PROVE  Size(item, host) \in Nat \ {0} /\ item.count \in Nat \ {0}
<1>1. item.kind \in {"plain", "short", "long"} /\ item.count \in Nat \ {0}
  BY ViewAssumption DEF ViewItem
<1>2. host.long \in Nat \ {0} /\ FixedCount \in Nat \ {0}
  BY ViewAssumption DEF Host
<1>3. QED BY <1>1, <1>2 DEF Size

\* Rounding up does not take away.
LEMMA RoundedUp ==
  ASSUME NEW x \in Nat, NEW b \in Nat \ {0}
  PROVE  RoundUp(x, b) \in Nat /\ RoundUp(x, b) >= x
<1> DEFINE y == x + b - 1  q == y \div b  m == y % b
<1>1. y \in Nat
  OBVIOUS
<1>2. q \in Int /\ m \in 0 .. b - 1 /\ y = b * q + m
  <2> HIDE DEF y
  <2>1. QED BY <1>1
<1>3. RoundUp(x, b) = q * b
  BY DEF RoundUp
<1>4. x + b - 1 = b * q + m
  BY <1>2
<1> HIDE DEF y, q, m
<1>5. q * b = b * q /\ q * b \in Int
  BY <1>2
<1>6. q * b >= x
  BY <1>2, <1>4, <1>5
<1>7. QED BY <1>3, <1>5, <1>6

\* Items lie one behind the other.
Behind(items, host, place) ==
  /\ place \in [1 .. Len(items) + 1 -> Nat]
  /\ \A k \in 1 .. Len(items) : place[k] + items[k].count * Size(items[k], host) <= place[k + 1]

\* What the compiler makes of a view: no item begins before the end of the one before it.
LEMMA PlacesAre ==
  ASSUME NEW n \in Nat \ {0}, NEW items \in [1 .. n -> ViewItem], NEW host \in Host
  PROVE  Len(items) = n /\ Behind(items, host, Place(items, host))
<1>1. Len(items) = n
  OBVIOUS
<1> DEFINE E(k, x) == x + items[k].count * Size(items[k], host)
           Right(f) == f = [k \in 1 .. n + 1 |->
                              LET end == IF k = 1 THEN 0 ELSE f[k - 1] + items[k - 1].count * Size(items[k - 1], host)
                              IN IF k > n THEN end ELSE RoundUp(end, Size(items[k], host))]
           base == RoundUp(0, Size(items[1], host))
           step == [k \in 1 .. n |-> [x \in Nat |-> IF k + 1 > n THEN E(k, x) ELSE RoundUp(E(k, x), Size(items[k + 1], host))]]
<1>2. \A k \in 1 .. n : Size(items[k], host) \in Nat \ {0} /\ items[k].count \in Nat \ {0}
  BY SizeType
<1>3. ASSUME NEW k \in 1 .. n, NEW x \in Nat
      PROVE  E(k, x) \in Nat
  <2>1. items[k].count * Size(items[k], host) \in Nat
    BY <1>2
  <2>2. QED BY <2>1
<1>4. \A k \in 1 .. n : \A x \in Nat :
        step[k][x] = IF k + 1 > n THEN E(k, x) ELSE RoundUp(E(k, x), Size(items[k + 1], host))
  OBVIOUS
<1> HIDE DEF E, step, base
<1>5. ASSUME NEW k \in 1 .. n, NEW x \in Nat
      PROVE  step[k][x] \in Nat /\ step[k][x] >= E(k, x)
  <2>0. PICK e \in Nat : e = E(k, x)
    BY <1>3
  <2>1. CASE k + 1 > n
    <3>1. step[k][x] = e
      BY <1>4, <2>0, <2>1
    <3>2. QED BY <2>0, <3>1
  <2>2. CASE ~ (k + 1 > n)
    <3>1. k + 1 \in 1 .. n
      BY <2>2
    <3>2. step[k][x] = RoundUp(e, Size(items[k + 1], host))
      BY <1>4, <2>0, <2>2
    <3>3. Size(items[k + 1], host) \in Nat \ {0}
      BY <1>2, <3>1
    <3>4. step[k][x] \in Nat /\ step[k][x] >= e
      BY <3>2, <3>3, RoundedUp
    <3>5. QED BY <2>0, <3>4
  <2>3. QED BY <2>1, <2>2
<1>6. base \in Nat
  <2>1. 1 \in 1 .. n /\ 0 \in Nat
    OBVIOUS
  <2>2. QED BY <1>2, <2>1, RoundedUp DEF base
<1>7. StepsOn(Nat, n, step)
  BY <1>5 DEF StepsOn
<1>8. PICK f : InSteps(n, base, step, f)
  BY <1>6, <1>7, RecursionExists
<1>9. f \in [0 .. n -> Nat] /\ f[0] = base /\ \A k \in 1 .. n : f[k] = step[k][f[k - 1]]
  <2>1. Follows(Nat, n, base, step, f)
    BY <1>6, <1>7, <1>8, RecursionIs
  <2>2. QED BY <2>1 DEF Follows
<1> DEFINE g == [k \in 1 .. n + 1 |-> f[k - 1]]
<1>10. Right(g)
  <2>1. ASSUME NEW k \in 1 .. n + 1
        PROVE  g[k] = LET end == IF k = 1 THEN 0 ELSE g[k - 1] + items[k - 1].count * Size(items[k - 1], host)
                      IN IF k > n THEN end ELSE RoundUp(end, Size(items[k], host))
    <3>1. CASE k = 1
      <4>1. g[k] = base /\ ~ (k > n)
        BY <1>9, <3>1
      <4>2. QED BY <3>1, <4>1 DEF base
    <3>2. CASE k # 1
      <4>1. k - 1 \in 1 .. n /\ k - 1 \in 1 .. n + 1 /\ (k - 1) - 1 \in 0 .. n /\ (k - 1) + 1 = k
        BY <3>2
      <4>2. g[k] = step[k - 1][f[(k - 1) - 1]] /\ f[(k - 1) - 1] \in Nat /\ g[k - 1] = f[(k - 1) - 1]
        BY <1>9, <4>1
      <4> HIDE DEF g
      <4>3. g[k] = IF k > n THEN E(k - 1, g[k - 1]) ELSE RoundUp(E(k - 1, g[k - 1]), Size(items[k], host))
        BY <1>4, <4>1, <4>2
      <4>4. E(k - 1, g[k - 1]) = g[k - 1] + items[k - 1].count * Size(items[k - 1], host)
        BY DEF E
      <4>5. QED BY <3>2, <4>3, <4>4
    <3>3. QED BY <3>1, <3>2
  <2>2. g = [k \in 1 .. n + 1 |-> g[k]]
    OBVIOUS
  <2> HIDE DEF g
  <2>3. QED BY <2>1, <2>2, Zenon
<1> DEFINE at == CHOOSE h : Right(h)
<1>11. Place(items, host) = at
  BY <1>1, Zenon DEF Place
<1>12. Right(at)
  <2> HIDE DEF Right, g
  <2>1. QED BY <1>10
<1> HIDE DEF at, g
<1>13. \A k \in 1 .. n + 1 : at[k] = LET end == IF k = 1 THEN 0 ELSE at[k - 1] + items[k - 1].count * Size(items[k - 1], host)
                                     IN IF k > n THEN end ELSE RoundUp(end, Size(items[k], host))
  BY <1>12
<1>14. at[1] = base
  <2>1. 1 \in 1 .. n + 1 /\ ~ (1 > n)
    OBVIOUS
  <2>2. QED BY <1>13, <2>1 DEF base
<1>15. \A k \in 1 .. n : at[k + 1] = IF k + 1 > n THEN E(k, at[k]) ELSE RoundUp(E(k, at[k]), Size(items[k + 1], host))
  <2> TAKE k \in 1 .. n
  <2>1. k + 1 \in 1 .. n + 1 /\ k + 1 # 1 /\ (k + 1) - 1 = k
    OBVIOUS
  <2>2. QED BY <1>13, <2>1 DEF E
<1>16. ASSUME NEW k \in 1 .. n, at[k] \in Nat
       PROVE  at[k + 1] \in Nat /\ at[k + 1] >= E(k, at[k])
  <2>1. at[k + 1] = step[k][at[k]]
    BY <1>4, <1>15, <1>16
  <2>2. QED BY <1>5, <1>16, <2>1
<1> DEFINE T == {k \in 0 .. n : at[k + 1] \in Nat}
<1>17. 0 \in T
  <2>1. 0 \in 0 .. n /\ 0 + 1 = 1
    OBVIOUS
  <2>2. QED BY <1>6, <1>14, <2>1
<1>18. ASSUME NEW k \in 0 .. n - 1, k \in T
       PROVE  k + 1 \in T
  <2>1. k + 1 \in 1 .. n /\ k + 1 \in 0 .. n
    OBVIOUS
  <2>2. QED BY <1>16, <1>18, <2>1
<1>19. \A k \in 0 .. n : k \in T
  <2> HIDE DEF T
  <2>1. QED BY <1>17, <1>18, UpToN
<1>20. \A k \in 1 .. n + 1 : at[k] \in Nat
  <2> TAKE k \in 1 .. n + 1
  <2>1. k - 1 \in 0 .. n /\ (k - 1) + 1 = k
    OBVIOUS
  <2>2. QED BY <1>19, <2>1
<1>21. at \in [1 .. n + 1 -> Nat]
  <2>1. at = [k \in 1 .. n + 1 |-> at[k]]
    <3>1. at = [k \in 1 .. n + 1 |-> LET end == IF k = 1 THEN 0 ELSE at[k - 1] + items[k - 1].count * Size(items[k - 1], host)
                                     IN IF k > n THEN end ELSE RoundUp(end, Size(items[k], host))]
      BY <1>12
    <3>2. QED BY <3>1, Zenon
  <2>2. QED BY <1>20, <2>1
<1>22. \A k \in 1 .. n : at[k] + items[k].count * Size(items[k], host) <= at[k + 1]
  <2> TAKE k \in 1 .. n
  <2>1. k \in 1 .. n + 1
    OBVIOUS
  <2>2. at[k + 1] >= E(k, at[k]) /\ at[k + 1] \in Nat /\ at[k] \in Nat
    BY <1>16, <1>20, <2>1
  <2>3. E(k, at[k]) \in Nat
    BY <1>3, <2>2
  <2>4. QED BY <2>2, <2>3 DEF E
<1>23. QED BY <1>1, <1>11, <1>21, <1>22 DEF Behind

\* More of the same size take more room.
LEMMA MoreOfThem ==
  ASSUME NEW e \in Nat, NEW c \in Nat, NEW w \in Nat, e <= c
  PROVE  e * w \in Nat /\ c * w \in Nat /\ e * w <= c * w
<1>1. PICK r \in Nat : c = e + r
  <2>1. c - e \in Nat /\ c = e + (c - e)
    OBVIOUS
  <2>2. QED BY <2>1
<1>2. c * w = e * w + r * w /\ r * w \in Nat /\ e * w \in Nat
  BY <1>1
<1>3. QED BY <1>2

\* Later items begin behind the end of earlier ones.
LEMMA BehindAll ==
  ASSUME NEW n \in Nat \ {0}, NEW items \in [1 .. n -> ViewItem], NEW host \in Host,
         NEW k \in 1 .. n, NEW j \in k + 1 .. n + 1
  PROVE  Place(items, host)[k] + items[k].count * Size(items[k], host) <= Place(items, host)[j]
<1> DEFINE place == Place(items, host)
           room == items[k].count * Size(items[k], host)
<1>1. Len(items) = n /\ place \in [1 .. n + 1 -> Nat]
      /\ \A i \in 1 .. n : place[i] + items[i].count * Size(items[i], host) <= place[i + 1]
  BY PlacesAre DEF Behind
<1>2. \A i \in 1 .. n : items[i].count * Size(items[i], host) \in Nat
  <2> TAKE i \in 1 .. n
  <2>1. Size(items[i], host) \in Nat /\ items[i].count \in Nat
    BY SizeType
  <2>2. QED BY <2>1
<1>3. \A i \in 1 .. n : place[i] <= place[i + 1]
  <2> TAKE i \in 1 .. n
  <2>1. i + 1 \in 1 .. n + 1 /\ i \in 1 .. n + 1
    OBVIOUS
  <2>2. place[i] \in Nat /\ place[i + 1] \in Nat
    BY <1>1, <2>1
  <2>3. PICK r \in Nat : r = items[i].count * Size(items[i], host)
    BY <1>2
  <2>4. place[i] + r <= place[i + 1]
    BY <1>1, <2>3
  <2> HIDE DEF place
  <2>5. QED BY <2>2, <2>3, <2>4
<1>4. place[k] + room <= place[k + 1] /\ room \in Nat
  BY <1>1, <1>2
<1> HIDE DEF place, room
<1> DEFINE T == {i \in 0 .. n - k : place[k] + room <= place[k + 1 + i]}
<1>5. 0 \in T
  <2>1. 0 \in 0 .. n - k /\ k + 1 + 0 = k + 1
    OBVIOUS
  <2>2. QED BY <1>4, <2>1
<1>6. ASSUME NEW i \in 0 .. (n - k) - 1, i \in T
      PROVE  i + 1 \in T
  <2>1. k + 1 + i \in 1 .. n /\ (k + 1 + i) + 1 = k + 1 + (i + 1) /\ i + 1 \in 0 .. n - k
    OBVIOUS
  <2>2. k \in 1 .. n + 1 /\ k + 1 + i \in 1 .. n + 1 /\ k + 1 + (i + 1) \in 1 .. n + 1
    OBVIOUS
  <2>3. place[k] \in Nat /\ place[k + 1 + i] \in Nat /\ place[k + 1 + (i + 1)] \in Nat
    BY <1>1, <2>2
  <2>4. place[k + 1 + i] <= place[k + 1 + (i + 1)] /\ place[k] + room <= place[k + 1 + i]
    BY <1>3, <1>6, <2>1
  <2>5. place[k] + room <= place[k + 1 + (i + 1)]
    BY <1>4, <2>3, <2>4
  <2>6. QED BY <2>1, <2>5
<1>7. \A i \in 0 .. n - k : i \in T
  <2>1. n - k \in Nat
    OBVIOUS
  <2> HIDE DEF T
  <2>2. QED BY <1>5, <1>6, <2>1, UpToN
<1>8. j - (k + 1) \in 0 .. n - k /\ k + 1 + (j - (k + 1)) = j
  OBVIOUS
<1>9. place[k] + room <= place[j]
  BY <1>7, <1>8
<1>10. QED BY <1>9 DEF place, room

\* An element is one of an item.
LEMMA ElementOf ==
  ASSUME NEW n \in Nat \ {0}, NEW items \in [1 .. n -> ViewItem], NEW p
  PROVE  p \in Elements(items) <=> /\ p = <<p[1], p[2]>> /\ p[1] \in 1 .. n
                                   /\ p[2] \in 1 .. items[p[1]].count
BY DEF Elements

\* The room of an element is within that of its item.
LEMMA ElementWithin ==
  ASSUME NEW n \in Nat \ {0}, NEW items \in [1 .. n -> ViewItem], NEW host \in Host,
         NEW p \in Elements(items)
  PROVE  /\ p[1] \in 1 .. n /\ p[2] \in 1 .. items[p[1]].count
         /\ Size(items[p[1]], host) \in Nat \ {0}
         /\ Place(items, host)[p[1]] \in Nat
         /\ ElementAt(items, host, p) \in Nat /\ ElementAt(items, host, p) >= Place(items, host)[p[1]]
         /\ ElementAt(items, host, p) + Size(items[p[1]], host) = Place(items, host)[p[1]] + p[2] * Size(items[p[1]], host)
         /\ ElementAt(items, host, p) + Size(items[p[1]], host)
              <= Place(items, host)[p[1]] + items[p[1]].count * Size(items[p[1]], host)
<1>1. p[1] \in 1 .. n /\ p[2] \in 1 .. items[p[1]].count
  BY ElementOf
<1>2. items[p[1]] \in ViewItem
  BY <1>1
<1> DEFINE e == p[2]  c == items[p[1]].count  w == Size(items[p[1]], host)  at == Place(items, host)[p[1]]
<1>3. w \in Nat \ {0} /\ c \in Nat \ {0} /\ e \in 1 .. c
  BY <1>1, <1>2, SizeType
<1>4. at \in Nat
  <2>1. Len(items) = n /\ Place(items, host) \in [1 .. Len(items) + 1 -> Nat]
    BY PlacesAre DEF Behind
  <2>2. p[1] \in 1 .. n + 1
    BY <1>1
  <2>3. QED BY <2>1, <2>2
<1>5. ElementAt(items, host, p) = at + (e - 1) * w
  BY DEF ElementAt
<1> HIDE DEF e, c, w, at
<1>6. e - 1 \in Nat /\ e \in Nat /\ c \in Nat /\ w \in Nat /\ e <= c
  BY <1>3
<1>7. e * w \in Nat /\ c * w \in Nat /\ e * w <= c * w
  BY <1>6, MoreOfThem
<1>8. (e - 1) * w \in Nat /\ (e - 1) * w + w = e * w
  BY <1>6
<1>9. /\ at + (e - 1) * w \in Nat /\ at + (e - 1) * w >= at
      /\ at + (e - 1) * w + w = at + e * w /\ at + (e - 1) * w + w <= at + c * w
  BY <1>4, <1>6, <1>7, <1>8
<1>10. QED BY <1>1, <1>3, <1>4, <1>5, <1>9 DEF e, c, w, at

\* Two elements have no byte in common, and none is outside of the structure.
LEMMA ElementsApart ==
  ASSUME NEW n \in Nat \ {0}, NEW items \in [1 .. n -> ViewItem], NEW host \in Host,
         NEW p \in Elements(items), NEW q \in Elements(items), p # q
  PROVE  \/ ElementAt(items, host, p) + Size(items[p[1]], host) <= ElementAt(items, host, q)
         \/ ElementAt(items, host, q) + Size(items[q[1]], host) <= ElementAt(items, host, p)
<1>1. ASSUME NEW r \in Elements(items), NEW s \in Elements(items), r[1] < s[1]
      PROVE  ElementAt(items, host, r) + Size(items[r[1]], host) <= ElementAt(items, host, s)
  <2> DEFINE a == ElementAt(items, host, r) + Size(items[r[1]], host)
             b == Place(items, host)[r[1]] + items[r[1]].count * Size(items[r[1]], host)
             c == Place(items, host)[s[1]]
             d == ElementAt(items, host, s)
  <2>1. r[1] \in 1 .. n /\ s[1] \in 1 .. n
    BY ElementWithin
  <2>2. s[1] \in r[1] + 1 .. n + 1
    BY <1>1, <2>1
  <2>3. a <= b /\ c <= d /\ a \in Nat /\ c \in Nat /\ d \in Nat
    <3>1. a <= b
      BY ElementWithin
    <3>2. ElementAt(items, host, r) \in Nat /\ Size(items[r[1]], host) \in Nat
      BY ElementWithin
    <3>3. c <= d /\ c \in Nat /\ d \in Nat
      BY ElementWithin
    <3>4. QED BY <3>1, <3>2, <3>3
  <2>4. b <= c
    BY <2>1, <2>2, BehindAll
  <2>5. b \in Nat
    <3>1. /\ items[r[1]] \in ViewItem
          /\ Place(items, host)[r[1]] \in Nat
      BY <2>1, ElementWithin
    <3>2. Size(items[r[1]], host) \in Nat /\ items[r[1]].count \in Nat
      BY <3>1, SizeType
    <3>3. items[r[1]].count * Size(items[r[1]], host) \in Nat
      BY <3>2
    <3>4. QED BY <3>1, <3>3
  <2> HIDE DEF a, b, c, d
  <2>6. a <= d
    BY <2>3, <2>4, <2>5
  <2>7. QED BY <2>6 DEF a, d
<1>2. ASSUME NEW r \in Elements(items), NEW s \in Elements(items), r[1] = s[1], r[2] < s[2]
      PROVE  ElementAt(items, host, r) + Size(items[r[1]], host) <= ElementAt(items, host, s)
  <2> DEFINE w == Size(items[r[1]], host)  at == Place(items, host)[r[1]]
  <2>1. w \in Nat /\ at \in Nat /\ r[2] \in 1 .. items[r[1]].count /\ s[2] \in 1 .. items[r[1]].count
        /\ ElementAt(items, host, r) + w = at + r[2] * w
    BY <1>2, ElementWithin
  <2>2. ElementAt(items, host, s) = at + (s[2] - 1) * w
    BY <1>2 DEF ElementAt
  <2>3. r[1] \in 1 .. n
    BY ElementWithin
  <2>4. items[r[1]].count \in Nat
    BY <2>3, SizeType
  <2>5. r[2] \in Nat /\ s[2] - 1 \in Nat /\ r[2] <= s[2] - 1
    BY <1>2, <2>1, <2>4
  <2> HIDE DEF w, at
  <2>6. r[2] * w \in Nat /\ (s[2] - 1) * w \in Nat /\ r[2] * w <= (s[2] - 1) * w
    BY <2>1, <2>5, MoreOfThem
  <2>7. at + r[2] * w <= at + (s[2] - 1) * w
    <3>1. PICK x \in Nat, y \in Nat, z \in Nat : x = at /\ y = r[2] * w /\ z = (s[2] - 1) * w
      BY <2>1, <2>6
    <3>2. y <= z
      BY <2>6, <3>1
    <3>3. x + y <= x + z
      BY <3>2
    <3>4. QED BY <3>1, <3>3, Zenon
  <2>8. ElementAt(items, host, r) + w <= ElementAt(items, host, s)
    BY <2>1, <2>2, <2>7
  <2>9. QED BY <2>8 DEF w
<1>3. /\ p = <<p[1], p[2]>> /\ q = <<q[1], q[2]>> /\ p[1] \in Nat /\ q[1] \in Nat
      /\ p[2] \in 1 .. items[p[1]].count /\ q[2] \in 1 .. items[q[1]].count
      /\ p[1] \in 1 .. n /\ q[1] \in 1 .. n
  BY ElementOf
<1>4. p[2] \in Int /\ q[2] \in Int
  <2>1. items[p[1]].count \in Nat /\ items[q[1]].count \in Nat
    BY <1>3, SizeType
  <2>2. QED BY <1>3, <2>1
<1>5. p[1] < q[1] \/ q[1] < p[1] \/ (p[1] = q[1] /\ (p[2] < q[2] \/ q[2] < p[2]))
  BY <1>3, <1>4
<1>6. QED BY <1>1, <1>2, <1>5

\* No element reaches beyond the end of the structure.
LEMMA ElementInside ==
  ASSUME NEW n \in Nat \ {0}, NEW items \in [1 .. n -> ViewItem], NEW host \in Host,
         NEW p \in Elements(items)
  PROVE  ElementAt(items, host, p) + Size(items[p[1]], host) <= StructSize(items, host) /\ StructSize(items, host) \in Nat
<1>1. /\ p[1] \in 1 .. n /\ ElementAt(items, host, p) \in Nat /\ Place(items, host)[p[1]] \in Nat
      /\ Size(items[p[1]], host) \in Nat
      /\ ElementAt(items, host, p) + Size(items[p[1]], host)
           <= Place(items, host)[p[1]] + items[p[1]].count * Size(items[p[1]], host)
  BY ElementWithin
<1>2. StructSize(items, host) = Place(items, host)[n + 1] /\ StructSize(items, host) \in Nat
  <2>1. Len(items) = n /\ Place(items, host) \in [1 .. Len(items) + 1 -> Nat]
    BY PlacesAre DEF Behind
  <2>2. n + 1 \in 1 .. n + 1
    OBVIOUS
  <2>3. QED BY <2>1, <2>2 DEF StructSize
<1>3. n + 1 \in p[1] + 1 .. n + 1
  BY <1>1
<1>4. Place(items, host)[p[1]] + items[p[1]].count * Size(items[p[1]], host) <= Place(items, host)[n + 1]
  BY <1>1, <1>3, BehindAll
<1>5. items[p[1]].count * Size(items[p[1]], host) \in Nat
  <2>1. items[p[1]].count \in Nat
    BY <1>1, SizeType
  <2>2. QED BY <1>1, <2>1
<1>6. QED BY <1>1, <1>2, <1>4, <1>5

\* The elements are written where the host has them, as many bytes as each has.
LaidOut(items, host, at, bytes) ==
  /\ at = [q \in Elements(items) |-> ElementAt(items, host, q)]
  /\ \A q \in Elements(items) : bytes[q] \in [1 .. Size(items[q[1]], host) -> ByteValue]

\* In a structure every element has the bytes that were written for it.
LEMMA BytesOfElement ==
  ASSUME NEW n \in Nat \ {0}, NEW items \in [1 .. n -> ViewItem], NEW host \in Host,
         NEW at, NEW bytes, LaidOut(items, host, at, bytes), NEW p \in Elements(items)
  PROVE  Bytes(Structure(items, host, at, bytes), items, host, p) = bytes[p]
<1> DEFINE Over(b) == {q \in Elements(items) : at[q] < b /\ b <= at[q] + Len(bytes[q])}
           memory == Structure(items, host, at, bytes)
<1>0. /\ at = [q \in Elements(items) |-> ElementAt(items, host, q)]
      /\ \A q \in Elements(items) : bytes[q] \in [1 .. Size(items[q[1]], host) -> ByteValue]
  BY DEF LaidOut
<1>1. PICK a \in Nat, w \in Nat \ {0} : a = ElementAt(items, host, p) /\ w = Size(items[p[1]], host)
  BY ElementWithin
<1>2. at[p] = a /\ bytes[p] \in [1 .. w -> ByteValue] /\ Len(bytes[p]) = w
  BY <1>0, <1>1
<1>3. StructSize(items, host) \in Nat /\ a + w <= StructSize(items, host)
  BY <1>1, ElementInside
<1>4. ASSUME NEW i \in 1 .. w
      PROVE  memory[a + i] = bytes[p][i] /\ bytes[p][i] \in ByteValue
  <2>1. a + i \in 1 .. StructSize(items, host)
    BY <1>1, <1>3
  <2>2. p \in Over(a + i)
    <3>1. a < a + i /\ a + i <= a + w
      BY <1>1
    <3>2. QED BY <1>2, <3>1
  <2>3. ASSUME NEW q \in Over(a + i) PROVE q = p
    <3>1. SUFFICES ASSUME q # p PROVE FALSE
      OBVIOUS
    <3>2. q \in Elements(items) /\ at[q] < a + i /\ a + i <= at[q] + Len(bytes[q])
      OBVIOUS
    <3>3. PICK c \in Nat, z \in Nat \ {0} : c = ElementAt(items, host, q) /\ z = Size(items[q[1]], host)
      BY <3>2, ElementWithin
    <3>4. bytes[q] \in [1 .. z -> ByteValue] /\ at[q] = c
      BY <1>0, <3>2, <3>3
    <3>5. Len(bytes[q]) = z
      BY <3>4
    <3>6. a + w <= c \/ c + z <= a
      BY <1>1, <3>1, <3>2, <3>3, ElementsApart
    <3>7. c < a + i /\ a + i <= c + z
      BY <3>2, <3>4, <3>5
    <3>8. QED BY <1>1, <3>3, <3>6, <3>7
  <2>4. Over(a + i) = {p}
    <3> HIDE DEF Over
    <3>1. QED BY <2>2, <2>3
  <2>5. Latest({p}) = p
    <3>1. p[2] <= p[2]
      <4>1. p[2] \in 1 .. items[p[1]].count /\ items[p[1]] \in ViewItem
        BY ElementWithin
      <4>2. items[p[1]].count \in Nat
        BY <4>1, SizeType
      <4>3. QED BY <4>1, <4>2
    <3>2. p \in {p} /\ \A q \in {p} : q[1] < p[1] \/ (q[1] = p[1] /\ q[2] <= p[2])
      BY <3>1
    <3>3. QED BY <3>2 DEF Latest
  <2>6. memory[a + i] = IF Over(a + i) = {} THEN 0 ELSE bytes[Latest(Over(a + i))][(a + i) - at[Latest(Over(a + i))]]
    BY <2>1 DEF Structure
  <2> HIDE DEF Over, memory
  <2>7. memory[a + i] = bytes[p][(a + i) - a]
    BY <1>2, <2>4, <2>5, <2>6
  <2>8. (a + i) - a = i
    BY <1>1
  <2>9. QED BY <1>2, <2>7, <2>8
<1> HIDE DEF Over, memory
<1>5. Bytes(memory, items, host, p) = SubSeq(memory, a + 1, a + w)
  BY <1>1 DEF Bytes
<1>6. \A i \in a + 1 .. a + w : memory[i] \in ByteValue
  <2> TAKE i \in a + 1 .. a + w
  <2>1. i - a \in 1 .. w /\ a + (i - a) = i
    BY <1>1
  <2>2. QED BY <1>4, <2>1
<1>7. a + 1 \in Int /\ a + w \in Int /\ a + 1 <= a + w /\ (a + w) - (a + 1) + 1 = w
  BY <1>1
<1>8. PICK s : s = SubSeq(memory, a + 1, a + w)
  OBVIOUS
<1>9. /\ s \in Seq(ByteValue) /\ Len(s) = w
      /\ \A i \in 1 .. w : s[i] = memory[(a + 1) + i - 1]
  <2>1. /\ s \in Seq(ByteValue)
        /\ Len(s) = IF a + 1 <= a + w THEN (a + w) - (a + 1) + 1 ELSE 0
        /\ \A i \in 1 .. (a + w) - (a + 1) + 1 : s[i] = memory[(a + 1) + i - 1]
    BY <1>6, <1>7, <1>8, SubSeqProperties
  <2>2. QED BY <1>7, <2>1
<1>10. \A i \in 1 .. w : s[i] = bytes[p][i]
  <2> TAKE i \in 1 .. w
  <2>1. (a + 1) + i - 1 = a + i
    BY <1>1
  <2>2. QED BY <1>4, <1>9, <2>1
<1>11. s = bytes[p]
  <2>1. s \in [1 .. w -> ByteValue]
    BY <1>9
  <2>2. QED BY <1>2, <1>10, <2>1
<1>12. QED BY <1>5, <1>8, <1>11 DEF memory

\* And reading them gives what the host holds of the value.
LEMMA StoredBytes ==
  ASSUME NEW n \in Nat \ {0}, NEW items \in [1 .. n -> ViewItem], NEW host \in Host,
         NEW vals \in [Elements(items) -> Int], NEW p \in Elements(items)
  PROVE  Bytes(StoredItems(items, host, vals), items, host, p)
           = InMemory(vals[p], Size(items[p[1]], host), host.order)
<1> DEFINE at == [q \in Elements(items) |-> ElementAt(items, host, q)]
           bytes == [q \in Elements(items) |-> InMemory(vals[q], Size(items[q[1]], host), host.order)]
<1>1. \A q \in Elements(items) : bytes[q] \in [1 .. Size(items[q[1]], host) -> ByteValue]
  <2> TAKE q \in Elements(items)
  <2>1. Size(items[q[1]], host) \in Nat /\ vals[q] \in Int
    BY ElementWithin
  <2>2. QED BY <2>1, MemoryType
<1>2. StoredItems(items, host, vals) = Structure(items, host, at, bytes)
  BY DEF StoredItems
<1>3. bytes[p] = InMemory(vals[p], Size(items[p[1]], host), host.order)
  OBVIOUS
<1>4. at = [q \in Elements(items) |-> ElementAt(items, host, q)]
  OBVIOUS
<1> HIDE DEF at, bytes
<1>5. LaidOut(items, host, at, bytes)
  BY <1>1, <1>4 DEF LaidOut
<1>6. Bytes(Structure(items, host, at, bytes), items, host, p) = bytes[p]
  BY <1>5, BytesOfElement
<1>7. QED BY <1>2, <1>3, <1>6

-----------------------------------------------------------------------------
(* On the way. *)

\* An element as the receiver writes it: what the sender held, in its own way.
LEMMA AdjustedIs ==
  ASSUME NEW n \in Nat \ {0}, NEW items \in [1 .. n -> ViewItem], NEW from \in Host, NEW to \in Host,
         NEW vals \in [Elements(items) -> Int], NEW p \in Elements(items)
  PROVE  Adjusted(StoredItems(items, from, vals), items, from, to, p)
           = InMemory(Held(vals[p], Size(items[p[1]], from)), Size(items[p[1]], to), to.order)
<1> DEFINE there == Bytes(StoredItems(items, from, vals), items, from, p)
<1>1. PICK w \in Nat \ {0}, z \in Nat \ {0}, v \in Int :
        w = Size(items[p[1]], from) /\ z = Size(items[p[1]], to) /\ v = vals[p]
  BY ElementWithin
<1>2. there = InMemory(v, w, from.order)
  BY <1>1, StoredBytes
<1>3. from.order \in Order /\ to.order \in Order
  BY DEF Host
<1>4. CASE items[p[1]].kind = "plain"
  <2>1. w = 1 /\ z = 1
    BY <1>1, <1>4 DEF Size
  <2>2. Adjusted(StoredItems(items, from, vals), items, from, to, p) = there
    BY <1>4 DEF Adjusted
  <2>3. InMemory(v, 1, from.order) = InMemory(v, 1, to.order)
    BY OneByte
  <2>4. InMemory(Held(v, 1), 1, to.order) = InMemory(v, 1, to.order)
    BY StoredAsHeld
  <2>5. QED BY <1>1, <1>2, <2>1, <2>2, <2>3, <2>4
<1>5. CASE items[p[1]].kind # "plain"
  <2>1. Len(there) = w
    <3>1. there \in [1 .. w -> ByteValue]
      BY <1>2, MemoryType
    <3> HIDE DEF there
    <3>2. QED BY <1>1, <3>1
  <2>2. Adjusted(StoredItems(items, from, vals), items, from, to, p)
          = InMemory(IntegerToLocalByte(FromMemory(there, to.order), Len(there), to.order, from.order = "big"), z, to.order)
    BY <1>1, <1>5 DEF Adjusted
  <2> HIDE DEF there
  <2>3. IntegerToLocalByte(FromMemory(there, to.order), w, to.order, from.order = "big") = Held(v, w)
    BY <1>1, <1>2, <1>3, ReadFromAnyHost
  <2>4. QED BY <1>1, <2>1, <2>2, <2>3
<1>6. QED BY <1>4, <1>5

\* The whole structure: what the compiler of the receiver would make of what the sender held.
LEMMA StructureAdjusted ==
  ASSUME NEW n \in Nat \ {0}, NEW items \in [1 .. n -> ViewItem], NEW from \in Host, NEW to \in Host,
         NEW vals \in [Elements(items) -> Int]
  PROVE  AdjustStructData(StoredItems(items, from, vals), items, from, to)
           = StoredItems(items, to, [p \in Elements(items) |-> Held(vals[p], Size(items[p[1]], from))])
<1> DEFINE came == [p \in Elements(items) |-> Held(vals[p], Size(items[p[1]], from))]
           memory == StoredItems(items, from, vals)
<1>1. [p \in Elements(items) |-> LocalAt(items, to, from, p)] = [p \in Elements(items) |-> ElementAt(items, to, p)]
  BY DEF LocalAt
<1>2. [p \in Elements(items) |-> Adjusted(memory, items, from, to, p)]
        = [p \in Elements(items) |-> InMemory(came[p], Size(items[p[1]], to), to.order)]
  <2>1. \A p \in Elements(items) : Adjusted(memory, items, from, to, p) = InMemory(came[p], Size(items[p[1]], to), to.order)
    <3> TAKE p \in Elements(items)
    <3>1. came[p] = Held(vals[p], Size(items[p[1]], from))
      OBVIOUS
    <3> HIDE DEF came
    <3>2. QED BY <3>1, AdjustedIs
  <2> HIDE DEF came, memory
  <2>2. QED BY <2>1, Zenon
<1> HIDE DEF came
<1>3. AdjustStructData(memory, items, from, to) = StoredItems(items, to, came)
  BY <1>1, <1>2, Zenon DEF AdjustStructData, StoredItems
<1>4. QED BY <1>3 DEF came, memory

-----------------------------------------------------------------------------
\* What has come of the values after some hops.
Came == [p \in Elements(view) |->
           CASE hops = 0 -> values[p]
             [] hops = 1 -> Held(values[p], Size(view[p[1]], clientSide))
             [] hops = 2 -> Held(Held(values[p], Size(view[p[1]], clientSide)), Size(view[p[1]], serverSide))]

(* The structure of the host that has it is what its compiler would make   *)
(* of these.                                                               *)
AdjustInv ==
  /\ \E n \in Nat \ {0} : view \in [1 .. n -> ViewItem]
  /\ clientSide \in Host /\ serverSide \in Host
  /\ values \in [Elements(view) -> Int] /\ hops \in 0 .. 2
  /\ data = StoredItems(view, Holder, Came)

\* The client has filled its own structure.
LEMMA AdjustInit_Inv == AdjustInit => AdjustInv
<1> SUFFICES ASSUME AdjustInit PROVE AdjustInv
  OBVIOUS
<1>1. \E n \in Nat \ {0} : view \in [1 .. n -> ViewItem]
  <2>1. PICK n \in 1 .. ItemMax : view \in [1 .. n -> ViewItem]
    BY DEF AdjustInit
  <2>2. n \in Nat \ {0}
    BY ViewAssumption
  <2>3. QED BY <2>1, <2>2
<1>2. /\ clientSide \in Host /\ serverSide \in Host /\ hops = 0
      /\ values \in [Elements(view) -> GivenCount] /\ data = StoredItems(view, clientSide, values)
  BY DEF AdjustInit
<1>3. values \in [Elements(view) -> Int]
  BY <1>2, ViewAssumption
<1>4. Came = values /\ Holder = clientSide
  <2>1. Came = [p \in Elements(view) |-> values[p]]
    BY <1>2 DEF Came
  <2>2. QED BY <1>2, <1>3, <2>1 DEF Holder
<1>5. QED BY <1>1, <1>2, <1>3, <1>4 DEF AdjustInv

\* The server gets what the client could hold, the client what both could.
LEMMA AdjustNext_Inv == AdjustInv /\ [AdjustNext]_adjustVars => AdjustInv'
<1> SUFFICES ASSUME AdjustInv, [AdjustNext]_adjustVars PROVE AdjustInv'
  OBVIOUS
<1>1. PICK n \in Nat \ {0} : view \in [1 .. n -> ViewItem]
  BY DEF AdjustInv
<1>2. /\ clientSide \in Host /\ serverSide \in Host /\ values \in [Elements(view) -> Int]
      /\ hops \in 0 .. 2 /\ data = StoredItems(view, Holder, Came)
  BY DEF AdjustInv
<1>3. CASE UNCHANGED adjustVars
  <2>1. UNCHANGED <<view, clientSide, serverSide, values, hops, data>>
    BY <1>3 DEF adjustVars
  <2>2. Came' = Came /\ Holder' = Holder
    BY <2>1 DEF Came, Holder
  <2>3. QED BY <1>1, <1>2, <2>1, <2>2 DEF AdjustInv
<1>4. CASE RequestView
  <2>1. /\ hops = 0 /\ hops' = 1 /\ data' = AdjustStructData(data, view, clientSide, serverSide)
        /\ UNCHANGED <<view, clientSide, serverSide, values>>
    BY <1>4 DEF RequestView, Sends
  <2>2. data = StoredItems(view, clientSide, values)
    <3>1. Came = [p \in Elements(view) |-> values[p]]
      BY <2>1 DEF Came
    <3>2. Came = values /\ Holder = clientSide
      BY <1>2, <2>1, <3>1 DEF Holder
    <3>3. QED BY <1>2, <3>2
  <2>3. data' = StoredItems(view, serverSide, [p \in Elements(view) |-> Held(values[p], Size(view[p[1]], clientSide))])
    <3>1. PICK items \in [1 .. n -> ViewItem], from \in Host, to \in Host :
            items = view /\ from = clientSide /\ to = serverSide
      BY <1>1, <1>2
    <3>2. PICK vals \in [Elements(items) -> Int] : vals = values
      BY <1>2, <3>1
    <3>3. AdjustStructData(StoredItems(items, from, vals), items, from, to)
            = StoredItems(items, to, [p \in Elements(items) |-> Held(vals[p], Size(items[p[1]], from))])
      BY StructureAdjusted
    <3> QED
      BY <2>1, <2>2, <3>1, <3>2, <3>3, Zenon
  <2>4. Came' = [p \in Elements(view) |-> Held(values[p], Size(view[p[1]], clientSide))]
    BY <2>1 DEF Came
  <2>5. Holder' = serverSide
    BY <2>1 DEF Holder
  <2>6. data' = StoredItems(view', Holder', Came')
    BY <2>1, <2>3, <2>4, <2>5
  <2>7. hops' \in 0 .. 2
    BY <2>1
  <2>8. QED BY <1>1, <1>2, <2>1, <2>6, <2>7 DEF AdjustInv
<1>5. CASE ReplyView
  <2> DEFINE there == [p \in Elements(view) |-> Held(values[p], Size(view[p[1]], clientSide))]
  <2>1. /\ hops = 1 /\ hops' = 2 /\ data' = AdjustStructData(data, view, serverSide, clientSide)
        /\ UNCHANGED <<view, clientSide, serverSide, values>>
    BY <1>5 DEF ReplyView, Sends
  <2>2. data = StoredItems(view, serverSide, there)
    <3>1. Came = there
      BY <2>1 DEF Came
    <3>2. Holder = serverSide
      BY <2>1 DEF Holder
    <3>3. QED BY <1>2, <3>1, <3>2
  <2>3. there \in [Elements(view) -> Int]
    <3>1. \A p \in Elements(view) : values[p] \in Int /\ Size(view[p[1]], clientSide) \in Nat
      BY <1>1, <1>2, ElementWithin
    <3>2. \A p \in Elements(view) : Held(values[p], Size(view[p[1]], clientSide)) \in Nat
      BY <3>1, HeldType
    <3>3. QED BY <3>2
  <2>4. data' = StoredItems(view, clientSide, [p \in Elements(view) |-> Held(there[p], Size(view[p[1]], serverSide))])
    <3> HIDE DEF there
    <3>1. PICK come \in [Elements(view) -> Int] : come = there
      BY <2>3
    <3>2. serverSide \in Host /\ clientSide \in Host
      BY <1>2
    <3>3. come \in [Elements(view) -> Int]
      OBVIOUS
    <3>4. AdjustStructData(StoredItems(view, serverSide, come), view, serverSide, clientSide)
            = StoredItems(view, clientSide, [p \in Elements(view) |-> Held(come[p], Size(view[p[1]], serverSide))])
      BY <1>1, <3>2, <3>3, StructureAdjusted
    <3>5. QED BY <2>1, <2>2, <3>1, <3>4
  <2>5. Came' = [p \in Elements(view) |-> Held(there[p], Size(view[p[1]], serverSide))]
    BY <2>1 DEF Came
  <2>6. Holder' = clientSide
    BY <2>1 DEF Holder
  <2>7. data' = StoredItems(view', Holder', Came')
    BY <2>1, <2>4, <2>5, <2>6
  <2>8. hops' \in 0 .. 2
    BY <2>1
  <2>9. QED BY <1>1, <1>2, <2>1, <2>7, <2>8 DEF AdjustInv
<1>6. QED BY <1>3, <1>4, <1>5 DEF AdjustNext

\* How many numbers n bytes tell apart.
Powers(n, pow) ==
  /\ pow \in [0 .. n -> Nat \ {0}] /\ pow[0] = 1
  /\ \A k \in 1 .. n : pow[k] = pow[k - 1] * ByteBase

LEMMA CapacityIs ==
  ASSUME NEW n \in Nat
  PROVE  \E pow : Powers(n, pow) /\ Capacity(n) = pow[n]
<1> DEFINE S == Nat \ {0}
           step == [k \in 1 .. n |-> [x \in S |-> x * ByteBase]]
           Right(f) == f = [k \in 0 .. n |-> IF k = 0 THEN 1 ELSE f[k - 1] * ByteBase]
<1>1. ByteBase \in S /\ 1 \in S
  BY BaseAssumption
<1>2. \A k \in 1 .. n : \A x \in S : step[k][x] = x * ByteBase
  OBVIOUS
<1>a. \A x \in S : x * ByteBase \in S
  <2> TAKE x \in S
  <2>1. x * ByteBase >= x
    <3>1. PICK e \in Nat : ByteBase = 1 + e
      <4>1. ByteBase - 1 \in Nat /\ ByteBase = 1 + (ByteBase - 1)
        BY <1>1
      <4> QED
        BY <4>1
    <3>2. x * ByteBase = x + x * e /\ x * e \in Nat
      BY <3>1
    <3> QED
      BY <3>2
  <2>2. x * ByteBase \in Nat
    BY <1>1
  <2> QED
    BY <2>1, <2>2
<1> HIDE DEF step, S
<1>3. StepsOn(S, n, step)
  BY <1>2, <1>a DEF StepsOn
<1>4. PICK f : InSteps(n, 1, step, f)
  BY <1>1, <1>3, RecursionExists
<1>5. f \in [0 .. n -> S] /\ f[0] = 1 /\ \A k \in 1 .. n : f[k] = step[k][f[k - 1]]
  <2>1. Follows(S, n, 1, step, f)
    BY <1>1, <1>3, <1>4, RecursionIs
  <2>2. QED BY <2>1 DEF Follows
<1>6. ASSUME NEW k \in 1 .. n PROVE f[k] = f[k - 1] * ByteBase
  <2>1. k - 1 \in 0 .. n
    OBVIOUS
  <2>2. f[k - 1] \in S /\ step[k][f[k - 1]] = f[k - 1] * ByteBase
    BY <1>2, <1>5, <2>1
  <2>3. QED BY <1>5, <2>2
<1>7. Right(f)
  <2>1. \A k \in 0 .. n : f[k] = IF k = 0 THEN 1 ELSE f[k - 1] * ByteBase
    <3> TAKE k \in 0 .. n
    <3>1. CASE k = 0
      BY <1>5, <3>1
    <3>2. CASE k # 0
      <4>1. k \in 1 .. n
        BY <3>2
      <4>2. QED BY <1>6, <3>2, <4>1
    <3>3. QED BY <3>1, <3>2
  <2>2. f = [k \in 0 .. n |-> f[k]]
    BY <1>5
  <2>3. QED BY <2>1, <2>2, Zenon
<1> DEFINE pow == CHOOSE g : Right(g)
<1>8. Capacity(n) = pow[n]
  BY Zenon DEF Capacity
<1>9. Right(pow)
  <2> HIDE DEF Right
  <2>1. QED BY <1>7
<1> HIDE DEF pow
<1>10. pow[0] = 1 /\ \A k \in 1 .. n : pow[k] = pow[k - 1] * ByteBase
  <2>1. \A k \in 0 .. n : pow[k] = IF k = 0 THEN 1 ELSE pow[k - 1] * ByteBase
    BY <1>9
  <2>2. \A k \in 1 .. n : k \in 0 .. n /\ k # 0
    OBVIOUS
  <2>3. QED BY <2>1, <2>2
<1> DEFINE T == {k \in 0 .. n : pow[k] \in S}
<1>11. 0 \in T
  BY <1>1, <1>10
<1>12. ASSUME NEW k \in 0 .. n - 1, k \in T
       PROVE  k + 1 \in T
  <2>1. k + 1 \in 1 .. n /\ (k + 1) - 1 = k /\ k + 1 \in 0 .. n
    OBVIOUS
  <2>2. pow[k + 1] = pow[k] * ByteBase /\ pow[k] \in S
    BY <1>10, <1>12, <2>1
  <2>4. QED BY <1>a, <2>1, <2>2
<1>13. \A k \in 0 .. n : k \in T
  <2> HIDE DEF T
  <2>1. QED BY <1>11, <1>12, UpToN
<1>14. pow \in [0 .. n -> S]
  <2>1. \A k \in 0 .. n : pow[k] \in S
    BY <1>13
  <2>2. pow = [k \in 0 .. n |-> pow[k]]
    <3>1. pow = [k \in 0 .. n |-> IF k = 0 THEN 1 ELSE pow[k - 1] * ByteBase]
      BY <1>9
    <3>2. QED BY <3>1, Zenon
  <2>3. QED BY <2>1, <2>2
<1>15. Powers(n, pow)
  BY <1>10, <1>14 DEF Powers, S
<1>16. QED BY <1>8, <1>15

\* A number is what n bytes hold of it and a multiple of their capacity, also
\* when it is negative.
LEMMA HeldIs ==
  ASSUME NEW v \in Int, NEW n \in Nat
  PROVE  Capacity(n) \in Nat \ {0} /\ Held(v, n) = v % Capacity(n) /\ Held(v, n) \in 0 .. Capacity(n) - 1
<1>0. ByteBase \in Nat \ {0}
  BY BaseAssumption
<1>1. PICK pow : Powers(n, pow) /\ Capacity(n) = pow[n]
  BY CapacityIs
<1>2. PICK r : Rests(v, n, r) /\ Digits(v, n) = [i \in 1 .. n |-> r[n - i] % ByteBase]
  BY DigitsAre
<1>3. PICK d : d = Digits(v, n)
  OBVIOUS
<1>4. d \in [1 .. n -> ByteValue] /\ \A i \in 1 .. n : d[i] = r[n - i] % ByteBase
  <2>1. Digits(v, n) \in [1 .. n -> ByteValue]
    BY DigitsType
  <2>2. d = [i \in 1 .. n |-> r[n - i] % ByteBase]
    BY <1>2, <1>3
  <2> QED
    BY <1>3, <2>1, <2>2
<1>5. PICK val : Partial(d, n, val) /\ ValueOf(d) = val[n]
  BY <1>4, ValueIs
<1> DEFINE T == {k \in 0 .. n : r[n - k] = r[n] * pow[k] + val[k] /\ val[k] < pow[k]}
<1>6. 0 \in T
  <2>1. n \in 0 .. n /\ n - 0 = n /\ 0 \in 0 .. n
    OBVIOUS
  <2>2. pow[0] = 1 /\ val[0] = 0 /\ r[n] \in Int
    BY <1>1, <1>2, <1>5, <2>1 DEF Powers, Partial, Rests
  <2> QED
    BY <2>1, <2>2
<1>7. ASSUME NEW k \in 0 .. n - 1, k \in T
      PROVE  k + 1 \in T
  <2>1. k + 1 \in 1 .. n /\ (k + 1) - 1 = k /\ k + 1 \in 0 .. n /\ n - k \in 1 .. n /\ (n - k) - 1 = n - (k + 1)
        /\ n - (k + 1) \in 0 .. n /\ n - k \in 0 .. n /\ n \in 0 .. n /\ k \in 0 .. n
    OBVIOUS
  <2>2. PICK a \in Int, p \in Nat, w \in Nat, c \in 0 .. ByteBase - 1, x \in Int, y \in Int :
           /\ a = r[n] /\ p = pow[k] /\ w = val[k] /\ c = d[k + 1] /\ x = r[n - k] /\ y = r[n - (k + 1)]
    BY <1>1, <1>2, <1>4, <1>5, <2>1 DEF Powers, Partial, Rests, ByteValue
  <2>3. x = a * p + w /\ w < p
    BY <1>7, <2>2
  <2>4. x = y \div ByteBase /\ c = y % ByteBase
    BY <1>2, <1>4, <2>1, <2>2 DEF Rests
  <2>5. y = x * ByteBase + c
    BY <2>4, Division
  <2>6. pow[k + 1] = p * ByteBase /\ val[k + 1] = w * ByteBase + c
    BY <1>1, <1>5, <2>1, <2>2 DEF Powers, Partial
  <2>7. y = a * (p * ByteBase) + (w * ByteBase + c)
    <3>1. (a * p + w) * ByteBase = a * (p * ByteBase) + w * ByteBase
      BY <1>0
    <3>2. a * (p * ByteBase) \in Int /\ w * ByteBase \in Int
      BY <1>0
    <3> QED
      BY <2>3, <2>5, <3>1, <3>2
  <2>8. w * ByteBase + c < p * ByteBase
    <3>1. PICK e \in Nat : p = w + 1 + e
      <4>1. p - (w + 1) \in Nat /\ p = w + 1 + (p - (w + 1))
        BY <2>3
      <4> QED
        BY <4>1
    <3>2. p * ByteBase = w * ByteBase + ByteBase + e * ByteBase /\ e * ByteBase \in Nat /\ w * ByteBase \in Nat
      BY <1>0, <3>1
    <3> QED
      BY <1>0, <3>2
  <2>9. r[n - (k + 1)] = r[n] * pow[k + 1] + val[k + 1] /\ val[k + 1] < pow[k + 1]
    BY <2>2, <2>6, <2>7, <2>8
  <2> QED
    BY <2>1, <2>9
<1>8. \A k \in 0 .. n : k \in T
  <2> HIDE DEF T
  <2>1. QED BY <1>6, <1>7, UpToN
<1>9. r[n - n] = r[n] * pow[n] + val[n] /\ val[n] < pow[n]
  BY <1>8
<1> HIDE DEF T
<1>10. PICK a \in Int, p \in Nat \ {0}, u \in Nat : a = r[n] /\ p = pow[n] /\ u = val[n]
  BY <1>1, <1>2, <1>5 DEF Powers, Partial, Rests
<1>11. v = a * p + u /\ u \in 0 .. p - 1
  <2>1. n - n = 0 /\ r[0] = v
    BY <1>2 DEF Rests
  <2> QED
    BY <1>9, <1>10, <2>1
<1>12. v % p = u
  BY <1>11, RestIs
<1>13. Held(v, n) = u /\ Capacity(n) = p
  BY <1>1, <1>3, <1>5, <1>10 DEF Held
<1> QED
  BY <1>11, <1>12, <1>13

\* What a wider number can tell apart is a multiple of what a narrower one can.
LEMMA WideEnough ==
  ASSUME NEW m \in Nat, NEW n \in Nat, m < n
  PROVE  /\ Capacity(m) \in Nat \ {0} /\ Capacity(n) \in Nat \ {0}
         /\ \E c \in Nat : c >= 2 /\ Capacity(n) = Capacity(m) * c
<1>0. ByteBase \in Nat /\ ByteBase >= 2
  BY BaseAssumption
<1>1. PICK f : Powers(m, f) /\ Capacity(m) = f[m]
  BY CapacityIs
<1>2. PICK g : Powers(n, g) /\ Capacity(n) = g[n]
  BY CapacityIs
<1> DEFINE T == {k \in 0 .. m : f[k] = g[k]}
<1>3. 0 \in T
  BY <1>1, <1>2 DEF Powers
<1>4. ASSUME NEW k \in 0 .. m - 1, k \in T
      PROVE  k + 1 \in T
  <2>1. k + 1 \in 1 .. m /\ (k + 1) - 1 = k /\ k + 1 \in 0 .. m /\ k + 1 \in 1 .. n
    OBVIOUS
  <2>2. QED BY <1>1, <1>2, <1>4, <2>1 DEF Powers
<1>5. \A k \in 0 .. m : k \in T
  <2> HIDE DEF T
  <2>1. QED BY <1>3, <1>4, UpToN
<1>6. f[m] = g[m]
  BY <1>5
<1> HIDE DEF T
<1> DEFINE U == {j \in 0 .. n - (m + 1) : \E c \in Nat : c >= 2 /\ g[m + 1 + j] = g[m] * c}
<1>7. 0 \in U
  <2>1. 0 \in 0 .. n - (m + 1) /\ m + 1 + 0 = m + 1 /\ m + 1 \in 1 .. n /\ (m + 1) - 1 = m
    OBVIOUS
  <2>2. g[m + 1] = g[m] * ByteBase
    BY <1>2, <2>1 DEF Powers
  <2> QED
    BY <1>0, <2>1, <2>2
<1>8. ASSUME NEW j \in 0 .. (n - (m + 1)) - 1, j \in U
      PROVE  j + 1 \in U
  <2>1. m + 1 + (j + 1) \in 1 .. n /\ (m + 1 + (j + 1)) - 1 = m + 1 + j /\ j + 1 \in 0 .. n - (m + 1)
        /\ m \in 0 .. n
    OBVIOUS
  <2>2. PICK c \in Nat : c >= 2 /\ g[m + 1 + j] = g[m] * c
    BY <1>8
  <2>3. g[m + 1 + (j + 1)] = (g[m] * c) * ByteBase
    BY <1>2, <2>1, <2>2 DEF Powers
  <2>4. PICK z \in Nat, b \in Nat, e \in Nat : z = g[m] /\ b = ByteBase /\ b = 1 + e
    <3>1. ByteBase - 1 \in Nat /\ ByteBase = 1 + (ByteBase - 1)
      BY <1>0
    <3>2. g[m] \in Nat
      BY <1>2, <2>1 DEF Powers
    <3> QED
      BY <1>0, <3>1, <3>2
  <2>5. c * b \in Nat /\ c * b >= 2
    <3>1. c * b = c + c * e /\ c * e \in Nat
      BY <2>4
    <3> QED
      BY <2>2, <3>1
  <2>6. (z * c) * b = z * (c * b)
    OBVIOUS
  <2> QED
    BY <2>1, <2>3, <2>4, <2>5, <2>6
<1>9. \A j \in 0 .. n - (m + 1) : j \in U
  <2>1. n - (m + 1) \in Nat
    OBVIOUS
  <2> HIDE DEF U
  <2> QED
    BY <1>7, <1>8, <2>1, UpToN
<1>10. \E c \in Nat : c >= 2 /\ g[n] = g[m] * c
  <2>1. n - (m + 1) \in 0 .. n - (m + 1) /\ m + 1 + (n - (m + 1)) = n
    OBVIOUS
  <2> QED
    BY <1>9, <2>1
<1>11. f[m] \in Nat \ {0} /\ g[n] \in Nat \ {0}
  BY <1>1, <1>2 DEF Powers
<1> HIDE DEF U
<1> QED
  BY <1>1, <1>2, <1>6, <1>10, <1>11

\* What is left of a number after both hosts is what is left in the narrower one.
LEMMA HeldNarrower ==
  ASSUME NEW v \in Int, NEW m \in Nat, NEW n \in Nat
  PROVE  /\ m <= n => Held(Held(v, m), n) = v % Capacity(m)
         /\ n <= m => Held(Held(v, m), n) = v % Capacity(n)
<1>1. PICK w \in Nat : w = Held(v, m)
  BY HeldType
<1>2. w = v % Capacity(m) /\ Capacity(m) \in Nat \ {0} /\ w \in 0 .. Capacity(m) - 1
  BY <1>1, HeldIs
<1>3. CASE m <= n
  <2>1. Digits(v, m) \in [1 .. m -> ByteValue] /\ n >= m
    BY <1>3, DigitsType
  <2>2. Held(Held(v, m), n) = Held(v, m)
    BY <2>1, HeldWide DEF Held
  <2>3. n <= m => n = m
    BY <1>3
  <2> QED
    BY <1>1, <1>2, <1>3, <2>2, <2>3
<1>4. CASE n < m
  <2>1. PICK r \in Nat \ {0}, c \in Nat : Capacity(n) = r /\ Capacity(m) = r * c
    BY <1>4, WideEnough
  <2>2. PICK a \in Int : v = a * (r * c) + w
    <3>1. v = (v \div Capacity(m)) * Capacity(m) + (v % Capacity(m)) /\ v \div Capacity(m) \in Int
      BY <1>2, DivisionBy
    <3> QED
      BY <1>2, <2>1, <3>1
  <2>3. PICK b \in Int, u \in 0 .. r - 1 : w = b * r + u /\ u = w % r
    <3>1. w = (w \div r) * r + (w % r) /\ w \div r \in Int /\ w % r \in 0 .. r - 1
      BY DivisionBy
    <3> QED
      BY <3>1
  <2>4. v = (a * c + b) * r + u
    <3>1. (a * c + b) * r = a * (r * c) + b * r
      OBVIOUS
    <3>2. a * (r * c) \in Int /\ b * r \in Int
      OBVIOUS
    <3> QED
      BY <2>2, <2>3, <3>1, <3>2
  <2>5. v % r = u
    <3>1. a * c + b \in Int
      OBVIOUS
    <3>2. PICK k \in Int : k = a * c + b
      BY <3>1
    <3> QED
      BY <2>4, <3>2, RestIs
  <2>6. Held(w, n) = w % Capacity(n)
    BY HeldIs
  <2> QED
    BY <1>1, <1>4, <2>1, <2>3, <2>5, <2>6
<1> QED
  BY <1>3, <1>4

\* So read, it is the number, or what is left of it in the narrower host.
LEMMA AdjustInv_Arrive == AdjustInv => ElementsArrive
<1> SUFFICES ASSUME AdjustInv, NEW p \in Elements(view)
             PROVE  Signed(FromMemory(Bytes(data, view, Holder, p), Holder.order), Size(view[p[1]], Holder))
                      = IF Widened(p) THEN values[p] % Capacity(Narrow)
                        ELSE Cut(values[p], Size(view[p[1]], Holder))
  BY DEF ElementsArrive
<1>1. PICK n \in Nat \ {0} : view \in [1 .. n -> ViewItem]
  BY DEF AdjustInv
<1>2. /\ clientSide \in Host /\ serverSide \in Host /\ values \in [Elements(view) -> Int]
      /\ hops \in 0 .. 2 /\ data = StoredItems(view, Holder, Came)
  BY DEF AdjustInv
<1>3. PICK c \in Nat, z \in Nat, v \in Int :
        c = Size(view[p[1]], clientSide) /\ z = Size(view[p[1]], serverSide) /\ v = values[p]
  BY <1>1, <1>2, ElementWithin
<1>4. Holder \in Host
  BY <1>2 DEF Holder
<1>5. Came \in [Elements(view) -> Int]
  <2>1. ASSUME NEW q \in Elements(view)
        PROVE  /\ values[q] \in Int /\ Held(values[q], Size(view[q[1]], clientSide)) \in Int
               /\ Held(Held(values[q], Size(view[q[1]], clientSide)), Size(view[q[1]], serverSide)) \in Int
    <3>1. values[q] \in Int /\ Size(view[q[1]], clientSide) \in Nat /\ Size(view[q[1]], serverSide) \in Nat
      BY <1>1, <1>2, ElementWithin
    <3>2. PICK x \in Nat : x = Held(values[q], Size(view[q[1]], clientSide))
      BY <3>1, HeldType
    <3>3. Held(x, Size(view[q[1]], serverSide)) \in Nat
      <4>1. PICK m \in Nat, y \in Int : m = Size(view[q[1]], serverSide) /\ y = x
        BY <3>1
      <4> QED
        BY <4>1, HeldType
    <3> QED
      BY <3>1, <3>2, <3>3
  <2>2. hops = 0 \/ hops = 1 \/ hops = 2
    BY <1>2
  <2>3. QED BY <2>1, <2>2 DEF Came
<1>6. PICK u, h \in Nat : /\ u = FromMemory(Bytes(data, view, Holder, p), Holder.order)
                          /\ h = Size(view[p[1]], Holder) /\ u = Held(Came[p], h)
  <2>1. Bytes(data, view, Holder, p) = InMemory(Came[p], Size(view[p[1]], Holder), Holder.order)
    <3>1. PICK host \in Host, came \in [Elements(view) -> Int] : host = Holder /\ came = Came
      BY <1>4, <1>5
    <3>2. host \in Host /\ came \in [Elements(view) -> Int]
      OBVIOUS
    <3>3. Bytes(StoredItems(view, host, came), view, host, p) = InMemory(came[p], Size(view[p[1]], host), host.order)
      BY <1>1, <3>2, StoredBytes
    <3>4. QED BY <1>2, <3>1, <3>3
  <2>2. Came[p] \in Int /\ Size(view[p[1]], Holder) \in Nat
    BY <1>1, <1>4, <1>5, ElementWithin
  <2>3. PICK x \in Int, m \in Nat : x = Came[p] /\ m = Size(view[p[1]], Holder)
    BY <2>2
  <2>4. PICK order : order = Holder.order
    OBVIOUS
  <2>5. FromMemory(InMemory(x, m, order), order) = Held(x, m) /\ Held(x, m) \in Nat
    BY ReadAsStored, HeldType
  <2> QED
    BY <2>1, <2>3, <2>4, <2>5
<1>7. CASE hops = 0
  <2>1. Came[p] = v /\ ~Widened(p)
    BY <1>3, <1>7 DEF Came, Widened
  <2>2. u = v % Capacity(h)
    BY <1>6, <2>1, HeldIs
  <2> QED
    BY <1>3, <1>6, <2>1, <2>2 DEF Cut
<1>8. CASE hops # 0
\* It has been cut to what both hold ...
  <2>1. u = Held(Held(v, c), z) /\ (h = c \/ h = z)
    <3>1. CASE hops = 1
      <4>1. Came[p] = Held(v, c) /\ Holder = serverSide
        BY <1>3, <3>1 DEF Came, Holder
      <4> QED
        BY <1>3, <1>6, <4>1
    <3>2. CASE hops = 2
      <4>1. Came[p] = Held(Held(v, c), z) /\ Holder = clientSide
        BY <1>3, <3>2 DEF Came, Holder
      <4>2. Held(Held(Held(v, c), z), c) = Held(Held(v, c), z)
        BY HeldTwice
      <4> QED
        BY <1>3, <1>6, <4>1, <4>2
    <3> QED
      BY <1>2, <1>8, <3>1, <3>2
\* ... which is less than this host holds only where it was widened.
  <2>2. Narrow \in Nat \ {0} /\ Wide \in Nat \ {0} /\ Narrow < Wide
    BY ViewAssumption
  <2>3. CASE Widened(p)
    <3>1. h = Wide /\ {c, z} \subseteq {Narrow, Wide} /\ Narrow \in {c, z}
      BY <1>2, <1>3, <1>6, <2>3 DEF Widened, Size, Host
    <3>2. u = v % Capacity(Narrow)
      <4>1. (c <= z => u = v % Capacity(c)) /\ (z <= c => u = v % Capacity(z))
        BY <2>1, HeldNarrower
      <4>2. (c <= z /\ c = Narrow) \/ (z <= c /\ z = Narrow)
        BY <2>2, <3>1
      <4> QED
        BY <4>1, <4>2
    <3>3. 2 * u < Capacity(h)
      <4>1. PICK r \in Nat \ {0}, e \in Nat : Capacity(Narrow) = r /\ e >= 2 /\ Capacity(Wide) = r * e
        <5>1. PICK a \in Nat, b \in Nat : a = Narrow /\ b = Wide /\ a < b
          BY <2>2
        <5>2. /\ Capacity(a) \in Nat \ {0} /\ Capacity(b) \in Nat \ {0}
              /\ \E c1 \in Nat : c1 >= 2 /\ Capacity(b) = Capacity(a) * c1
          BY <5>1, WideEnough
        <5> QED
          BY <5>1, <5>2
      <4>2. u \in 0 .. r - 1
        BY <3>2, <4>1, DivisionBy
      <4>3. r * e >= 2 * r
        <5>1. PICK d \in Nat : e = 2 + d
          <6>1. e - 2 \in Nat /\ e = 2 + (e - 2)
            BY <4>1
          <6> QED
            BY <6>1
        <5>2. r * e = 2 * r + r * d /\ r * d \in Nat
          BY <5>1
        <5> QED
          BY <5>2
      <4>4. PICK k \in Nat : k = r * e
        OBVIOUS
      <4> QED
        BY <3>1, <4>1, <4>2, <4>3, <4>4
    <3> QED
      BY <1>3, <1>6, <2>3, <3>2, <3>3 DEF Signed
  <2>4. CASE ~Widened(p)
    <3>1. h <= c /\ h <= z
      <4>1. view[p[1]] \in ViewItem
        BY <1>1, ElementOf
      <4>2. CASE view[p[1]].kind = "long"
        <5>1. c = clientSide.long /\ z = serverSide.long /\ h = Holder.long
          BY <1>3, <1>6, <4>2 DEF Size
        <5>2. c \in {Narrow, Wide} /\ z \in {Narrow, Wide} /\ h \in {Narrow, Wide}
          BY <1>2, <1>4, <5>1 DEF Host
        <5>3. hops > 0
          BY <1>2, <1>8
        <5>4. h # Wide \/ Narrow \notin {c, z}
          BY <2>4, <4>2, <5>1, <5>3 DEF Widened
        <5> QED
          BY <2>2, <5>2, <5>4
      <4>3. CASE view[p[1]].kind # "long"
        <5>1. view[p[1]].kind \in {"plain", "short"}
          BY <4>1, <4>3, ViewAssumption DEF ViewItem
        <5>2. c = z /\ h = z
          BY <1>3, <1>6, <5>1 DEF Size
        <5> QED
          BY <5>2
      <4> QED
        BY <4>2, <4>3
    <3>2. u = v % Capacity(h)
      <4>1. (c <= z => u = v % Capacity(c)) /\ (z <= c => u = v % Capacity(z))
        BY <2>1, HeldNarrower
      <4>2. (c <= z /\ h = c) \/ (z <= c /\ h = z)
        BY <2>1, <3>1
      <4> QED
        BY <4>1, <4>2
    <3> QED
      BY <1>3, <1>6, <2>4, <3>2 DEF Cut
  <2> QED
    BY <2>3, <2>4
<1> QED
  BY <1>7, <1>8

\* For any view, hosts, widths, orders of bytes and numbers of either sign, a
\* program reads in every element the number that was put in, or what its own
\* host can hold of it; but a negative long that a narrow host has sent to a wide
\* one is read as the number of its bytes without a sign
\* (View32Manager::AdjustStructData).
THEOREM ElementsAlwaysArrive == AdjustSpec => []ElementsArrive
<1>1. AdjustInit => AdjustInv
  BY AdjustInit_Inv
<1>2. AdjustInv /\ [AdjustNext]_adjustVars => AdjustInv'
  BY AdjustNext_Inv
<1>3. AdjustInv => ElementsArrive
  BY AdjustInv_Arrive
<1>4. QED BY <1>1, <1>2, <1>3, PTL DEF AdjustSpec

-----------------------------------------------------------------------------
(* What a stream is made of. *)

\* Parts written one after the other, as far as the k-th.
Joined(parts, n, upTo) ==
  /\ upTo \in [0 .. n -> Seq(ByteValue)] /\ upTo[0] = <<>>
  /\ \A k \in 1 .. n : upTo[k] = upTo[k - 1] \o parts[k]
AreParts(parts, n) == parts = [k \in 1 .. n |-> parts[k]] /\ \A k \in 1 .. n : parts[k] \in Seq(ByteValue)

\* Parts one after the other are what FlattenSeq makes of them.
LEMMA FlattenedIs ==
  ASSUME NEW n \in Nat, NEW parts, AreParts(parts, n)
  PROVE  \E upTo : Joined(parts, n, upTo) /\ FlattenSeq(parts) = upTo[n]
<1> DEFINE step == [k \in 1 .. n |-> [x \in Seq(ByteValue) |-> x \o parts[k]]]
           Right(f) == f = [i \in 1 .. n |-> IF i = 1 THEN parts[i] ELSE f[i - 1] \o parts[i]]
<1>1. \A k \in 1 .. n : parts[k] \in Seq(ByteValue)
  BY DEF AreParts
<1>2. Len(parts) = n
  BY DEF AreParts
<1>3. \A k \in 1 .. n : \A x \in Seq(ByteValue) : step[k][x] = x \o parts[k]
  OBVIOUS
<1>4. \A k \in 1 .. n : \A x \in Seq(ByteValue) : x \o parts[k] \in Seq(ByteValue)
  BY <1>1
<1> HIDE DEF step
<1>5. StepsOn(Seq(ByteValue), n, step)
  BY <1>3, <1>4 DEF StepsOn
<1>6. <<>> \in Seq(ByteValue)
  OBVIOUS
<1>7. PICK f : InSteps(n, <<>>, step, f)
  BY <1>5, <1>6, RecursionExists
<1>8. Follows(Seq(ByteValue), n, <<>>, step, f)
  BY <1>5, <1>6, <1>7, RecursionIs
<1>9. /\ f \in [0 .. n -> Seq(ByteValue)] /\ f[0] = <<>>
      /\ \A k \in 1 .. n : f[k] = step[k][f[k - 1]]
  BY <1>8 DEF Follows
<1>10. \A k \in 1 .. n : f[k] = f[k - 1] \o parts[k]
  <2> TAKE k \in 1 .. n
  <2>1. k - 1 \in 0 .. n
    OBVIOUS
  <2>2. f[k - 1] \in Seq(ByteValue)
    BY <1>9, <2>1
  <2>3. QED BY <1>3, <1>9, <2>2
<1>11. Joined(parts, n, f)
  BY <1>9, <1>10 DEF Joined
<1>12. CASE n = 0
  <2>1. FlattenSeq(parts) = parts
    BY <1>2, <1>12 DEF FlattenSeq
  <2>2. parts = <<>>
    BY <1>2, <1>12 DEF AreParts
  <2>3. QED BY <1>9, <1>11, <1>12, <2>1, <2>2
<1>13. CASE n # 0
  <2> DEFINE g == [i \in 1 .. n |-> f[i]]
  <2>1. \A i \in 1 .. n : g[i] = IF i = 1 THEN parts[i] ELSE g[i - 1] \o parts[i]
    <3> TAKE i \in 1 .. n
    <3>1. CASE i = 1
      <4>1. f[1] = <<>> \o parts[1]
        <5>1. 1 \in 1 .. n /\ 1 - 1 = 0
          BY <3>1
        <5>2. f[1] = f[1 - 1] \o parts[1]
          BY <1>10, <5>1
        <5>3. QED BY <1>9, <5>1, <5>2
      <4>2. <<>> \o parts[1] = parts[1]
        BY <1>1, <3>1
      <4>3. QED BY <3>1, <4>1, <4>2
    <3>2. CASE i # 1
      <4>1. i - 1 \in 1 .. n
        BY <3>2
      <4>2. QED BY <1>10, <3>2, <4>1
    <3>3. QED BY <3>1, <3>2
  <2>2. Right(g)
    <3>1. g = [i \in 1 .. n |-> g[i]]
      OBVIOUS
    <3> HIDE DEF g
    <3>2. QED BY <2>1, <3>1, Zenon
  <2> DEFINE flat == CHOOSE h : Right(h)
  <2>3. Right(flat)
    <3> HIDE DEF Right, g
    <3>1. QED BY <2>2
  <2>4. FlattenSeq(parts) = flat[n]
    BY <1>2, <1>13 DEF FlattenSeq
  <2> HIDE DEF flat, g
  <2>5. \A i \in 1 .. n : flat[i] = IF i = 1 THEN parts[i] ELSE flat[i - 1] \o parts[i]
    BY <2>3
  <2> DEFINE T == {k \in 0 .. n : k = 0 \/ flat[k] = f[k]}
  <2>6. 0 \in T
    OBVIOUS
  <2>7. ASSUME NEW k \in 0 .. n - 1, k \in T
        PROVE  k + 1 \in T
    <3>1. k + 1 \in 1 .. n /\ (k + 1) - 1 = k
      OBVIOUS
    <3>2. CASE k = 0
      <4>1. flat[1] = parts[1] /\ f[1] = <<>> \o parts[1] /\ parts[1] \in Seq(ByteValue)
        <5>1. 1 \in 1 .. n /\ 1 - 1 = 0
          BY <3>1, <3>2
        <5>2. f[1] = f[1 - 1] \o parts[1]
          BY <1>10, <5>1
        <5>3. QED BY <1>1, <1>9, <2>5, <5>1, <5>2
      <4>2. <<>> \o parts[1] = parts[1]
        BY <4>1
      <4>3. QED BY <3>1, <3>2, <4>1, <4>2
    <3>3. CASE k # 0
      <4>1. flat[k] = f[k]
        BY <2>7, <3>3
      <4>2. flat[k + 1] = flat[k] \o parts[k + 1] /\ f[k + 1] = f[k] \o parts[k + 1]
        <5>1. k + 1 # 1
          BY <3>3
        <5>2. flat[k + 1] = flat[(k + 1) - 1] \o parts[k + 1]
          BY <2>5, <3>1, <5>1
        <5>3. f[k + 1] = f[(k + 1) - 1] \o parts[k + 1]
          BY <1>10, <3>1
        <5>4. QED BY <3>1, <5>2, <5>3
      <4>3. flat[k + 1] = f[k + 1]
        BY <4>1, <4>2
      <4>4. QED BY <3>1, <4>3
    <3>4. QED BY <3>2, <3>3
  <2>8. \A k \in 0 .. n : k \in T
    <3> HIDE DEF T
    <3>1. QED BY <2>6, <2>7, UpToN
  <2>9. flat[n] = f[n]
    BY <1>13, <2>8
  <2>10. QED BY <1>11, <2>4, <2>9
<1>14. QED BY <1>12, <1>13

\* A stream has w behind its first a bytes.
LiesAt(bytes, a, w) ==
  /\ bytes \in Seq(ByteValue) /\ a \in Nat /\ w \in Seq(ByteValue) /\ a + Len(w) <= Len(bytes)
  /\ \A i \in 1 .. Len(w) : bytes[a + i] = w[i]

\* Of two things one behind the other it has each.
LEMMA EachLies ==
  ASSUME NEW u \in Seq(ByteValue), NEW w \in Seq(ByteValue), NEW bytes, NEW a, LiesAt(bytes, a, u \o w)
  PROVE  LiesAt(bytes, a, u) /\ LiesAt(bytes, a + Len(u), w) /\ Len(u \o w) = Len(u) + Len(w)
<1>1. Len(u) \in Nat /\ Len(w) \in Nat /\ a \in Nat /\ bytes \in Seq(ByteValue) /\ Len(bytes) \in Nat
  BY DEF LiesAt
<1>2. Len(u \o w) = Len(u) + Len(w)
  OBVIOUS
<1>3. a + (Len(u) + Len(w)) <= Len(bytes)
  BY <1>2 DEF LiesAt
<1>4. ASSUME NEW i \in 1 .. Len(u) PROVE bytes[a + i] = u[i]
  <2>1. i \in 1 .. Len(u \o w) /\ (u \o w)[i] = u[i]
    BY <1>1, <1>2
  <2>2. QED BY <2>1 DEF LiesAt
<1>5. ASSUME NEW i \in 1 .. Len(w) PROVE bytes[(a + Len(u)) + i] = w[i]
  <2>1. Len(u) + i \in 1 .. Len(u \o w) /\ (u \o w)[Len(u) + i] = w[i]
    BY <1>1, <1>2
  <2>2. bytes[a + (Len(u) + i)] = w[i]
    BY <2>1 DEF LiesAt
  <2>3. a + (Len(u) + i) = (a + Len(u)) + i
    BY <1>1
  <2>4. QED BY <2>2, <2>3
<1>6. LiesAt(bytes, a, u)
  BY <1>1, <1>3, <1>4 DEF LiesAt
<1>7. LiesAt(bytes, a + Len(u), w)
  <2>1. a + Len(u) \in Nat /\ (a + Len(u)) + Len(w) <= Len(bytes)
    BY <1>1, <1>3
  <2>2. QED BY <1>1, <1>5, <2>1 DEF LiesAt
<1>8. QED BY <1>2, <1>6, <1>7

\* Of many, each lies behind those before it.
LieBehind(parts, n, upTo, bytes, a) ==
  \A k \in 1 .. n : /\ LiesAt(bytes, a + Len(upTo[k - 1]), parts[k])
                    /\ Len(upTo[k]) = Len(upTo[k - 1]) + Len(parts[k])

\* They do when all of them together lie there.
LEMMA PartsLie ==
  ASSUME NEW n \in Nat, NEW parts, AreParts(parts, n), NEW upTo, Joined(parts, n, upTo),
         NEW bytes, NEW a, LiesAt(bytes, a, upTo[n])
  PROVE  LieBehind(parts, n, upTo, bytes, a)
<1>1. /\ upTo \in [0 .. n -> Seq(ByteValue)]
      /\ \A k \in 1 .. n : upTo[k] = upTo[k - 1] \o parts[k] /\ parts[k] \in Seq(ByteValue)
  BY DEF Joined, AreParts
<1>2. \A k \in 1 .. n : upTo[k - 1] \in Seq(ByteValue)
  <2>1. \A k \in 1 .. n : k - 1 \in 0 .. n
    OBVIOUS
  <2>2. QED BY <1>1, <2>1
<1> DEFINE T == {m \in 0 .. n : LiesAt(bytes, a, upTo[n - m])}
<1>3. 0 \in T
  OBVIOUS
<1>4. ASSUME NEW m \in 0 .. n - 1, m \in T
      PROVE  m + 1 \in T
  <2>1. n - m \in 1 .. n /\ (n - m) - 1 = n - (m + 1) /\ m + 1 \in 0 .. n
    OBVIOUS
  <2>2. upTo[n - m] = upTo[(n - m) - 1] \o parts[n - m] /\ parts[n - m] \in Seq(ByteValue) /\ upTo[(n - m) - 1] \in Seq(ByteValue)
    BY <1>1, <1>2, <2>1
  <2>3. LiesAt(bytes, a, upTo[(n - m) - 1] \o parts[n - m])
    BY <1>4, <2>2
  <2>4. LiesAt(bytes, a, upTo[(n - m) - 1])
    BY <2>2, <2>3, EachLies
  <2>5. QED BY <2>1, <2>4
<1>5. \A m \in 0 .. n : m \in T
  <2> HIDE DEF T
  <2>1. QED BY <1>3, <1>4, UpToN
<1>6. ASSUME NEW k \in 1 .. n
      PROVE  /\ LiesAt(bytes, a + Len(upTo[k - 1]), parts[k])
             /\ Len(upTo[k]) = Len(upTo[k - 1]) + Len(parts[k])
  <2>1. n - k \in 0 .. n /\ n - (n - k) = k
    OBVIOUS
  <2>2. LiesAt(bytes, a, upTo[k])
    BY <1>5, <2>1
  <2>3. upTo[k] = upTo[k - 1] \o parts[k] /\ parts[k] \in Seq(ByteValue) /\ upTo[k - 1] \in Seq(ByteValue)
    BY <1>1, <1>2
  <2>4. LiesAt(bytes, a, upTo[k - 1] \o parts[k])
    BY <2>2, <2>3
  <2>5. QED BY <2>3, <2>4, EachLies
<1>7. QED BY <1>6 DEF LieBehind

\* What lies there is what is taken out there.
LEMMA TakenOut ==
  ASSUME NEW bytes, NEW a, NEW w, LiesAt(bytes, a, w)
  PROVE  SubSeq(bytes, a + 1, a + Len(w)) = w
<1>1. /\ bytes \in Seq(ByteValue) /\ a \in Nat /\ w \in Seq(ByteValue) /\ a + Len(w) <= Len(bytes)
      /\ \A i \in 1 .. Len(w) : bytes[a + i] = w[i] /\ Len(w) \in Nat
  BY DEF LiesAt
<1>2. CASE Len(w) = 0
  <2>1. w = <<>> /\ SubSeq(bytes, a + 1, a + Len(w)) = <<>>
    BY <1>1, <1>2
  <2>2. QED BY <2>1
<1>3. CASE Len(w) # 0
  <2>1. a + 1 \in Int /\ a + Len(w) \in Int /\ a + 1 <= a + Len(w) /\ (a + Len(w)) - (a + 1) + 1 = Len(w) /\ Len(w) \in Nat
    BY <1>1, <1>3
  <2>2. \A i \in a + 1 .. a + Len(w) : bytes[i] \in ByteValue
    <3> TAKE i \in a + 1 .. a + Len(w)
    <3>1. i \in 1 .. Len(bytes)
      BY <1>1
    <3>2. QED BY <1>1, <3>1
  <2>3. PICK s : s = SubSeq(bytes, a + 1, a + Len(w))
    OBVIOUS
  <2>4. /\ s \in Seq(ByteValue) /\ Len(s) = Len(w)
        /\ \A i \in 1 .. Len(w) : s[i] = bytes[(a + 1) + i - 1]
    <3>1. /\ s \in Seq(ByteValue)
          /\ Len(s) = IF a + 1 <= a + Len(w) THEN (a + Len(w)) - (a + 1) + 1 ELSE 0
          /\ \A i \in 1 .. (a + Len(w)) - (a + 1) + 1 : s[i] = bytes[(a + 1) + i - 1]
      BY <2>1, <2>2, <2>3, SubSeqProperties
    <3>2. QED BY <2>1, <3>1
  <2>5. \A i \in 1 .. Len(w) : s[i] = w[i]
    <3> TAKE i \in 1 .. Len(w)
    <3>1. (a + 1) + i - 1 = a + i
      BY <1>1
    <3>2. QED BY <1>1, <2>4, <3>1
  <2>6. s = w
    BY <1>1, <2>4, <2>5
  <2>7. QED BY <2>3, <2>6
<1>4. QED BY <1>2, <1>3

-----------------------------------------------------------------------------
(* One field. *)

\* What two digits can say.
LEMMA TwoDigits ==
  ASSUME NEW v \in 0 .. NumberMax - 1
  PROVE  ValueOf(Digits(v, 2)) = v
<1>1. v \in Nat /\ v < ByteBase * ByteBase /\ ByteBase \in Nat \ {0, 1} /\ ByteBase * ByteBase \in Nat
  BY BaseAssumption DEF NumberMax
<1>2. PICK rest : Rests(v, 2, rest)
  <2>1. v \in Int /\ 2 \in Nat
    BY <1>1
  <2>2. PICK rest : Rests(v, 2, rest) /\ Digits(v, 2) = [i \in 1 .. 2 |-> rest[2 - i] % ByteBase]
    BY <2>1, DigitsAre
  <2>3. QED BY <2>2
<1>3. rest[0] = v /\ rest[1] = rest[0] \div ByteBase /\ rest[2] = rest[1] \div ByteBase
  <2>1. 1 \in 1 .. 2 /\ 2 \in 1 .. 2 /\ 1 - 1 = 0 /\ 2 - 1 = 1
    OBVIOUS
  <2>2. rest[1] = rest[1 - 1] \div ByteBase /\ rest[2] = rest[2 - 1] \div ByteBase /\ rest[0] = v
    BY <1>2, <2>1 DEF Rests
  <2>3. QED BY <2>1, <2>2
<1>4. PICK q \in Nat, r \in ByteValue : q = v \div ByteBase /\ v = q * ByteBase + r
  <2>1. v \in Int
    BY <1>1
  <2>2. PICK q \in Int, r \in ByteValue : q = v \div ByteBase /\ v = q * ByteBase + r
    BY <2>1, Division
  <2>3. r \in 0 .. ByteBase - 1
    BY <2>2 DEF ByteValue
  <2>4. q \in Nat
    <3>1. SUFFICES ASSUME q + 1 <= 0 PROVE FALSE
      BY <2>2
    <3>2. PICK b \in Nat, m \in Int, t \in Nat : b = ByteBase /\ m = q /\ m = -1 - t
      <4>1. (-1) - q \in Nat /\ q = -1 - ((-1) - q)
        BY <2>2, <3>1
      <4>2. QED BY <1>1, <2>2, <4>1
    <3>3. t * b \in Nat /\ m * b = -b - t * b
      BY <3>2
    <3>4. m * b \in Int /\ v = m * b + r /\ r <= b - 1
      BY <2>2, <2>3, <3>2, <3>3
    <3>5. QED BY <1>1, <2>3, <3>2, <3>3, <3>4
  <2>5. QED BY <2>2, <2>4
<1>5. q < ByteBase
  <2>1. SUFFICES ASSUME ByteBase <= q PROVE FALSE
    BY <1>1, <1>4
  <2>2. ByteBase * ByteBase <= q * ByteBase /\ q * ByteBase \in Nat
    BY <1>1, <1>4, <2>1, MoreOfThem
  <2>3. r \in Nat
    BY <1>1, <1>4 DEF ByteValue
  <2>4. QED BY <1>1, <1>4, <2>2, <2>3
<1>6. q \in ByteValue
  BY <1>1, <1>4, <1>5 DEF ByteValue
<1>7. (0 * ByteBase + q) \div ByteBase = 0
  BY <1>6, LastDigit
<1>8. 0 * ByteBase + q = q
  BY <1>1, <1>4
<1>9. rest[2] = 0
  BY <1>3, <1>4, <1>7, <1>8
<1>10. QED BY <1>1, <1>2, <1>9, ValueOfDigits

\* A number is written with the most significant digit in front on every host.
LEMMA NumberWritten ==
  ASSUME NEW v \in Nat, NEW order \in Order
  PROVE  /\ WriteNumber(v, order) = Digits(v, 2)
         /\ WriteNumber(v, order) \in [1 .. 2 -> ByteValue]
         /\ WriteNumber(v, order) \in Seq(ByteValue) /\ Len(WriteNumber(v, order)) = 2
<1>1. PICK d : d = Digits(v, 2)
  OBVIOUS
<1>2. d \in [1 .. 2 -> ByteValue] /\ Reverse(d) \in [1 .. 2 -> ByteValue] /\ Reverse(Reverse(d)) = d
  <2>1. v \in Int /\ 2 \in Nat
    OBVIOUS
  <2>2. d \in [1 .. 2 -> ByteValue]
    BY <1>1, <2>1, DigitsType
  <2>3. QED BY <2>2, TurnedRound
<1>3. WriteNumber(v, order) = d
  <2>1. CASE order = "big"
    BY <1>1, <2>1 DEF WriteNumber, InMemory, ToNet, WidthOf
  <2>2. CASE order = "little"
    <3>1. WriteNumber(v, order) = Reverse(Digits(ValueOf(Reverse(d)), 2))
      BY <1>1, <2>2 DEF WriteNumber, InMemory, ToNet, SwapBytes, WidthOf
    <3>2. Digits(ValueOf(Reverse(d)), 2) = Reverse(d)
      BY <1>2, DigitsOfValue
    <3>3. QED BY <1>2, <3>1, <3>2
  <2>3. QED BY <2>1, <2>2 DEF Order
<1>4. d \in Seq(ByteValue) /\ Len(d) = 2
  BY <1>2, SequenceOf
<1>5. QED BY <1>1, <1>2, <1>3, <1>4

\* And read so.
LEMMA NumberUnderstood ==
  ASSUME NEW v \in 0 .. NumberMax - 1, NEW order \in Order
  PROVE  ToNet(FromMemory(Digits(v, 2), order), 2, order) = v
<1>1. v \in Nat
  BY BaseAssumption DEF NumberMax
<1>2. PICK d : d = Digits(v, 2)
  OBVIOUS
<1>3. d \in [1 .. 2 -> ByteValue] /\ Reverse(d) \in [1 .. 2 -> ByteValue] /\ Reverse(Reverse(d)) = d
  <2>1. v \in Int /\ 2 \in Nat
    BY <1>1
  <2>2. d \in [1 .. 2 -> ByteValue]
    BY <1>2, <2>1, DigitsType
  <2>3. QED BY <2>2, TurnedRound
<1>4. ValueOf(d) = v
  BY <1>2, TwoDigits
<1>5. CASE order = "big"
  BY <1>2, <1>4, <1>5 DEF FromMemory, ToNet
<1>6. CASE order = "little"
  <2>1. ToNet(FromMemory(d, order), 2, order) = ValueOf(Reverse(Digits(ValueOf(Reverse(d)), 2)))
    BY <1>6 DEF FromMemory, ToNet, SwapBytes
  <2>2. Digits(ValueOf(Reverse(d)), 2) = Reverse(d)
    BY <1>3, DigitsOfValue
  <2>3. QED BY <1>2, <1>3, <1>4, <2>1, <2>2
<1>7. QED BY <1>5, <1>6 DEF Order

\* A stream that has not failed can take what lies there.
LEMMA TakeWhole ==
  ASSUME NEW bytes, NEW a, NEW w, LiesAt(bytes, a, w), NEW x, NEW got
  PROVE  /\ Enough(Stream(bytes, a, x, got), Len(w))
         /\ Take(Stream(bytes, a, x, got), Len(w)) = Stream(bytes, a + Len(w), w, got)
<1>1. a + Len(w) <= Len(bytes)
  BY DEF LiesAt
<1>2. SubSeq(bytes, a + 1, a + Len(w)) = w
  BY TakenOut
<1>3. Enough(Stream(bytes, a, x, got), Len(w))
  BY <1>1 DEF Enough, Stream
<1>4. Take(Stream(bytes, a, x, got), Len(w)) = Stream(bytes, a + Len(w), w, got)
  BY <1>2 DEF Take, Stream
<1>5. QED BY <1>3, <1>4

\* A number that lies in the stream is read, on a host of any order.
LEMMA NumberRead ==
  ASSUME NEW v \in 0 .. NumberMax - 1, NEW from \in Order, NEW to \in Order,
         NEW bytes, NEW a, LiesAt(bytes, a, WriteNumber(v, from)), NEW x, NEW got
  PROVE  ReadNumber(Stream(bytes, a, x, got), to) = Stream(bytes, a + 2, v, got)
<1>1. v \in Nat
  BY BaseAssumption DEF NumberMax
<1>2. PICK w : w = WriteNumber(v, from)
  OBVIOUS
<1>3. w = Digits(v, 2) /\ Len(w) = 2
  BY <1>1, <1>2, NumberWritten
<1>4. /\ Enough(Stream(bytes, a, x, got), 2)
      /\ Take(Stream(bytes, a, x, got), 2) = Stream(bytes, a + 2, w, got)
  <2>1. LiesAt(bytes, a, w)
    BY <1>2
  <2>2. /\ Enough(Stream(bytes, a, x, got), Len(w))
        /\ Take(Stream(bytes, a, x, got), Len(w)) = Stream(bytes, a + Len(w), w, got)
    BY <2>1, TakeWhole
  <2>3. QED BY <1>3, <2>2
<1>5. Decoded(Stream(bytes, a + 2, w, got), to) = Stream(bytes, a + 2, ToNet(FromMemory(w, to), 2, to), got)
  BY DEF Decoded, Giving, Stream, WidthOf
<1>6. ToNet(FromMemory(w, to), 2, to) = v
  BY <1>3, NumberUnderstood
<1>7. QED BY <1>4, <1>5, <1>6 DEF ReadNumber, WidthOf

\* So is what its length stands in front of.
LEMMA CountedRead ==
  ASSUME NEW v \in Seq(ByteValue), Len(v) < NumberMax, NEW from \in Order, NEW to \in Order,
         NEW bytes, NEW a, LiesAt(bytes, a, WriteCounted(v, from)), NEW x, NEW got
  PROVE  ReadCounted(Stream(bytes, a, x, got), to) = Stream(bytes, a + Len(WriteCounted(v, from)), v, got)
<1>1. Len(v) \in Nat /\ Len(v) \in 0 .. NumberMax - 1
  <2>1. NumberMax \in Nat /\ Len(v) \in Nat
    BY BaseAssumption DEF NumberMax
  <2>2. QED BY <2>1
<1>2. PICK u : u = WriteNumber(Len(v), from)
  OBVIOUS
<1>3. u \in Seq(ByteValue) /\ Len(u) = 2
  BY <1>1, <1>2, NumberWritten
<1>4. WriteCounted(v, from) = u \o v
  BY <1>2 DEF WriteCounted
<1>5. LiesAt(bytes, a, u) /\ LiesAt(bytes, a + 2, v) /\ Len(u \o v) = 2 + Len(v)
  <2>1. LiesAt(bytes, a, u \o v)
    BY <1>4
  <2>2. LiesAt(bytes, a, u) /\ LiesAt(bytes, a + Len(u), v) /\ Len(u \o v) = Len(u) + Len(v)
    BY <1>3, <2>1, EachLies
  <2>3. QED BY <1>3, <2>2
<1>6. ReadNumber(Stream(bytes, a, x, got), to) = Stream(bytes, a + 2, Len(v), got)
  BY <1>1, <1>2, <1>5, NumberRead
<1>7. /\ Enough(Stream(bytes, a + 2, Len(v), got), Len(v))
      /\ Take(Stream(bytes, a + 2, Len(v), got), Len(v)) = Stream(bytes, (a + 2) + Len(v), v, got)
  BY <1>5, TakeWhole
<1>8. Stream(bytes, a + 2, Len(v), got).value = Len(v)
  BY DEF Stream
<1>9. ReadCounted(Stream(bytes, a, x, got), to) = Stream(bytes, (a + 2) + Len(v), v, got)
  BY <1>6, <1>7, <1>8 DEF ReadCounted, Counted
<1>10. (a + 2) + Len(v) = a + (2 + Len(v))
  <2>1. a \in Nat
    BY DEF LiesAt
  <2>2. QED BY <1>1, <2>1
<1>11. QED BY <1>4, <1>5, <1>9, <1>10

\* And a single byte.
LEMMA ByteRead ==
  ASSUME NEW w, NEW bytes, NEW a, LiesAt(bytes, a, w), NEW x, NEW got
  PROVE  Len(w) = 1 => ReadByte(Stream(bytes, a, x, got)) = Stream(bytes, a + 1, w[1], got)
<1>1. /\ Enough(Stream(bytes, a, x, got), Len(w))
      /\ Take(Stream(bytes, a, x, got), Len(w)) = Stream(bytes, a + Len(w), w, got)
  BY TakeWhole
<1>2. HAVE Len(w) = 1
<1>3. Giving(Stream(bytes, a + 1, w, got), w[1]) = Stream(bytes, a + 1, w[1], got)
  BY DEF Giving, Stream
<1>4. Stream(bytes, a + 1, w, got).value = w
  BY DEF Stream
<1>5. /\ Enough(Stream(bytes, a, x, got), 1)
      /\ Take(Stream(bytes, a, x, got), 1) = Stream(bytes, a + 1, w, got)
  BY <1>1, <1>2
<1>6. QED BY <1>3, <1>4, <1>5 DEF ReadByte

\* Two bytes of memory are a number that can be written.
LEMMA ValueOfTwo ==
  ASSUME NEW d \in [1 .. 2 -> ByteValue], NEW order \in Order
  PROVE  FromMemory(d, order) \in 0 .. NumberMax - 1
<1>1. ASSUME NEW e \in [1 .. 2 -> ByteValue] PROVE ValueOf(e) \in 0 .. NumberMax - 1
  <2>1. PICK val : Partial(e, 2, val) /\ ValueOf(e) = val[2]
    BY ValueIs
  <2>2. val[0] = 0 /\ val[1] = val[0] * ByteBase + e[1] /\ val[2] = val[1] * ByteBase + e[2]
    <3>1. 1 \in 1 .. 2 /\ 2 \in 1 .. 2 /\ 1 - 1 = 0 /\ 2 - 1 = 1
      OBVIOUS
    <3>2. val[0] = 0 /\ val[1] = val[1 - 1] * ByteBase + e[1] /\ val[2] = val[2 - 1] * ByteBase + e[2]
      BY <2>1, <3>1 DEF Partial
    <3>3. QED BY <3>1, <3>2
  <2>3. PICK b \in Nat \ {0, 1}, c \in Nat, z \in Nat : b = ByteBase /\ c = e[1] /\ z = e[2] /\ c <= b - 1 /\ z <= b - 1
    <3>1. PICK b \in Nat \ {0, 1} : b = ByteBase
      BY BaseAssumption
    <3>2. e[1] \in 0 .. b - 1 /\ e[2] \in 0 .. b - 1
      BY <3>1 DEF ByteValue
    <3>3. PICK c, z : c = e[1] /\ z = e[2]
      OBVIOUS
    <3>4. c \in Nat /\ z \in Nat /\ c <= b - 1 /\ z <= b - 1
      BY <3>2, <3>3
    <3>5. QED BY <3>1, <3>3, <3>4
  <2>4. val[1] = c
    BY <2>2, <2>3
  <2>5. val[2] = c * b + z
    BY <2>2, <2>3, <2>4
  <2>6. c * b <= (b - 1) * b /\ c * b \in Nat /\ (b - 1) * b \in Nat
    BY <2>3, MoreOfThem
  <2>7. (b - 1) * b = b * b - b /\ b * b \in Nat
    BY <2>3
  <2>8. c * b + z < b * b
    BY <2>3, <2>6, <2>7
  <2>9. c * b + z \in 0 .. b * b - 1
    BY <2>3, <2>6, <2>7, <2>8
  <2>10. QED BY <2>1, <2>3, <2>5, <2>9 DEF NumberMax
<1>2. Reverse(d) \in [1 .. 2 -> ByteValue]
  BY TurnedRound
<1>3. QED BY <1>1, <1>2 DEF FromMemory

\* An address that was written as two numbers in memory, as two numbers comes into memory.
HalfOf(v, h) == SubSeq(v, 2 * h - 1, 2 * h)
AddressComes(v, from, to) ==
  InMemory(FromMemory(HalfOf(v, 1), from), 2, to) \o InMemory(FromMemory(HalfOf(v, 2), from), 2, to)

\* The host and the port of an address.
LEMMA HalvesOf ==
  ASSUME NEW v \in [1 .. 4 -> ByteValue]
  PROVE  /\ HalfOf(v, 1) \in [1 .. 2 -> ByteValue] /\ HalfOf(v, 2) \in [1 .. 2 -> ByteValue]
         /\ HalfOf(v, 1) = SubSeq(v, 1, 2) /\ HalfOf(v, 2) = SubSeq(v, 3, 4)
         /\ HalfOf(v, 1) \o HalfOf(v, 2) = v
<1>1. HalfOf(v, 1) = SubSeq(v, 1, 2) /\ HalfOf(v, 2) = SubSeq(v, 3, 4)
  <2>1. 2 * 1 - 1 = 1 /\ 2 * 1 = 2 /\ 2 * 2 - 1 = 3 /\ 2 * 2 = 4
    OBVIOUS
  <2>2. QED BY <2>1 DEF HalfOf
<1>2. v \in Seq(ByteValue) /\ Len(v) = 4
  BY SequenceOf
<1>3. PICK c, d : c = SubSeq(v, 1, 2) /\ d = SubSeq(v, 3, 4)
  OBVIOUS
<1>4. c \in Seq(ByteValue) /\ Len(c) = 2 /\ c[1] = v[1] /\ c[2] = v[2]
  <2>1. 1 \in Int /\ 2 \in Int /\ \A i \in 1 .. 2 : v[i] \in ByteValue
    OBVIOUS
  <2>2. /\ c \in Seq(ByteValue) /\ Len(c) = IF 1 <= 2 THEN 2 - 1 + 1 ELSE 0
        /\ \A i \in 1 .. 2 - 1 + 1 : c[i] = v[1 + i - 1]
    BY <1>3, <2>1, SubSeqProperties
  <2>3. QED BY <2>2
<1>5. d \in Seq(ByteValue) /\ Len(d) = 2 /\ d[1] = v[3] /\ d[2] = v[4]
  <2>1. 3 \in Int /\ 4 \in Int /\ \A i \in 3 .. 4 : v[i] \in ByteValue
    OBVIOUS
  <2>2. /\ d \in Seq(ByteValue) /\ Len(d) = IF 3 <= 4 THEN 4 - 3 + 1 ELSE 0
        /\ \A i \in 1 .. 4 - 3 + 1 : d[i] = v[3 + i - 1]
    BY <1>3, <2>1, SubSeqProperties
  <2>3. QED BY <2>2
<1>6. c \in [1 .. 2 -> ByteValue] /\ d \in [1 .. 2 -> ByteValue]
  BY <1>4, <1>5
<1>7. c \o d = v
  <2>1. PICK e : e = c \o d
    OBVIOUS
  <2>2. /\ e \in Seq(ByteValue) /\ Len(e) = 4
        /\ e[1] = c[1] /\ e[2] = c[2] /\ e[3] = d[1] /\ e[4] = d[2]
    <3>1. /\ c \o d \in Seq(ByteValue) /\ Len(c \o d) = Len(c) + Len(d)
          /\ \A i \in 1 .. Len(c) + Len(d) : (c \o d)[i] = IF i <= Len(c) THEN c[i] ELSE d[i - Len(c)]
      BY <1>4, <1>5, ConcatProperties
    <3>2. 3 - 2 = 1 /\ 4 - 2 = 2 /\ 2 + 2 = 4
      OBVIOUS
    <3>3. /\ e \in Seq(ByteValue) /\ Len(e) = 4
          /\ \A i \in 1 .. 4 : e[i] = IF i <= 2 THEN c[i] ELSE d[i - 2]
      BY <1>4, <1>5, <2>1, <3>1, <3>2
    <3>4. QED BY <3>2, <3>3
  <2>3. \A i \in 1 .. 4 : e[i] = v[i]
    BY <1>4, <1>5, <2>2
  <2>4. e = v
    BY <1>2, <2>2, <2>3
  <2>5. QED BY <2>1, <2>4
<1>8. QED BY <1>1, <1>3, <1>6, <1>7

\* Between hosts of one order it is the same address.
LEMMA AddressKept ==
  ASSUME NEW v \in [1 .. 4 -> ByteValue], NEW order \in Order
  PROVE  AddressComes(v, order, order) = v
<1>1. ASSUME NEW d \in [1 .. 2 -> ByteValue]
      PROVE  InMemory(FromMemory(d, order), 2, order) = d
  <2>1. Digits(ValueOf(d), 2) = d /\ Reverse(d) \in [1 .. 2 -> ByteValue] /\ Reverse(Reverse(d)) = d
    BY DigitsOfValue, TurnedRound
  <2>2. Digits(ValueOf(Reverse(d)), 2) = Reverse(d)
    BY <2>1, DigitsOfValue
  <2>3. QED BY <2>1, <2>2 DEF InMemory, FromMemory
<1>2. PICK c \in [1 .. 2 -> ByteValue], d \in [1 .. 2 -> ByteValue] : c = HalfOf(v, 1) /\ d = HalfOf(v, 2) /\ c \o d = v
  BY HalvesOf
<1>3. InMemory(FromMemory(c, order), 2, order) = c /\ InMemory(FromMemory(d, order), 2, order) = d
  BY <1>1
<1>4. QED BY <1>2, <1>3 DEF AddressComes

\* An address is read as the two numbers it was written as.
LEMMA AddressRead ==
  ASSUME NEW v \in [1 .. 4 -> ByteValue], NEW from \in Order, NEW to \in Order,
         NEW bytes, NEW a, LiesAt(bytes, a, WriteAddress(v, from)), NEW x, NEW got
  PROVE  ReadAddress(Stream(bytes, a, x, got), to) = Stream(bytes, a + 4, AddressComes(v, from, to), got)
<1>1. PICK m \in 0 .. NumberMax - 1, n \in 0 .. NumberMax - 1 :
        m = FromMemory(HalfOf(v, 1), from) /\ n = FromMemory(HalfOf(v, 2), from)
  BY HalvesOf, ValueOfTwo
<1>2. m \in Nat /\ n \in Nat
  BY BaseAssumption DEF NumberMax
<1>3. PICK u, w : u = WriteNumber(m, from) /\ w = WriteNumber(n, from)
  OBVIOUS
<1>4. u \in Seq(ByteValue) /\ w \in Seq(ByteValue) /\ Len(u) = 2 /\ Len(w) = 2
  BY <1>2, <1>3, NumberWritten
<1>5. WriteAddress(v, from) = u \o w
  <2>1. WidthOf = 2 /\ WidthOf + 1 = 3 /\ 2 * WidthOf = 4
    BY DEF WidthOf
  <2>2. HalfOf(v, 1) = SubSeq(v, 1, WidthOf) /\ HalfOf(v, 2) = SubSeq(v, WidthOf + 1, 2 * WidthOf)
    BY <2>1, HalvesOf
  <2>3. QED BY <1>1, <1>3, <2>2 DEF WriteAddress
<1>6. LiesAt(bytes, a, u) /\ LiesAt(bytes, a + 2, w)
  <2>1. LiesAt(bytes, a, u \o w)
    BY <1>5
  <2>2. LiesAt(bytes, a, u) /\ LiesAt(bytes, a + Len(u), w)
    BY <1>4, <2>1, EachLies
  <2>3. QED BY <1>4, <2>2
<1>7. PICK ip : ip = Stream(bytes, a + 2, m, got)
  OBVIOUS
<1>8. ReadNumber(Stream(bytes, a, x, got), to) = ip
  BY <1>3, <1>6, <1>7, NumberRead
<1>9. ReadNumber(ip, to) = Stream(bytes, (a + 2) + 2, n, got)
  BY <1>3, <1>6, <1>7, NumberRead
<1>10. AddressOf(ip, Stream(bytes, (a + 2) + 2, n, got), to)
         = Stream(bytes, (a + 2) + 2, InMemory(m, 2, to) \o InMemory(n, 2, to), got)
  BY <1>7 DEF AddressOf, Giving, Stream, WidthOf
<1>11. (a + 2) + 2 = a + 4
  BY DEF LiesAt
<1>12. QED BY <1>1, <1>8, <1>9, <1>10, <1>11 DEF ReadAddress, ReadPort, AddressComes

-----------------------------------------------------------------------------
(* Fields and tuples of them. *)

\* What a field can be, and what comes of it.
FieldKind == {"number", "byte", "counted", "address"}
Fits(kind, v) ==
  /\ kind \in FieldKind
  /\ kind = "number" => v \in 0 .. NumberMax - 1
  /\ kind = "byte" => v \in ByteValue
  /\ kind = "counted" => v \in Seq(ByteValue) /\ Len(v) < NumberMax
  /\ kind = "address" => v \in [1 .. 4 -> ByteValue]
Comes(kind, v, from, to) == IF kind = "address" THEN AddressComes(v, from, to) ELSE v

\* A field that fits is written as bytes.
LEMMA FieldWritten ==
  ASSUME NEW kind, NEW v, Fits(kind, v), NEW from \in Order
  PROVE  WriteField(kind, v, from) \in Seq(ByteValue)
<1>1. CASE kind = "number"
  <2>1. v \in Nat
    BY <1>1, BaseAssumption DEF Fits, NumberMax
  <2>2. QED BY <1>1, <2>1, NumberWritten DEF WriteField
<1>2. CASE kind = "byte"
  <2>1. v \in ByteValue /\ WriteField(kind, v, from) = <<v>>
    BY <1>2 DEF Fits, WriteField
  <2>2. QED BY <2>1
<1>3. CASE kind = "counted"
  <2>1. v \in Seq(ByteValue) /\ WriteField(kind, v, from) = WriteNumber(Len(v), from) \o v
    BY <1>3 DEF Fits, WriteField, WriteCounted
  <2>2. Len(v) \in Nat
    BY <2>1
  <2>3. WriteNumber(Len(v), from) \in Seq(ByteValue)
    BY <2>2, NumberWritten
  <2>4. QED BY <2>1, <2>3
<1>4. CASE kind = "address"
  <2>1. v \in [1 .. 4 -> ByteValue]
    BY <1>4 DEF Fits
  <2>2. PICK m \in Nat, n \in Nat : m = FromMemory(HalfOf(v, 1), from) /\ n = FromMemory(HalfOf(v, 2), from)
    <3>1. /\ FromMemory(HalfOf(v, 1), from) \in 0 .. NumberMax - 1
          /\ FromMemory(HalfOf(v, 2), from) \in 0 .. NumberMax - 1
      BY <2>1, HalvesOf, ValueOfTwo
    <3>2. QED BY <3>1, BaseAssumption DEF NumberMax
  <2>3. WriteField(kind, v, from) = WriteNumber(m, from) \o WriteNumber(n, from)
    <3>1. WidthOf = 2 /\ WidthOf + 1 = 3 /\ 2 * WidthOf = 4
      BY DEF WidthOf
    <3>2. HalfOf(v, 1) = SubSeq(v, 1, WidthOf) /\ HalfOf(v, 2) = SubSeq(v, WidthOf + 1, 2 * WidthOf)
      BY <2>1, <3>1, HalvesOf
    <3>3. QED BY <1>4, <2>2, <3>2 DEF WriteField, WriteAddress
  <2>4. WriteNumber(m, from) \in Seq(ByteValue) /\ WriteNumber(n, from) \in Seq(ByteValue)
    BY NumberWritten
  <2>5. QED BY <2>3, <2>4
<1>5. QED BY <1>1, <1>2, <1>3, <1>4 DEF Fits, FieldKind

\* A field is read as it was written.
LEMMA FieldIsRead ==
  ASSUME NEW kind, NEW v, Fits(kind, v), NEW from \in Order, NEW to \in Order,
         NEW bytes, NEW a, NEW w, w = WriteField(kind, v, from), LiesAt(bytes, a, w), NEW x, NEW got
  PROVE  ReadField(Stream(bytes, a, x, got), kind, to)
           = Stream(bytes, a + Len(w), Comes(kind, v, from, to), got)
<1>1. CASE kind = "number"
  <2>1. v \in 0 .. NumberMax - 1 /\ w = WriteNumber(v, from) /\ Comes(kind, v, from, to) = v
    BY <1>1 DEF Fits, WriteField, Comes
  <2>2. LiesAt(bytes, a, WriteNumber(v, from)) /\ v \in Nat
    BY <2>1, BaseAssumption DEF NumberMax
  <2>3. Len(w) = 2
    BY <2>1, <2>2, NumberWritten
  <2>4. ReadNumber(Stream(bytes, a, x, got), to) = Stream(bytes, a + 2, v, got)
    BY <2>1, <2>2, NumberRead
  <2>5. QED BY <1>1, <2>1, <2>3, <2>4 DEF ReadField
<1>2. CASE kind = "byte"
  <2>1. w = <<v>> /\ Comes(kind, v, from, to) = v
    BY <1>2 DEF WriteField, Comes
  <2>2. Len(w) = 1 /\ w[1] = v
    BY <2>1
  <2>3. ReadByte(Stream(bytes, a, x, got)) = Stream(bytes, a + 1, w[1], got)
    BY <2>2, ByteRead
  <2>4. QED BY <1>2, <2>1, <2>2, <2>3 DEF ReadField
<1>3. CASE kind = "counted"
  <2>1. v \in Seq(ByteValue) /\ Len(v) < NumberMax /\ w = WriteCounted(v, from) /\ Comes(kind, v, from, to) = v
    BY <1>3 DEF Fits, WriteField, Comes
  <2>2. LiesAt(bytes, a, WriteCounted(v, from))
    BY <2>1
  <2>3. ReadCounted(Stream(bytes, a, x, got), to) = Stream(bytes, a + Len(WriteCounted(v, from)), v, got)
    BY <2>1, <2>2, CountedRead
  <2>4. QED BY <1>3, <2>1, <2>3 DEF ReadField
<1>4. CASE kind = "address"
  <2>1. v \in [1 .. 4 -> ByteValue] /\ w = WriteAddress(v, from) /\ Comes(kind, v, from, to) = AddressComes(v, from, to)
    BY <1>4 DEF Fits, WriteField, Comes
  <2>2. LiesAt(bytes, a, WriteAddress(v, from))
    BY <2>1
  <2>3. ReadAddress(Stream(bytes, a, x, got), to) = Stream(bytes, a + 4, AddressComes(v, from, to), got)
    BY <2>1, <2>2, AddressRead
  <2>4. Len(w) = 4
    <3>1. PICK m \in Nat, n \in Nat : m = FromMemory(HalfOf(v, 1), from) /\ n = FromMemory(HalfOf(v, 2), from)
      <4>1. /\ FromMemory(HalfOf(v, 1), from) \in 0 .. NumberMax - 1
            /\ FromMemory(HalfOf(v, 2), from) \in 0 .. NumberMax - 1
        BY <2>1, HalvesOf, ValueOfTwo
      <4>2. QED BY <4>1, BaseAssumption DEF NumberMax
    <3>2. WriteAddress(v, from) = WriteNumber(m, from) \o WriteNumber(n, from)
      <4>1. WidthOf = 2 /\ WidthOf + 1 = 3 /\ 2 * WidthOf = 4
        BY DEF WidthOf
      <4>2. HalfOf(v, 1) = SubSeq(v, 1, WidthOf) /\ HalfOf(v, 2) = SubSeq(v, WidthOf + 1, 2 * WidthOf)
        BY <2>1, <4>1, HalvesOf
      <4>3. QED BY <3>1, <4>2 DEF WriteAddress
    <3>3. PICK c, d : /\ c = WriteNumber(m, from) /\ c \in Seq(ByteValue) /\ Len(c) = 2
                      /\ d = WriteNumber(n, from) /\ d \in Seq(ByteValue) /\ Len(d) = 2
      BY NumberWritten
    <3>4. w = c \o d
      BY <2>1, <3>2, <3>3
    <3>5. Len(c \o d) = 2 + 2
      <4>1. Len(c \o d) = Len(c) + Len(d)
        BY <3>3, ConcatProperties
      <4>2. QED BY <3>3, <4>1
    <3>6. QED BY <3>4, <3>5
  <2>5. QED BY <1>4, <2>1, <2>3, <2>4 DEF ReadField
<1>5. QED BY <1>1, <1>2, <1>3, <1>4 DEF Fits, FieldKind

\* Two that begin alike and go on alike are alike.
LEMMA AlikeAllAlong ==
  ASSUME NEW n \in Nat, NEW f, NEW g, f[0] = g[0],
         \A k \in 1 .. n : f[k - 1] = g[k - 1] => f[k] = g[k]
  PROVE  \A k \in 0 .. n : f[k] = g[k]
<1> DEFINE T == {k \in 0 .. n : f[k] = g[k]}
<1>1. 0 \in T
  OBVIOUS
<1>2. ASSUME NEW k \in 0 .. n - 1, k \in T
      PROVE  k + 1 \in T
  <2>1. k + 1 \in 1 .. n /\ (k + 1) - 1 = k /\ k + 1 \in 0 .. n
    OBVIOUS
  <2>2. f[(k + 1) - 1] = g[(k + 1) - 1]
    BY <1>2, <2>1
  <2>3. QED BY <2>1, <2>2
<1>3. \A k \in 0 .. n : k \in T
  <2> HIDE DEF T
  <2>1. QED BY <1>1, <1>2, UpToN
<1>4. QED BY <1>3

TupleFits(kinds, t) == kinds \in Seq(FieldKind) /\ \A k \in 1 .. Len(kinds) : Fits(kinds[k], t[k])
TupleComes(kinds, t, from, to) == [k \in 1 .. Len(kinds) |-> Comes(kinds[k], t[k], from, to)]

\* A tuple is written as its fields one after the other.
LEMMA TupleWritten ==
  ASSUME NEW kinds, NEW t, TupleFits(kinds, t), NEW from \in Order
  PROVE  \E parts, upTo : /\ parts = [k \in 1 .. Len(kinds) |-> WriteField(kinds[k], t[k], from)]
                          /\ AreParts(parts, Len(kinds)) /\ Joined(parts, Len(kinds), upTo)
                          /\ WriteTuple(kinds, t, from) = upTo[Len(kinds)]
                          /\ upTo[Len(kinds)] \in Seq(ByteValue)
<1>1. PICK n \in Nat : n = Len(kinds) /\ DOMAIN kinds = 1 .. n
  BY DEF TupleFits
<1>2. PICK parts : parts = [k \in 1 .. n |-> WriteField(kinds[k], t[k], from)]
  OBVIOUS
<1>3. \A k \in 1 .. n : parts[k] \in Seq(ByteValue)
  <2> TAKE k \in 1 .. n
  <2>1. Fits(kinds[k], t[k])
    BY <1>1 DEF TupleFits
  <2>2. QED BY <1>2, <2>1, FieldWritten
<1>4. AreParts(parts, n)
  <2>1. parts = [k \in 1 .. n |-> parts[k]]
    BY <1>2
  <2>2. QED BY <1>3, <2>1 DEF AreParts
<1>5. WriteTuple(kinds, t, from) = FlattenSeq(parts)
  BY <1>1, <1>2 DEF WriteTuple
<1>6. PICK upTo : Joined(parts, n, upTo) /\ FlattenSeq(parts) = upTo[n]
  BY <1>4, FlattenedIs
<1>7. upTo[n] \in Seq(ByteValue)
  BY <1>6 DEF Joined
<1>8. QED BY <1>1, <1>2, <1>4, <1>5, <1>6, <1>7

\* A tuple is read field by field as it was written.
LEMMA TupleRead ==
  ASSUME NEW kinds, NEW t, TupleFits(kinds, t), NEW from \in Order, NEW to \in Order,
         NEW bytes, NEW a, NEW w, w = WriteTuple(kinds, t, from), LiesAt(bytes, a, w), NEW x, NEW got
  PROVE  ReadTuple(Stream(bytes, a, x, got), kinds, to)
           = Stream(bytes, a + Len(w), TupleComes(kinds, t, from, to), got)
<1>1. PICK n \in Nat : n = Len(kinds)
  BY DEF TupleFits
<1>2. PICK parts, upTo : /\ parts = [k \in 1 .. n |-> WriteField(kinds[k], t[k], from)]
                         /\ AreParts(parts, n) /\ Joined(parts, n, upTo) /\ w = upTo[n]
  BY <1>1, TupleWritten
<1>3. \A k \in 1 .. n : /\ LiesAt(bytes, a + Len(upTo[k - 1]), parts[k])
                        /\ Len(upTo[k]) = Len(upTo[k - 1]) + Len(parts[k])
  <2>1. LiesAt(bytes, a, upTo[n])
    BY <1>2
  <2>2. LieBehind(parts, n, upTo, bytes, a)
    BY <1>2, <2>1, PartsLie
  <2>3. QED BY <2>2 DEF LieBehind
<1>4. /\ a \in Nat /\ Len(upTo[0]) = 0
      /\ \A k \in 0 .. n : Len(upTo[k]) \in Nat
      /\ \A k \in 1 .. n : Len(parts[k]) \in Nat /\ k - 1 \in 0 .. n
  <2>1. upTo \in [0 .. n -> Seq(ByteValue)] /\ upTo[0] = <<>> /\ \A k \in 1 .. n : parts[k] \in Seq(ByteValue)
    BY <1>2 DEF Joined, AreParts
  <2>2. QED BY <2>1 DEF LiesAt
<1>5. PICK comes : comes = [k \in 1 .. n |-> Comes(kinds[k], t[k], from, to)]
  OBVIOUS
<1> DEFINE s == Stream(bytes, a, x, got)
           walk == [k \in 0 .. n |-> Stream(bytes, a + Len(upTo[k]), IF k = 0 THEN x ELSE comes[k], got)]
           Right(h) == h = [k \in 0 .. Len(kinds) |-> IF k = 0 THEN s ELSE ReadField(h[k - 1], kinds[k], to)]
<1>6. walk[0] = s
  <2>1. a + Len(upTo[0]) = a
    BY <1>4
  <2>2. QED BY <2>1
<1>7. ASSUME NEW k \in 1 .. n PROVE ReadField(walk[k - 1], kinds[k], to) = walk[k]
  <2>1. PICK y : walk[k - 1] = Stream(bytes, a + Len(upTo[k - 1]), y, got)
    BY <1>4
  <2>2. Fits(kinds[k], t[k]) /\ parts[k] = WriteField(kinds[k], t[k], from)
    BY <1>1, <1>2 DEF TupleFits
  <2>3. LiesAt(bytes, a + Len(upTo[k - 1]), parts[k])
    BY <1>3
  <2>4. ReadField(Stream(bytes, a + Len(upTo[k - 1]), y, got), kinds[k], to)
          = Stream(bytes, (a + Len(upTo[k - 1])) + Len(parts[k]), Comes(kinds[k], t[k], from, to), got)
    BY <2>2, <2>3, FieldIsRead
  <2>5. (a + Len(upTo[k - 1])) + Len(parts[k]) = a + Len(upTo[k])
    <3>1. PICK i \in Nat, j \in Nat : i = Len(upTo[k - 1]) /\ j = Len(parts[k])
      BY <1>4
    <3>2. Len(upTo[k]) = i + j
      BY <1>3, <3>1
    <3>3. (a + i) + j = a + (i + j)
      BY <1>4
    <3>4. QED BY <3>1, <3>2, <3>3, Zenon
  <2>6. walk[k] = Stream(bytes, a + Len(upTo[k]), comes[k], got)
    OBVIOUS
  <2> HIDE DEF walk
  <2>7. QED BY <1>5, <2>1, <2>4, <2>5, <2>6
<1>8. walk = [k \in 0 .. Len(kinds) |-> walk[k]]
  BY <1>1
<1> HIDE DEF walk
<1>9. Right(walk)
  <2>1. \A k \in 0 .. Len(kinds) : walk[k] = IF k = 0 THEN s ELSE ReadField(walk[k - 1], kinds[k], to)
    BY <1>1, <1>6, <1>7
  <2> HIDE DEF s
  <2>2. QED BY <1>8, <2>1, Zenon
<1> DEFINE after == CHOOSE h : Right(h)
<1>10. Right(after)
  <2> HIDE DEF Right
  <2>1. QED BY <1>9
<1>11. ReadTuple(s, kinds, to) = Collected(after, Len(kinds))
  BY DEF ReadTuple
<1> HIDE DEF after
<1>12. \A k \in 0 .. n : after[k] = IF k = 0 THEN s ELSE ReadField(after[k - 1], kinds[k], to)
  BY <1>1, <1>10
<1>13. \A k \in 0 .. n : after[k] = walk[k]
  <2>1. after[0] = walk[0]
    BY <1>6, <1>12
  <2>2. ASSUME NEW k \in 1 .. n, after[k - 1] = walk[k - 1] PROVE after[k] = walk[k]
    <3>1. after[k] = ReadField(after[k - 1], kinds[k], to)
      BY <1>12
    <3>2. QED BY <1>7, <2>2, <3>1
  <2>3. QED BY <2>1, <2>2, AlikeAllAlong
<1>14. \A k \in 1 .. n : after[k].value = comes[k]
  <2> TAKE k \in 1 .. n
  <2>1. walk[k] = Stream(bytes, a + Len(upTo[k]), comes[k], got)
    BY DEF walk
  <2>2. QED BY <1>13, <2>1 DEF Stream
<1>15. [k \in 1 .. n |-> after[k].value] = TupleComes(kinds, t, from, to)
  BY <1>1, <1>5, <1>14 DEF TupleComes
<1>16. PICK y : after[n] = Stream(bytes, a + Len(w), y, got)
  <2>1. after[n] = walk[n]
    BY <1>13
  <2>2. QED BY <1>2, <2>1 DEF walk
<1>17. Collected(after, n) = Stream(bytes, a + Len(w), TupleComes(kinds, t, from, to), got)
  <2>1. Collected(after, n) = Giving(after[n], TupleComes(kinds, t, from, to))
    BY <1>15, Zenon DEF Collected
  <2>2. QED BY <1>16, <2>1 DEF Giving, Stream
<1>18. QED BY <1>1, <1>11, <1>17

-----------------------------------------------------------------------------
(* Lists of tuples, and what a message is made of. *)

IsList(v, m) == v = [i \in 1 .. m |-> v[i]]
ListFits(kinds, v) ==
  \E m \in Nat : IsList(v, m) /\ m < NumberMax /\ \A i \in 1 .. m : TupleFits(kinds, v[i])
ListWritten(kinds, v, from) ==
  WriteNumber(Len(v), from) \o FlattenSeq([i \in DOMAIN v |-> WriteTuple(kinds, v[i], from)])
ListComes(kinds, v, from, to) == [i \in 1 .. Len(v) |-> TupleComes(kinds, v[i], from, to)]

\* A list of m tuples as it is written: the number, and the tuples one after the other.
Pieces(kinds, v, from, m, count, parts, upTo) ==
  /\ m \in Nat /\ m \in 0 .. NumberMax - 1 /\ Len(v) = m
  /\ \A i \in 1 .. m : TupleFits(kinds, v[i])
  /\ count = WriteNumber(m, from) /\ count \in Seq(ByteValue) /\ Len(count) = 2
  /\ parts = [i \in 1 .. m |-> WriteTuple(kinds, v[i], from)]
  /\ AreParts(parts, m) /\ Joined(parts, m, upTo) /\ upTo[m] \in Seq(ByteValue)
  /\ ListWritten(kinds, v, from) = count \o upTo[m]

\* Every list that fits has such pieces.
LEMMA ListIsWritten ==
  ASSUME NEW kinds, NEW v, ListFits(kinds, v), NEW from \in Order
  PROVE  \E m, count, parts, upTo : Pieces(kinds, v, from, m, count, parts, upTo)
<1>1. PICK m \in Nat : IsList(v, m) /\ m < NumberMax /\ \A i \in 1 .. m : TupleFits(kinds, v[i])
  BY DEF ListFits
<1>2. Len(v) = m /\ DOMAIN v = 1 .. m
  BY <1>1 DEF IsList
<1>3. m \in 0 .. NumberMax - 1
  BY <1>1, BaseAssumption DEF NumberMax
<1>4. PICK count : count = WriteNumber(m, from) /\ count \in Seq(ByteValue) /\ Len(count) = 2
  BY NumberWritten
<1>5. PICK parts : parts = [i \in 1 .. m |-> WriteTuple(kinds, v[i], from)]
  OBVIOUS
<1>6. \A i \in 1 .. m : parts[i] \in Seq(ByteValue)
  <2> TAKE i \in 1 .. m
  <2>1. TupleFits(kinds, v[i])
    BY <1>1
  <2>2. WriteTuple(kinds, v[i], from) \in Seq(ByteValue)
    BY <2>1, TupleWritten
  <2>3. QED BY <1>5, <2>2
<1>7. AreParts(parts, m)
  <2>1. parts = [i \in 1 .. m |-> parts[i]]
    BY <1>5
  <2>2. QED BY <1>6, <2>1 DEF AreParts
<1>8. PICK upTo : Joined(parts, m, upTo) /\ FlattenSeq(parts) = upTo[m]
  BY <1>7, FlattenedIs
<1>9. upTo[m] \in Seq(ByteValue)
  BY <1>8 DEF Joined
<1>10. ListWritten(kinds, v, from) = count \o upTo[m]
  BY <1>2, <1>4, <1>5, <1>8 DEF ListWritten
<1>11. Pieces(kinds, v, from, m, count, parts, upTo)
  BY <1>1, <1>2, <1>3, <1>4, <1>5, <1>7, <1>8, <1>9, <1>10 DEF Pieces
<1>12. QED BY <1>11

\* A list is read tuple by tuple, as many as its number says.
LEMMA ListIsRead ==
  ASSUME NEW kinds, NEW v, ListFits(kinds, v), NEW from \in Order, NEW to \in Order,
         NEW bytes, NEW a, NEW w, w = ListWritten(kinds, v, from), LiesAt(bytes, a, w), NEW x, NEW got
  PROVE  ReadMany(Stream(bytes, a, x, got), kinds, to)
           = Stream(bytes, a + Len(w), ListComes(kinds, v, from, to), got)
<1>0. PICK m, count, parts, upTo : Pieces(kinds, v, from, m, count, parts, upTo)
  BY ListIsWritten
<1>1. /\ m \in Nat /\ m \in 0 .. NumberMax - 1 /\ Len(v) = m
      /\ \A i \in 1 .. m : TupleFits(kinds, v[i])
      /\ count = WriteNumber(m, from) /\ count \in Seq(ByteValue) /\ Len(count) = 2
      /\ parts = [i \in 1 .. m |-> WriteTuple(kinds, v[i], from)]
      /\ AreParts(parts, m) /\ Joined(parts, m, upTo) /\ upTo[m] \in Seq(ByteValue)
      /\ w = count \o upTo[m]
  BY <1>0 DEF Pieces
<1>2. LiesAt(bytes, a, count) /\ LiesAt(bytes, a + 2, upTo[m]) /\ Len(w) = 2 + Len(upTo[m])
  <2>1. LiesAt(bytes, a, count \o upTo[m])
    BY <1>1
  <2>2. /\ LiesAt(bytes, a, count) /\ LiesAt(bytes, a + Len(count), upTo[m])
        /\ Len(count \o upTo[m]) = Len(count) + Len(upTo[m])
    BY <1>1, <2>1, EachLies
  <2>3. QED BY <1>1, <2>2
<1>3. \A k \in 1 .. m : /\ LiesAt(bytes, (a + 2) + Len(upTo[k - 1]), parts[k])
                        /\ Len(upTo[k]) = Len(upTo[k - 1]) + Len(parts[k])
  <2>1. AreParts(parts, m) /\ Joined(parts, m, upTo) /\ m \in Nat
    BY <1>1
  <2>2. PICK b : b = a + 2 /\ LiesAt(bytes, b, upTo[m])
    BY <1>2
  <2>3. LieBehind(parts, m, upTo, bytes, b)
    BY <2>1, <2>2, PartsLie
  <2>4. QED BY <2>2, <2>3 DEF LieBehind
<1>4. /\ a \in Nat /\ Len(upTo[0]) = 0
      /\ \A k \in 0 .. m : Len(upTo[k]) \in Nat
      /\ \A k \in 1 .. m : Len(parts[k]) \in Nat /\ k - 1 \in 0 .. m
  <2>1. upTo \in [0 .. m -> Seq(ByteValue)] /\ upTo[0] = <<>> /\ \A k \in 1 .. m : parts[k] \in Seq(ByteValue)
    BY <1>1 DEF Joined, AreParts
  <2>2. a \in Nat
    BY DEF LiesAt
  <2>3. \A k \in 0 .. m : Len(upTo[k]) \in Nat
    BY <2>1
  <2>4. \A k \in 1 .. m : Len(parts[k]) \in Nat /\ k - 1 \in 0 .. m
    BY <1>1, <2>1
  <2>5. QED BY <2>1, <2>2, <2>3, <2>4
<1>5. PICK comes : comes = [k \in 1 .. m |-> TupleComes(kinds, v[k], from, to)]
  OBVIOUS
<1>6. PICK b \in Nat : b = a + 2
  BY <1>4
<1> DEFINE s == Stream(bytes, b, m, got)
           walk == [k \in 0 .. m |-> Stream(bytes, b + Len(upTo[k]), IF k = 0 THEN m ELSE comes[k], got)]
           Right(h) == h = [k \in 0 .. s.value |-> IF k = 0 THEN s ELSE ReadTuple(h[k - 1], kinds, to)]
<1>7. ReadNumber(Stream(bytes, a, x, got), to) = s
  <2>1. LiesAt(bytes, a, WriteNumber(m, from))
    BY <1>1, <1>2
  <2>2. ReadNumber(Stream(bytes, a, x, got), to) = Stream(bytes, a + 2, m, got)
    BY <1>1, <2>1, NumberRead
  <2>3. QED BY <1>6, <2>2
<1>8. s.value = m /\ s.failed = FALSE
  BY DEF Stream
<1>9. walk[0] = s
  <2>1. b + Len(upTo[0]) = b
    BY <1>4
  <2>2. QED BY <1>1, <2>1
<1>10. ASSUME NEW k \in 1 .. m PROVE ReadTuple(walk[k - 1], kinds, to) = walk[k]
  <2>1. PICK y : walk[k - 1] = Stream(bytes, b + Len(upTo[k - 1]), y, got)
    BY <1>4
  <2>2. TupleFits(kinds, v[k]) /\ parts[k] = WriteTuple(kinds, v[k], from)
    BY <1>1
  <2>3. LiesAt(bytes, b + Len(upTo[k - 1]), parts[k])
    BY <1>3, <1>6
  <2>4. ReadTuple(Stream(bytes, b + Len(upTo[k - 1]), y, got), kinds, to)
          = Stream(bytes, (b + Len(upTo[k - 1])) + Len(parts[k]), TupleComes(kinds, v[k], from, to), got)
    <3>1. PICK t, p, c : t = v[k] /\ p = parts[k] /\ c = b + Len(upTo[k - 1])
      OBVIOUS
    <3>2. TupleFits(kinds, t) /\ p = WriteTuple(kinds, t, from) /\ LiesAt(bytes, c, p)
      BY <2>2, <2>3, <3>1
    <3>3. ReadTuple(Stream(bytes, c, y, got), kinds, to) = Stream(bytes, c + Len(p), TupleComes(kinds, t, from, to), got)
      BY <3>2, TupleRead
    <3>4. QED BY <3>1, <3>3
  <2>5. (b + Len(upTo[k - 1])) + Len(parts[k]) = b + Len(upTo[k])
    <3>1. PICK i \in Nat, j \in Nat : i = Len(upTo[k - 1]) /\ j = Len(parts[k])
      BY <1>4
    <3>2. Len(upTo[k]) = i + j
      BY <1>3, <3>1
    <3>3. (b + i) + j = b + (i + j)
      BY <1>6
    <3>4. QED BY <3>1, <3>2, <3>3, Zenon
  <2>6. walk[k] = Stream(bytes, b + Len(upTo[k]), comes[k], got)
    OBVIOUS
  <2> HIDE DEF walk
  <2>7. QED BY <1>5, <2>1, <2>4, <2>5, <2>6
<1>11. walk = [k \in 0 .. s.value |-> walk[k]]
  BY <1>8
<1> HIDE DEF walk
<1>12. Right(walk)
  <2>1. \A k \in 0 .. s.value : walk[k] = IF k = 0 THEN s ELSE ReadTuple(walk[k - 1], kinds, to)
    BY <1>1, <1>8, <1>9, <1>10
  <2> HIDE DEF s
  <2>2. QED BY <1>11, <2>1, Zenon
<1> DEFINE after == CHOOSE h : Right(h)
<1>13. Right(after)
  <2> HIDE DEF Right
  <2>1. QED BY <1>12
<1>14. ReadAll(s, kinds, to) = Collected(after, s.value)
  <2>1. ReadAll(s, kinds, to) = IF s.failed THEN s ELSE Collected(after, s.value)
    BY DEF ReadAll
  <2> HIDE DEF s, after
  <2>2. QED BY <1>8, <2>1
<1> HIDE DEF after, s
<1>15. \A k \in 0 .. m : after[k] = IF k = 0 THEN s ELSE ReadTuple(after[k - 1], kinds, to)
  BY <1>8, <1>13
<1>16. \A k \in 0 .. m : after[k] = walk[k]
  <2>1. after[0] = walk[0]
    BY <1>1, <1>9, <1>15
  <2>2. ASSUME NEW k \in 1 .. m, after[k - 1] = walk[k - 1] PROVE after[k] = walk[k]
    <3>1. after[k] = ReadTuple(after[k - 1], kinds, to)
      BY <1>15
    <3>2. QED BY <1>10, <2>2, <3>1
  <2>3. m \in Nat
    BY <1>1
  <2>4. QED BY <2>1, <2>2, <2>3, AlikeAllAlong
<1>17. \A k \in 1 .. m : after[k].value = comes[k]
  <2> TAKE k \in 1 .. m
  <2>1. walk[k] = Stream(bytes, b + Len(upTo[k]), comes[k], got)
    BY DEF walk
  <2>2. QED BY <1>16, <2>1 DEF Stream
<1>18. [k \in 1 .. m |-> after[k].value] = ListComes(kinds, v, from, to)
  BY <1>1, <1>5, <1>17 DEF ListComes
<1>19. PICK y : after[m] = Stream(bytes, b + Len(upTo[m]), y, got)
  <2>1. after[m] = walk[m]
    BY <1>1, <1>16
  <2>2. m \in 0 .. m
    BY <1>1
  <2>3. QED BY <2>1, <2>2 DEF walk
<1>20. b + Len(upTo[m]) = a + Len(w)
  <2>1. PICK i \in Nat : i = Len(upTo[m])
    BY <1>1
  <2>2. Len(w) = 2 + i
    BY <1>2, <2>1
  <2>3. (a + 2) + i = a + (2 + i)
    BY <1>4
  <2>4. QED BY <1>6, <2>1, <2>2, <2>3, Zenon
<1>21. Collected(after, m) = Stream(bytes, a + Len(w), ListComes(kinds, v, from, to), got)
  <2>1. Collected(after, m) = Giving(after[m], ListComes(kinds, v, from, to))
    BY <1>18, Zenon DEF Collected
  <2>2. after[m] = Stream(bytes, a + Len(w), y, got)
    BY <1>19, <1>20
  <2>3. QED BY <2>1, <2>2 DEF Giving, Stream
<1>22. QED BY <1>7, <1>8, <1>14, <1>21 DEF ReadMany

\* An entry: a field or a list, for which there is a condition.
EntryFits(e, v) == IF e.many THEN ListFits(e.kinds, v) ELSE Fits(e.kinds[1], v)
EntryComes(e, v, from, to) ==
  IF e.many THEN ListComes(e.kinds, v, from, to) ELSE Comes(e.kinds[1], v, from, to)

\* An entry is written as bytes, or not at all.
LEMMA EntryWritten ==
  ASSUME NEW e, NEW r, Holds(e.when, r) => EntryFits(e, r[e.field]), NEW from \in Order
  PROVE  WriteEntry(e, r, from) \in Seq(ByteValue)
<1>1. CASE ~ Holds(e.when, r)
  <2>1. WriteEntry(e, r, from) = <<>>
    BY <1>1 DEF WriteEntry
  <2>2. QED BY <2>1
<1>2. CASE Holds(e.when, r) /\ e.many
  <2>1. WriteEntry(e, r, from) = ListWritten(e.kinds, r[e.field], from)
    BY <1>2 DEF WriteEntry, ListWritten
  <2>2. ListFits(e.kinds, r[e.field])
    BY <1>2 DEF EntryFits
  <2>3. PICK m, count, parts, upTo : Pieces(e.kinds, r[e.field], from, m, count, parts, upTo)
    BY <2>2, ListIsWritten
  <2>4. /\ count \in Seq(ByteValue) /\ upTo[m] \in Seq(ByteValue)
        /\ ListWritten(e.kinds, r[e.field], from) = count \o upTo[m]
    BY <2>3 DEF Pieces
  <2>5. QED BY <2>1, <2>4
<1>3. CASE Holds(e.when, r) /\ ~ e.many
  <2>1. WriteEntry(e, r, from) = WriteField(e.kinds[1], r[e.field], from)
    BY <1>3 DEF WriteEntry
  <2>2. Fits(e.kinds[1], r[e.field])
    BY <1>3 DEF EntryFits
  <2>3. QED BY <2>1, <2>2, FieldWritten
<1>4. QED BY <1>1, <1>2, <1>3

\* With one more field.
Also(field, v, got) == Joint([f \in {field} |-> v], got)

\* An entry that is there, in the stream and by what the receiver has got so far.
EntryLies(e, r, from, got, bytes, a, w) ==
  /\ Holds(e.when, r) /\ EntryFits(e, r[e.field]) /\ Holds(e.when, got)
  /\ w = WriteEntry(e, r, from) /\ LiesAt(bytes, a, w)

\* It is read into its field, and nothing behind it.
LEMMA EntryIsRead ==
  ASSUME NEW e, NEW r, NEW from \in Order, NEW to \in Order, NEW got, NEW bytes, NEW a, NEW w,
         EntryLies(e, r, from, got, bytes, a, w), NEW x
  PROVE  ReadEntry(Stream(bytes, a, x, got), e, to)
           = Stream(bytes, a + Len(w), 0, Also(e.field, EntryComes(e, r[e.field], from, to), got))
<1>0. /\ Holds(e.when, r) /\ EntryFits(e, r[e.field]) /\ Holds(e.when, got)
      /\ w = WriteEntry(e, r, from) /\ LiesAt(bytes, a, w)
  BY DEF EntryLies
<1>1. PICK t : t = Stream(bytes, a + Len(w), EntryComes(e, r[e.field], from, to), got)
  OBVIOUS
<1>2. (IF e.many THEN ReadMany(Stream(bytes, a, x, got), e.kinds, to)
       ELSE ReadField(Stream(bytes, a, x, got), e.kinds[1], to)) = t
  <2>1. CASE e.many
    <3>1. w = ListWritten(e.kinds, r[e.field], from) /\ ListFits(e.kinds, r[e.field])
      BY <1>0, <2>1 DEF WriteEntry, ListWritten, EntryFits
    <3>2. ReadMany(Stream(bytes, a, x, got), e.kinds, to)
            = Stream(bytes, a + Len(w), ListComes(e.kinds, r[e.field], from, to), got)
      BY <1>0, <3>1, ListIsRead
    <3>3. QED BY <1>1, <2>1, <3>2 DEF EntryComes
  <2>2. CASE ~ e.many
    <3>1. w = WriteField(e.kinds[1], r[e.field], from) /\ Fits(e.kinds[1], r[e.field])
      BY <1>0, <2>2 DEF WriteEntry, EntryFits
    <3>2. ReadField(Stream(bytes, a, x, got), e.kinds[1], to)
            = Stream(bytes, a + Len(w), Comes(e.kinds[1], r[e.field], from, to), got)
      BY <1>0, <3>1, FieldIsRead
    <3>3. QED BY <1>1, <2>2, <3>2 DEF EntryComes
  <2>3. QED BY <2>1, <2>2
<1>3. Stream(bytes, a, x, got).failed = FALSE /\ Stream(bytes, a, x, got).got = got
  BY DEF Stream
<1>4. ReadEntry(Stream(bytes, a, x, got), e, to) = Got(t, e.field)
  BY <1>0, <1>2, <1>3, Zenon DEF ReadEntry
<1>5. Got(t, e.field) = Stream(bytes, a + Len(w), 0, Also(e.field, EntryComes(e, r[e.field], from, to), got))
  BY <1>1 DEF Got, Stream, Also
<1>6. QED BY <1>4, <1>5

-----------------------------------------------------------------------------
(* A whole message. *)

\* The entries E of a message: no field twice, a field of one kind where it is no
\* list, and what decides about later entries comes before them.
EntriesInOrder(E, n) ==
  /\ IsList(E, n)
  /\ \A i \in 1 .. n : \A j \in 1 .. n : E[i].field = E[j].field => i = j
  /\ \A i \in 1 .. n : E[i].when \in {"always", "has", "view"} /\ (~ E[i].many => E[i].kinds = <<E[i].kinds[1]>>)
  /\ \A i \in 1 .. n : E[i].when # "always" => \E j \in 1 .. i - 1 : E[j] = One("has", "byte")
  /\ \A i \in 1 .. n : E[i].when = "view" => \E j \in 1 .. i - 1 : E[j] = OfData("bufType", "number")

\* A record for them: each field that is to be there, and no other.
RecordFits(E, n, r) ==
  /\ \A i \in 1 .. n : Holds(E[i].when, r) => E[i].field \in DOMAIN r /\ EntryFits(E[i], r[E[i].field])
  /\ \A f \in DOMAIN r : \E i \in 1 .. n : Holds(E[i].when, r) /\ E[i].field = f

\* What has come of the first k entries, and of all.
FieldsTo(E, r, k) == {E[i].field : i \in {j \in 1 .. k : Holds(E[j].when, r)}}
GotTo(E, r, k, comes) == [f \in FieldsTo(E, r, k) |-> comes[f]]
ComesAs(E, n, r, from, to, got) ==
  /\ DOMAIN got = DOMAIN r
  /\ \A i \in 1 .. n : Holds(E[i].when, r) => got[E[i].field] = EntryComes(E[i], r[E[i].field], from, to)

ComesAre(E, n, r, from, to, comes) ==
  \A i \in 1 .. n : comes[E[i].field] = EntryComes(E[i], r[E[i].field], from, to)

\* There is such a record of what comes.
LEMMA ComesExists ==
  ASSUME NEW n \in Nat, NEW E, EntriesInOrder(E, n), NEW r, NEW from, NEW to
  PROVE  \E comes : ComesAre(E, n, r, from, to, comes)
<1> DEFINE Index(f) == CHOOSE i \in 1 .. n : E[i].field = f
           comes == [f \in {E[i].field : i \in 1 .. n} |-> EntryComes(E[Index(f)], r[f], from, to)]
<1>1. ASSUME NEW i \in 1 .. n PROVE Index(E[i].field) = i
  <2>1. \A j \in 1 .. n : E[j].field = E[i].field => j = i
    BY DEF EntriesInOrder
  <2>2. Index(E[i].field) \in 1 .. n /\ E[Index(E[i].field)].field = E[i].field
    OBVIOUS
  <2> HIDE DEF Index
  <2>3. QED BY <2>1, <2>2
<1>2. ASSUME NEW i \in 1 .. n PROVE comes[E[i].field] = EntryComes(E[i], r[E[i].field], from, to)
  <2>1. E[i].field \in {E[j].field : j \in 1 .. n}
    OBVIOUS
  <2> HIDE DEF Index
  <2>2. comes[E[i].field] = EntryComes(E[Index(E[i].field)], r[E[i].field], from, to)
    BY <2>1
  <2>3. QED BY <1>1, <2>2
<1> HIDE DEF comes
<1>3. ComesAre(E, n, r, from, to, comes)
  BY <1>2 DEF ComesAre
<1>4. QED BY <1>3

\* The receiver asks for the same conditions as the sender.
LEMMA SameConditions ==
  ASSUME NEW n \in Nat, NEW E, EntriesInOrder(E, n), NEW r, RecordFits(E, n, r), NEW from, NEW to, NEW comes,
         ComesAre(E, n, r, from, to, comes), NEW k \in 1 .. n
  PROVE  Holds(E[k].when, GotTo(E, r, k - 1, comes)) <=> Holds(E[k].when, r)
<1>1. PICK got : got = GotTo(E, r, k - 1, comes)
  OBVIOUS
<1>2. ASSUME NEW j \in 1 .. k - 1, Holds(E[j].when, r)
      PROVE  got[E[j].field] = EntryComes(E[j], r[E[j].field], from, to)
  <2>1. j \in 1 .. n
    OBVIOUS
  <2>2. E[j].field \in FieldsTo(E, r, k - 1)
    BY <1>2 DEF FieldsTo
  <2>3. QED BY <1>1, <2>1, <2>2 DEF GotTo, ComesAre
<1>3. ASSUME NEW j \in 1 .. k - 1, E[j] = One("has", "byte")
      PROVE  got["has"] = r["has"]
  <2>1. E[j].when = "always" /\ E[j].field = "has" /\ E[j].many = FALSE /\ E[j].kinds[1] = "byte"
    BY <1>3 DEF One, Entry
  <2>2. Holds(E[j].when, r)
    BY <2>1 DEF Holds
  <2>3. got["has"] = EntryComes(E[j], r["has"], from, to)
    BY <1>2, <2>1, <2>2
  <2>4. QED BY <2>1, <2>3 DEF EntryComes, Comes
<1>4. ASSUME NEW j \in 1 .. k - 1, E[j] = OfData("bufType", "number"), r["has"] = 1
      PROVE  got["bufType"] = r["bufType"]
  <2>1. E[j].when = "has" /\ E[j].field = "bufType" /\ E[j].many = FALSE /\ E[j].kinds[1] = "number"
    BY <1>4 DEF OfData, Entry
  <2>2. Holds(E[j].when, r)
    BY <1>4, <2>1 DEF Holds
  <2>3. got["bufType"] = EntryComes(E[j], r["bufType"], from, to)
    BY <1>2, <2>1, <2>2
  <2>4. QED BY <2>1, <2>3 DEF EntryComes, Comes
<1>5. /\ E[k].when \in {"always", "has", "view"}
      /\ E[k].when # "always" => \E j \in 1 .. k - 1 : E[j] = One("has", "byte")
      /\ E[k].when = "view" => \E j \in 1 .. k - 1 : E[j] = OfData("bufType", "number")
  BY DEF EntriesInOrder
<1>6. CASE E[k].when = "always"
  BY <1>6 DEF Holds
<1>7. CASE E[k].when = "has"
  <2>1. got["has"] = r["has"]
    BY <1>3, <1>5, <1>7
  <2>2. QED BY <1>1, <1>7, <2>1 DEF Holds
<1>8. CASE E[k].when = "view"
  <2>1. got["has"] = r["has"]
    BY <1>3, <1>5, <1>8
  <2>2. r["has"] = 1 => got["bufType"] = r["bufType"]
    BY <1>4, <1>5, <1>8
  <2>3. QED BY <1>1, <1>8, <2>1, <2>2 DEF Holds
<1>9. QED BY <1>5, <1>6, <1>7, <1>8

\* One more entry.
LEMMA GotOneMore ==
  ASSUME NEW n \in Nat, NEW E, EntriesInOrder(E, n), NEW r, NEW comes, NEW k \in 1 .. n
  PROVE  /\ Holds(E[k].when, r)
              => Also(E[k].field, comes[E[k].field], GotTo(E, r, k - 1, comes)) = GotTo(E, r, k, comes)
         /\ ~ Holds(E[k].when, r) => GotTo(E, r, k - 1, comes) = GotTo(E, r, k, comes)
<1>1. \A j : j \in 1 .. k <=> j \in 1 .. k - 1 \/ j = k
  OBVIOUS
<1>2. ASSUME ~ Holds(E[k].when, r)
      PROVE  GotTo(E, r, k - 1, comes) = GotTo(E, r, k, comes)
  <2>1. {j \in 1 .. k : Holds(E[j].when, r)} = {j \in 1 .. k - 1 : Holds(E[j].when, r)}
    BY <1>1, <1>2
  <2>2. FieldsTo(E, r, k) = FieldsTo(E, r, k - 1)
    BY <2>1, Zenon DEF FieldsTo
  <2>3. QED BY <2>2, Zenon DEF GotTo
<1>3. ASSUME Holds(E[k].when, r)
      PROVE  Also(E[k].field, comes[E[k].field], GotTo(E, r, k - 1, comes)) = GotTo(E, r, k, comes)
  <2>1. {j \in 1 .. k : Holds(E[j].when, r)} = {k} \cup {j \in 1 .. k - 1 : Holds(E[j].when, r)}
    BY <1>1, <1>3
  <2>2. FieldsTo(E, r, k) = {E[k].field} \cup FieldsTo(E, r, k - 1)
    BY <2>1 DEF FieldsTo
  <2>3. PICK f, F : f = E[k].field /\ F = FieldsTo(E, r, k - 1)
    OBVIOUS
  <2>4. GotTo(E, r, k - 1, comes) = [g \in F |-> comes[g]] /\ GotTo(E, r, k, comes) = [g \in {f} \cup F |-> comes[g]]
    BY <2>2, <2>3 DEF GotTo
  <2>5. Also(f, comes[f], [g \in F |-> comes[g]]) = [g \in {f} \cup F |-> comes[g]]
    BY DEF Joint, Also
  <2>6. QED BY <2>3, <2>4, <2>5
<1>4. QED BY <1>2, <1>3

\* A message as it is written: its entries one after the other.
MessageWritten(E, n, r, from, parts, upTo) ==
  /\ parts = [i \in 1 .. n |-> WriteEntry(E[i], r, from)]
  /\ AreParts(parts, n) /\ Joined(parts, n, upTo)
  /\ Marshal(E, r, from) = upTo[n] /\ upTo[n] \in Seq(ByteValue)

\* Entries that are written as bytes lie one after the other.
LEMMA EntriesAreWritten ==
  ASSUME NEW n \in Nat, NEW E, IsList(E, n), NEW r, NEW from \in Order,
         \A i \in 1 .. n : WriteEntry(E[i], r, from) \in Seq(ByteValue)
  PROVE  \E parts, upTo : MessageWritten(E, n, r, from, parts, upTo)
<1>1. DOMAIN E = 1 .. n
  BY DEF IsList
<1>2. PICK parts : parts = [i \in 1 .. n |-> WriteEntry(E[i], r, from)]
  OBVIOUS
<1>3. AreParts(parts, n)
  <2>1. parts = [i \in 1 .. n |-> parts[i]]
    BY <1>2
  <2>2. QED BY <1>2, <2>1 DEF AreParts
<1>4. PICK upTo : Joined(parts, n, upTo) /\ FlattenSeq(parts) = upTo[n]
  BY <1>3, FlattenedIs
<1>5. upTo[n] \in Seq(ByteValue)
  BY <1>4 DEF Joined
<1>6. Marshal(E, r, from) = upTo[n]
  BY <1>1, <1>2, <1>4 DEF Marshal
<1>7. QED BY <1>2, <1>3, <1>4, <1>5, <1>6 DEF MessageWritten

\* And so do those of a message that fits.
LEMMA MessageIsWritten ==
  ASSUME NEW n \in Nat, NEW E, EntriesInOrder(E, n), NEW r, RecordFits(E, n, r), NEW from \in Order
  PROVE  \E parts, upTo : MessageWritten(E, n, r, from, parts, upTo)
<1>1. IsList(E, n)
  BY DEF EntriesInOrder
<1>2. \A i \in 1 .. n : WriteEntry(E[i], r, from) \in Seq(ByteValue)
  <2> TAKE i \in 1 .. n
  <2>1. Holds(E[i].when, r) => EntryFits(E[i], r[E[i].field])
    BY DEF RecordFits
  <2>2. QED BY <2>1, EntryWritten
<1>3. QED BY <1>1, <1>2, EntriesAreWritten

\* What is written as a message is read entry by entry; all of it, and nothing behind it.
LEMMA MessageIsRead ==
  ASSUME NEW n \in Nat, NEW E, EntriesInOrder(E, n), NEW r, RecordFits(E, n, r),
         NEW from \in Order, NEW to \in Order,
         NEW bytes, NEW w, w = Marshal(E, r, from), LiesAt(bytes, 0, w)
  PROVE  \E got : /\ Unmarshal(E, bytes, to) = Stream(bytes, Len(w), 0, got)
                  /\ ComesAs(E, n, r, from, to, got)
<1>1. PICK parts, upTo : MessageWritten(E, n, r, from, parts, upTo)
  BY MessageIsWritten
<1>2. /\ parts = [i \in 1 .. n |-> WriteEntry(E[i], r, from)]
      /\ AreParts(parts, n) /\ Joined(parts, n, upTo) /\ w = upTo[n]
  BY <1>1 DEF MessageWritten
<1>3. \A k \in 1 .. n : /\ LiesAt(bytes, Len(upTo[k - 1]), parts[k])
                        /\ Len(upTo[k]) = Len(upTo[k - 1]) + Len(parts[k])
  <2>1. PICK a : a = 0 /\ LiesAt(bytes, a, upTo[n])
    BY <1>2
  <2>2. LieBehind(parts, n, upTo, bytes, a)
    BY <1>2, <2>1, PartsLie
  <2>3. \A k \in 1 .. n : a + Len(upTo[k - 1]) = Len(upTo[k - 1])
    <3>1. upTo \in [0 .. n -> Seq(ByteValue)]
      BY <1>2 DEF Joined
    <3>2. QED BY <2>1, <3>1
  <2>4. QED BY <2>2, <2>3 DEF LieBehind
<1>4. /\ Len(upTo[0]) = 0
      /\ \A k \in 0 .. n : Len(upTo[k]) \in Nat
      /\ \A k \in 1 .. n : Len(parts[k]) \in Nat /\ k - 1 \in 0 .. n /\ k - 1 \in Nat
  <2>1. upTo \in [0 .. n -> Seq(ByteValue)] /\ upTo[0] = <<>> /\ \A k \in 1 .. n : parts[k] \in Seq(ByteValue)
    BY <1>2 DEF Joined, AreParts
  <2>2. QED BY <2>1
<1>5. PICK comes : ComesAre(E, n, r, from, to, comes)
  BY ComesExists
<1>6. Len(E) = n
  BY DEF EntriesInOrder, IsList
<1> DEFINE s == Start(bytes)
           walk == [k \in 0 .. n |-> Stream(bytes, Len(upTo[k]), 0, GotTo(E, r, k, comes))]
           Right(h) == h = [k \in 0 .. Len(E) |-> IF k = 0 THEN s ELSE ReadEntry(h[k - 1], E[k], to)]
<1>7. walk[0] = s
  <2>1. GotTo(E, r, 0, comes) = <<>>
    <3>1. FieldsTo(E, r, 0) = {}
      BY DEF FieldsTo
    <3>2. [f \in {} |-> comes[f]] = <<>>
      OBVIOUS
    <3>3. QED BY <3>1, <3>2, Zenon DEF GotTo
  <2>2. walk[0] = Stream(bytes, Len(upTo[0]), 0, GotTo(E, r, 0, comes))
    OBVIOUS
  <2> HIDE DEF walk
  <2>3. QED BY <1>4, <2>1, <2>2, Zenon DEF Start
<1>8. ASSUME NEW k \in 1 .. n PROVE ReadEntry(walk[k - 1], E[k], to) = walk[k]
  <2>1. PICK got : got = GotTo(E, r, k - 1, comes)
    OBVIOUS
  <2>2. PICK a \in Nat : a = Len(upTo[k - 1])
    BY <1>4
  <2>3. walk[k - 1] = Stream(bytes, a, 0, got)
    BY <1>4, <2>1, <2>2
  <2>4. walk[k] = Stream(bytes, Len(upTo[k]), 0, GotTo(E, r, k, comes))
    OBVIOUS
  <2> HIDE DEF walk
  <2>5. PICK e : e = E[k]
    OBVIOUS
  <2>6. Holds(e.when, got) <=> Holds(e.when, r)
    BY <1>5, <2>1, <2>5, SameConditions
  <2>7. PICK p : p = parts[k]
    OBVIOUS
  <2>8. p = WriteEntry(e, r, from) /\ LiesAt(bytes, a, p) /\ Len(upTo[k]) = a + Len(p)
    BY <1>2, <1>3, <2>2, <2>5, <2>7
  <2>9. CASE Holds(e.when, r)
    <3>1. EntryFits(e, r[e.field]) /\ Holds(e.when, got)
      BY <2>5, <2>6, <2>9 DEF RecordFits
    <3>2. ReadEntry(Stream(bytes, a, 0, got), e, to)
            = Stream(bytes, a + Len(p), 0, Also(e.field, EntryComes(e, r[e.field], from, to), got))
      <4>1. EntryLies(e, r, from, got, bytes, a, p)
        BY <2>8, <2>9, <3>1 DEF EntryLies
      <4>2. PICK x : x = 0
        OBVIOUS
      <4>3. ReadEntry(Stream(bytes, a, x, got), e, to)
              = Stream(bytes, a + Len(p), 0, Also(e.field, EntryComes(e, r[e.field], from, to), got))
        BY <4>1, EntryIsRead
      <4>4. QED BY <4>2, <4>3
    <3>3. comes[e.field] = EntryComes(e, r[e.field], from, to)
      BY <1>5, <2>5 DEF ComesAre
    <3>4. Also(e.field, comes[e.field], got) = GotTo(E, r, k, comes)
      BY <2>1, <2>5, <2>9, GotOneMore
    <3>5. QED BY <2>3, <2>4, <2>5, <2>8, <3>2, <3>3, <3>4
  <2>10. CASE ~ Holds(e.when, r)
    <3>1. ~ Holds(e.when, got)
      BY <2>6, <2>10
    <3>2. Stream(bytes, a, 0, got).got = got
      BY DEF Stream
    <3>3. ReadEntry(Stream(bytes, a, 0, got), e, to) = Stream(bytes, a, 0, got)
      BY <3>1, <3>2 DEF ReadEntry
    <3>4. p = <<>>
      BY <2>8, <2>10 DEF WriteEntry
    <3>5. a + Len(p) = a
      BY <3>4
    <3>6. got = GotTo(E, r, k, comes)
      BY <2>1, <2>5, <2>10, GotOneMore
    <3>7. QED BY <2>3, <2>4, <2>5, <2>8, <3>3, <3>5, <3>6
  <2>11. QED BY <2>9, <2>10
<1>9. walk = [k \in 0 .. Len(E) |-> walk[k]]
  BY <1>6
<1> HIDE DEF walk
<1>10. Right(walk)
  <2>1. \A k \in 0 .. Len(E) : walk[k] = IF k = 0 THEN s ELSE ReadEntry(walk[k - 1], E[k], to)
    BY <1>6, <1>7, <1>8
  <2> HIDE DEF s
  <2>2. QED BY <1>9, <2>1, Zenon
<1> DEFINE after == CHOOSE h : Right(h)
<1>11. Right(after)
  <2> HIDE DEF Right
  <2>1. QED BY <1>10
<1>12. Unmarshal(E, bytes, to) = after[Len(E)]
  BY DEF Unmarshal
<1> HIDE DEF after, s
<1>13. \A k \in 0 .. n : after[k] = IF k = 0 THEN s ELSE ReadEntry(after[k - 1], E[k], to)
  BY <1>6, <1>11
<1>14. \A k \in 0 .. n : after[k] = walk[k]
  <2>1. after[0] = walk[0]
    BY <1>7, <1>13
  <2>2. ASSUME NEW k \in 1 .. n, after[k - 1] = walk[k - 1] PROVE after[k] = walk[k]
    <3>1. after[k] = ReadEntry(after[k - 1], E[k], to)
      BY <1>13
    <3>2. QED BY <1>8, <2>2, <3>1
  <2>3. QED BY <2>1, <2>2, AlikeAllAlong
<1>15. Unmarshal(E, bytes, to) = Stream(bytes, Len(w), 0, GotTo(E, r, n, comes))
  <2>1. after[n] = walk[n]
    BY <1>14
  <2>2. walk[n] = Stream(bytes, Len(upTo[n]), 0, GotTo(E, r, n, comes))
    BY DEF walk
  <2>3. QED BY <1>2, <1>6, <1>12, <2>1, <2>2
<1>16. ComesAs(E, n, r, from, to, GotTo(E, r, n, comes))
  <2>1. FieldsTo(E, r, n) = DOMAIN r
    BY DEF FieldsTo, RecordFits
  <2>2. ASSUME NEW i \in 1 .. n, Holds(E[i].when, r)
        PROVE  GotTo(E, r, n, comes)[E[i].field] = EntryComes(E[i], r[E[i].field], from, to)
    <3>1. E[i].field \in FieldsTo(E, r, n)
      BY <2>2 DEF FieldsTo
    <3>2. QED BY <1>5, <3>1 DEF GotTo, ComesAre
  <2>3. DOMAIN GotTo(E, r, n, comes) = DOMAIN r
    BY <2>1 DEF GotTo
  <2>4. QED BY <2>2, <2>3 DEF ComesAs
<1>17. QED BY <1>15, <1>16

\* Every kind of message is in order.
LEMMA ShortOnes ==
  /\ EntriesInOrder(FetchBBReq, 1) /\ EntriesInOrder(FetchBBRep, 1) /\ EntriesInOrder(<<>>, 0)
  /\ EntriesInOrder(SubscibeReq, 1)
BY DEF EntriesInOrder, IsList, FetchBBReq, FetchBBRep, SubscibeReq, One, Many, Names, Entry

\* Those of a few entries.
LEMMA MiddleOnes ==
  /\ EntriesInOrder(RegisterReq, 3) /\ EntriesInOrder(RegisterRep, 3)
  /\ EntriesInOrder(SubscibeRep, 2) /\ EntriesInOrder(ServerInfoRep, 2)
<1>1. EntriesInOrder(RegisterReq, 3)
  BY DEF EntriesInOrder, IsList, RegisterReq, One, Many, Names, Entry
<1>2. EntriesInOrder(RegisterRep, 3)
  BY DEF EntriesInOrder, IsList, RegisterRep, One, Many, Names, Entry
<1>3. EntriesInOrder(SubscibeRep, 2)
  BY DEF EntriesInOrder, IsList, SubscibeRep, One, Many, Names, Entry
<1>4. EntriesInOrder(ServerInfoRep, 2)
  BY DEF EntriesInOrder, IsList, ServerInfoRep, One, Many, Names, Entry
<1>5. QED BY <1>1, <1>2, <1>3, <1>4

\* A tpcall, its reply and the board.
LEMMA LongOnes ==
  EntriesInOrder(TpcallReq, 9) /\ EntriesInOrder(TpcallRep, 9) /\ EntriesInOrder(BoardOrder, 10)
<1>1. EntriesInOrder(TpcallReq, 9)
  BY DEF EntriesInOrder, IsList, TpcallReq, One, Many, OfData, OfView, ViewItems, Entry
<1>2. EntriesInOrder(TpcallRep, 9)
  BY DEF EntriesInOrder, IsList, TpcallRep, One, Many, OfData, OfView, ViewItems, Entry
<1>3. EntriesInOrder(BoardOrder, 10)
  BY DEF EntriesInOrder, IsList, BoardOrder, One, Many, Entry
<1>4. QED BY <1>1, <1>2, <1>3

\* The header alone can be said, and so what is no longer.
LEMMA Roomy == HeaderSize < NumberMax /\ NumberMax \in Nat /\ HeaderSize = 8
<1>1. HeaderSize = 8 /\ NumberMax \in Nat
  BY BaseAssumption DEF HeaderSize, WidthOf, NumberMax
<1>2. "PING_PANG" \in DOMAIN MarshalOrder /\ MarshalOrder["PING_PANG"] = <<>> /\ <<>> \in Fields("PING_PANG")
  BY DEF MarshalOrder, Fields
<1>3. "big" \in Order
  BY DEF Order
<1>4. PICK body : body = MarshalledBody("PING_PANG", <<>>, "big")
  OBVIOUS
<1>5. HeaderSize + Len(body) < NumberMax
  BY <1>2, <1>3, <1>4, LengthAssumption
<1>6. body = Marshal(<<>>, <<>>, "big")
  BY <1>2, <1>4 DEF MarshalledBody, MsgGiven
<1>7. RecordFits(<<>>, 0, <<>>)
  BY DEF RecordFits
<1>8. PICK parts, upTo : MessageWritten(<<>>, 0, <<>>, "big", parts, upTo)
  BY <1>3, <1>7, ShortOnes, MessageIsWritten
<1>9. Len(body) \in Nat
  BY <1>6, <1>8 DEF MessageWritten
<1>10. QED BY <1>1, <1>5, <1>9

\* What the fields of messages hold.
LEMMA TextFits == \A t \in MsgText : Fits("counted", t)
BY MessagesAssumption DEF Fits, FieldKind, NumberMax, ByteValue

\* Numbers, the types of buffers among them, and the byte of a condition.
LEMMA NumberFits ==
  /\ \A n \in MsgNumber : Fits("number", n)
  /\ Fits("number", 0) /\ Fits("number", 1) /\ Fits("number", ViewType) /\ Fits("number", OtherType)
  /\ Fits("byte", 0) /\ Fits("byte", 1)
<1>1. \A n \in MsgNumber \cup {ViewType, OtherType} : n \in 0 .. NumberMax - 1
  BY MessagesAssumption DEF NumberMax
<1>2. 0 \in 0 .. NumberMax - 1 /\ 1 \in 0 .. NumberMax - 1
  BY Roomy
<1>3. 0 \in ByteValue /\ 1 \in ByteValue
  BY BaseAssumption DEF ByteValue
<1>4. QED BY <1>1, <1>2, <1>3 DEF Fits, FieldKind

\* Addresses, as such and as bytes after their number.
LEMMA AddressFits == \A a \in Address : Fits("address", a) /\ Fits("counted", a)
<1> TAKE a \in Address
<1>1. a \in [1 .. 4 -> ByteValue]
  BY MessagesAssumption DEF ByteValue
<1>2. a \in Seq(ByteValue) /\ Len(a) = 4
  BY <1>1, SequenceOf
<1>3. 4 < NumberMax
  BY Roomy
<1>4. QED BY <1>1, <1>2, <1>3 DEF Fits, FieldKind

\* The names of sub-types.
LEMMA BytesFit == Fits("counted", <<>>) /\ Fits("counted", <<1>>)
<1>1. <<>> \in Seq(ByteValue) /\ <<1>> \in Seq(ByteValue)
  BY BaseAssumption DEF ByteValue
<1>2. Len(<<>>) < NumberMax /\ Len(<<1>>) < NumberMax
  BY Roomy
<1>3. QED BY <1>1, <1>2 DEF Fits, FieldKind

\* And lists of tuples.
LEMMA ListsFit ==
  ASSUME NEW kinds, NEW S, \A x \in S : TupleFits(kinds, x), NEW v \in Lists(S)
  PROVE  ListFits(kinds, v)
<1>1. 2 < NumberMax
  BY Roomy
<1>2. CASE v = <<>>
  <2>1. IsList(v, 0)
    BY <1>2 DEF IsList
  <2>2. QED BY <1>1, <2>1, Roomy DEF ListFits
<1>3. CASE \E x \in S : v = <<x>>
  <2>1. IsList(v, 1) /\ v[1] \in S
    BY <1>3 DEF IsList
  <2>2. \A i \in 1 .. 1 : TupleFits(kinds, v[i])
    BY <2>1
  <2>3. 1 \in Nat /\ 1 < NumberMax
    BY Roomy
  <2>4. QED BY <2>1, <2>2, <2>3 DEF ListFits
<1>4. CASE \E x \in S, y \in S : v = <<x, y>>
  <2>1. IsList(v, 2) /\ v[1] \in S /\ v[2] \in S
    BY <1>4 DEF IsList
  <2>2. \A i \in 1 .. 2 : TupleFits(kinds, v[i])
    BY <2>1
  <2>3. 2 \in Nat
    OBVIOUS
  <2>4. QED BY <1>1, <2>1, <2>2, <2>3 DEF ListFits
<1>5. QED BY <1>2, <1>3, <1>4 DEF Lists

\* The names of services.
LEMMA NameTuples == \A x \in Tuples(MsgText) : TupleFits(<<"counted">>, x)
<1> TAKE x \in Tuples(MsgText)
<1>1. PICK t \in MsgText : x = <<t>>
  BY DEF Tuples
<1>2. <<"counted">> \in Seq(FieldKind) /\ Len(<<"counted">>) = 1
  BY DEF FieldKind
<1>3. Fits("counted", x[1])
  BY <1>1, TextFits
<1>4. QED BY <1>2, <1>3 DEF TupleFits

\* The names of services with the addresses of their servers.
LEMMA InfoTuples == \A x \in MsgText \X Address : TupleFits(<<"counted", "address">>, x)
<1> TAKE x \in MsgText \X Address
<1>1. x[1] \in MsgText /\ x[2] \in Address
  OBVIOUS
<1>2. <<"counted", "address">> \in Seq(FieldKind) /\ Len(<<"counted", "address">>) = 2
  BY DEF FieldKind
<1>3. Fits("counted", x[1]) /\ Fits("address", x[2])
  BY <1>1, TextFits, AddressFits
<1>4. QED BY <1>2, <1>3 DEF TupleFits

\* A list of one tuple or of none.
LEMMA OneOrNone ==
  ASSUME NEW kinds, NEW v, v = <<>> \/ \E x : v = <<x>> /\ TupleFits(kinds, x)
  PROVE  ListFits(kinds, v)
<1>1. PICK S : S = {x \in {v[1]} : TupleFits(kinds, x)}
  OBVIOUS
<1>2. v \in Lists(S)
  BY <1>1 DEF Lists
<1>3. \A x \in S : TupleFits(kinds, x)
  BY <1>1
<1>4. QED BY <1>2, <1>3, ListsFit

ItemKinds == <<"byte", "counted", "counted", "number", "number", "number", "counted", "number">>

\* The items of a view.
LEMMA ItemsFit == \A v \in Items : ListFits(ItemKinds, v)
<1> TAKE v \in Items
<1>1. ASSUME NEW t \in MsgText, NEW n \in MsgNumber
      PROVE  TupleFits(ItemKinds, <<1, t, t, n, 0, n, t, n>>)
  <2>1. ItemKinds \in Seq(FieldKind) /\ Len(ItemKinds) = 8
    BY DEF ItemKinds, FieldKind
  <2>2. Fits("byte", 1) /\ Fits("counted", t) /\ Fits("number", n) /\ Fits("number", 0)
    BY TextFits, NumberFits
  <2>3. \A k \in 1 .. 8 : Fits(ItemKinds[k], <<1, t, t, n, 0, n, t, n>>[k])
    BY <2>2 DEF ItemKinds
  <2>4. QED BY <2>1, <2>3 DEF TupleFits
<1>2. v = <<>> \/ \E x : v = <<x>> /\ TupleFits(ItemKinds, x)
  BY <1>1 DEF Items
<1>3. QED BY <1>2, OneOrNone

\* Every record that is sent fits the entries of its message.
LEMMA RegisterReqFits == \A r \in Fields("REGISTER_REQ") : RecordFits(RegisterReq, 3, r)
<1> TAKE r \in Fields("REGISTER_REQ")
<1>1. PICK n \in MsgNumber, a \in Address, l \in Lists(Tuples(MsgText)) : r = [appType |-> n, server |-> a, services |-> l]
  BY DEF Fields
<1>2. Fits("number", n) /\ Fits("counted", a) /\ ListFits(<<"counted">>, l)
  BY NumberFits, AddressFits, NameTuples, ListsFit
<1>3. QED BY <1>1, <1>2 DEF RecordFits, RegisterReq, One, Names, Many, Entry, Holds, EntryFits

\* The reply to it.
LEMMA RegisterRepFits == \A r \in Fields("REGISTER_REP") : RecordFits(RegisterRep, 3, r)
<1> TAKE r \in Fields("REGISTER_REP")
<1>1. PICK n \in MsgNumber, i \in MsgNumber, l \in Lists(Tuples(MsgText)) : r = [seq |-> n, interval |-> i, services |-> l]
  BY DEF Fields
<1>2. Fits("number", n) /\ Fits("number", i) /\ ListFits(<<"counted">>, l)
  BY NumberFits, NameTuples, ListsFit
<1>3. QED BY <1>1, <1>2 DEF RecordFits, RegisterRep, One, Names, Many, Entry, Holds, EntryFits

\* The names an application asks for.
LEMMA SubscibeReqFits == \A r \in Fields("SUBSCIBE_REQ") : RecordFits(SubscibeReq, 1, r)
<1> TAKE r \in Fields("SUBSCIBE_REQ")
<1>1. PICK l \in Lists(Tuples(MsgText)) : r = [services |-> l]
  BY DEF Fields
<1>2. ListFits(<<"counted">>, l)
  BY NameTuples, ListsFit
<1>3. QED BY <1>1, <1>2 DEF RecordFits, SubscibeReq, Names, Many, Entry, Holds, EntryFits

\* The reply to it.
LEMMA SubscibeRepFits == \A r \in Fields("SUBSCIBE_REP") : RecordFits(SubscibeRep, 2, r)
<1> TAKE r \in Fields("SUBSCIBE_REP")
<1>0. PICK S : S = MsgText \X Address
  OBVIOUS
<1>1. PICK n \in MsgNumber, l \in Lists(S) : r = [seq |-> n, infos |-> l]
  <2>1. Fields("SUBSCIBE_REP") = {[seq |-> n, infos |-> l] : n \in MsgNumber, l \in Lists(S)}
    BY <1>0 DEF Fields
  <2>2. QED BY <2>1
<1>2. Fits("number", n) /\ ListFits(<<"counted", "address">>, l)
  BY <1>0, NumberFits, InfoTuples, ListsFit
<1>3. QED BY <1>1, <1>2 DEF RecordFits, SubscibeRep, One, Many, Entry, Holds, EntryFits

\* What a server says of itself.
LEMMA ServerInfoFits == \A r \in Fields("SERVER_INFO_REP") : RecordFits(ServerInfoRep, 2, r)
<1> TAKE r \in Fields("SERVER_INFO_REP")
<1>1. PICK t \in MsgText, n \in MsgNumber : r = [server |-> t, clients |-> n]
  BY DEF Fields
<1>2. Fits("number", n) /\ Fits("counted", t)
  BY NumberFits, TextFits
<1>3. QED BY <1>1, <1>2 DEF RecordFits, ServerInfoRep, One, Entry, Holds, EntryFits

\* Fetching the board, and a message without a body.
LEMMA FetchFits ==
  /\ \A r \in Fields("GET_BB_REQ") : RecordFits(FetchBBReq, 1, r)
  /\ \A b : Fits("counted", b) => RecordFits(FetchBBRep, 1, [board |-> b])
  /\ \A r \in Fields("PING_PANG") : RecordFits(<<>>, 0, r)
<1>1. ASSUME NEW r \in Fields("GET_BB_REQ") PROVE RecordFits(FetchBBReq, 1, r)
  <2>1. r = [all |-> 0] \/ r = [all |-> 1]
    BY DEF Fields
  <2>2. QED BY <2>1, NumberFits DEF RecordFits, FetchBBReq, One, Entry, Holds, EntryFits
<1>2. ASSUME NEW b, Fits("counted", b) PROVE RecordFits(FetchBBRep, 1, [board |-> b])
  BY <1>2 DEF RecordFits, FetchBBRep, One, Entry, Holds, EntryFits
<1>3. ASSUME NEW r \in Fields("PING_PANG") PROVE RecordFits(<<>>, 0, r)
  <2>1. r = <<>>
    BY DEF Fields
  <2>2. QED BY <2>1 DEF RecordFits
<1>4. QED BY <1>1, <1>2, <1>3

\* The board itself.
LEMMA BoardFits == \A r \in Board : RecordFits(BoardOrder, 10, r)
<1> TAKE r \in Board
<1>1. PICK n, a, w, v :
        /\ n \in MsgNumber /\ a \in Address
        /\ r = [magic |-> n, semid |-> 0, seq |-> n, gatePID |-> n, udpPort |-> n, wshMax |-> 1,
                svcMax |-> 1, gate |-> a, wshs |-> w, svcs |-> v]
        /\ w \in {<<>>, <<<<0, 1, 1, 1, 1>>>>}
        /\ v = <<>> \/ \E t \in MsgText, b \in Address : v = <<<<0, t, b, 0, 1>>>>
  BY DEF Board
<1>2. Fits("number", n) /\ Fits("number", 0) /\ Fits("number", 1) /\ Fits("address", a)
  BY <1>1, NumberFits, AddressFits
<1>3. PICK kinds : kinds = <<"number", "number", "number", "number", "number">>
  OBVIOUS
<1>4. ListFits(kinds, w)
  <2>1. kinds \in Seq(FieldKind) /\ Len(kinds) = 5
    BY <1>3 DEF FieldKind
  <2>2. TupleFits(kinds, <<0, 1, 1, 1, 1>>)
    BY <1>2, <1>3, <2>1 DEF TupleFits
  <2>3. w = <<>> \/ \E x : w = <<x>> /\ TupleFits(kinds, x)
    BY <1>1, <2>2
  <2>4. QED BY <2>3, OneOrNone
<1>5. PICK others : others = <<"number", "counted", "address", "number", "number">>
  OBVIOUS
<1>6. ListFits(others, v)
  <2>1. others \in Seq(FieldKind) /\ Len(others) = 5
    BY <1>5 DEF FieldKind
  <2>2. ASSUME NEW t \in MsgText, NEW b \in Address PROVE TupleFits(others, <<0, t, b, 0, 1>>)
    <3>1. Fits("counted", t) /\ Fits("address", b)
      BY TextFits, AddressFits
    <3>2. QED BY <1>2, <1>5, <2>1, <3>1 DEF TupleFits
  <2>3. v = <<>> \/ \E x : v = <<x>> /\ TupleFits(others, x)
    BY <1>1, <2>2
  <2>4. QED BY <2>3, OneOrNone
<1>7. QED BY <1>1, <1>2, <1>3, <1>4, <1>5, <1>6 DEF RecordFits, BoardOrder, One, Many, Entry, Holds, EntryFits

\* The data of a tpcall: none, of a view, or of another type.
DataFields(r) ==
  \/ /\ r["has"] = 0 /\ \A f : f \in DOMAIN r => f \notin {"data", "bufType", "subType", "structName", "structSize", "items"}
     /\ "has" \in DOMAIN r
  \/ /\ r["has"] = 1 /\ {"has", "data", "bufType", "subType"} \subseteq DOMAIN r
     /\ Fits("counted", r["data"]) /\ Fits("number", r["bufType"]) /\ Fits("counted", r["subType"])
     /\ r["bufType"] # ViewType
     /\ \A f : f \in DOMAIN r => f \notin {"structName", "structSize", "items"}
  \/ /\ r["has"] = 1
     /\ {"has", "data", "bufType", "subType", "structName", "structSize", "items"} \subseteq DOMAIN r
     /\ Fits("counted", r["data"]) /\ Fits("number", r["bufType"]) /\ Fits("counted", r["subType"])
     /\ r["bufType"] = ViewType
     /\ Fits("counted", r["structName"]) /\ Fits("number", r["structSize"]) /\ ListFits(ItemKinds, r["items"])

\* The data of every tpcall is one of the three.
LEMMA DataIs ==
  ASSUME NEW d \in Data
  PROVE  DataFields(d) /\ DOMAIN d \subseteq {"has", "data", "bufType", "subType", "structName", "structSize", "items"}
<1>1. CASE d = [has |-> 0]
  BY <1>1 DEF DataFields
<1>2. CASE \E t \in MsgText : d = [has |-> 1, data |-> t, bufType |-> OtherType, subType |-> <<>>]
  <2>1. PICK t \in MsgText : d = [has |-> 1, data |-> t, bufType |-> OtherType, subType |-> <<>>]
    BY <1>2
  <2>2. Fits("counted", t) /\ Fits("number", OtherType) /\ Fits("counted", <<>>) /\ OtherType # ViewType
    BY TextFits, NumberFits, BytesFit, MessagesAssumption
  <2>3. QED BY <2>1, <2>2 DEF DataFields
<1>3. CASE \E t \in MsgText, i \in Struct : d = Joint([has |-> 1, data |-> t, bufType |-> ViewType, subType |-> <<1>>], i)
  <2>1. PICK t \in MsgText, i \in Struct : d = Joint([has |-> 1, data |-> t, bufType |-> ViewType, subType |-> <<1>>], i)
    BY <1>3
  <2>2. PICK u \in MsgText, n \in MsgNumber, l \in Items : i = [structName |-> u, structSize |-> n, items |-> l]
    BY DEF Struct
  <2>3. /\ Fits("counted", t) /\ Fits("number", ViewType) /\ Fits("counted", <<1>>)
        /\ Fits("counted", u) /\ Fits("number", n) /\ ListFits(ItemKinds, l)
    BY TextFits, NumberFits, BytesFit, ItemsFit
  <2>4. /\ DOMAIN d = {"has", "data", "bufType", "subType", "structName", "structSize", "items"}
        /\ d["has"] = 1 /\ d["data"] = t /\ d["bufType"] = ViewType /\ d["subType"] = <<1>>
        /\ d["structName"] = u /\ d["structSize"] = n /\ d["items"] = l
    BY <2>1, <2>2 DEF Joint
  <2>5. QED BY <2>3, <2>4 DEF DataFields
<1>4. QED BY <1>1, <1>2, <1>3 DEF Data

\* A tpcall with any of them.
LEMMA TpcallReqFits == \A r \in Fields("TPCALL_REQ") : RecordFits(TpcallReq, 9, r)
<1> TAKE r \in Fields("TPCALL_REQ")
<1>1. PICK t \in MsgText, n \in MsgNumber, d \in Data : r = Joint([service |-> t, flags |-> n], d)
  <2> DEFINE Given(t, n, d) == Joint([service |-> t, flags |-> n], d)
  <2>1. Fields("TPCALL_REQ") = {Given(t, n, d) : t \in MsgText, n \in MsgNumber, d \in Data}
    BY DEF Fields
  <2> HIDE DEF Given
  <2>2. PICK t \in MsgText, n \in MsgNumber, d \in Data : r = Given(t, n, d)
    BY <2>1
  <2>3. QED BY <2>2 DEF Given
<1>2. Fits("counted", t) /\ Fits("number", n) /\ Fits("byte", 0) /\ Fits("byte", 1)
  BY TextFits, NumberFits
<1>3. DataFields(d) /\ DOMAIN d \subseteq {"has", "data", "bufType", "subType", "structName", "structSize", "items"}
  BY DataIs
<1>4. /\ DOMAIN r = {"service", "flags"} \cup DOMAIN d /\ r["service"] = t /\ r["flags"] = n
      /\ \A f \in DOMAIN d : r[f] = d[f]
  BY <1>1, <1>3 DEF Joint
<1>5. DataFields(r)
  BY <1>3, <1>4 DEF DataFields
<1>6. DOMAIN r \subseteq {"service", "flags", "has", "data", "bufType", "subType", "structName", "structSize", "items"}
  BY <1>3, <1>4
<1>7. QED BY <1>2, <1>4, <1>5, <1>6 DEF RecordFits, DataFields, TpcallReq, One, OfData, OfView, ViewItems, ItemKinds, Entry, Holds, EntryFits

\* Its reply with any of them.
LEMMA TpcallRepFits == \A r \in Fields("TPCALL_REP") : RecordFits(TpcallRep, 9, r)
<1> TAKE r \in Fields("TPCALL_REP")
<1>1. PICK n \in MsgNumber, d \in Data : r = Joint([flags |-> 0, retCode |-> n], d)
  <2> DEFINE Given(n, d) == Joint([flags |-> 0, retCode |-> n], d)
  <2>1. Fields("TPCALL_REP") = {Given(n, d) : n \in MsgNumber, d \in Data}
    BY DEF Fields
  <2> HIDE DEF Given
  <2>2. PICK n \in MsgNumber, d \in Data : r = Given(n, d)
    BY <2>1
  <2>3. QED BY <2>2 DEF Given
<1>2. Fits("number", 0) /\ Fits("number", n) /\ Fits("byte", 0) /\ Fits("byte", 1)
  BY NumberFits
<1>3. DataFields(d) /\ DOMAIN d \subseteq {"has", "data", "bufType", "subType", "structName", "structSize", "items"}
  BY DataIs
<1>4. /\ DOMAIN r = {"flags", "retCode"} \cup DOMAIN d /\ r["retCode"] = n /\ r["flags"] = 0
      /\ \A f \in DOMAIN d : r[f] = d[f]
  BY <1>1, <1>3 DEF Joint
<1>5. DataFields(r)
  BY <1>3, <1>4 DEF DataFields
<1>6. DOMAIN r \subseteq {"retCode", "flags", "has", "data", "bufType", "subType", "structName", "structSize", "items"}
  BY <1>3, <1>4
<1>7. QED BY <1>2, <1>4, <1>5, <1>6 DEF RecordFits, DataFields, TpcallRep, One, OfData, OfView, ViewItems, ItemKinds, Entry, Holds, EntryFits

\* A board is a message in a message: short enough to be counted.
LEMMA BoardCounted ==
  ASSUME NEW record \in Fields("GET_BB_REP"), NEW order \in Order
  PROVE  /\ record.board \in Board
         /\ Fits("counted", Marshal(BoardOrder, record.board, order))
<1>1. PICK b \in Board : record = [board |-> b]
  BY DEF Fields
<1>2. record.board = b
  BY <1>1
<1>3. PICK m : m = Marshal(BoardOrder, b, order)
  OBVIOUS
<1>4. m \in Seq(ByteValue)
  <2>1. 10 \in Nat /\ EntriesInOrder(BoardOrder, 10) /\ RecordFits(BoardOrder, 10, b)
    BY LongOnes, BoardFits
  <2>2. PICK parts, upTo : MessageWritten(BoardOrder, 10, b, order, parts, upTo)
    BY <2>1, MessageIsWritten
  <2>3. QED BY <1>3, <2>2 DEF MessageWritten
<1>5. Len(m) \in Nat /\ WriteNumber(Len(m), order) \in Seq(ByteValue) /\ Len(WriteNumber(Len(m), order)) = 2
  BY <1>4, NumberWritten
<1>6. WriteCounted(m, order) \in Seq(ByteValue) /\ Len(WriteCounted(m, order)) = 2 + Len(m)
  <2>1. PICK u \in Seq(ByteValue) : u = WriteNumber(Len(m), order) /\ Len(u) = 2
    BY <1>5
  <2>2. u \o m \in Seq(ByteValue) /\ Len(u \o m) = Len(u) + Len(m)
    BY <1>4, <2>1, ConcatProperties
  <2>3. QED BY <2>1, <2>2 DEF WriteCounted
<1>7. PICK r : r = [board |-> m]
  OBVIOUS
<1>8. WriteEntry(FetchBBRep[1], r, order) = WriteCounted(m, order)
  BY <1>7 DEF WriteEntry, FetchBBRep, One, Entry, Holds, WriteField
<1>9. IsList(FetchBBRep, 1)
  BY ShortOnes DEF EntriesInOrder
<1>10. PICK parts, upTo : MessageWritten(FetchBBRep, 1, r, order, parts, upTo)
  <2>1. \A i \in 1 .. 1 : WriteEntry(FetchBBRep[i], r, order) \in Seq(ByteValue)
    BY <1>6, <1>8
  <2>2. 1 \in Nat
    OBVIOUS
  <2>3. QED BY <1>9, <2>1, <2>2, EntriesAreWritten
<1>11. Marshal(FetchBBRep, r, order) = WriteCounted(m, order)
  <2>1. 1 \in 1 .. 1 /\ 1 - 1 = 0
    OBVIOUS
  <2>2. /\ parts[1] = WriteEntry(FetchBBRep[1], r, order)
        /\ upTo[0] = <<>> /\ upTo[1] = upTo[1 - 1] \o parts[1]
        /\ Marshal(FetchBBRep, r, order) = upTo[1]
    BY <1>10, <2>1 DEF MessageWritten, Joined
  <2>3. <<>> \o WriteCounted(m, order) = WriteCounted(m, order)
    BY <1>6
  <2>4. QED BY <1>8, <2>1, <2>2, <2>3
<1>12. "GET_BB_REP" \in DOMAIN MarshalOrder /\ MarshalOrder["GET_BB_REP"] = FetchBBRep
  BY DEF MarshalOrder
<1>13. MarshalledBody("GET_BB_REP", record, order) = Marshal(FetchBBRep, r, order)
  BY <1>2, <1>3, <1>7, <1>12 DEF MarshalledBody, MsgGiven
<1>14. HeaderSize + (2 + Len(m)) < NumberMax
  BY <1>6, <1>11, <1>12, <1>13, LengthAssumption
<1>15. Len(m) < NumberMax
  BY <1>5, <1>14, Roomy
<1>16. Fits("counted", m)
  BY <1>4, <1>15 DEF Fits, FieldKind
<1>17. QED BY <1>2, <1>3, <1>16

\* Every body is of entries in order and of fields that fit them.
LEMMA BodyFits ==
  ASSUME NEW type \in DOMAIN MarshalOrder, NEW record \in Fields(type), NEW order \in Order
  PROVE  \E n \in Nat : /\ EntriesInOrder(MarshalOrder[type], n)
                        /\ RecordFits(MarshalOrder[type], n, MsgGiven(type, record, order))
<1> DEFINE OK(E, n, r) == n \in Nat /\ EntriesInOrder(E, n) /\ RecordFits(E, n, r)
<1>1. PICK r : r = MsgGiven(type, record, order)
  OBVIOUS
<1>2. type # "GET_BB_REP" => r = record
  BY <1>1 DEF MsgGiven
<1>3. \E n : OK(MarshalOrder[type], n, r)
  <2>1. CASE type = "GET_BB_REQ"
    <3>1. MarshalOrder[type] = FetchBBReq /\ r = record
      BY <1>2, <2>1 DEF MarshalOrder
    <3>2. RecordFits(FetchBBReq, 1, r)
      BY <2>1, <3>1, FetchFits
    <3>3. QED BY <3>1, <3>2, ShortOnes
  <2>2. CASE type = "GET_BB_REP"
    <3>1. MarshalOrder[type] = FetchBBRep /\ r = [board |-> Marshal(BoardOrder, record.board, order)]
      BY <1>1, <2>2 DEF MarshalOrder, MsgGiven
    <3>2. Fits("counted", Marshal(BoardOrder, record.board, order))
      BY <2>2, BoardCounted
    <3>3. RecordFits(FetchBBRep, 1, r)
      BY <3>1, <3>2, FetchFits
    <3>4. QED BY <3>1, <3>3, ShortOnes
  <2>3. CASE type = "REGISTER_REQ"
    <3>1. MarshalOrder[type] = RegisterReq /\ RecordFits(RegisterReq, 3, r)
      BY <1>2, <2>3, RegisterReqFits DEF MarshalOrder
    <3>2. QED BY <3>1, MiddleOnes
  <2>4. CASE type = "REGISTER_REP"
    <3>1. MarshalOrder[type] = RegisterRep /\ RecordFits(RegisterRep, 3, r)
      BY <1>2, <2>4, RegisterRepFits DEF MarshalOrder
    <3>2. QED BY <3>1, MiddleOnes
  <2>5. CASE type = "SUBSCIBE_REQ"
    <3>1. MarshalOrder[type] = SubscibeReq /\ RecordFits(SubscibeReq, 1, r)
      BY <1>2, <2>5, SubscibeReqFits DEF MarshalOrder
    <3>2. QED BY <3>1, ShortOnes
  <2>6. CASE type = "SUBSCIBE_REP"
    <3>1. MarshalOrder[type] = SubscibeRep /\ RecordFits(SubscibeRep, 2, r)
      BY <1>2, <2>6, SubscibeRepFits DEF MarshalOrder
    <3>2. QED BY <3>1, MiddleOnes
  <2>7. CASE type = "PING_PANG"
    <3>1. MarshalOrder[type] = <<>> /\ RecordFits(<<>>, 0, r)
      BY <1>2, <2>7, FetchFits DEF MarshalOrder
    <3>2. QED BY <3>1, ShortOnes
  <2>8. CASE type = "TPCALL_REQ"
    <3>1. MarshalOrder[type] = TpcallReq /\ RecordFits(TpcallReq, 9, r)
      BY <1>2, <2>8, TpcallReqFits DEF MarshalOrder
    <3>2. QED BY <3>1, LongOnes
  <2>9. CASE type = "TPCALL_REP"
    <3>1. MarshalOrder[type] = TpcallRep /\ RecordFits(TpcallRep, 9, r)
      BY <1>2, <2>9, TpcallRepFits DEF MarshalOrder
    <3>2. QED BY <3>1, LongOnes
  <2>10. CASE type = "SERVER_INFO_REP"
    <3>1. MarshalOrder[type] = ServerInfoRep /\ RecordFits(ServerInfoRep, 2, r)
      BY <1>2, <2>10, ServerInfoFits DEF MarshalOrder
    <3>2. QED BY <3>1, MiddleOnes
  <2>11. QED BY <2>1, <2>2, <2>3, <2>4, <2>5, <2>6, <2>7, <2>8, <2>9, <2>10 DEF MarshalOrder
<1>4. QED BY <1>1, <1>3

\* Every body is bytes, and with the header short enough for its length to be said.
LEMMA BodyIsBytes ==
  ASSUME NEW type \in DOMAIN MarshalOrder, NEW record \in Fields(type), NEW order \in Order
  PROVE  /\ MarshalledBody(type, record, order) \in Seq(ByteValue)
         /\ Len(MarshalledBody(type, record, order)) \in Nat
         /\ HeaderSize + Len(MarshalledBody(type, record, order)) \in 0 .. NumberMax - 1
<1>1. PICK n, r : /\ n \in Nat /\ r = MsgGiven(type, record, order)
                  /\ EntriesInOrder(MarshalOrder[type], n) /\ RecordFits(MarshalOrder[type], n, r)
  BY BodyFits
<1>2. PICK parts, upTo : MessageWritten(MarshalOrder[type], n, r, order, parts, upTo)
  BY <1>1, MessageIsWritten
<1>3. PICK body : body = MarshalledBody(type, record, order)
  OBVIOUS
<1>4. body \in Seq(ByteValue)
  BY <1>1, <1>2, <1>3 DEF MessageWritten, MarshalledBody
<1>5. HeaderSize + Len(body) < NumberMax
  BY <1>3, LengthAssumption
<1>6. QED BY <1>3, <1>4, <1>5, Roomy

\* What has come of entries is alike what was given.
LEMMA TuplesAlike ==
  ASSUME NEW kinds, NEW t, TupleFits(kinds, t), hosts.from \in Order, hosts.to \in Order
  PROVE  Alike(kinds, t, TupleComes(kinds, t, hosts.from, hosts.to))
<1>1. DOMAIN kinds = 1 .. Len(kinds)
  BY DEF TupleFits
<1>2. PICK w : w = TupleComes(kinds, t, hosts.from, hosts.to)
  OBVIOUS
<1>3. ASSUME NEW k \in DOMAIN kinds, t[k] # w[k]
      PROVE  kinds[k] = "address" /\ hosts.from # hosts.to
  <2>1. Fits(kinds[k], t[k]) /\ w[k] = Comes(kinds[k], t[k], hosts.from, hosts.to)
    BY <1>1, <1>2 DEF TupleFits, TupleComes
  <2>2. kinds[k] = "address"
    BY <1>3, <2>1 DEF Comes
  <2>3. w[k] = AddressComes(t[k], hosts.from, hosts.to) /\ t[k] \in [1 .. 4 -> ByteValue]
    BY <2>1, <2>2 DEF Comes, Fits
  <2>4. PICK v, o, p : v = t[k] /\ o = hosts.from /\ p = hosts.to
    OBVIOUS
  <2>5. o # p
    <3>1. SUFFICES ASSUME o = p PROVE FALSE
      OBVIOUS
    <3>2. v \in [1 .. 4 -> ByteValue] /\ o \in Order
      BY <2>3, <2>4
    <3>3. AddressComes(v, o, o) = v
      BY <3>2, AddressKept
    <3>4. QED BY <1>3, <2>3, <2>4, <3>1, <3>3
  <2>6. QED BY <2>2, <2>4, <2>5
<1>4. QED BY <1>2, <1>3 DEF Alike

\* So is every field of a message.
FieldArrives(e, told, got) ==
  e.field \in DOMAIN told =>
    LET v == told[e.field]  w == got[e.field] IN
    IF e.many THEN Len(v) = Len(w) /\ \A i \in DOMAIN v : Alike(e.kinds, v[i], w[i])
    ELSE Alike(e.kinds, <<v>>, <<w>>)

\* What was read has the fields that were told, and what is alike in each.
LEMMA EntriesArrive ==
  ASSUME NEW n \in Nat, NEW E, EntriesInOrder(E, n), NEW r, RecordFits(E, n, r), NEW got,
         hosts.from \in Order, hosts.to \in Order,
         ComesAs(E, n, r, hosts.from, hosts.to, got)
  PROVE  DOMAIN got = DOMAIN r /\ \A e \in Range(E) : FieldArrives(e, r, got)
<1>1. DOMAIN got = DOMAIN r
  BY DEF ComesAs
<1>2. ASSUME NEW e \in Range(E), e.field \in DOMAIN r
      PROVE  FieldArrives(e, r, got)
  <2>1. PICK i \in 1 .. n : e = E[i]
    <3>1. DOMAIN E = 1 .. n
      BY DEF EntriesInOrder, IsList
    <3>2. QED BY <3>1 DEF Range
  <2>2. PICK j \in 1 .. n : Holds(E[j].when, r) /\ E[j].field = e.field
    BY <1>2 DEF RecordFits
  <2>3. j = i
    BY <2>1, <2>2 DEF EntriesInOrder
  <2>4. Holds(E[i].when, r)
    BY <2>2, <2>3
  <2>5. PICK v, w : v = r[e.field] /\ w = got[e.field]
    OBVIOUS
  <2>6. EntryFits(e, v) /\ w = EntryComes(e, v, hosts.from, hosts.to)
    BY <2>1, <2>4, <2>5 DEF RecordFits, ComesAs
  <2>7. CASE e.many
    <3>1. ListFits(e.kinds, v) /\ w = ListComes(e.kinds, v, hosts.from, hosts.to)
      BY <2>6, <2>7 DEF EntryFits, EntryComes
    <3>2. PICK m \in Nat : IsList(v, m) /\ \A k \in 1 .. m : TupleFits(e.kinds, v[k])
      BY <3>1 DEF ListFits
    <3>3. Len(v) = m /\ DOMAIN v = 1 .. m
      BY <3>2 DEF IsList
    <3>4. w = [k \in 1 .. m |-> TupleComes(e.kinds, v[k], hosts.from, hosts.to)]
      BY <3>1, <3>3 DEF ListComes
    <3>5. Len(w) = m
      BY <3>4
    <3>6. ASSUME NEW k \in 1 .. m PROVE Alike(e.kinds, v[k], w[k])
      <4>1. PICK t, kinds : t = v[k] /\ kinds = e.kinds
        OBVIOUS
      <4>2. TupleFits(kinds, t)
        BY <3>2, <4>1
      <4>3. Alike(kinds, t, TupleComes(kinds, t, hosts.from, hosts.to))
        BY <4>2, TuplesAlike
      <4>4. w[k] = TupleComes(kinds, t, hosts.from, hosts.to)
        BY <3>4, <4>1
      <4>5. QED BY <4>1, <4>3, <4>4
    <3>7. QED BY <2>5, <2>7, <3>3, <3>5, <3>6 DEF FieldArrives
  <2>8. CASE ~ e.many
    <3>1. PICK kinds : kinds = e.kinds
      OBVIOUS
    <3>2. Fits(kinds[1], v) /\ w = Comes(kinds[1], v, hosts.from, hosts.to) /\ kinds = <<kinds[1]>>
      BY <2>1, <2>6, <2>8, <3>1 DEF EntryFits, EntryComes, EntriesInOrder
    <3>3. PICK kind : kind = kinds[1] /\ kind \in FieldKind
      BY <3>2 DEF Fits
    <3>4. kinds = <<kind>> /\ Len(kinds) = 1 /\ kinds \in Seq(FieldKind)
      <4>1. <<kind>> \in Seq(FieldKind) /\ Len(<<kind>>) = 1
        BY <3>3
      <4>2. kinds = <<kind>>
        BY <3>2, <3>3
      <4>3. QED BY <4>1, <4>2
    <3>5. TupleFits(kinds, <<v>>)
      BY <3>2, <3>3, <3>4 DEF TupleFits
    <3>6. TupleComes(kinds, <<v>>, hosts.from, hosts.to) = <<w>>
      BY <3>2, <3>3, <3>4 DEF TupleComes
    <3>7. Alike(kinds, <<v>>, <<w>>)
      BY <3>5, <3>6, TuplesAlike
    <3>8. QED BY <2>5, <2>8, <3>1, <3>7 DEF FieldArrives
  <2>9. QED BY <2>7, <2>8
<1>3. \A e \in Range(E) : FieldArrives(e, r, got)
  BY <1>2 DEF FieldArrives
<1>4. QED BY <1>1, <1>3

-----------------------------------------------------------------------------
(* The exchange. *)

\* The body that was sent, the bytes it has, and the board in it.
BodySent == MarshalledBody(sent.type, sent.record, hosts.from)
MessageIs ==
  /\ sent.type \in DOMAIN MarshalOrder /\ sent.record \in Fields(sent.type)
  /\ hosts.from \in Order /\ hosts.to \in Order
OnItsWay ==
  stage = "sent" =>
    \E head : /\ head \in Seq(ByteValue) /\ Len(head) = HeaderSize
              /\ onWire = head \o BodySent
              /\ LiesAt(head, 0, WriteNumber(HeaderSize + Len(BodySent), hosts.from))
HeaderHere ==
  stage = "header" => /\ onWire = BodySent /\ bodySize = Len(BodySent)
                      /\ buffer \in Seq(ByteValue) /\ Len(buffer) = HeaderSize
BodyHere == stage = "body" => bodySize = Len(BodySent) /\ LiesAt(buffer, 0, BodySent)
BoardHere ==
  stage = "board" => /\ sent.type = "GET_BB_REP"
                     /\ input.got.board = Marshal(BoardOrder, sent.record.board, hosts.from)

\* All that holds of the exchange of one message.
MessageInv ==
  /\ stage \in {"start", "sent", "header", "body", "board", "done"}
  /\ MessageIs /\ OnItsWay /\ HeaderHere /\ BodyHere /\ BoardHere /\ MessageArrives

\* In front of whatever follows.
LEMMA LiesInFront ==
  ASSUME NEW u \in Seq(ByteValue), NEW w \in Seq(ByteValue)
  PROVE  u \o w \in Seq(ByteValue) /\ LiesAt(u \o w, 0, u \o w)
<1>1. PICK x : x = u \o w
  OBVIOUS
<1>2. x \in Seq(ByteValue)
  BY <1>1, ConcatProperties
<1>3. \A i \in 1 .. Len(x) : x[0 + i] = x[i]
  BY <1>2
<1>4. LiesAt(x, 0, x)
  BY <1>2, <1>3 DEF LiesAt
<1>5. QED BY <1>1, <1>2, <1>4

\* Two sequences can be taken apart again.
LEMMA FrontAndRest ==
  ASSUME NEW u \in Seq(ByteValue), NEW w \in Seq(ByteValue)
  PROVE  /\ LiesAt(u \o w, 0, u) /\ Len(u \o w) = Len(u) + Len(w)
         /\ SubSeq(u \o w, 1, Len(u)) = u /\ SubSeq(u \o w, Len(u) + 1, Len(u \o w)) = w
<1>1. PICK x, a : x = u \o w /\ a = 0
  OBVIOUS
<1>2. LiesAt(x, a, u \o w)
  BY <1>1, LiesInFront
<1>3. LiesAt(x, a, u) /\ LiesAt(x, a + Len(u), w) /\ Len(u \o w) = Len(u) + Len(w)
  BY <1>2, EachLies
<1>4. Len(u) \in Nat /\ Len(w) \in Nat
  OBVIOUS
<1>5. SubSeq(x, a + 1, a + Len(u)) = u
  BY <1>3, TakenOut
<1>6. a + 1 = 1 /\ a + Len(u) = Len(u)
  BY <1>1, <1>4
<1>7. PICK b : b = Len(u) /\ LiesAt(x, b, w)
  BY <1>3, <1>6
<1>8. SubSeq(x, b + 1, b + Len(w)) = w
  BY <1>7, TakenOut
<1>9. QED BY <1>1, <1>3, <1>5, <1>6, <1>7, <1>8

\* A sequence is its own front.
LEMMA WholeOf ==
  ASSUME NEW u \in Seq(ByteValue)
  PROVE  SubSeq(u, 1, Len(u)) = u
OBVIOUS

\* What is behind the n-th byte is bytes.
LEMMA RestIsBytes ==
  ASSUME NEW u \in Seq(ByteValue), NEW n \in Nat
  PROVE  SubSeq(u, n + 1, Len(u)) \in Seq(ByteValue)
OBVIOUS

\* The three numbers between the length and the body.
LEMMA Between ==
  ASSUME NEW order \in Order
  PROVE  /\ FlattenSeq([i \in 1 .. 3 |-> WriteNumber(i, order)]) \in Seq(ByteValue)
         /\ Len(FlattenSeq([i \in 1 .. 3 |-> WriteNumber(i, order)])) = 6
<1>1. PICK parts : parts = [i \in 1 .. 3 |-> WriteNumber(i, order)]
  OBVIOUS
<1>2. \A i \in 1 .. 3 : parts[i] \in Seq(ByteValue) /\ Len(parts[i]) = 2
  BY <1>1, NumberWritten
<1>3. AreParts(parts, 3)
  <2>1. parts = [i \in 1 .. 3 |-> parts[i]]
    BY <1>1
  <2>2. QED BY <1>2, <2>1 DEF AreParts
<1>4. PICK upTo : Joined(parts, 3, upTo) /\ FlattenSeq(parts) = upTo[3]
  BY <1>3, FlattenedIs
<1>5. /\ upTo[0] = <<>> /\ upTo[1] = upTo[0] \o parts[1]
      /\ upTo[2] = upTo[1] \o parts[2] /\ upTo[3] = upTo[2] \o parts[3]
      /\ upTo[0] \in Seq(ByteValue) /\ upTo[1] \in Seq(ByteValue)
      /\ upTo[2] \in Seq(ByteValue) /\ upTo[3] \in Seq(ByteValue)
  <2>1. 1 - 1 = 0 /\ 2 - 1 = 1 /\ 3 - 1 = 2
    OBVIOUS
  <2>2. upTo[1] = upTo[1 - 1] \o parts[1] /\ upTo[2] = upTo[2 - 1] \o parts[2] /\ upTo[3] = upTo[3 - 1] \o parts[3]
    <3>1. \A k \in 1 .. 3 : upTo[k] = upTo[k - 1] \o parts[k]
      BY <1>4 DEF Joined
    <3>2. 1 \in 1 .. 3 /\ 2 \in 1 .. 3 /\ 3 \in 1 .. 3
      OBVIOUS
    <3>3. QED BY <3>1, <3>2
  <2>3. upTo \in [0 .. 3 -> Seq(ByteValue)] /\ upTo[0] = <<>>
    BY <1>4 DEF Joined
  <2>4. 0 \in 0 .. 3 /\ 1 \in 0 .. 3 /\ 2 \in 0 .. 3 /\ 3 \in 0 .. 3
    OBVIOUS
  <2>5. /\ upTo[0] \in Seq(ByteValue) /\ upTo[1] \in Seq(ByteValue)
        /\ upTo[2] \in Seq(ByteValue) /\ upTo[3] \in Seq(ByteValue)
    BY <2>3, <2>4
  <2>6. upTo[1] = upTo[0] \o parts[1] /\ upTo[2] = upTo[1] \o parts[2] /\ upTo[3] = upTo[2] \o parts[3]
    BY <2>1, <2>2
  <2>7. QED BY <2>3, <2>5, <2>6, Zenon
<1>6. Len(upTo[0]) = 0
  BY <1>5
<1>7. Len(upTo[1]) = 2
  <2>1. PICK u \in Seq(ByteValue), v \in Seq(ByteValue) : u = upTo[0] /\ v = parts[1]
    <3>1. 1 \in 1 .. 3
      OBVIOUS
    <3>2. parts[1] \in Seq(ByteValue)
      BY <1>2, <3>1
    <3>3. upTo[0] \in Seq(ByteValue)
      BY <1>5, Zenon
    <3>4. QED BY <3>2, <3>3
  <2>2. Len(u \o v) = Len(u) + Len(v)
    BY ConcatProperties
  <2>3. Len(u) = 0 /\ Len(v) = 2
    BY <1>2, <1>6, <2>1
  <2>4. upTo[1] = u \o v
    BY <1>5, <2>1
  <2>5. Len(u \o v) = 2
    BY <2>2, <2>3
  <2>6. QED BY <2>4, <2>5, Zenon
<1>8. Len(upTo[2]) = 4
  <2>1. PICK u \in Seq(ByteValue), v \in Seq(ByteValue) : u = upTo[1] /\ v = parts[2]
    <3>1. 2 \in 1 .. 3
      OBVIOUS
    <3>2. parts[2] \in Seq(ByteValue)
      BY <1>2, <3>1
    <3>3. upTo[1] \in Seq(ByteValue)
      BY <1>5, Zenon
    <3>4. QED BY <3>2, <3>3
  <2>2. Len(u \o v) = Len(u) + Len(v)
    BY ConcatProperties
  <2>3. Len(u) = 2 /\ Len(v) = 2
    BY <1>2, <1>7, <2>1
  <2>4. upTo[2] = u \o v
    BY <1>5, <2>1
  <2>5. Len(u \o v) = 4
    BY <2>2, <2>3
  <2>6. QED BY <2>4, <2>5, Zenon
<1>9. Len(upTo[3]) = 6
  <2>1. PICK u \in Seq(ByteValue), v \in Seq(ByteValue) : u = upTo[2] /\ v = parts[3]
    <3>1. 3 \in 1 .. 3
      OBVIOUS
    <3>2. parts[3] \in Seq(ByteValue)
      BY <1>2, <3>1
    <3>3. upTo[2] \in Seq(ByteValue)
      BY <1>5, Zenon
    <3>4. QED BY <3>2, <3>3
  <2>2. Len(u \o v) = Len(u) + Len(v)
    BY ConcatProperties
  <2>3. Len(u) = 4 /\ Len(v) = 2
    BY <1>2, <1>8, <2>1
  <2>4. upTo[3] = u \o v
    BY <1>5, <2>1
  <2>5. Len(u \o v) = 6
    BY <2>2, <2>3
  <2>6. QED BY <2>4, <2>5, Zenon
<1>10. QED BY <1>1, <1>4, <1>5, <1>9

-----------------------------------------------------------------------------
\* The first states.
LEMMA MessageInit == MessagesInit => MessageInv
<1> SUFFICES ASSUME MessagesInit PROVE MessageInv
  OBVIOUS
<1>0. PICK type \in DOMAIN MarshalOrder : \E f \in Fields(type) : sent = [type |-> type, record |-> f]
  BY DEF MessagesInit
<1>1. PICK f \in Fields(type) : sent = [type |-> type, record |-> f]
  BY <1>0
<1>2. hosts.from \in Order /\ hosts.to \in Order /\ stage = "start"
  BY DEF MessagesInit
<1>3. sent.type = type /\ sent.record = f
  BY <1>1
<1>4. MessageIs
  BY <1>2, <1>3 DEF MessageIs
<1>5. OnItsWay /\ HeaderHere /\ BodyHere /\ BoardHere
  BY <1>2 DEF OnItsWay, HeaderHere, BodyHere, BoardHere
<1>6. MessageArrives
  BY <1>2 DEF MessageArrives, FieldsArrive, BodyUsedUp, Received
<1>7. QED BY <1>2, <1>4, <1>5, <1>6 DEF MessageInv

\* What no step changes.
LEMMA MessageStays == MessageIs /\ UNCHANGED <<sent, hosts>> => MessageIs' /\ BodySent' = BodySent
BY DEF MessageIs, BodySent

\* The body that was sent is bytes and can be counted.
LEMMA SentBody == MessageIs => /\ BodySent \in Seq(ByteValue) /\ Len(BodySent) \in Nat
                               /\ HeaderSize + Len(BodySent) \in 0 .. NumberMax - 1
<1> SUFFICES ASSUME MessageIs PROVE /\ BodySent \in Seq(ByteValue) /\ Len(BodySent) \in Nat
                                    /\ HeaderSize + Len(BodySent) \in 0 .. NumberMax - 1
  OBVIOUS
<1>1. PICK type, record, order : type = sent.type /\ record = sent.record /\ order = hosts.from
  OBVIOUS
<1>2. type \in DOMAIN MarshalOrder /\ record \in Fields(type) /\ order \in Order
  BY <1>1 DEF MessageIs
<1>3. QED BY <1>1, <1>2, BodyIsBytes DEF BodySent

\* Sending: the header says how long all of it is.
LEMMA SendStep == MessageInv /\ Send => MessageInv'
<1> SUFFICES ASSUME MessageInv, Send PROVE MessageInv'
  OBVIOUS
<1>1. stage' = "sent" /\ UNCHANGED <<sent, hosts>> /\ MessageIs
  BY DEF Send, MessageInv
<1>2. MessageIs' /\ BodySent' = BodySent /\ hosts.from \in Order
  BY <1>1, MessageStays DEF MessageIs
<1>3. PICK n, u, v : /\ n = HeaderSize + Len(BodySent) /\ u = WriteNumber(n, hosts.from)
                     /\ v = FlattenSeq([i \in 1 .. 3 |-> WriteNumber(i, hosts.from)])
  OBVIOUS
<1>4. onWire' = (u \o v) \o BodySent
  BY <1>3 DEF Send, BodySent
<1>5. u \in Seq(ByteValue) /\ Len(u) = 2 /\ v \in Seq(ByteValue) /\ Len(v) = 6
  <2>1. n \in Nat
    BY <1>1, <1>3, SentBody
  <2>2. PICK order \in Order : order = hosts.from
    BY <1>2
  <2>3. QED BY <1>3, <2>1, <2>2, NumberWritten, Between
<1>6. u \o v \in Seq(ByteValue) /\ LiesAt(u \o v, 0, u) /\ Len(u \o v) = 8
  <2>1. u \o v \in Seq(ByteValue)
    BY <1>5, LiesInFront
  <2>2. LiesAt(u \o v, 0, u) /\ Len(u \o v) = Len(u) + Len(v)
    BY <1>5, FrontAndRest
  <2>3. QED BY <1>5, <2>1, <2>2
<1>7. OnItsWay'
  <2>1. PICK head : head = u \o v
    OBVIOUS
  <2>2. u = WriteNumber(HeaderSize + Len(BodySent'), hosts'.from)
    BY <1>1, <1>2, <1>3
  <2>3. QED BY <1>2, <1>4, <1>6, <2>1, <2>2, Roomy DEF OnItsWay
<1>8. HeaderHere' /\ BodyHere' /\ BoardHere' /\ MessageArrives'
  BY <1>1 DEF HeaderHere, BodyHere, BoardHere, MessageArrives, FieldsArrive, BodyUsedUp, Received
<1>9. QED BY <1>1, <1>2, <1>7, <1>8 DEF MessageInv

\* The header: its number is that length, whatever the order of the receiver.
LEMMA HeaderStep == MessageInv /\ ReceiveHeader => MessageInv'
<1> SUFFICES ASSUME MessageInv, ReceiveHeader PROVE MessageInv'
  OBVIOUS
<1>1. stage = "sent" /\ stage' = "header" /\ UNCHANGED <<sent, hosts>> /\ MessageIs /\ OnItsWay
  BY DEF ReceiveHeader, MessageInv
<1>2. /\ MessageIs' /\ BodySent' = BodySent /\ hosts.from \in Order /\ hosts.to \in Order
      /\ BodySent \in Seq(ByteValue) /\ Len(BodySent) \in Nat
      /\ HeaderSize + Len(BodySent) \in 0 .. NumberMax - 1
  BY <1>1, MessageStays, SentBody DEF MessageIs
<1>3. PICK head : /\ head \in Seq(ByteValue) /\ Len(head) = HeaderSize
                  /\ onWire = head \o BodySent
                  /\ LiesAt(head, 0, WriteNumber(HeaderSize + Len(BodySent), hosts.from))
  BY <1>1 DEF OnItsWay
<1>4. SubSeq(onWire, 1, HeaderSize) = head /\ SubSeq(onWire, HeaderSize + 1, Len(onWire)) = BodySent
  <2>1. PICK body \in Seq(ByteValue) : body = BodySent
    BY <1>2
  <2>2. SubSeq(head \o body, 1, Len(head)) = head /\ SubSeq(head \o body, Len(head) + 1, Len(head \o body)) = body
    BY <1>3, FrontAndRest
  <2>3. QED BY <1>3, <2>1, <2>2
<1>5. buffer' = head /\ onWire' = BodySent
  BY <1>4 DEF ReceiveHeader
<1>6. bodySize' = Len(BodySent)
  <2>1. PICK n, from, to, a :
          /\ n \in 0 .. NumberMax - 1 /\ from \in Order /\ to \in Order
          /\ n = HeaderSize + Len(BodySent) /\ from = hosts.from /\ to = hosts.to /\ a = 0
    BY <1>2
  <2>2. LiesAt(head, a, WriteNumber(n, from))
    BY <1>3, <2>1
  <2>3. PICK x, got : x = 0 /\ got = <<>>
    OBVIOUS
  <2>4. ReadNumber(Stream(head, a, x, got), to) = Stream(head, a + 2, n, got)
    BY <2>1, <2>2, NumberRead
  <2>5. Start(head) = Stream(head, a, x, got)
    BY <2>1, <2>3 DEF Start
  <2>6. ReadNumber(Start(buffer'), hosts.to).value = n
    BY <1>5, <2>1, <2>4, <2>5 DEF Stream
  <2>7. bodySize' = n - HeaderSize
    BY <2>6 DEF ReceiveHeader
  <2>8. QED BY <1>2, <2>1, <2>7, Roomy
<1>7. HeaderHere'
  BY <1>2, <1>3, <1>5, <1>6 DEF HeaderHere
<1>8. OnItsWay' /\ BodyHere' /\ BoardHere' /\ MessageArrives'
  BY <1>1 DEF OnItsWay, BodyHere, BoardHere, MessageArrives, FieldsArrive, BodyUsedUp, Received
<1>9. QED BY <1>1, <1>2, <1>7, <1>8 DEF MessageInv

\* The body comes in front of what the Buffer held.
LEMMA BodyStep == MessageInv /\ ReceiveBody => MessageInv'
<1> SUFFICES ASSUME MessageInv, ReceiveBody PROVE MessageInv'
  OBVIOUS
<1>1. /\ stage = "header" /\ stage' = "body" /\ UNCHANGED <<sent, hosts, bodySize>>
      /\ MessageIs /\ HeaderHere
  BY DEF ReceiveBody, MessageInv
<1>2. /\ MessageIs' /\ BodySent' = BodySent /\ BodySent \in Seq(ByteValue) /\ Len(BodySent) \in Nat
  BY <1>1, MessageStays, SentBody
<1>3. /\ onWire = BodySent /\ bodySize = Len(BodySent) /\ buffer \in Seq(ByteValue)
  BY <1>1 DEF HeaderHere
<1>4. PICK body \in Seq(ByteValue), rest \in Seq(ByteValue) :
        body = BodySent /\ rest = SubSeq(buffer, bodySize + 1, Len(buffer))
  <2>1. SubSeq(buffer, bodySize + 1, Len(buffer)) \in Seq(ByteValue)
    BY <1>2, <1>3, RestIsBytes
  <2>2. QED BY <1>2, <2>1
<1>5. buffer' = body \o rest
  <2>1. SubSeq(body, 1, Len(body)) = body
    BY WholeOf
  <2>2. SubSeq(onWire, 1, bodySize) = body
    BY <1>3, <1>4, <2>1
  <2>3. QED BY <1>4, <2>2 DEF ReceiveBody
<1>6. LiesAt(buffer', 0, body)
  BY <1>5, FrontAndRest
<1>7. BodyHere'
  BY <1>1, <1>2, <1>3, <1>4, <1>6 DEF BodyHere
<1>8. OnItsWay' /\ HeaderHere' /\ BoardHere' /\ MessageArrives'
  BY <1>1 DEF OnItsWay, HeaderHere, BoardHere, MessageArrives, FieldsArrive, BodyUsedUp, Received
<1>9. QED BY <1>1, <1>2, <1>7, <1>8 DEF MessageInv

\* What was read is what was told.
LEMMA ArrivedWhole ==
  ASSUME NEW n \in Nat, NEW E, NEW r, NEW got, NEW bytes, NEW w,
         EntriesInOrder(E, n), RecordFits(E, n, r), MessageIs,
         ComesAs(E, n, r, hosts.from, hosts.to, got),
         UNCHANGED <<sent, hosts>>, E = Entries, r = Told,
         input' = Stream(bytes, Len(w), 0, got), bodySize' = Len(w)
  PROVE  MessageArrives'
<1>1. DOMAIN got = DOMAIN r /\ \A e \in Range(E) : FieldArrives(e, r, got)
  BY EntriesArrive DEF MessageIs
<1>2. Entries' = E /\ Told' = r
  BY DEF Entries, Told
<1>3. input'.failed = FALSE /\ input'.got = got /\ input'.at = Len(w)
  BY DEF Stream
<1>4. ASSUME NEW e \in Range(E) PROVE FieldArrives(e, r, got)'
  <2>1. FieldArrives(e, r, got)
    BY <1>1
  <2>2. \A kinds, v, x : Alike(kinds, v, x)' <=> Alike(kinds, v, x)
    BY DEF Alike
  <2>3. QED BY <2>1, <2>2 DEF FieldArrives
<1>5. FieldsArrive'
  BY <1>1, <1>2, <1>3, <1>4 DEF FieldsArrive, FieldArrives
<1>6. BodyUsedUp'
  BY <1>3 DEF BodyUsedUp
<1>7. QED BY <1>5, <1>6 DEF MessageArrives

\* Unmarshal reads the body, and of a GET_BB_REP the board as bytes.
LEMMA UnmarshalStep == MessageInv /\ UnmarshalBody => MessageInv'
<1> SUFFICES ASSUME MessageInv, UnmarshalBody PROVE MessageInv'
  OBVIOUS
<1>1. /\ stage = "body" /\ UNCHANGED <<sent, hosts, bodySize>> /\ MessageIs /\ BodyHere
      /\ input' = Unmarshal(UnmarshalOrder[sent.type], buffer, hosts.to)
      /\ stage' = IF sent.type = "GET_BB_REP" /\ ~input'.failed THEN "board" ELSE "done"
  BY DEF UnmarshalBody, MessageInv
<1>2. MessageIs' /\ bodySize = Len(BodySent) /\ LiesAt(buffer, 0, BodySent)
  BY <1>1, MessageStays DEF BodyHere
<1>3. PICK type \in DOMAIN MarshalOrder, from \in Order, to \in Order :
        type = sent.type /\ from = hosts.from /\ to = hosts.to /\ sent.record \in Fields(type)
  BY <1>1 DEF MessageIs
<1>4. PICK E, record, w : E = MarshalOrder[type] /\ record = sent.record /\ w = BodySent
  OBVIOUS
<1>5. PICK n, r : n \in Nat /\ r = MsgGiven(type, record, from) /\ EntriesInOrder(E, n) /\ RecordFits(E, n, r)
  BY <1>3, <1>4, BodyFits
<1>6. w = Marshal(E, r, from) /\ LiesAt(buffer, 0, w)
  BY <1>2, <1>3, <1>4, <1>5 DEF BodySent, MarshalledBody
<1>7. PICK got : Unmarshal(E, buffer, to) = Stream(buffer, Len(w), 0, got) /\ ComesAs(E, n, r, from, to, got)
  BY <1>5, <1>6, MessageIsRead
<1>8. input' = Stream(buffer, Len(w), 0, got) /\ bodySize' = Len(w)
  BY <1>1, <1>2, <1>3, <1>4, <1>7 DEF UnmarshalOrder
<1>9. input'.failed = FALSE /\ input'.got = got
  BY <1>8 DEF Stream
<1>10. OnItsWay' /\ HeaderHere' /\ BodyHere'
  BY <1>1 DEF OnItsWay, HeaderHere, BodyHere
<1>11. CASE type = "GET_BB_REP"
  <2>1. stage' = "board" /\ sent.type = "GET_BB_REP"
    BY <1>1, <1>3, <1>9, <1>11
  <2>2. E[1] = One("board", "counted") /\ n >= 1
    <3>1. E = FetchBBRep /\ E[1] = One("board", "counted") /\ DOMAIN E = 1 .. 1
      BY <1>4, <1>11 DEF MarshalOrder, FetchBBRep
    <3>2. DOMAIN E = 1 .. n
      BY <1>5 DEF EntriesInOrder, IsList
    <3>3. QED BY <3>1, <3>2
  <2>3. got["board"] = r["board"]
    <3>1. E[1].when = "always" /\ E[1].field = "board" /\ E[1].many = FALSE /\ E[1].kinds[1] = "counted"
      BY <2>2 DEF One, Entry
    <3>2. Holds(E[1].when, r) /\ 1 \in 1 .. n
      BY <2>2, <3>1 DEF Holds
    <3>3. got["board"] = EntryComes(E[1], r["board"], from, to)
      BY <1>7, <3>1, <3>2 DEF ComesAs
    <3>4. QED BY <3>1, <3>3 DEF EntryComes, Comes
  <2>4. r["board"] = Marshal(BoardOrder, record.board, from)
    BY <1>5, <1>11 DEF MsgGiven
  <2>5. BoardHere'
    <3>1. input'.got.board = Marshal(BoardOrder, record.board, from)
      BY <1>9, <2>3, <2>4
    <3>2. sent' = sent /\ hosts' = hosts
      BY <1>1
    <3>3. QED BY <1>3, <1>4, <2>1, <3>1, <3>2 DEF BoardHere
  <2>6. MessageArrives'
    BY <2>1 DEF MessageArrives, FieldsArrive, BodyUsedUp, Received
  <2>7. QED BY <1>2, <1>10, <2>1, <2>5, <2>6 DEF MessageInv
<1>12. CASE type # "GET_BB_REP"
  <2>1. stage' = "done"
    BY <1>1, <1>3, <1>12
  <2>2. E = Entries /\ r = Told
    BY <1>3, <1>4, <1>5, <1>12 DEF Entries, Told, MsgGiven
  <2>3. MessageArrives'
    <3>1. ComesAs(E, n, r, hosts.from, hosts.to, got)
      BY <1>3, <1>7
    <3>2. UNCHANGED <<sent, hosts>>
      BY <1>1
    <3>3. QED BY <1>1, <1>5, <1>8, <2>2, <3>1, <3>2, ArrivedWhole
  <2>4. BoardHere'
    BY <2>1 DEF BoardHere
  <2>5. QED BY <1>2, <1>10, <2>1, <2>3, <2>4 DEF MessageInv
<1>13. QED BY <1>11, <1>12

\* Unmarshal reads the board out of them.
LEMMA BoardStep == MessageInv /\ UnmarshalBoard => MessageInv'
<1> SUFFICES ASSUME MessageInv, UnmarshalBoard PROVE MessageInv'
  OBVIOUS
<1>1. /\ stage = "board" /\ stage' = "done" /\ UNCHANGED <<sent, hosts>> /\ MessageIs /\ BoardHere
      /\ bodySize' = Len(input.got.board)
      /\ input' = Unmarshal(BoardOrder, input.got.board \o <<0>>, hosts.to)
  BY DEF UnmarshalBoard, MessageInv
<1>2. PICK from, to, r, w :
        /\ from \in Order /\ to \in Order
        /\ from = hosts.from /\ to = hosts.to /\ r = sent.record.board /\ w = Marshal(BoardOrder, r, from)
        /\ w = input.got.board /\ sent.type = "GET_BB_REP" /\ sent.record \in Fields("GET_BB_REP")
  BY <1>1 DEF MessageIs, BoardHere
<1>3. r \in Board /\ w \in Seq(ByteValue)
  <2>1. PICK record \in Fields("GET_BB_REP") : record = sent.record
    BY <1>2
  <2>2. r \in Board /\ Fits("counted", w)
    BY <1>2, <2>1, BoardCounted
  <2>3. QED BY <2>2 DEF Fits
<1>4. PICK n, E : n \in Nat /\ n = 10 /\ E = BoardOrder
  OBVIOUS
<1>5. EntriesInOrder(E, n) /\ RecordFits(E, n, r)
  BY <1>3, <1>4, LongOnes, BoardFits
<1>6. PICK bytes : bytes = w \o <<0>>
  OBVIOUS
<1>7. LiesAt(bytes, 0, w)
  <2>1. <<0>> \in Seq(ByteValue)
    BY BaseAssumption DEF ByteValue
  <2>2. QED BY <1>3, <1>6, <2>1, FrontAndRest
<1>8. PICK got : Unmarshal(E, bytes, to) = Stream(bytes, Len(w), 0, got) /\ ComesAs(E, n, r, from, to, got)
  <2>1. w = Marshal(E, r, from)
    BY <1>2, <1>4
  <2>2. QED BY <1>2, <1>4, <1>5, <1>7, <2>1, MessageIsRead
<1>9. input' = Stream(bytes, Len(w), 0, got) /\ bodySize' = Len(w)
  BY <1>1, <1>2, <1>4, <1>6, <1>8
<1>10. MessageArrives'
  <2>1. E = Entries /\ r = Told
    BY <1>2, <1>4 DEF Entries, Told
  <2>2. ComesAs(E, n, r, hosts.from, hosts.to, got)
    BY <1>2, <1>8
  <2>3. UNCHANGED <<sent, hosts>>
    BY <1>1
  <2>4. QED BY <1>1, <1>4, <1>5, <1>9, <2>1, <2>2, <2>3, ArrivedWhole
<1>11. MessageIs'
  BY <1>1, MessageStays
<1>12. OnItsWay' /\ HeaderHere' /\ BodyHere' /\ BoardHere'
  BY <1>1 DEF OnItsWay, HeaderHere, BodyHere, BoardHere
<1>13. QED BY <1>1, <1>10, <1>11, <1>12 DEF MessageInv

\* Whatever the byte orders of the two hosts, a message arrives whole and nothing
\* else with it: the fields the sender gave, read from the bytes of the body alone.
THEOREM MessageAlwaysArrives == MessagesSpec => []MessageArrives
<1>1. MessageInv /\ [MessagesNext]_messagesVars => MessageInv'
  <2>1. ASSUME MessageInv, UNCHANGED messagesVars PROVE MessageInv'
    <3>1. /\ UNCHANGED sent /\ UNCHANGED hosts /\ UNCHANGED stage /\ UNCHANGED onWire /\ UNCHANGED buffer
          /\ UNCHANGED bodySize /\ UNCHANGED input
      BY <2>1 DEF messagesVars
    <3>2. \A kinds, v, x : Alike(kinds, v, x)' <=> Alike(kinds, v, x)
      BY <3>1 DEF Alike
    <3>3. MessageIs' /\ BodySent' = BodySent
      BY <2>1, <3>1, MessageStays DEF MessageInv
    <3>4. OnItsWay' /\ HeaderHere' /\ BodyHere' /\ BoardHere'
      BY <2>1, <3>1, <3>3 DEF MessageInv, OnItsWay, HeaderHere, BodyHere, BoardHere
    <3>5. Received' = Received /\ Entries' = Entries /\ Told' = Told
      BY <3>1 DEF Received, Entries, Told
    <3>6. FieldsArrive /\ BodyUsedUp
      BY <2>1 DEF MessageInv, MessageArrives
    <3>7. FieldsArrive' /\ BodyUsedUp'
      BY <3>1, <3>2, <3>5, <3>6 DEF FieldsArrive, BodyUsedUp
    <3>8. QED BY <2>1, <3>1, <3>3, <3>4, <3>7 DEF MessageInv, MessageArrives
  <2>2. QED BY <2>1, SendStep, HeaderStep, BodyStep, UnmarshalStep, BoardStep DEF MessagesNext
<1>2. MessageInv => MessageArrives
  BY DEF MessageInv
<1>3. QED BY <1>1, <1>2, MessageInit, PTL DEF MessagesSpec
=============================================================================
