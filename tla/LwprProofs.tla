----------------------------- MODULE LwprProofs -----------------------------
(***************************************************************************)
(* Theorems about what LWPR's users rely on: texts that are taken apart    *)
(* (Scanning), for any words and lists of any length; the semaphore        *)
(* (IPCSem), for any processes and threads and any limit; and the          *)
(* connections of the network servers, of many threads (NetServer) and of  *)
(* one (STNetServer), for any threads, descriptors and limits.             *)
(***************************************************************************)
EXTENDS IPCSem, NetServer, STNetServer, Scanning, FiniteSetTheorems, SequenceTheorems, WellFoundedInduction, TLAPS

-----------------------------------------------------------------------------
(* Texts that are taken apart. *)

(* Texts: sequences of what can stand in one.                              *)
Character == Word \cup {" ", "tab", "cr", "=", ";", ":", "~", "#", "$", "0", "26000", "26001"}
AnyText == Seq(Character)
AllOf(t, chars) == \A i \in 1 .. Len(t) : t[i] \in chars
NoneOf(t, chars) == \A i \in 1 .. Len(t) : t[i] \notin chars

\* A word of a text is none of the marks sscanf stops at.
LEMMA WordsAreNoMarks ==
  \A w \in Word : w \notin {" ", "tab", "cr", "=", ";", ":", "~", "#", "$"}
BY ScanningAssumption, Zenon

\* What stands around a mark is nothing or one blank.
LEMMA SpaceFacts ==
  ASSUME NEW b \in Blank
  PROVE  Space(b) = <<>> \/ (b \in {" ", "tab", "cr"} /\ Space(b) = <<b>>)
<1>1. b \in {" ", "tab", "cr"} \/ b = ""
  BY ScanningAssumption, Zenon
<1>2. CASE b = ""
  BY <1>2, Zenon DEF Space
<1>3. CASE b \in {" ", "tab", "cr"} /\ b # ""
  BY <1>3, Zenon DEF Space
<1>4. QED BY <1>1, <1>2, <1>3

\* The same for lists and addresses, whose only blank is the space.
LEMMA SpacesFacts ==
  ASSUME NEW b \in Spaces
  PROVE  Space(b) = <<>> \/ Space(b) = <<" ">>
<1>1. CASE b = ""
  BY <1>1, Zenon DEF Space
<1>2. CASE b # ""
  <2>1. b = " "
    BY <1>2, Zenon DEF Spaces
  <2>2. Space(b) = <<b>>
    BY <1>2, Zenon DEF Space
  <2>3. QED BY <2>1, <2>2
<1>3. QED BY <1>1, <1>2

\* A text of one character.
LEMMA OneCharacter ==
  ASSUME NEW c \in Character
  PROVE  <<c>> \in AnyText /\ Len(<<c>>) = 1 /\ <<c>>[1] = c /\ <<c>> # <<>>
BY DEF AnyText

\* The characters of two texts put together.
LEMMA Joined ==
  ASSUME NEW a \in AnyText, NEW b \in AnyText
  PROVE  /\ a \o b \in AnyText /\ Len(a \o b) = Len(a) + Len(b)
         /\ Len(a) \in Nat /\ Len(b) \in Nat
         /\ \A i \in 1 .. Len(a) : (a \o b)[i] = a[i]
         /\ \A i \in 1 .. Len(b) : (a \o b)[Len(a) + i] = b[i]
         /\ \A i \in 1 .. Len(a) + Len(b) : i <= Len(a) \/ (i - Len(a) \in 1 .. Len(b) /\ (a \o b)[i] = b[i - Len(a)])
         /\ a \o <<>> = a /\ <<>> \o a = a
<1>1. Len(a) \in Nat /\ Len(b) \in Nat
  BY LenProperties DEF AnyText
<1>2. /\ a \o b \in AnyText /\ Len(a \o b) = Len(a) + Len(b)
      /\ \A i \in 1 .. Len(a) + Len(b) : (a \o b)[i] = IF i <= Len(a) THEN a[i] ELSE b[i - Len(a)]
  BY ConcatProperties DEF AnyText
<1>3. \A i \in 1 .. Len(a) : (a \o b)[i] = a[i]
  BY <1>1, <1>2
<1>4. ASSUME NEW i \in 1 .. Len(b)
      PROVE  (a \o b)[Len(a) + i] = b[i]
  <2>1. Len(a) + i \in 1 .. Len(a) + Len(b) /\ ~(Len(a) + i <= Len(a)) /\ Len(a) + i - Len(a) = i
    BY <1>1
  <2>2. QED BY <1>2, <2>1
<1>5. \A i \in 1 .. Len(a) + Len(b) : i <= Len(a) \/ (i - Len(a) \in 1 .. Len(b) /\ (a \o b)[i] = b[i - Len(a)])
  BY <1>1, <1>2
<1>6. a \o <<>> = a /\ <<>> \o a = a
  BY ConcatEmptySeq DEF AnyText
<1>7. QED BY <1>1, <1>2, <1>3, <1>4, <1>5, <1>6

\* Texts put together are a text.
LEMMA JoinIn == \A a, b \in AnyText : a \o b \in AnyText
BY ConcatProperties DEF AnyText

\* A text that is not empty has a first character.
LEMMA FirstOfText ==
  ASSUME NEW g \in AnyText, g # <<>>
  PROVE  Len(g) \in Nat \ {0} /\ 1 \in 1 .. Len(g)
<1>1. Len(g) \in Nat \ {0}
  BY EmptySeq, LenProperties DEF AnyText
<1>2. QED BY <1>1

\* Where the second of two texts begins.
LEMMA FirstJoined ==
  ASSUME NEW a \in AnyText, NEW b \in AnyText, b # <<>>
  PROVE  (a \o b)[Len(a) + 1] = b[1] /\ Len(a) + 1 \in 1 .. Len(a \o b)
<1>1. Len(a) \in Nat /\ Len(a \o b) = Len(a) + Len(b)
  BY Joined
<1>2. 1 \in 1 .. Len(b) /\ Len(b) \in Nat \ {0}
  BY FirstOfText
<1>3. (a \o b)[Len(a) + 1] = b[1]
  BY <1>2, Joined
<1>4. QED BY <1>1, <1>2, <1>3

\* The empty text has characters of every kind and of none.
LEMMA EmptyOf ==
  ASSUME NEW chars
  PROVE  AllOf(<<>>, chars) /\ NoneOf(<<>>, chars)
<1>1. Len(<<>>) = 0
  BY EmptySeq
<1>2. QED BY <1>1 DEF AllOf, NoneOf

\* Of what two texts put together consist.
LEMMA JoinedOf ==
  ASSUME NEW a \in AnyText, NEW b \in AnyText, NEW chars
  PROVE  /\ AllOf(a \o b, chars) <=> AllOf(a, chars) /\ AllOf(b, chars)
         /\ NoneOf(a \o b, chars) <=> NoneOf(a, chars) /\ NoneOf(b, chars)
<1>1. \A i \in 1 .. Len(b) : Len(a) + i \in 1 .. Len(a \o b)
  BY Joined
<1>2. \A i \in 1 .. Len(a) : i \in 1 .. Len(a \o b)
  BY Joined
<1>3. ASSUME NEW i \in 1 .. Len(a \o b)
      PROVE  \/ i \in 1 .. Len(a) /\ (a \o b)[i] = a[i]
             \/ i - Len(a) \in 1 .. Len(b) /\ (a \o b)[i] = b[i - Len(a)]
  BY Joined
<1>4. \A i \in 1 .. Len(a) : (a \o b)[i] = a[i]
  BY Joined
<1>5. \A i \in 1 .. Len(b) : (a \o b)[Len(a) + i] = b[i]
  BY Joined
<1> DEFINE t == a \o b
<1>6. \A i \in 1 .. Len(a) : i \in 1 .. Len(t) /\ t[i] = a[i]
  BY <1>2, <1>4, Zenon
<1>7. \A i \in 1 .. Len(b) : Len(a) + i \in 1 .. Len(t) /\ t[Len(a) + i] = b[i]
  BY <1>1, <1>5, Zenon
<1>8. ASSUME NEW i \in 1 .. Len(t)
      PROVE  \/ i \in 1 .. Len(a) /\ t[i] = a[i]
             \/ i - Len(a) \in 1 .. Len(b) /\ t[i] = b[i - Len(a)]
  BY <1>3, Zenon
<1> HIDE DEF t
<1>9. AllOf(t, chars) <=> AllOf(a, chars) /\ AllOf(b, chars)
  <2>1. AllOf(t, chars) => AllOf(a, chars)
    BY <1>6 DEF AllOf
  <2>2. AllOf(t, chars) => AllOf(b, chars)
    BY <1>7 DEF AllOf
  <2>3. AllOf(a, chars) /\ AllOf(b, chars) => AllOf(t, chars)
    BY <1>8 DEF AllOf
  <2>4. QED BY <2>1, <2>2, <2>3
<1>10. NoneOf(t, chars) <=> NoneOf(a, chars) /\ NoneOf(b, chars)
  <2>1. NoneOf(t, chars) => NoneOf(a, chars)
    BY <1>6 DEF NoneOf
  <2>2. NoneOf(t, chars) => NoneOf(b, chars)
    BY <1>7 DEF NoneOf
  <2>3. NoneOf(a, chars) /\ NoneOf(b, chars) => NoneOf(t, chars)
    BY <1>8 DEF NoneOf
  <2>4. QED BY <2>1, <2>2, <2>3
<1>11. QED BY <1>9, <1>10 DEF t

\* Before is the number it is meant to be: the first stop is just after it.
LEMMA BeforeIs ==
  ASSUME NEW t, Len(t) \in Nat, NEW stops \in SUBSET (1 .. Len(t)), NEW n \in 0 .. Len(t),
         \A i \in 1 .. n : i \notin stops,
         n = Len(t) \/ n + 1 \in stops
  PROVE  Before(t, stops) = n
<1>1. CASE stops = {}
  BY <1>1 DEF Before
<1>2. CASE stops # {}
  <2>1. \A j \in stops : j \in 1 .. Len(t) /\ n + 1 <= j
    OBVIOUS
  <2>2. n + 1 \in stops
    BY <1>2, <2>1
  <2> DEFINE least == CHOOSE i \in stops : \A j \in stops : i <= j
  <2>3. least \in stops /\ \A j \in stops : least <= j
    BY <2>1, <2>2
  <2>4. Before(t, stops) = least - 1
    BY <1>2, Zenon DEF Before
  <2> HIDE DEF least
  <2>5. least = n + 1
    BY <2>1, <2>2, <2>3
  <2>6. QED BY <2>4, <2>5
<1>3. QED BY <1>1, <1>2

\* "%[^...]" takes the first of two texts if only the second begins with a stop.
LEMMA UntilIs ==
  ASSUME NEW a \in AnyText, NEW b \in AnyText, NEW chars, NoneOf(a, chars), b = <<>> \/ b[1] \in chars
  PROVE  Until(a \o b, chars) = Len(a)
<1> DEFINE t == a \o b
<1> DEFINE stops == {i \in DOMAIN t : t[i] \in chars}
<1>1. t \in AnyText /\ Len(t) = Len(a) + Len(b) /\ Len(a) \in Nat /\ Len(b) \in Nat
  BY Joined
<1>2. DOMAIN t = 1 .. Len(t)
  BY <1>1, LenProperties DEF AnyText
<1>3. \A i \in 1 .. Len(a) : i \notin stops
  <2>1. \A i \in 1 .. Len(a) : t[i] = a[i]
    BY Joined
  <2> HIDE DEF t
  <2>2. \A i \in 1 .. Len(a) : t[i] \notin chars
    BY <2>1, Zenon DEF NoneOf
  <2>3. QED BY <2>2, Zenon
<1>4. b # <<>> => Len(a) + 1 \in stops
  <2>2. b # <<>> => t[Len(a) + 1] = b[1] /\ Len(a) + 1 \in 1 .. Len(t)
    BY FirstJoined
  <2>3. QED BY <1>2, <2>2
<1>5. Len(t) = Len(a) \/ Len(a) + 1 \in stops
  BY <1>1, <1>4, EmptySeq DEF AnyText
<1>6. Until(t, chars) = Before(t, stops)
  BY DEF Until
<1>7. stops \in SUBSET (1 .. Len(t))
  BY <1>2
<1> HIDE DEF t, stops
<1>8. Before(t, stops) = Len(a)
  <2>1. PICK n : n = Len(a)
    OBVIOUS
  <2>2. n \in 0 .. Len(t) /\ Len(t) \in Nat
    BY <1>1, <2>1
  <2>3. n = Len(t) \/ n + 1 \in stops
    BY <1>5, <2>1, Zenon
  <2>4. \A i \in 1 .. n : i \notin stops
    BY <1>3, <2>1, Zenon
  <2>5. Before(t, stops) = n
    BY <1>7, <2>2, <2>3, <2>4, BeforeIs
  <2>6. QED BY <2>1, <2>5
<1>9. QED BY <1>6, <1>8 DEF t

\* "%[...]" takes the first of two texts if the second begins with something else.
LEMMA WhileIs ==
  ASSUME NEW a \in AnyText, NEW b \in AnyText, NEW chars, AllOf(a, chars), b = <<>> \/ b[1] \notin chars
  PROVE  While(a \o b, chars) = Len(a)
<1> DEFINE t == a \o b
<1> DEFINE stops == {i \in DOMAIN t : t[i] \notin chars}
<1>1. t \in AnyText /\ Len(t) = Len(a) + Len(b) /\ Len(a) \in Nat /\ Len(b) \in Nat
  BY Joined
<1>2. DOMAIN t = 1 .. Len(t)
  BY <1>1, LenProperties DEF AnyText
<1>3. \A i \in 1 .. Len(a) : i \notin stops
  BY Joined DEF AllOf
<1>4. b # <<>> => Len(a) + 1 \in stops
  <2>2. b # <<>> => t[Len(a) + 1] = b[1] /\ Len(a) + 1 \in 1 .. Len(t)
    BY FirstJoined
  <2>3. QED BY <1>2, <2>2
<1>5. Len(t) = Len(a) \/ Len(a) + 1 \in stops
  BY <1>1, <1>4, EmptySeq DEF AnyText
<1>6. While(t, chars) = Before(t, stops)
  BY DEF While
<1>7. stops \in SUBSET (1 .. Len(t))
  BY <1>2
<1> HIDE DEF t, stops
<1>8. Before(t, stops) = Len(a)
  <2>1. PICK n : n = Len(a)
    OBVIOUS
  <2>2. n \in 0 .. Len(t) /\ Len(t) \in Nat
    BY <1>1, <2>1
  <2>3. n = Len(t) \/ n + 1 \in stops
    BY <1>5, <2>1, Zenon
  <2>4. \A i \in 1 .. n : i \notin stops
    BY <1>3, <2>1, Zenon
  <2>5. Before(t, stops) = n
    BY <1>7, <2>2, <2>3, <2>4, BeforeIs
  <2>6. QED BY <2>1, <2>5
<1>9. QED BY <1>6, <1>8 DEF t

\* Two texts put together are taken apart again.
LEMMA SplitAt ==
  ASSUME NEW a \in AnyText, NEW b \in AnyText
  PROVE  SubSeq(a \o b, 1, Len(a)) = a /\ From(a \o b, Len(a)) = b
<1> DEFINE t == a \o b
<1>1. t \in AnyText /\ Len(t) = Len(a) + Len(b) /\ Len(a) \in Nat /\ Len(b) \in Nat
  BY Joined
<1>2. \A i \in 1 .. Len(a) : t[i] = a[i] /\ t[i] \in Character
  <2>1. \A i \in 1 .. Len(a) : a[i] \in Character
    BY ElementOfSeq DEF AnyText
  <2>2. QED BY <2>1, Joined
<1>3. \A i \in 1 .. Len(b) : t[Len(a) + i] = b[i]
  BY Joined
<1>4. \A i \in Len(a) + 1 .. Len(t) : t[i] \in Character
  <2>1. \A i \in 1 .. Len(t) : t[i] \in Character
    BY <1>1, ElementOfSeq DEF AnyText
  <2>2. QED BY <1>1, <2>1
<1> HIDE DEF t
<1>5. SubSeq(t, 1, Len(a)) = a
  <2>1. /\ SubSeq(t, 1, Len(a)) \in Seq(Character)
        /\ Len(SubSeq(t, 1, Len(a))) = IF 1 <= Len(a) THEN Len(a) - 1 + 1 ELSE 0
        /\ \A i \in 1 .. Len(a) - 1 + 1 : SubSeq(t, 1, Len(a))[i] = t[1 + i - 1]
    BY <1>1, <1>2, SubSeqProperties
  <2>2. Len(SubSeq(t, 1, Len(a))) = Len(a) /\ \A i \in 1 .. Len(a) : SubSeq(t, 1, Len(a))[i] = a[i]
    BY <1>1, <1>2, <2>1
  <2>3. QED BY <2>1, <2>2, SeqEqual DEF AnyText
<1>6. From(t, Len(a)) = b
  <2>1. /\ SubSeq(t, Len(a) + 1, Len(t)) \in Seq(Character)
        /\ Len(SubSeq(t, Len(a) + 1, Len(t))) = IF Len(a) + 1 <= Len(t) THEN Len(t) - (Len(a) + 1) + 1 ELSE 0
        /\ \A i \in 1 .. Len(t) - (Len(a) + 1) + 1 : SubSeq(t, Len(a) + 1, Len(t))[i] = t[Len(a) + 1 + i - 1]
    BY <1>1, <1>4, SubSeqProperties
  <2>2. /\ Len(SubSeq(t, Len(a) + 1, Len(t))) = Len(b)
        /\ \A i \in 1 .. Len(b) : SubSeq(t, Len(a) + 1, Len(t))[i] = b[i]
    <3>1. \A i \in 1 .. Len(b) : Len(a) + 1 + i - 1 = Len(a) + i
      BY <1>1
    <3>2. Len(t) - (Len(a) + 1) + 1 = Len(b)
      BY <1>1
    <3>3. QED BY <1>1, <1>3, <2>1, <3>1, <3>2
  <2>3. QED BY <2>1, <2>2, SeqEqual DEF AnyText, From
<1>7. QED BY <1>5, <1>6 DEF t

\* A text of two parts for the scan: a, the gap g, and r.
Separated(a, g, r, D) ==
  /\ a \in AnyText /\ g \in AnyText /\ r \in AnyText /\ D \in Character
  /\ a # <<>> /\ NoneOf(a, {" ", D})
  /\ g # <<>> /\ AllOf(g, {" ", D})
  /\ r # <<>> /\ r[1] \notin {" ", D} /\ NoneOf(r, {"$"})

\* sscanf finds both parts, and nothing of the gap between them, if the gap is only blanks and
\* delimiters.
LEMMA ScanTwo ==
  ASSUME NEW a, NEW g, NEW r, NEW D, Separated(a, g, r, D)
  PROVE  Scan(a \o (g \o r), D) = <<a, r>>
<1> USE DEF Separated
<1> DEFINE t == a \o (g \o r)
<1>1. g \o r \in AnyText /\ t \in AnyText /\ Len(a) \in Nat \ {0} /\ Len(g) \in Nat \ {0} /\ Len(r) \in Nat \ {0}
  <2>1. g \o r \in AnyText
    BY JoinIn, Zenon
  <2>2. t \in AnyText
    BY <2>1, JoinIn, Zenon
  <2>3. Len(a) \in Nat \ {0}
    BY FirstOfText, Zenon
  <2>4. Len(g) \in Nat \ {0}
    BY FirstOfText, Zenon
  <2>5. Len(r) \in Nat \ {0}
    BY FirstOfText, Zenon
  <2> HIDE DEF t, Separated
  <2>6. QED BY <2>1, <2>2, <2>3, <2>4, <2>5
<1>2. (g \o r)[1] \in {" ", D}
  <2>1. 1 \in 1 .. Len(g)
    BY FirstOfText
  <2>2. (g \o r)[1] = g[1]
    <3>1. \A i \in 1 .. Len(g) : (g \o r)[i] = g[i]
      BY Joined, Zenon
    <3>2. QED BY <2>1, <3>1, Zenon
  <2>3. QED BY <2>1, <2>2 DEF AllOf
<1>3. Until(t, {" ", D}) = Len(a)
  <2> DEFINE chars == {" ", D}
  <2> HIDE DEF chars
  <2>1. (g \o r)[1] \in chars /\ NoneOf(a, chars)
    BY <1>2 DEF chars
  <2>2. Until(t, chars) = Len(a)
    BY <1>1, <2>1, UntilIs
  <2>3. QED BY <2>2 DEF chars
<1>4. From(t, Len(a)) = g \o r /\ SubSeq(t, 1, Len(a)) = a
  BY <1>1, SplitAt
<1>5. While(g \o r, {" ", D}) = Len(g)
  <2> DEFINE chars == {" ", D}
  <2> HIDE DEF chars
  <2>1. r[1] \notin chars /\ AllOf(g, chars)
    BY DEF chars
  <2>2. While(g \o r, chars) = Len(g)
    BY <1>1, <2>1, WhileIs
  <2>3. QED BY <2>2 DEF chars
<1>6. From(g \o r, Len(g)) = r
  BY SplitAt
<1>7. Until(r, {"$"}) = Len(r) /\ SubSeq(r, 1, Len(r)) = r
  <2>1. <<>> \in AnyText /\ r \o <<>> = r
    BY EmptySeq, Joined DEF AnyText
  <2> DEFINE chars == {"$"}
  <2> HIDE DEF chars
  <2>2. NoneOf(r, chars)
    BY DEF chars
  <2>3. Until(r \o <<>>, chars) = Len(r)
    BY <2>1, <2>2, UntilIs
  <2>4. SubSeq(r \o <<>>, 1, Len(r)) = r
    BY <2>1, SplitAt
  <2>5. QED BY <2>1, <2>3, <2>4 DEF chars
<1> HIDE DEF t
<1>8. Scan(t, D) = <<SubSeq(t, 1, Len(a)), SubSeq(r, 1, Len(r))>>
  BY <1>1, <1>3, <1>4, <1>5, <1>6, <1>7 DEF Scan
<1>9. QED BY <1>4, <1>7, <1>8 DEF t

\* sscanf finds one part where there is no delimiter.
LEMMA ScanOne ==
  ASSUME NEW a \in AnyText, NEW D \in Character, a # <<>>, NoneOf(a, {" ", D})
  PROVE  Scan(a, D) = <<a>>
<1>1. <<>> \in AnyText /\ a \o <<>> = a /\ Len(a) \in Nat \ {0} /\ Len(<<>>) = 0
  BY EmptySeq, Joined DEF AnyText
<1>2. Until(a, {" ", D}) = Len(a)
  <2> DEFINE chars == {" ", D}
  <2> HIDE DEF chars
  <2>1. NoneOf(a, chars)
    BY DEF chars
  <2>2. Until(a \o <<>>, chars) = Len(a)
    BY <1>1, <2>1, UntilIs
  <2>3. QED BY <1>1, <2>2 DEF chars
<1>3. From(a, Len(a)) = <<>> /\ SubSeq(a, 1, Len(a)) = a
  <2>1. From(a \o <<>>, Len(a)) = <<>> /\ SubSeq(a \o <<>>, 1, Len(a)) = a
    BY <1>1, SplitAt
  <2>2. QED BY <1>1, <2>1
<1>4. While(<<>>, {" ", D}) = 0
  <2> DEFINE chars == {" ", D}
  <2> HIDE DEF chars
  <2>1. <<>> \o <<>> = <<>> /\ AllOf(<<>>, chars)
    <3>1. <<>> \o <<>> = <<>>
      BY <1>1, Joined
    <3>2. QED BY <3>1, EmptyOf
  <2>2. While(<<>> \o <<>>, chars) = Len(<<>>)
    BY <1>1, <2>1, WhileIs
  <2>3. QED BY <1>1, <2>1, <2>2 DEF chars
<1>5. Scan(a, D) = <<SubSeq(a, 1, Len(a))>>
  BY <1>1, <1>2, <1>3, <1>4 DEF Scan
<1>6. QED BY <1>3, <1>5

\* TrimAll leaves what stands between the blanks of both ends.
LEMMA Trims ==
  ASSUME NEW l \in AnyText, NEW v \in AnyText, NEW r \in AnyText,
         AllOf(l, BlankChars), AllOf(r, BlankChars),
         v # <<>>, v[1] \notin BlankChars, v[Len(v)] \notin BlankChars
  PROVE  TrimAll(l \o (v \o r)) = v
<1> DEFINE t == l \o (v \o r)
<1>1. /\ v \o r \in AnyText /\ t \in AnyText
      /\ Len(l) \in Nat /\ Len(v) \in Nat \ {0} /\ Len(r) \in Nat
      /\ Len(v \o r) = Len(v) + Len(r) /\ Len(t) = Len(l) + (Len(v) + Len(r))
  BY Joined, FirstOfText
<1>2. \A i \in 1 .. Len(v) : t[Len(l) + i] = v[i]
  <2>1. \A i \in 1 .. Len(v) : i \in 1 .. Len(v \o r) /\ (v \o r)[i] = v[i]
    BY <1>1, Joined
  <2>2. \A i \in 1 .. Len(v \o r) : t[Len(l) + i] = (v \o r)[i]
    BY <1>1, Joined
  <2>3. QED BY <2>1, <2>2
<1>3. \A i \in 1 .. Len(r) : t[Len(l) + (Len(v) + i)] = r[i]
  <2>1. \A i \in 1 .. Len(r) : Len(v) + i \in 1 .. Len(v \o r) /\ (v \o r)[Len(v) + i] = r[i]
    <3>1. \A i \in 1 .. Len(r) : (v \o r)[Len(v) + i] = r[i]
      BY Joined
    <3>2. \A i \in 1 .. Len(r) : Len(v) + i \in 1 .. Len(v \o r)
      BY <1>1
    <3>3. QED BY <3>1, <3>2
  <2>2. \A i \in 1 .. Len(v \o r) : t[Len(l) + i] = (v \o r)[i]
    BY <1>1, Joined
  <2>3. QED BY <2>1, <2>2
<1>4. While(t, BlankChars) = Len(l)
  <2>1. (v \o r)[1] \notin BlankChars
    <3>1. (v \o r)[1] = v[1]
      BY FirstOfText, Joined
    <3>2. QED BY <3>1
  <2>2. QED BY <1>1, <2>1, WhileIs
<1> HIDE DEF t
<1> DEFINE back == Reverse(t)
<1>5. /\ DOMAIN back = 1 .. Len(t) /\ Len(back) = Len(t)
      /\ \A i \in 1 .. Len(t) : back[i] = t[(Len(t) - i) + 1]
  <2>1. back = [i \in 1 .. Len(t) |-> t[(Len(t) - i) + 1]]
    BY DEF Reverse
  <2>2. \A i \in 1 .. Len(t) : (Len(t) - i) + 1 \in 1 .. Len(t)
    BY <1>1
  <2>3. \A i \in 1 .. Len(t) : t[i] \in Character
    BY <1>1, ElementOfSeq DEF AnyText
  <2>4. Len(t) \in Nat
    BY <1>1
  <2>5. [i \in 1 .. Len(t) |-> t[(Len(t) - i) + 1]] \in Seq(Character) /\ Len([i \in 1 .. Len(t) |-> t[(Len(t) - i) + 1]]) = Len(t)
    BY <2>2, <2>3, <2>4, IsASeq
  <2>6. QED BY <2>1, <2>5
<1> HIDE DEF back
<1>6. While(back, BlankChars) = Len(r)
  <2> DEFINE stops == {i \in DOMAIN back : back[i] \notin BlankChars}
  <2>1. \A i \in 1 .. Len(r) : i \notin stops
    <3>1. SUFFICES ASSUME NEW i \in 1 .. Len(r)
                   PROVE  back[i] \in BlankChars
      OBVIOUS
    <3>2. i \in 1 .. Len(t) /\ Len(r) - i + 1 \in 1 .. Len(r) /\ (Len(t) - i) + 1 = Len(l) + (Len(v) + (Len(r) - i + 1))
      BY <1>1
    <3>3. back[i] = r[Len(r) - i + 1]
      BY <1>3, <1>5, <3>2
    <3>4. QED BY <3>2, <3>3 DEF AllOf
  <2>2. Len(r) + 1 \in stops
    <3>1. Len(r) + 1 \in 1 .. Len(t) /\ (Len(t) - (Len(r) + 1)) + 1 = Len(l) + Len(v) /\ Len(v) \in 1 .. Len(v)
      BY <1>1
    <3>2. back[Len(r) + 1] = v[Len(v)]
      BY <1>2, <1>5, <3>1
    <3>3. QED BY <1>5, <3>1, <3>2
  <2>3. While(back, BlankChars) = Before(back, stops)
    BY DEF While
  <2>4. stops \in SUBSET (1 .. Len(back)) /\ Len(r) \in 0 .. Len(back) /\ Len(back) \in Nat
    BY <1>1, <1>5
  <2> HIDE DEF stops
  <2>5. Before(back, stops) = Len(r)
    BY <2>1, <2>2, <2>4, BeforeIs
  <2>6. QED BY <2>3, <2>5
<1>7. SubSeq(t, Len(l) + 1, Len(t) - Len(r)) = v
  <2>1. \A i \in Len(l) + 1 .. Len(t) - Len(r) : t[i] \in Character
    <3>1. \A i \in 1 .. Len(t) : t[i] \in Character
      BY <1>1, ElementOfSeq DEF AnyText
    <3>2. QED BY <1>1, <3>1
  <2>2. Len(l) + 1 \in Int /\ Len(t) - Len(r) \in Int
    BY <1>1
  <2> DEFINE u == SubSeq(t, Len(l) + 1, Len(t) - Len(r))
  <2>3. /\ u \in Seq(Character)
        /\ Len(u) = IF Len(l) + 1 <= Len(t) - Len(r) THEN Len(t) - Len(r) - (Len(l) + 1) + 1 ELSE 0
        /\ \A i \in 1 .. Len(t) - Len(r) - (Len(l) + 1) + 1 : u[i] = t[Len(l) + 1 + i - 1]
    BY <2>1, <2>2, SubSeqProperties
  <2> HIDE DEF u
  <2>4. Len(t) - Len(r) - (Len(l) + 1) + 1 = Len(v) /\ Len(l) + 1 <= Len(t) - Len(r)
    BY <1>1
  <2>5. \A i \in 1 .. Len(v) : Len(l) + 1 + i - 1 = Len(l) + i
    BY <1>1
  <2>6. Len(u) = Len(v) /\ \A i \in 1 .. Len(v) : u[i] = v[i]
    BY <1>2, <2>3, <2>4, <2>5
  <2>7. u = v
    BY <2>3, <2>6, SeqEqual DEF AnyText
  <2>8. QED BY <2>7 DEF u
<1>8. Len(l) # Len(t)
  BY <1>1
<1>9. TrimAll(t) = SubSeq(t, Len(l) + 1, Len(t) - Len(r))
  BY <1>4, <1>6, <1>8 DEF TrimAll, back
<1>10. QED BY <1>7, <1>9 DEF t

\* A set of numbers that is not empty has a least one: what the inductions of this module rest

\* on.
LEMMA LeastNumber ==
  ASSUME NEW T, T \subseteq Nat, T # {}
  PROVE  \E m \in T : \A k \in T : m <= k
<1>1. IsWellFoundedOn(OpToRel(<, Nat), Nat)
  BY NatLessThanWellFounded
<1> DEFINE less == {ss \in Nat \X Nat : ss[1] < ss[2]}
<1>2. IsWellFoundedOn(less, Nat)
  BY <1>1, Zenon DEF OpToRel
<1>3. \A k, m \in Nat : k < m => <<k, m>> \in less
  OBVIOUS
<1> HIDE DEF less
<1>4. \E m \in T : \A k \in T : ~ (<<k, m>> \in less)
  BY <1>2, WFMin, Zenon
<1>5. PICK m \in T : \A k \in T : ~ (<<k, m>> \in less)
  BY <1>4
<1>6. ASSUME NEW k \in T
      PROVE  m <= k
  <2>1. k \in Nat /\ m \in Nat
    OBVIOUS
  <2>2. ~ (k < m)
    BY <1>3, <1>5, <2>1
  <2>3. QED BY <2>1, <2>2
<1>7. QED BY <1>5, <1>6

(* A function on 0 .. N whose value at n is a piece and its value at next[n], if there is a next one. *)
Backwards(N, next) == \A n \in 0 .. N : next[n] \in -1 .. n - 1
Follows(N, piece, next, f) == f = [n \in 0 .. N |-> piece[n] \o IF next[n] = -1 THEN <<>> ELSE f[next[n]]]

\* There is such a function, so that the one CHOOSE takes in SplitString is one.
LEMMA RecursionExists ==
  ASSUME NEW N \in Nat, NEW piece, NEW next, Backwards(N, next)
  PROVE  \E f : Follows(N, piece, next, f)
<1>0. \A n \in 0 .. N : next[n] \in -1 .. n - 1
  BY DEF Backwards
<1> DEFINE Rec(k, f) == f = [n \in 0 .. k |-> piece[n] \o IF next[n] = -1 THEN <<>> ELSE f[next[n]]]
<1> DEFINE T == {k \in 0 .. N : ~ \E f : Rec(k, f)}
<1>1. SUFFICES ASSUME T # {} PROVE FALSE
  <2>1. N \in 0 .. N
    OBVIOUS
  <2>2. QED BY <2>1 DEF Follows
<1>2. PICK m \in T : \A k \in T : m <= k
  <2>1. T \subseteq 0 .. N
    BY Zenon
  <2> HIDE DEF T
  <2>2. T \subseteq Nat
    <3>1. \A k \in 0 .. N : k \in Nat
      OBVIOUS
    <3>2. QED BY <2>1, <3>1, Zenon
  <2>3. QED BY <1>1, <2>2, LeastNumber
<1>3. m \in 0 .. N /\ ~ \E f : Rec(m, f)
  OBVIOUS
<1>4. CASE m = 0
  <2>1. next[0] = -1
    BY <1>0
  <2> DEFINE f == [n \in 0 .. 0 |-> piece[n] \o <<>>]
  <2>2. \A n \in 0 .. 0 : next[n] = -1
    BY <2>1
  <2>3. f = [n \in 0 .. 0 |-> piece[n] \o IF next[n] = -1 THEN <<>> ELSE f[next[n]]]
    <3> DEFINE g(x) == x[1]
    <3>1. \A n \in 0 .. 0 : (piece[n] \o <<>>) = piece[n] \o IF next[n] = -1 THEN <<>> ELSE f[next[n]]
      BY <2>2
    <3>2. QED BY <3>1
  <2>4. Rec(m, f)
    BY <1>4, <2>3
  <2>5. QED BY <1>3, <2>4
<1>5. CASE m > 0
  <2>1. m - 1 \in 0 .. N /\ ~ (m <= m - 1)
    BY <1>3, <1>5
  <2>2. m - 1 \notin T
    BY <1>2, <2>1
  <2>3. PICK g : Rec(m - 1, g)
    BY <2>1, <2>2
  <2> DEFINE f == [n \in 0 .. m |-> IF n = m THEN piece[m] \o IF next[m] = -1 THEN <<>> ELSE g[next[m]] ELSE g[n]]
  <2>4. \A n \in 0 .. m : next[n] = -1 \/ (next[n] \in 0 .. m /\ next[n] # m)
    BY <1>0, <1>3
  <2>5. \A n \in 0 .. m : next[n] = -1 \/ f[next[n]] = g[next[n]]
    BY <2>4
  <2>6. \A n \in 0 .. m - 1 : g[n] = piece[n] \o IF next[n] = -1 THEN <<>> ELSE g[next[n]]
    BY <2>3
  <2>7. ASSUME NEW n \in 0 .. m
        PROVE  f[n] = piece[n] \o IF next[n] = -1 THEN <<>> ELSE f[next[n]]
    <3>1. f[n] = piece[n] \o IF next[n] = -1 THEN <<>> ELSE g[next[n]]
      <4>1. CASE n = m
        BY <4>1
      <4>2. CASE n # m
        <5>1. n \in 0 .. m - 1
          BY <1>3, <4>2
        <5>2. f[n] = g[n]
          BY <4>2
        <5> HIDE DEF f
        <5>3. QED BY <2>6, <5>1, <5>2
      <4>3. QED BY <4>1, <4>2
    <3> HIDE DEF f
    <3>2. QED BY <2>5, <3>1
  <2>8. f = [n \in 0 .. m |-> f[n]]
    OBVIOUS
  <2>9. Rec(m, f)
    <3> HIDE DEF f
    <3>1. QED BY <2>7, <2>8, Zenon
  <2>10. QED BY <1>3, <2>9
<1>6. QED BY <1>3, <1>4, <1>5

\* No more is before the first stop than there is.
LEMMA BeforeWithin ==
  ASSUME NEW t, Len(t) \in Nat, NEW stops \in SUBSET (1 .. Len(t))
  PROVE  Before(t, stops) \in 0 .. Len(t)
<1>1. CASE stops = {}
  BY <1>1 DEF Before
<1>2. CASE stops # {}
  <2>1. stops \subseteq Nat
    OBVIOUS
  <2>2. \E i \in stops : \A j \in stops : i <= j
    BY <1>2, <2>1, LeastNumber
  <2> DEFINE least == CHOOSE i \in stops : \A j \in stops : i <= j
  <2>3. least \in stops
    BY <2>2
  <2>4. Before(t, stops) = least - 1
    BY <1>2, Zenon DEF Before
  <2> HIDE DEF least
  <2>5. QED BY <2>3, <2>4
<1>3. QED BY <1>1, <1>2

\* The rest and the beginning of a text are texts, as long as they should be.
LEMMA PartsOf ==
  ASSUME NEW t \in AnyText, NEW i \in 0 .. Len(t), NEW k \in 0 .. Len(t)
  PROVE  /\ From(t, i) \in AnyText /\ Len(From(t, i)) = Len(t) - i
         /\ SubSeq(t, 1, k) \in AnyText /\ Len(SubSeq(t, 1, k)) = k
<1>1. Len(t) \in Nat /\ \A j \in 1 .. Len(t) : t[j] \in Character
  BY LenProperties, ElementOfSeq DEF AnyText
<1>2. i + 1 \in Int /\ Len(t) \in Int /\ 1 \in Int /\ k \in Int
  BY <1>1
<1>3. \A j \in i + 1 .. Len(t) : t[j] \in Character
  BY <1>1
<1>4. \A j \in 1 .. k : t[j] \in Character
  BY <1>1
<1>5. /\ SubSeq(t, i + 1, Len(t)) \in Seq(Character)
      /\ Len(SubSeq(t, i + 1, Len(t))) = IF i + 1 <= Len(t) THEN Len(t) - (i + 1) + 1 ELSE 0
  BY <1>2, <1>3, SubSeqProperties
<1>6. /\ SubSeq(t, 1, k) \in Seq(Character)
      /\ Len(SubSeq(t, 1, k)) = IF 1 <= k THEN k - 1 + 1 ELSE 0
  BY <1>2, <1>4, SubSeqProperties
<1>7. Len(SubSeq(t, i + 1, Len(t))) = Len(t) - i /\ Len(SubSeq(t, 1, k)) = k
  BY <1>1, <1>5, <1>6
<1>8. QED BY <1>5, <1>6, <1>7 DEF AnyText, From

\* "%[...]" and "%[^...]" stay within the text.
LEMMA WithinText ==
  ASSUME NEW t \in AnyText, NEW chars
  PROVE  Until(t, chars) \in 0 .. Len(t) /\ While(t, chars) \in 0 .. Len(t)
<1>1. DOMAIN t = 1 .. Len(t) /\ Len(t) \in Nat
  BY LenProperties DEF AnyText
<1>2. {i \in DOMAIN t : t[i] \in chars} \in SUBSET (1 .. Len(t)) /\ {i \in DOMAIN t : t[i] \notin chars} \in SUBSET (1 .. Len(t))
  BY <1>1
<1>3. QED BY <1>1, <1>2, BeforeWithin DEF Until, While

\* The second part is shorter than the text: SplitString comes to an end.
LEMMA ScanShortens ==
  ASSUME NEW t \in AnyText, NEW D, Len(Scan(t, D)) = 2
  PROVE  Len(Scan(t, D)[2]) \in 0 .. Len(t) - 1
<1> DEFINE chars == {" ", D}
<1> DEFINE i == Until(t, chars)
<1> DEFINE rest == From(t, i)
<1> DEFINE j == While(rest, chars)
<1> DEFINE last == From(rest, j)
<1> DEFINE k == Until(last, {"$"})
<1>1. Scan(t, D) = IF i = 0 THEN <<>> ELSE IF j = 0 \/ k = 0 THEN <<SubSeq(t, 1, i)>>
                   ELSE <<SubSeq(t, 1, i), SubSeq(last, 1, k)>>
  BY DEF Scan
<1> HIDE DEF k, chars
<1>2. i \in 0 .. Len(t)
  BY WithinText
<1> HIDE DEF i
<1>3. rest \in AnyText /\ Len(rest) = Len(t) - i
  BY <1>2, PartsOf
<1> HIDE DEF rest
<1>4. j \in 0 .. Len(rest)
  BY <1>3, WithinText
<1> HIDE DEF j
<1>5. last \in AnyText /\ Len(last) = Len(rest) - j
  BY <1>3, <1>4, PartsOf
<1> HIDE DEF last
<1>6. k \in 0 .. Len(last)
  BY <1>5, WithinText DEF k
<1>7. Len(SubSeq(last, 1, k)) = k
  BY <1>5, <1>6, PartsOf
<1>8. Len(t) \in Nat
  BY LenProperties DEF AnyText
<1>9. i # 0 /\ Scan(t, D)[2] = SubSeq(last, 1, k)
  <2>1. CASE i = 0
    BY <1>1, <2>1, EmptySeq
  <2>2. CASE i # 0 /\ (j = 0 \/ k = 0)
    BY <1>1, <2>2
  <2>3. CASE i # 0 /\ ~(j = 0 \/ k = 0)
    <3> DEFINE first == SubSeq(t, 1, i)
    <3> DEFINE second == SubSeq(last, 1, k)
    <3>1. Scan(t, D) = <<first, second>>
      BY <1>1, <2>3
    <3> HIDE DEF first, second
    <3>2. Scan(t, D)[2] = second
      BY <3>1
    <3>3. QED BY <2>3, <3>2 DEF second
  <2>4. QED BY <2>1, <2>2, <2>3
<1>10. QED BY <1>2, <1>3, <1>4, <1>5, <1>6, <1>7, <1>8, <1>9

\* Of what a text of one character consists.
LEMMA OneOf ==
  ASSUME NEW c \in Character, NEW chars
  PROVE  /\ AllOf(<<c>>, chars) <=> c \in chars
         /\ NoneOf(<<c>>, chars) <=> c \notin chars
BY OneCharacter DEF AllOf, NoneOf

\* It does not matter in which order texts are put together.
LEMMA Assoc == \A a, b, c \in AnyText : (a \o b) \o c = a \o (b \o c)
BY ConcatAssociative DEF AnyText

\* Texts put together are empty only if both are.
LEMMA NotEmpty ==
  ASSUME NEW a \in AnyText, NEW b \in AnyText, a # <<>> \/ b # <<>>
  PROVE  a \o b # <<>>
BY ConcatEqualIffEmpty DEF AnyText

\* What is put behind a text leaves its beginning alone.
LEMMA FirstStays ==
  ASSUME NEW a \in AnyText, NEW b \in AnyText, a # <<>>
  PROVE  (a \o b)[1] = a[1] /\ 1 \in 1 .. Len(a)
BY FirstOfText, Joined

\* A text of three characters.
LEMMA Triple ==
  ASSUME NEW a \in Character, NEW b \in Character, NEW c \in Character
  PROVE  /\ <<a, b, c>> \in AnyText /\ Len(<<a, b, c>>) = 3 /\ <<a, b, c>> # <<>>
         /\ <<a, b, c>>[1] = a /\ <<a, b, c>>[2] = b /\ <<a, b, c>>[3] = c
BY DEF AnyText

\* The places of a text of three characters.
LEMMA Thrice == \A n : n = 3 => \A i \in 1 .. n : i = 1 \/ i = 2 \/ i = 3
OBVIOUS

\* A word is a character, and none a scan stops at.
LEMMA WordFacts ==
  ASSUME NEW w \in Word
  PROVE  /\ w \in Character /\ w \notin BlankChars /\ w \notin {" ", "="} /\ w \notin {" ", ";"}
         /\ w \notin {" ", ":"} /\ w \notin {"#"} /\ w \notin {"$"}
BY WordsAreNoMarks DEF Character, BlankChars

\* The marks are characters, and which of them are blanks.
LEMMA MarkFacts ==
  /\ \A c \in {" ", "tab", "cr", "=", ";", ":", "~", "#", "0", "26000", "26001"} : c \in Character /\ c \notin {"$"}
  /\ \A c \in {" ", "tab", "cr"} : c \in BlankChars /\ c \notin {"#"}
  /\ \A c \in {"tab", "cr"} : c \notin {" ", "="}
  /\ \A c \in {" ", "="} : c \in {" ", "="} /\ c \notin {"#"}
BY DEF Character, BlankChars

\* The empty text, put before or behind another.
LEMMA EmptyText ==
  /\ <<>> \in AnyText /\ Len(<<>>) = 0
  /\ \A a \in AnyText : a \o <<>> = a /\ <<>> \o a = a
<1>1. <<>> \in AnyText /\ Len(<<>>) = 0
  BY EmptySeq DEF AnyText
<1>2. QED BY <1>1, Joined

\* The blanks around "=" are a part the scan stops at and one it takes along, for TrimAll to

\* remove.
LEMMA SpaceParts ==
  ASSUME NEW b \in Blank
  PROVE  \E x, g \in AnyText :
            /\ Space(b) = x \o g /\ Space(b) = g \o x /\ Space(b) \in AnyText
            /\ AllOf(x, BlankChars) /\ NoneOf(x, {" ", "="}) /\ AllOf(g, {" ", "="})
            /\ AllOf(Space(b), BlankChars) /\ NoneOf(Space(b), {"#"}) /\ NoneOf(Space(b), {"$"}) /\ NoneOf(x, {"$"})
<1> DEFINE Right(x, g) ==
            /\ Space(b) = x \o g /\ Space(b) = g \o x /\ Space(b) \in AnyText
            /\ AllOf(x, BlankChars) /\ NoneOf(x, {" ", "="}) /\ AllOf(g, {" ", "="})
            /\ AllOf(Space(b), BlankChars) /\ NoneOf(Space(b), {"#"}) /\ NoneOf(Space(b), {"$"}) /\ NoneOf(x, {"$"})
<1>1. CASE Space(b) = <<>>
  <2>1. Right(<<>>, <<>>)
    BY <1>1, EmptyText, EmptyOf
  <2>2. QED BY <2>1, EmptyText
<1>2. CASE b \in {"tab", "cr"} /\ Space(b) = <<b>>
  <2>1. b \in Character
    BY <1>2, MarkFacts
  <2>2. <<b>> \in AnyText
    BY <2>1, OneCharacter
  <2>3. b \in BlankChars /\ b \notin {"#"} /\ b \notin {"$"} /\ b \notin {" ", "="}
    BY <1>2, MarkFacts
  <2>4. /\ AllOf(<<b>>, BlankChars) /\ NoneOf(<<b>>, {" ", "="}) /\ NoneOf(<<b>>, {"#"}) /\ NoneOf(<<b>>, {"$"})
        /\ AllOf(<<>>, {" ", "="})
    BY <2>1, <2>3, OneOf, EmptyOf
  <2>5. <<b>> = <<b>> \o <<>> /\ <<b>> = <<>> \o <<b>>
    BY <2>2, EmptyText
  <2>6. Right(<<b>>, <<>>)
    BY <1>2, <2>2, <2>4, <2>5
  <2>7. QED BY <2>2, <2>6, EmptyText
<1>3. CASE b = " " /\ Space(b) = <<b>>
  <2>1. b \in Character
    BY <1>3, MarkFacts
  <2>2. <<b>> \in AnyText
    BY <2>1, OneCharacter
  <2>3. b \in BlankChars /\ b \notin {"#"} /\ b \notin {"$"} /\ b \in {" ", "="}
    BY <1>3, MarkFacts
  <2>4. /\ AllOf(<<b>>, BlankChars) /\ AllOf(<<b>>, {" ", "="}) /\ NoneOf(<<b>>, {"#"}) /\ NoneOf(<<b>>, {"$"})
        /\ AllOf(<<>>, BlankChars) /\ NoneOf(<<>>, {" ", "="}) /\ NoneOf(<<>>, {"$"})
    BY <2>1, <2>3, OneOf, EmptyOf
  <2>5. <<b>> = <<b>> \o <<>> /\ <<b>> = <<>> \o <<b>>
    BY <2>2, EmptyText
  <2>6. Right(<<>>, <<b>>)
    BY <1>3, <2>2, <2>4, <2>5
  <2>7. QED BY <2>2, <2>6, EmptyText
<1>4. QED BY <1>1, <1>2, <1>3, SpaceFacts

\* A value begins and ends with a word, and has no comment in it.
LEMMA ValueFacts ==
  ASSUME NEW v \in Values
  PROVE  /\ v \in AnyText /\ v # <<>> /\ v[1] \in Word /\ v[Len(v)] \in Word
         /\ NoneOf(v, {"#"}) /\ NoneOf(v, {"$"})
<1>1. CASE \E w \in Word : v = <<w>>
  <2>1. PICK w \in Word : v = <<w>>
    BY <1>1
  <2>2. w \in Character
    BY WordFacts
  <2>3. v \in AnyText /\ Len(v) = 1 /\ v[1] = w /\ v # <<>>
    BY <2>1, <2>2, OneCharacter
  <2>4. NoneOf(v, {"#"}) /\ NoneOf(v, {"$"})
    BY <2>1, <2>2, OneOf, WordFacts
  <2>5. QED BY <2>3, <2>4
<1>2. CASE \E w, x \in Word, mark \in {" ", "=", ":"} : v = <<w, mark, x>>
  <2>1. PICK w \in Word, x \in Word, mark \in {" ", "=", ":"} : v = <<w, mark, x>>
    BY <1>2
  <2>2. w \in Character /\ x \in Character /\ mark \in Character /\ mark \notin {"#"} /\ mark \notin {"$"}
    BY WordFacts, MarkFacts
  <2>4. v \in AnyText /\ Len(v) = 3 /\ v[1] = w /\ v[2] = mark /\ v[3] = x /\ v # <<>>
    BY <2>1, <2>2, Triple
  <2>5. \A i \in 1 .. Len(v) : i = 1 \/ i = 2 \/ i = 3
    <3>1. Len(v) = 3
      BY <2>4
    <3>2. QED BY <3>1, Thrice
  <2>6. NoneOf(v, {"#"}) /\ NoneOf(v, {"$"})
    BY <2>2, <2>4, <2>5, WordFacts DEF NoneOf
  <2>7. v[Len(v)] = x
    BY <2>4, Zenon
  <2>8. v[1] \in Word /\ v[Len(v)] \in Word
    BY <2>4, <2>7, Zenon
  <2>9. QED BY <2>4, <2>6, <2>8, Zenon
<1>3. CASE v \in {<<w>> : w \in Word}
  BY <1>1, <1>3
<1>4. CASE v \in Word \X {" ", "=", ":"} \X Word
  <2>1. PICK w \in Word, mark \in {" ", "=", ":"}, x \in Word : v = <<w, mark, x>>
    <3> DEFINE M == {" ", "=", ":"}
    <3>1. v \in Word \X M \X Word
      BY <1>4
    <3> HIDE DEF M
    <3>2. v = <<v[1], v[2], v[3]>> /\ v[1] \in Word /\ v[2] \in M /\ v[3] \in Word
      BY <3>1
    <3>3. QED BY <3>2, Zenon DEF M
  <2>2. QED BY <1>2, <2>1, Zenon
<1>5. QED BY <1>3, <1>4, Zenon DEF Values

\* A comment is nothing or begins with "#".
LEMMA CommentFacts ==
  ASSUME NEW c \in Comments
  PROVE  c \in AnyText /\ (c = <<>> \/ c[1] \in {"#"})
<1>1. CASE c = <<>>
  BY <1>1, EmptyText
<1>2. CASE c = <<"#">>
  BY <1>2, OneCharacter, MarkFacts
<1>3. CASE c = <<"#", " ", "=">>
  <2>1. "#" \in Character /\ " " \in Character /\ "=" \in Character
    BY MarkFacts
  <2>2. c \in AnyText /\ c[1] = "#"
    BY <1>3, <2>1, Triple
  <2>3. QED BY <2>2
<1>4. QED BY <1>1, <1>2, <1>3 DEF Comments

\* Eight texts.
Texts(a, b, c, d, e, f, g, h) ==
  /\ a \in AnyText /\ b \in AnyText /\ c \in AnyText /\ d \in AnyText
  /\ e \in AnyText /\ f \in AnyText /\ g \in AnyText /\ h \in AnyText
\* The parts of a line: name, "=" with the blanks around it (x and y are not in {" ", "="}), value, blanks.
AsWritten(n, x, g, eq, h, y, v, d) == ((n \o (((x \o g) \o eq) \o (h \o y))) \o v) \o d
AsScanned(n, x, g, eq, h, y, v, d) == (n \o x) \o (((g \o eq) \o h) \o (y \o (v \o d)))

\* A line as it is written and as the scan takes it are the same text.
LEMMA Regrouped ==
  ASSUME NEW n, NEW x, NEW g, NEW eq, NEW h, NEW y, NEW v, NEW d, Texts(n, x, g, eq, h, y, v, d)
  PROVE  AsWritten(n, x, g, eq, h, y, v, d) = AsScanned(n, x, g, eq, h, y, v, d)
<1>1. n \in AnyText
  BY Zenon DEF Texts
<1>2. x \in AnyText
  BY Zenon DEF Texts
<1>3. g \in AnyText
  BY Zenon DEF Texts
<1>4. eq \in AnyText
  BY Zenon DEF Texts
<1>5. h \in AnyText
  BY Zenon DEF Texts
<1>6. y \in AnyText
  BY Zenon DEF Texts
<1>7. v \in AnyText
  BY Zenon DEF Texts
<1>8. d \in AnyText
  BY Zenon DEF Texts
<1> DEFINE w == v \o d
<1> DEFINE b == x \o g
<1> DEFINE be == b \o eq
<1> DEFINE c == h \o y
<1> DEFINE m == be \o c
<1> DEFINE nm == n \o m
<1> DEFINE r == y \o w
<1> DEFINE hr == h \o r
<1> DEFINE z == eq \o hr
<1> DEFINE gz == g \o z
<1> DEFINE ge == g \o eq
<1> HIDE DEF w, b, be, c, m, nm, r, hr, z, gz, ge
<1>9. w \in AnyText
  BY <1>7, <1>8, JoinIn DEF w
<1>10. b \in AnyText
  BY <1>2, <1>3, JoinIn DEF b
<1>11. be \in AnyText
  BY <1>4, <1>10, JoinIn DEF be
<1>12. c \in AnyText
  BY <1>5, <1>6, JoinIn DEF c
<1>13. m \in AnyText
  BY <1>11, <1>12, JoinIn DEF m
<1>14. nm \in AnyText
  BY <1>1, <1>13, JoinIn DEF nm
<1>15. r \in AnyText
  BY <1>6, <1>9, JoinIn DEF r
<1>16. hr \in AnyText
  BY <1>5, <1>15, JoinIn DEF hr
<1>17. z \in AnyText
  BY <1>4, <1>16, JoinIn DEF z
<1>18. gz \in AnyText
  BY <1>3, <1>17, JoinIn DEF gz
<1>19. ge \in AnyText
  BY <1>3, <1>4, JoinIn DEF ge
<1>20. (nm \o v) \o d = nm \o w
  BY <1>7, <1>8, <1>14, Assoc DEF w
<1>21. nm \o w = n \o (m \o w)
  BY <1>1, <1>9, <1>13, Assoc DEF nm
<1>22. m \o w = be \o (c \o w)
  BY <1>9, <1>11, <1>12, Assoc DEF m
<1>23. c \o w = hr
  BY <1>5, <1>6, <1>9, Assoc DEF c, hr, r
<1>24. be \o hr = b \o z
  BY <1>4, <1>10, <1>16, Assoc DEF be, z
<1>25. b \o z = x \o gz
  BY <1>2, <1>3, <1>17, Assoc DEF b, gz
<1>26. n \o (x \o gz) = (n \o x) \o gz
  BY <1>1, <1>2, <1>18, Assoc
<1>27. (ge \o h) \o r = ge \o hr
  BY <1>5, <1>15, <1>19, Assoc DEF hr
<1>28. ge \o hr = gz
  BY <1>3, <1>4, <1>16, Assoc DEF ge, gz, z
<1>29. (nm \o v) \o d = (n \o x) \o ((ge \o h) \o r)
  BY <1>20, <1>21, <1>22, <1>23, <1>24, <1>25, <1>26, <1>27, <1>28, Zenon
<1>30. QED BY <1>29, Zenon DEF nm, m, be, b, c, ge, r, w, AsWritten, AsScanned

\* A line of a configuration file is read as its name and its value

\* (ConfigProperty::ConfigInit).
LEMMA LineRead ==
  ASSUME NEW n \in Word, NEW v \in Values, NEW b \in Blank, NEW c \in Blank, NEW d \in Blank,
         NEW comment \in Comments
  PROVE  ReadLine(<<n>> \o Mark(b, "=", c) \o v \o Space(d) \o comment) = <<<<n>>, v>>
<1>1. n \in Character /\ <<n>> \in AnyText /\ <<n>> # <<>> /\ <<n>>[1] = n /\ Len(<<n>>) = 1
  BY WordFacts, OneCharacter
<1>2. "=" \in Character /\ <<"=">> \in AnyText /\ <<"=">> # <<>>
  BY MarkFacts, OneCharacter
<1> DEFINE sb == Space(b)
<1> DEFINE sc == Space(c)
<1> DEFINE sd == Space(d)
<1>3. PICK xb \in AnyText, gb \in AnyText :
         /\ sb = xb \o gb /\ sb \in AnyText
         /\ AllOf(xb, BlankChars) /\ NoneOf(xb, {" ", "="}) /\ AllOf(gb, {" ", "="}) /\ NoneOf(sb, {"#"})
  BY SpaceParts
<1>4. PICK xc \in AnyText, gc \in AnyText :
         /\ sc = gc \o xc /\ sc \in AnyText
         /\ AllOf(xc, BlankChars) /\ NoneOf(xc, {" ", "="}) /\ AllOf(gc, {" ", "="})
         /\ NoneOf(xc, {"$"}) /\ NoneOf(sc, {"#"})
  BY SpaceParts
<1>5. sd \in AnyText /\ AllOf(sd, BlankChars) /\ NoneOf(sd, {"#"}) /\ NoneOf(sd, {"$"})
  BY SpaceParts
<1>6. v \in AnyText /\ v # <<>> /\ v[1] \in Word /\ v[Len(v)] \in Word /\ NoneOf(v, {"#"}) /\ NoneOf(v, {"$"})
  BY ValueFacts
<1>7. comment \in AnyText /\ (comment = <<>> \/ comment[1] \in {"#"})
  BY CommentFacts
<1>8. Mark(b, "=", c) = (sb \o <<"=">>) \o sc
  BY DEF Mark
<1> HIDE DEF sb, sc, sd
<1> DEFINE eq == <<"=">>
<1> DEFINE nn == <<n>>
<1> DEFINE w == v \o sd
<1> DEFINE line == ((nn \o ((sb \o eq) \o sc)) \o v) \o sd
<1>9. eq \in AnyText /\ nn \in AnyText /\ w \in AnyText /\ line \in AnyText /\ sb \o eq \in AnyText /\ (sb \o eq) \o sc \in AnyText
      /\ nn \o ((sb \o eq) \o sc) \in AnyText /\ (nn \o ((sb \o eq) \o sc)) \o v \in AnyText
  <2>1. eq \in AnyText /\ nn \in AnyText /\ w \in AnyText /\ sb \o eq \in AnyText
    BY <1>1, <1>2, <1>3, <1>5, <1>6, Joined
  <2> HIDE DEF eq, nn
  <2>2. (sb \o eq) \o sc \in AnyText
    BY <1>4, <2>1, Joined
  <2>3. nn \o ((sb \o eq) \o sc) \in AnyText
    BY <2>1, <2>2, Joined
  <2>4. (nn \o ((sb \o eq) \o sc)) \o v \in AnyText
    BY <1>6, <2>3, Joined
  <2>5. line \in AnyText
    BY <1>5, <2>4, Joined
  <2>6. QED BY <2>1, <2>2, <2>3, <2>4, <2>5
<1>10. NoneOf(eq, {"#"}) /\ AllOf(eq, {" ", "="}) /\ NoneOf(nn, {"#"}) /\ NoneOf(nn, {" ", "="}) /\ nn # <<>> /\ eq # <<>>
       /\ nn[1] \notin BlankChars /\ nn[Len(nn)] \notin BlankChars
  BY <1>1, <1>2, OneOf, WordFacts, MarkFacts
<1> HIDE DEF eq, nn
<1> DEFINE a == nn \o xb
<1> DEFINE g == (gb \o eq) \o gc
<1> DEFINE r == xc \o w
<1>11. a \in AnyText /\ g \in AnyText /\ r \in AnyText /\ gb \o eq \in AnyText /\ sc \o w \in AnyText /\ eq \o sc \in AnyText
       /\ gc \o r \in AnyText /\ eq \o (sc \o w) \in AnyText
  <2> HIDE DEF w
  <2>1. a \in AnyText /\ r \in AnyText /\ gb \o eq \in AnyText /\ sc \o w \in AnyText /\ eq \o sc \in AnyText
    BY <1>3, <1>4, <1>9, Joined
  <2>2. g \in AnyText /\ eq \o (sc \o w) \in AnyText
    BY <1>4, <1>9, <2>1, Joined
  <2> HIDE DEF r
  <2>3. gc \o r \in AnyText
    BY <1>4, <2>1, Joined
  <2>4. QED BY <2>1, <2>2, <2>3
<1>e. sb = xb \o gb /\ sc = gc \o xc
  BY <1>3, <1>4
<1>m. /\ nn \in AnyText /\ eq \in AnyText /\ sb \in AnyText /\ sc \in AnyText /\ sd \in AnyText /\ v \in AnyText /\ w \in AnyText
      /\ xb \in AnyText /\ gb \in AnyText /\ xc \in AnyText /\ gc \in AnyText
  BY <1>3, <1>4, <1>5, <1>6, <1>9
<1>12. line = a \o (g \o r)
  <2>1. Texts(nn, xb, gb, eq, gc, xc, v, sd)
    BY <1>m DEF Texts
  <2>2. AsWritten(nn, xb, gb, eq, gc, xc, v, sd) = AsScanned(nn, xb, gb, eq, gc, xc, v, sd)
    BY <2>1, Regrouped
  <2>3. QED BY <1>e, <2>2, Zenon DEF AsWritten, AsScanned
<1>14. NoneOf(line, {"#"})
  <2>1. NoneOf(sb \o eq, {"#"})
    BY <1>3, <1>9, <1>10, JoinedOf
  <2>2. NoneOf((sb \o eq) \o sc, {"#"})
    BY <1>4, <1>9, <2>1, JoinedOf
  <2>3. NoneOf(nn \o ((sb \o eq) \o sc), {"#"})
    BY <1>9, <1>10, <2>2, JoinedOf
  <2>4. NoneOf((nn \o ((sb \o eq) \o sc)) \o v, {"#"})
    BY <1>6, <1>9, <2>3, JoinedOf
  <2>5. QED BY <1>5, <1>9, <2>4, JoinedOf
<1> DEFINE all == <<n>> \o Mark(b, "=", c) \o v \o Space(d) \o comment
<1>15. all = line \o comment
  BY <1>8 DEF nn, sb, sc, sd, eq
<1> HIDE DEF all
<1>16. Until(all, {"#"}) = Len(line) /\ SubSeq(all, 1, Len(line)) = line
  <2> DEFINE chars == {"#"}
  <2>1. NoneOf(line, chars) /\ (comment = <<>> \/ comment[1] \in chars)
    BY <1>7, <1>14
  <2> HIDE DEF chars, line
  <2>2. Until(line \o comment, chars) = Len(line)
    BY <1>7, <1>9, <2>1, UntilIs
  <2>3. SubSeq(line \o comment, 1, Len(line)) = line
    BY <1>7, <1>9, SplitAt
  <2>4. QED BY <1>15, <2>2, <2>3 DEF chars
<1>17. a # <<>> /\ NoneOf(a, {" ", "="})
  <2>1. NoneOf(a, {" ", "="})
    BY <1>3, <1>9, <1>10, JoinedOf
  <2>2. a # <<>>
    BY <1>m, <1>10, NotEmpty
  <2>3. QED BY <2>1, <2>2
<1>18. g # <<>> /\ AllOf(g, {" ", "="})
  <2>1. AllOf(gb \o eq, {" ", "="})
    BY <1>3, <1>9, <1>10, JoinedOf
  <2>2. AllOf(g, {" ", "="})
    BY <1>4, <1>11, <2>1, JoinedOf
  <2>3. gb \o eq # <<>>
    BY <1>m, <1>10, NotEmpty
  <2>4. g # <<>>
    <3> DEFINE ge == gb \o eq
    <3>1. ge \in AnyText /\ ge # <<>>
      BY <1>11, <2>3
    <3> HIDE DEF ge
    <3>2. ge \o gc # <<>>
      BY <1>m, <3>1, NotEmpty
    <3>3. QED BY <3>2 DEF ge
  <2>5. QED BY <2>2, <2>4
<1>19. w # <<>> /\ w[1] \in Word
  <2>1. w # <<>>
    BY <1>5, <1>6, ConcatEqualIffEmpty DEF AnyText
  <2>2. 1 \in 1 .. Len(v)
    BY <1>6, FirstOfText
  <2>3. w[1] = v[1]
    BY <1>5, <1>6, <2>2, Joined
  <2>4. QED BY <1>6, <2>1, <2>3
<1>20. r # <<>> /\ r[1] \notin {" ", "="} /\ NoneOf(r, {"$"})
  <2>1. NoneOf(w, {"$"})
    BY <1>5, <1>6, JoinedOf
  <2> HIDE DEF w
  <2>2. NoneOf(r, {"$"})
    BY <1>4, <1>9, <2>1, JoinedOf
  <2>3. r # <<>>
    BY <1>m, <1>19, NotEmpty
  <2>4. CASE xc = <<>>
    <3>1. r = w
      BY <1>9, <2>4, EmptyText
    <3>2. QED BY <1>19, <2>2, <2>3, <3>1, WordFacts
  <2>5. CASE xc # <<>>
    <3>1. 1 \in 1 .. Len(xc)
      BY <1>m, <2>5, FirstStays
    <3>2. r[1] = xc[1]
      BY <1>m, <2>5, FirstStays
    <3>3. xc[1] \notin {" ", "="}
      BY <1>4, <3>1 DEF NoneOf
    <3>4. QED BY <2>2, <2>3, <3>2, <3>3
  <2>6. QED BY <2>4, <2>5
<1>21. Scan(line, "=") = <<a, r>>
  <2>1. Scan(a \o (g \o r), "=") = <<a, r>>
    <3>1. "=" \in Character
      BY <1>2
    <3>2. a \in AnyText /\ g \in AnyText /\ r \in AnyText
      BY <1>11
    <3> HIDE DEF a, g, r
    <3>3. Separated(a, g, r, "=")
      BY <1>17, <1>18, <1>20, <3>1, <3>2, Zenon DEF Separated
    <3>4. QED BY <3>3, ScanTwo
  <2>2. QED BY <1>12, <2>1, Zenon
<1>22. TrimAll(a) = nn
  <2>1. a = <<>> \o (nn \o xb)
    BY <1>11, EmptyText
  <2>2. TrimAll(<<>> \o (nn \o xb)) = nn
    BY <1>3, <1>9, <1>10, EmptyText, EmptyOf, Trims
  <2>3. QED BY <2>1, <2>2
<1>23. TrimAll(r) = v
  <2>1. v[1] \notin BlankChars /\ v[Len(v)] \notin BlankChars
    BY <1>6, WordFacts
  <2>2. QED BY <1>4, <1>5, <1>6, <2>1, Trims
<1>24. line # <<>>
  <2> DEFINE gr == g \o r
  <2>1. gr \in AnyText /\ a \in AnyText
    BY <1>11, JoinIn
  <2> HIDE DEF gr, a
  <2>2. a \o gr # <<>>
    BY <1>17, <2>1, NotEmpty
  <2>3. QED BY <1>12, <2>2 DEF gr
<1>25. ReadLine(all) = <<TrimAll(a), TrimAll(r)>>
  <2> HIDE DEF a, r, line
  <2>1. ReadLine(all) = LET pair == Scan(line, "=") IN IF line = <<>> \/ Len(pair) # 2 THEN NotRead ELSE Trimmed(pair)
    BY <1>16 DEF ReadLine
  <2>2. Len(<<a, r>>) = 2 /\ Trimmed(<<a, r>>) = <<TrimAll(a), TrimAll(r)>>
    BY DEF Trimmed
  <2>3. QED BY <1>21, <1>24, <2>1, <2>2
<1>26. QED BY <1>22, <1>23, <1>25 DEF all, nn

\* A separator with the spaces around it is a gap for the scan.
LEMMA SpacesMark ==
  ASSUME NEW b \in Spaces, NEW c \in Spaces, NEW D \in {":", "~", ";"}
  PROVE  /\ Mark(b, D, c) \in AnyText /\ Mark(b, D, c) # <<>>
         /\ AllOf(Mark(b, D, c), {" ", D}) /\ NoneOf(Mark(b, D, c), {"$"})
<1>1. D \in Character /\ D \notin {"$"} /\ " " \in Character /\ " " \notin {"$"}
  BY MarkFacts
<1>2. <<D>> \in AnyText /\ <<D>> # <<>> /\ <<" ">> \in AnyText
  BY <1>1, OneCharacter
<1>3. /\ AllOf(<<D>>, {" ", D}) /\ NoneOf(<<D>>, {"$"})
      /\ AllOf(<<" ">>, {" ", D}) /\ NoneOf(<<" ">>, {"$"})
      /\ AllOf(<<>>, {" ", D}) /\ NoneOf(<<>>, {"$"})
  BY <1>1, OneOf, EmptyOf
<1>4. \A x \in Spaces : Space(x) \in AnyText /\ AllOf(Space(x), {" ", D}) /\ NoneOf(Space(x), {"$"})
  <2>1. SUFFICES ASSUME NEW x \in Spaces
                 PROVE  Space(x) \in AnyText /\ AllOf(Space(x), {" ", D}) /\ NoneOf(Space(x), {"$"})
    OBVIOUS
  <2>2. Space(x) = <<>> \/ Space(x) = <<" ">>
    BY SpacesFacts
  <2>3. QED BY <1>2, <1>3, <2>2, EmptyText
<1> DEFINE m == Space(b) \o <<D>>
<1>5. m \in AnyText /\ m # <<>> /\ AllOf(m, {" ", D}) /\ NoneOf(m, {"$"})
  <2>1. m \in AnyText
    BY <1>2, <1>4, JoinIn
  <2>2. m # <<>>
    BY <1>2, <1>4, NotEmpty
  <2>3. AllOf(m, {" ", D}) /\ NoneOf(m, {"$"})
    BY <1>2, <1>3, <1>4, JoinedOf
  <2>4. QED BY <2>1, <2>2, <2>3
<1>6. Mark(b, D, c) = m \o Space(c)
  BY DEF Mark
<1> HIDE DEF m
<1>7. m \o Space(c) \in AnyText /\ m \o Space(c) # <<>>
  BY <1>4, <1>5, JoinIn, NotEmpty
<1>8. AllOf(m \o Space(c), {" ", D}) /\ NoneOf(m \o Space(c), {"$"})
  BY <1>4, <1>5, JoinedOf
<1>9. QED BY <1>6, <1>7, <1>8, Zenon

\* Four texts, and both ways to put them together.
AllTexts(a, b, c, d) == a \in AnyText /\ b \in AnyText /\ c \in AnyText /\ d \in AnyText
LeftFirst(a, b, c, d) == ((a \o b) \o c) \o d
RightFirst(a, b, c, d) == a \o (b \o (c \o d))

\* Four texts put together from the left or from the right.
LEMMA FourJoined ==
  ASSUME NEW a, NEW b, NEW c, NEW d, AllTexts(a, b, c, d)
  PROVE  LeftFirst(a, b, c, d) = RightFirst(a, b, c, d) /\ c \o d \in AnyText /\ b \o (c \o d) \in AnyText
<1>1. a \in AnyText
  BY DEF AllTexts
<1>2. b \in AnyText
  BY DEF AllTexts
<1>3. c \in AnyText
  BY DEF AllTexts
<1>4. d \in AnyText
  BY DEF AllTexts
<1> DEFINE ab == a \o b
<1> DEFINE cd == c \o d
<1> HIDE DEF ab, cd
<1>5. ab \in AnyText
  BY <1>1, <1>2, JoinIn DEF ab
<1>6. cd \in AnyText
  BY <1>3, <1>4, JoinIn DEF cd
<1>7. (ab \o c) \o d = ab \o cd
  BY <1>3, <1>4, <1>5, Assoc DEF cd
<1>8. ab \o cd = a \o (b \o cd)
  BY <1>1, <1>2, <1>6, Assoc DEF ab
<1>9. b \o cd \in AnyText
  BY <1>2, <1>6, JoinIn
<1>10. (ab \o c) \o d = a \o (b \o cd)
  BY <1>7, <1>8, Zenon
<1>11. QED BY <1>6, <1>9, <1>10, Zenon DEF ab, cd, LeftFirst, RightFirst

\* A port is a character no scan stops at, and a number.
LEMMA PortFacts ==
  ASSUME NEW p \in Ports
  PROVE  /\ p \in Character /\ p \notin {" ", ":"} /\ p \notin {" ", "~"} /\ p \notin {"$"}
         /\ NumberOf[p] \in Nat
<1>1. p \in {"0", "26000", "26001"}
  BY DEF Ports, NumberOf
<1>2. NumberOf[p] \in Nat
  BY <1>1 DEF NumberOf
<1>3. QED BY <1>1, <1>2, MarkFacts

\* What is written behind the first port.
OtherPort(range, b, c, q) == IF range THEN Mark(b, "~", c) \o <<q>> ELSE <<>>

\* One port or two are found behind the host.
LEMMA PortsRead ==
  ASSUME NEW p \in Ports, NEW q \in Ports, NEW range \in BOOLEAN, NEW b \in Spaces, NEW c \in Spaces
  PROVE  /\ OtherPort(range, b, c, q) \in AnyText /\ NoneOf(OtherPort(range, b, c, q), {"$"})
         /\ Scan(<<p>> \o OtherPort(range, b, c, q), "~") = IF range THEN <<<<p>>, <<q>>>> ELSE <<<<p>>>>
<1>0. PICK x : x = OtherPort(range, b, c, q)
  OBVIOUS
<1>1. /\ p \in Character /\ q \in Character /\ p \notin {" ", "~"} /\ q \notin {" ", "~"}
      /\ p \notin {"$"} /\ q \notin {"$"} /\ "~" \in Character
  BY PortFacts, MarkFacts
<1>2. <<p>> \in AnyText /\ <<q>> \in AnyText /\ <<p>> # <<>> /\ <<q>> # <<>> /\ <<q>>[1] = q
  BY <1>1, OneCharacter
<1>3. NoneOf(<<p>>, {" ", "~"}) /\ NoneOf(<<p>>, {"$"}) /\ NoneOf(<<q>>, {"$"})
  BY <1>1, OneOf
<1>4. CASE range
  <2> DEFINE m == Mark(b, "~", c)
  <2>1. m \in AnyText /\ m # <<>> /\ AllOf(m, {" ", "~"}) /\ NoneOf(m, {"$"})
    BY SpacesMark
  <2> HIDE DEF m
  <2>2. x = m \o <<q>>
    BY <1>0, <1>4 DEF m, OtherPort
  <2>3. m \o <<q>> \in AnyText /\ NoneOf(m \o <<q>>, {"$"})
    BY <1>2, <1>3, <2>1, JoinIn, JoinedOf
  <2>4. Separated(<<p>>, m, <<q>>, "~")
    BY <1>1, <1>2, <1>3, <2>1 DEF Separated
  <2>5. Scan(<<p>> \o (m \o <<q>>), "~") = <<<<p>>, <<q>>>>
    BY <2>4, ScanTwo
  <2>6. QED BY <1>0, <1>4, <2>2, <2>3, <2>5
<1>5. CASE ~range
  <2>1. x = <<>>
    BY <1>0, <1>5 DEF OtherPort
  <2>2. <<p>> \o <<>> = <<p>>
    BY <1>2, EmptyText
  <2>3. Scan(<<p>>, "~") = <<<<p>>>>
    BY <1>1, <1>2, <1>3, ScanOne
  <2>4. QED BY <1>0, <1>5, <2>1, <2>2, <2>3, EmptyText, EmptyOf
<1>6. QED BY <1>4, <1>5

\* What it means that an address is read.
AddressIsRead(host, p, q, range, b, c) ==
  SplitAddr(<<host>> \o Mark(b, ":", c) \o <<p>> \o IF range THEN Mark(b, "~", c) \o <<q>> ELSE <<>>)
     = LET last == IF range THEN q ELSE p
       IN  IF NumberOf[last] < NumberOf[p] THEN NotRead ELSE <<<<host>>, <<p>>, <<last>>>>

\* An address is read as its host and its ports, unless the range is empty (Socket::SplitAddr).
LEMMA AddressRead ==
  ASSUME NEW host \in Word, NEW p \in Ports, NEW q \in Ports, NEW range \in BOOLEAN,
         NEW b \in Spaces, NEW c \in Spaces
  PROVE  AddressIsRead(host, p, q, range, b, c)
<1>1. PICK x : x = OtherPort(range, b, c, q)
  OBVIOUS
<1>2. /\ x \in AnyText /\ NoneOf(x, {"$"})
      /\ Scan(<<p>> \o x, "~") = IF range THEN <<<<p>>, <<q>>>> ELSE <<<<p>>>>
  BY <1>1, PortsRead
<1>3. PICK m : m = Mark(b, ":", c)
  OBVIOUS
<1>4. m \in AnyText /\ m # <<>> /\ AllOf(m, {" ", ":"})
  BY <1>3, SpacesMark
<1>5. /\ host \in Character /\ p \in Character /\ ":" \in Character
      /\ host \notin {" ", ":"} /\ p \notin {" ", ":"} /\ p \notin {"$"}
  BY PortFacts, WordFacts, MarkFacts
<1>6. <<host>> \in AnyText /\ <<p>> \in AnyText /\ <<host>> # <<>> /\ <<p>> # <<>> /\ <<p>>[1] = p
  BY <1>5, OneCharacter
<1>7. PICK r : r = <<p>> \o x
  OBVIOUS
<1>8. r \in AnyText /\ r # <<>> /\ r[1] = p /\ NoneOf(r, {"$"})
  <2>1. NoneOf(<<p>>, {"$"})
    BY <1>5, OneOf
  <2>2. <<p>> \o x \in AnyText /\ <<p>> \o x # <<>> /\ (<<p>> \o x)[1] = p /\ NoneOf(<<p>> \o x, {"$"})
    BY <1>2, <1>6, <2>1, JoinIn, NotEmpty, FirstStays, JoinedOf
  <2>3. QED BY <1>7, <2>2
<1>9. LeftFirst(<<host>>, m, <<p>>, x) = <<host>> \o (m \o r)
  <2>1. AllTexts(<<host>>, m, <<p>>, x)
    BY <1>2, <1>4, <1>6, Zenon DEF AllTexts
  <2>2. LeftFirst(<<host>>, m, <<p>>, x) = RightFirst(<<host>>, m, <<p>>, x)
    BY <2>1, FourJoined
  <2>3. QED BY <1>7, <2>2, Zenon DEF RightFirst
<1>10. Scan(LeftFirst(<<host>>, m, <<p>>, x), ":") = <<<<host>>, r>>
  <2>1. NoneOf(<<host>>, {" ", ":"})
    BY <1>5, OneOf
  <2>2. Separated(<<host>>, m, r, ":")
    BY <1>4, <1>5, <1>6, <1>8, <2>1 DEF Separated
  <2>3. QED BY <1>9, <2>2, ScanTwo
<1> DEFINE last == IF range THEN q ELSE p
<1> DEFINE ports == Scan(r, "~")
<1>11. ports # <<>> /\ ports[1] = <<p>> /\ Last(ports) = <<last>>
  <2>1. CASE range
    <3>1. ports = <<<<p>>, <<q>>>>
      BY <1>2, <1>7, <2>1
    <3> HIDE DEF ports
    <3>2. QED BY <2>1, <3>1 DEF Last
  <2>2. CASE ~range
    <3>1. ports = <<<<p>>>>
      BY <1>2, <1>7, <2>2
    <3> HIDE DEF ports
    <3>2. QED BY <2>2, <3>1 DEF Last
  <2>3. QED BY <2>1, <2>2
<1> HIDE DEF last
<1>12. PICK t : t = LeftFirst(<<host>>, m, <<p>>, x)
  OBVIOUS
<1>13. Scan(t, ":") = <<<<host>>, r>>
  BY <1>10, <1>12
<1>14. Len(Scan(t, ":")) = 2 /\ Scan(t, ":")[1] = <<host>> /\ Scan(t, ":")[2] = r
  BY <1>13
<1>15. ports[1][1] = p /\ Last(ports)[1] = last
  <2> HIDE DEF ports
  <2>1. <<p>>[1] = p /\ <<last>>[1] = last
    OBVIOUS
  <2>2. QED BY <1>11, <2>1, Zenon
<1>16. SplitAddr(t) = IF NumberOf[last] < NumberOf[p] THEN NotRead ELSE <<<<host>>, <<p>>, <<last>>>>
  <2>1. SplitAddr(t) = IF 2 # 2 \/ ports = <<>> \/ NumberOf[Last(ports)[1]] < NumberOf[ports[1][1]] THEN NotRead
                       ELSE <<<<host>>, ports[1], Last(ports)>>
    BY <1>14, Zenon DEF SplitAddr
  <2> HIDE DEF ports
  <2>2. QED BY <1>11, <1>15, <2>1
<1>17. QED BY <1>1, <1>3, <1>12, <1>16, Zenon DEF AddressIsRead, LeftFirst, last, OtherPort

\* split[n] is what SplitString makes of the last n characters of t.
SplitOf(t, split) ==
  \A n \in 0 .. Len(t) :
     LET parts == Scan(From(t, Len(t) - n), ";")
     IN  split[n] = Piece(parts) \o IF Len(parts) = 2 THEN split[Len(parts[2])] ELSE <<>>

\* What SplitString computes at each suffix of a text.
LEMMA SplitExists ==
  ASSUME NEW t \in AnyText
  PROVE  \E split : SplitOf(t, split) /\ SplitString(t) = split[Len(t)]
<1> DEFINE P(n) == Scan(From(t, Len(t) - n), ";")
<1> DEFINE Right(f) == f = [n \in 0 .. Len(t) |-> Piece(P(n)) \o IF Len(P(n)) = 2 THEN f[Len(P(n)[2])] ELSE <<>>]
<1>1. Len(t) \in Nat
  BY LenProperties DEF AnyText
<1> DEFINE piece == [n \in 0 .. Len(t) |-> Piece(P(n))]
<1> DEFINE next == [n \in 0 .. Len(t) |-> IF Len(P(n)) = 2 THEN Len(P(n)[2]) ELSE -1]
<1>2. ASSUME NEW n \in 0 .. Len(t)
      PROVE  Len(P(n)) = 2 => Len(P(n)[2]) \in 0 .. n - 1
  <2>1. Len(t) - n \in 0 .. Len(t)
    BY <1>1
  <2>2. From(t, Len(t) - n) \in AnyText /\ Len(From(t, Len(t) - n)) = Len(t) - (Len(t) - n)
    BY <1>1, <2>1, PartsOf
  <2>3. Len(From(t, Len(t) - n)) = n
    BY <1>1, <2>2
  <2>4. QED BY <2>2, <2>3, ScanShortens
<1>3. \A n \in 0 .. Len(t) : next[n] \in -1 .. n - 1
  <2> HIDE DEF P
  <2>1. QED BY <1>1, <1>2
<1>4. PICK f : f = [n \in 0 .. Len(t) |-> piece[n] \o IF next[n] = -1 THEN <<>> ELSE f[next[n]]]
  <2> HIDE DEF piece, next
  <2>1. Backwards(Len(t), next)
    BY <1>3 DEF Backwards
  <2>2. \E f : Follows(Len(t), piece, next, f)
    BY <1>1, <2>1, RecursionExists
  <2>3. QED BY <2>2 DEF Follows
<1>5. Right(f)
  <2> HIDE DEF P
  <2>1. ASSUME NEW n \in 0 .. Len(t)
        PROVE  (piece[n] \o IF next[n] = -1 THEN <<>> ELSE f[next[n]])
                  = (Piece(P(n)) \o IF Len(P(n)) = 2 THEN f[Len(P(n)[2])] ELSE <<>>)
    <3>1. CASE Len(P(n)) = 2
      <4>1. next[n] = Len(P(n)[2]) /\ next[n] # -1
        BY <1>1, <1>2, <3>1
      <4> HIDE DEF next
      <4>2. QED BY <3>1, <4>1
    <3>2. CASE Len(P(n)) # 2
      <4>1. next[n] = -1
        BY <3>2
      <4> HIDE DEF next
      <4>2. QED BY <3>2, <4>1
    <3>3. QED BY <3>1, <3>2
  <2> HIDE DEF piece, next
  <2>2. QED BY <1>4, <2>1
<1> DEFINE split == CHOOSE g : Right(g)
<1>6. SplitString(t) = split[Len(t)]
  BY DEF SplitString
<1>7. Right(split)
  <2> HIDE DEF Right
  <2>1. QED BY <1>5
<1> HIDE DEF split
<1>8. SplitOf(t, split)
  <2> HIDE DEF P
  <2>1. \A n \in 0 .. Len(t) : split[n] = Piece(P(n)) \o IF Len(P(n)) = 2 THEN split[Len(P(n)[2])] ELSE <<>>
    BY <1>7
  <2>2. QED BY <2>1 DEF SplitOf, P
<1>9. QED BY <1>6, <1>8

\* What it computes at a suffix depends on the suffix only.
LEMMA SplitSuffix ==
  ASSUME NEW before \in AnyText, NEW s \in AnyText, NEW split, SplitOf(before \o s, split)
  PROVE  split[Len(s)] = Piece(Scan(s, ";")) \o IF Len(Scan(s, ";")) = 2 THEN split[Len(Scan(s, ";")[2])] ELSE <<>>
<1>1. PICK t : t = before \o s
  OBVIOUS
<1>2. Len(before) \in Nat /\ Len(s) \in Nat /\ Len(t) = Len(before) + Len(s)
  BY <1>1, Joined
<1>3. Len(s) \in 0 .. Len(t) /\ Len(t) - Len(s) = Len(before)
  BY <1>2
<1>4. From(t, Len(t) - Len(s)) = s
  BY <1>1, <1>3, SplitAt
<1>5. SplitOf(t, split)
  BY <1>1
<1>6. split[Len(s)] = Piece(Scan(From(t, Len(t) - Len(s)), ";"))
                       \o IF Len(Scan(From(t, Len(t) - Len(s)), ";")) = 2
                          THEN split[Len(Scan(From(t, Len(t) - Len(s)), ";")[2])] ELSE <<>>
  BY <1>3, <1>5 DEF SplitOf
<1>7. QED BY <1>4, <1>6, Zenon

\* A sequence of one element.
LEMMA SingleIn ==
  ASSUME NEW S, NEW a \in S
  PROVE  <<a>> \in Seq(S)
OBVIOUS

\* The last item is an item.
LEMMA LastItem ==
  ASSUME NEW before \in AnyText, NEW x \in Word, NEW split, SplitOf(before \o <<x>>, split)
  PROVE  split[Len(<<x>>)] = <<<<x>>>>
<1>1. x \in Character /\ x \notin {" ", ";"} /\ ";" \in Character
  BY WordFacts, MarkFacts
<1>2. <<x>> \in AnyText /\ <<x>> # <<>> /\ NoneOf(<<x>>, {" ", ";"})
  BY <1>1, OneCharacter, OneOf
<1>3. Scan(<<x>>, ";") = <<<<x>>>>
  BY <1>1, <1>2, ScanOne
<1>4. split[Len(<<x>>)] = Piece(Scan(<<x>>, ";")) \o IF Len(Scan(<<x>>, ";")) = 2 THEN split[Len(Scan(<<x>>, ";")[2])] ELSE <<>>
  BY <1>2, SplitSuffix
<1>5. PICK o : o = <<<<x>>>>
  OBVIOUS
<1>6. split[Len(<<x>>)] = <<<<x>>>> \o <<>>
  <2>1. Len(o) # 2 /\ Piece(o) = <<<<x>>>>
    BY <1>5 DEF Piece
  <2>2. split[Len(<<x>>)] = Piece(o) \o IF Len(o) = 2 THEN split[Len(o[2])] ELSE <<>>
    BY <1>3, <1>4, <1>5, Zenon
  <2>3. QED BY <2>1, <2>2
<1>7. <<<<x>>>> \in Seq(AnyText)
  BY <1>2, SingleIn
<1>8. <<<<x>>>> \o <<>> = <<<<x>>>>
  BY <1>7, ConcatEmptySeq
<1>9. QED BY <1>6, <1>8, Zenon

(* An item x with more items after it: m stands between, r after m. *)
Listed(before, x, m, r, split) ==
  /\ before \in AnyText /\ x \in Word
  /\ m \in AnyText /\ m # <<>> /\ AllOf(m, {" ", ";"})
  /\ r \in AnyText /\ r # <<>> /\ r[1] \notin {" ", ";"} /\ NoneOf(r, {"$"})
  /\ SplitOf(before \o (<<x>> \o (m \o r)), split)
TakesOne(x, m, r, split) == split[Len(<<x>> \o (m \o r))] = <<<<x>>>> \o split[Len(r)]

\* An item that is not the last one is an item, and the rest is taken as if nothing stood

\* before it.
LEMMA NextItem ==
  ASSUME NEW before, NEW x, NEW m, NEW r, NEW split, Listed(before, x, m, r, split)
  PROVE  TakesOne(x, m, r, split)
<1>0. /\ before \in AnyText /\ x \in Word /\ m \in AnyText /\ m # <<>> /\ AllOf(m, {" ", ";"})
      /\ r \in AnyText /\ r # <<>> /\ r[1] \notin {" ", ";"} /\ NoneOf(r, {"$"})
      /\ SplitOf(before \o (<<x>> \o (m \o r)), split)
  BY Zenon DEF Listed
<1>1. x \in Character /\ x \notin {" ", ";"} /\ ";" \in Character
  BY <1>0, WordFacts, MarkFacts
<1>2. <<x>> \in AnyText /\ <<x>> # <<>> /\ NoneOf(<<x>>, {" ", ";"})
  BY <1>1, OneCharacter, OneOf
<1>3. Separated(<<x>>, m, r, ";")
  BY <1>0, <1>1, <1>2 DEF Separated
<1>4. Scan(<<x>> \o (m \o r), ";") = <<<<x>>, r>>
  BY <1>3, ScanTwo
<1>5. PICK s : s = <<x>> \o (m \o r)
  BY Zenon
<1>6. s \in AnyText
  <2>1. m \o r \in AnyText
    BY <1>0, JoinIn
  <2>2. QED BY <1>0, <1>2, <1>5, <2>1, JoinIn
<1>7. split[Len(s)] = Piece(Scan(s, ";")) \o IF Len(Scan(s, ";")) = 2 THEN split[Len(Scan(s, ";")[2])] ELSE <<>>
  <2>1. SplitOf(before \o s, split)
    BY <1>0, <1>5, Zenon
  <2>2. QED BY <1>0, <1>6, <2>1, SplitSuffix, Zenon
<1>8. Len(<<<<x>>, r>>) = 2 /\ Piece(<<<<x>>, r>>) = <<<<x>>>> /\ <<<<x>>, r>>[2] = r
  BY DEF Piece
<1>9. split[Len(s)] = <<<<x>>>> \o split[Len(r)]
  BY <1>4, <1>5, <1>7, <1>8
<1>10. QED BY <1>5, <1>9, Zenon DEF TakesOne

\* A function on 1 .. n is a sequence.
LEMMA FunctionIsSeq ==
  ASSUME NEW S, NEW n \in Nat, NEW f \in [1 .. n -> S]
  PROVE  f \in Seq(S) /\ Len(f) = n
<1>1. f \in Seq(S)
  BY SeqDef
<1>2. DOMAIN f = 1 .. Len(f) /\ Len(f) \in Nat
  BY <1>1, LenProperties
<1>3. DOMAIN f = 1 .. n
  OBVIOUS
<1>4. QED BY <1>1, <1>2, <1>3

\* FlattenSeq, one text after the other.
FlattenedBy(n, seqs, f) == f = [i \in 1 .. n |-> IF i = 1 THEN seqs[i] ELSE f[i - 1] \o seqs[i]]

\* There is a function that puts texts together one by one, so that the one CHOOSE takes in
\* FlattenSeq is one.
LEMMA FlattenExists ==
  ASSUME NEW n \in Nat, NEW seqs
  PROVE  \E f : FlattenedBy(n, seqs, f)
<1> DEFINE T == {k \in 0 .. n : ~ \E f : FlattenedBy(k, seqs, f)}
<1>1. SUFFICES ASSUME T # {} PROVE FALSE
  <2>1. n \in 0 .. n
    OBVIOUS
  <2>2. QED BY <2>1
<1>2. PICK m \in T : \A k \in T : m <= k
  <2>1. T \subseteq 0 .. n
    BY Zenon
  <2> HIDE DEF T
  <2>2. T \subseteq Nat
    <3>1. \A k \in 0 .. n : k \in Nat
      OBVIOUS
    <3>2. QED BY <2>1, <3>1, Zenon
  <2>3. QED BY <1>1, <2>2, LeastNumber
<1>3. m \in 0 .. n /\ ~ \E f : FlattenedBy(m, seqs, f)
  OBVIOUS
<1>4. CASE m = 0
  <2> DEFINE f == [i \in 1 .. 0 |-> seqs[i]]
  <2>1. f = [i \in 1 .. 0 |-> IF i = 1 THEN seqs[i] ELSE f[i - 1] \o seqs[i]]
    OBVIOUS
  <2>2. FlattenedBy(m, seqs, f)
    BY <1>4, <2>1 DEF FlattenedBy
  <2>3. QED BY <1>3, <2>2
<1>5. CASE m > 0
  <2>1. m - 1 \in 0 .. n /\ ~ (m <= m - 1)
    BY <1>3, <1>5
  <2>2. m - 1 \notin T
    BY <1>2, <2>1
  <2>3. PICK g : FlattenedBy(m - 1, seqs, g)
    BY <2>1, <2>2
  <2> DEFINE f == [i \in 1 .. m |-> IF i = m THEN IF i = 1 THEN seqs[i] ELSE g[i - 1] \o seqs[i] ELSE g[i]]
  <2>4. \A i \in 1 .. m - 1 : f[i] = g[i]
    BY <1>3
  <2>5. \A i \in 1 .. m - 1 : g[i] = IF i = 1 THEN seqs[i] ELSE g[i - 1] \o seqs[i]
    BY <2>3 DEF FlattenedBy
  <2>6. ASSUME NEW i \in 1 .. m
        PROVE  f[i] = IF i = 1 THEN seqs[i] ELSE f[i - 1] \o seqs[i]
    <3>1. f[i] = IF i = 1 THEN seqs[i] ELSE g[i - 1] \o seqs[i]
      <4>1. CASE i = m
        BY <4>1
      <4>2. CASE i # m
        <5>1. i \in 1 .. m - 1
          BY <1>3, <4>2
        <5>2. f[i] = g[i]
          BY <4>2
        <5> HIDE DEF f
        <5>3. QED BY <2>5, <5>1, <5>2
      <4>3. QED BY <4>1, <4>2
    <3>2. i = 1 \/ i - 1 \in 1 .. m - 1
      BY <1>3
    <3> HIDE DEF f
    <3>3. QED BY <2>4, <3>1, <3>2
  <2>7. f = [i \in 1 .. m |-> f[i]]
    OBVIOUS
  <2>8. FlattenedBy(m, seqs, f)
    <3> HIDE DEF f
    <3>1. QED BY <2>6, <2>7, Zenon DEF FlattenedBy
  <2>9. QED BY <1>3, <2>8
<1>6. QED BY <1>3, <1>4, <1>5

\* FlattenSeq is the last value of such a function.
LEMMA Flattened ==
  ASSUME NEW n \in Nat \ {0}, NEW seqs, Len(seqs) = n
  PROVE  \E f : FlattenedBy(n, seqs, f) /\ FlattenSeq(seqs) = f[n]
<1> DEFINE Right(f) == f = [i \in 1 .. Len(seqs) |-> IF i = 1 THEN seqs[i] ELSE f[i - 1] \o seqs[i]]
<1> DEFINE flatten == CHOOSE f : Right(f)
<1>1. FlattenSeq(seqs) = flatten[Len(seqs)]
  BY DEF FlattenSeq
<1>2. PICK f : FlattenedBy(n, seqs, f)
  BY FlattenExists
<1>3. Right(f)
  BY <1>2 DEF FlattenedBy
<1>4. Right(flatten)
  <2> HIDE DEF Right
  <2>1. QED BY <1>3
<1> HIDE DEF flatten
<1>5. FlattenedBy(n, seqs, flatten)
  BY <1>4 DEF FlattenedBy
<1>6. QED BY <1>1, <1>5

(* The text of a list up to its k-th separator. *)
FirstItems(x, f, k) == IF k = 0 THEN x ELSE x \o f[k]
Flattens(n, x, seqs, f) == n \in Nat /\ x \in AnyText /\ seqs \in [1 .. n -> AnyText] /\ FlattenedBy(n, seqs, f)

\* The text up to a separator is a text, and the next one has one separator and one item more.
LEMMA NextItems ==
  ASSUME NEW n, NEW x, NEW seqs, NEW f, Flattens(n, x, seqs, f)
  PROVE  \A k \in 0 .. n : /\ FirstItems(x, f, k) \in AnyText
                           /\ k < n => FirstItems(x, f, k + 1) = FirstItems(x, f, k) \o seqs[k + 1]
<1>0. n \in Nat /\ x \in AnyText /\ seqs \in [1 .. n -> AnyText] /\ FlattenedBy(n, seqs, f)
  BY DEF Flattens
<1>1. \A i \in 1 .. n : f[i] = IF i = 1 THEN seqs[i] ELSE f[i - 1] \o seqs[i]
  BY <1>0 DEF FlattenedBy
<1>2. \A i \in 1 .. n : seqs[i] \in AnyText
  BY <1>0
<1>3. \A i \in 1 .. n : f[i] \in AnyText
  <2> DEFINE T == {i \in 1 .. n : f[i] \notin AnyText}
  <2>1. SUFFICES ASSUME T # {} PROVE FALSE
    OBVIOUS
  <2>2. PICK m \in T : \A k \in T : m <= k
    <3>1. T \subseteq 1 .. n
      BY Zenon
    <3> HIDE DEF T
    <3>2. T \subseteq Nat
      <4>1. \A k \in 1 .. n : k \in Nat
        BY <1>0
      <4>2. QED BY <3>1, <4>1, Zenon
    <3>3. QED BY <2>1, <3>2, LeastNumber
  <2>3. m \in 1 .. n /\ f[m] \notin AnyText
    OBVIOUS
  <2>4. CASE m = 1
    BY <1>1, <1>2, <2>3, <2>4
  <2>5. CASE m # 1
    <3>1. m - 1 \in 1 .. n /\ ~ (m <= m - 1)
      BY <1>0, <2>3, <2>5
    <3>2. f[m - 1] \in AnyText
      BY <2>2, <3>1
    <3>3. f[m] = f[m - 1] \o seqs[m] /\ seqs[m] \in AnyText
      BY <1>0, <1>1, <1>2, <2>3, <2>5
    <3>4. QED BY <2>3, <3>2, <3>3, JoinIn
  <2>6. QED BY <2>4, <2>5
<1>4. ASSUME NEW k \in 0 .. n
      PROVE  FirstItems(x, f, k) \in AnyText
  <2>1. CASE k = 0
    BY <1>0, <2>1 DEF FirstItems
  <2>2. CASE k # 0
    <3>1. f[k] \in AnyText
      BY <1>0, <1>3, <2>2
    <3>2. QED BY <1>0, <2>2, <3>1, JoinIn DEF FirstItems
  <2>3. QED BY <2>1, <2>2
<1>5. ASSUME NEW k \in 0 .. n, k < n
      PROVE  FirstItems(x, f, k + 1) = FirstItems(x, f, k) \o seqs[k + 1]
  <2>1. k + 1 \in 1 .. n /\ k + 1 # 0 /\ k + 1 - 1 = k
    BY <1>0, <1>5
  <2>2. FirstItems(x, f, k + 1) = x \o f[k + 1]
    BY <2>1 DEF FirstItems
  <2>3. CASE k = 0
    <3>1. f[k + 1] = seqs[k + 1]
      BY <1>0, <1>1, <2>1, <2>3
    <3>2. FirstItems(x, f, k) = x
      BY <2>3 DEF FirstItems
    <3>3. QED BY <2>2, <3>1, <3>2
  <2>4. CASE k # 0
    <3>1. f[k + 1] = f[k] \o seqs[k + 1]
      <4>1. k + 1 # 1
        BY <1>0, <2>4
      <4>2. PICK j : j = k + 1
        OBVIOUS
      <4>3. j \in 1 .. n /\ j # 1 /\ j - 1 = k
        BY <2>1, <4>1, <4>2
      <4>4. f[j] = f[j - 1] \o seqs[j]
        BY <1>1, <4>3
      <4>5. QED BY <4>2, <4>3, <4>4
    <3>2. f[k] \in AnyText /\ seqs[k + 1] \in AnyText
      BY <1>0, <1>2, <1>3, <2>1, <2>4
    <3>3. (x \o f[k]) \o seqs[k + 1] = x \o (f[k] \o seqs[k + 1])
      BY <1>0, <3>2, Assoc
    <3>4. FirstItems(x, f, k) = x \o f[k]
      BY <2>4 DEF FirstItems
    <3>5. QED BY <2>2, <3>1, <3>3, <3>4
  <2>5. QED BY <2>3, <2>4
<1>6. QED BY <1>4, <1>5

(* A list from its k-th item on, as SplitString takes it. *)
ItemsFrom(items, n, k) == [i \in 1 .. n - k |-> <<items[k + i]>>]

\* An item before those after it.
LEMMA FirstItem ==
  ASSUME NEW n \in Nat, NEW k \in 0 .. n - 2, NEW items \in [1 .. n -> Word]
  PROVE  <<<<items[k + 1]>>>> \o ItemsFrom(items, n, k + 1) = ItemsFrom(items, n, k)
<1>1. n - k \in Nat /\ n - (k + 1) \in Nat /\ n - k = 1 + (n - (k + 1))
  OBVIOUS
<1> DEFINE S == {<<w>> : w \in Word}
<1>2. PICK a : a = <<<<items[k + 1]>>>>
  OBVIOUS
<1>3. <<items[k + 1]>> \in S
  <2>1. k + 1 \in 1 .. n
    OBVIOUS
  <2>2. items[k + 1] \in Word
    BY <2>1
  <2>3. QED BY <2>2
<1>4. ItemsFrom(items, n, k) \in [1 .. n - k -> S] /\ ItemsFrom(items, n, k + 1) \in [1 .. n - (k + 1) -> S]
  <2>1. \A i \in 1 .. n - k : k + i \in 1 .. n
    OBVIOUS
  <2>2. \A i \in 1 .. n - (k + 1) : k + 1 + i \in 1 .. n
    OBVIOUS
  <2>3. \A i \in 1 .. n : <<items[i]>> \in S
    OBVIOUS
  <2> HIDE DEF S
  <2>4. QED BY <2>1, <2>2, <2>3 DEF ItemsFrom
<1>5. \A i \in 1 .. n - (k + 1) : ItemsFrom(items, n, k + 1)[i] = ItemsFrom(items, n, k)[1 + i]
  <2>1. \A i \in 1 .. n - (k + 1) : 1 + i \in 1 .. n - k /\ k + 1 + i = k + (1 + i)
    OBVIOUS
  <2>2. QED BY <2>1 DEF ItemsFrom
<1>6. ItemsFrom(items, n, k)[1] = <<items[k + 1]>>
  <2>1. 1 \in 1 .. n - k
    OBVIOUS
  <2>2. QED BY <2>1 DEF ItemsFrom
<1> HIDE DEF S
<1>7. PICK b : b = ItemsFrom(items, n, k + 1)
  OBVIOUS
<1>8. PICK c : c = ItemsFrom(items, n, k)
  OBVIOUS
<1>9. a \in Seq(S) /\ Len(a) = 1 /\ a[1] = <<items[k + 1]>>
  BY <1>2, <1>3, SingleIn
<1>10. b \in Seq(S) /\ Len(b) = n - (k + 1) /\ c \in Seq(S) /\ Len(c) = n - k
  <2>1. PICK l : l = n - (k + 1)
    OBVIOUS
  <2>2. PICK j : j = n - k
    OBVIOUS
  <2>3. l \in Nat /\ j \in Nat
    BY <1>1, <2>1, <2>2
  <2>4. b \in [1 .. l -> S] /\ c \in [1 .. j -> S]
    BY <1>4, <1>7, <1>8, <2>1, <2>2, Zenon
  <2>5. b \in Seq(S) /\ Len(b) = l /\ c \in Seq(S) /\ Len(c) = j
    BY <2>3, <2>4, FunctionIsSeq
  <2>6. QED BY <2>1, <2>2, <2>5, Zenon
<1>11. /\ a \o b \in Seq(S) /\ Len(a \o b) = Len(a) + Len(b)
       /\ \A i \in 1 .. Len(a) + Len(b) : (a \o b)[i] = IF i <= Len(a) THEN a[i] ELSE b[i - Len(a)]
  BY <1>9, <1>10, ConcatProperties
<1>12. ASSUME NEW i \in 1 .. Len(a \o b)
       PROVE  (a \o b)[i] = c[i]
  <2>1. i \in 1 .. n - k
    BY <1>1, <1>9, <1>10, <1>11
  <2>2. (a \o b)[i] = IF i <= 1 THEN a[i] ELSE b[i - 1]
    BY <1>1, <1>9, <1>10, <1>11, <2>1
  <2>3. CASE i = 1
    <3>1. (a \o b)[i] = a[1]
      BY <2>2, <2>3
    <3>2. a[1] = <<items[k + 1]>> /\ c[1] = <<items[k + 1]>>
      BY <1>6, <1>8, <1>9, Zenon
    <3>3. QED BY <2>3, <3>1, <3>2, Zenon
  <2>4. CASE i # 1
    <3>1. i - 1 \in 1 .. n - (k + 1) /\ 1 + (i - 1) = i /\ ~ (i <= 1)
      BY <2>1, <2>4
    <3>2. b[i - 1] = c[1 + (i - 1)]
      BY <1>5, <1>7, <1>8, <3>1
    <3>3. QED BY <2>2, <3>1, <3>2
  <2>5. QED BY <2>3, <2>4
<1>13. Len(a \o b) = Len(c)
  BY <1>1, <1>9, <1>10, <1>11
<1>14. a \o b = c
  BY <1>10, <1>11, <1>12, <1>13, SeqEqual
<1>15. QED BY <1>2, <1>7, <1>8, <1>14

\* What it means that a list is read.
ListIsRead(n, items, b, c) ==
  SplitString(<<items[1]>> \o FlattenSeq([i \in 1 .. n - 1 |-> Mark(b, ";", c) \o <<items[i + 1]>>]))
     = [i \in 1 .. n |-> <<items[i]>>]

\* A list is read as its items, however many (StringUtil::SplitString).
LEMMA ListRead ==
  ASSUME NEW n \in Nat \ {0}, NEW items \in [1 .. n -> Word], NEW b \in Spaces, NEW c \in Spaces
  PROVE  ListIsRead(n, items, b, c)
<1>1. PICK m : m = Mark(b, ";", c)
  OBVIOUS
<1>2. m \in AnyText /\ m # <<>> /\ AllOf(m, {" ", ";"}) /\ NoneOf(m, {"$"})
  BY <1>1, SpacesMark
<1>3. \A i \in 1 .. n : /\ <<items[i]>> \in AnyText /\ <<items[i]>> # <<>> /\ <<items[i]>>[1] = items[i]
                         /\ items[i] \in Word /\ NoneOf(<<items[i]>>, {"$"}) /\ items[i] \notin {" ", ";"}
  <2>1. ASSUME NEW i \in 1 .. n
        PROVE  /\ <<items[i]>> \in AnyText /\ <<items[i]>> # <<>> /\ <<items[i]>>[1] = items[i]
               /\ items[i] \in Word /\ NoneOf(<<items[i]>>, {"$"}) /\ items[i] \notin {" ", ";"}
    <3>1. items[i] \in Word
      OBVIOUS
    <3>2. items[i] \in Character /\ items[i] \notin {" ", ";"} /\ items[i] \notin {"$"}
      BY <3>1, WordFacts
    <3>3. NoneOf(<<items[i]>>, {"$"})
      BY <3>2, OneOf
    <3>4. <<items[i]>> \in AnyText /\ <<items[i]>> # <<>> /\ <<items[i]>>[1] = items[i]
      BY <3>2, OneCharacter
    <3>5. QED BY <3>1, <3>2, <3>3, <3>4
  <2>2. QED BY <2>1
<1> DEFINE last == n - 1
<1> DEFINE ItemText(k) == <<items[k]>>
<1> DEFINE seqs == [i \in 1 .. last |-> m \o ItemText(i + 1)]
<1> DEFINE x == ItemText(1)
<1>4. last \in Nat /\ n = last + 1
  OBVIOUS
<1>5. \A k \in 0 .. last : /\ ItemText(k + 1) \in AnyText /\ ItemText(k + 1) # <<>> /\ ItemText(k + 1)[1] \notin {" ", ";"}
                            /\ NoneOf(ItemText(k + 1), {"$"})
  <2>1. \A k \in 0 .. last : k + 1 \in 1 .. n
    OBVIOUS
  <2>2. QED BY <1>3, <2>1
<1>6. seqs \in [1 .. last -> AnyText] /\ \A k \in 0 .. last - 1 : seqs[k + 1] = m \o ItemText(k + 2)
  <2>1. \A i \in 1 .. last : i \in 0 .. last
    OBVIOUS
  <2>2. \A i \in 1 .. last : m \o ItemText(i + 1) \in AnyText
    BY <1>2, <1>5, <2>1, JoinIn
  <2>3. \A k \in 0 .. last - 1 : k + 1 \in 1 .. last /\ k + 1 + 1 = k + 2
    BY <1>4
  <2> HIDE DEF last, ItemText
  <2>4. QED BY <2>2, <2>3
<1>7. x \in AnyText /\ x # <<>>
  <2>1. 0 \in 0 .. last /\ 0 + 1 = 1
    BY <1>4
  <2> HIDE DEF last, ItemText
  <2>2. QED BY <1>5, <2>1
<1> HIDE DEF ItemText, x
<1>8. Len(seqs) = last /\ seqs \in Seq(AnyText)
  <2> HIDE DEF seqs, last
  <2>1. QED BY <1>4, <1>6, FunctionIsSeq
<1> HIDE DEF seqs, last
<1>9. \E f : FlattenedBy(last, seqs, f) /\ FirstItems(x, f, last) = x \o FlattenSeq(seqs)
  <2>1. CASE last = 0
    <3>1. seqs = <<>>
      BY <1>8, <2>1, EmptySeq
    <3>2. FlattenSeq(seqs) = <<>>
      <4>1. Len(seqs) = 0
        BY <1>8, <2>1
      <4>2. QED BY <3>1, <4>1, Zenon DEF FlattenSeq
    <3>3. PICK f : FlattenedBy(last, seqs, f)
      BY <1>4, FlattenExists
    <3>4. FirstItems(x, f, last) = x
      BY <2>1 DEF FirstItems
    <3>5. x \o <<>> = x
      BY <1>7, EmptyText
    <3>6. QED BY <3>2, <3>3, <3>4, <3>5, Zenon
  <2>2. CASE last # 0
    <3>1. last \in Nat \ {0}
      BY <1>4, <2>2
    <3>2. PICK f : FlattenedBy(last, seqs, f) /\ FlattenSeq(seqs) = f[last]
      BY <1>8, <3>1, Flattened
    <3>3. FirstItems(x, f, last) = x \o f[last]
      BY <2>2 DEF FirstItems
    <3>4. QED BY <3>2, <3>3
  <2>3. QED BY <2>1, <2>2
<1>10. PICK f : FlattenedBy(last, seqs, f) /\ FirstItems(x, f, last) = x \o FlattenSeq(seqs)
  BY <1>9
<1>11. \A k \in 0 .. last : /\ FirstItems(x, f, k) \in AnyText
                            /\ k < last => FirstItems(x, f, k + 1) = FirstItems(x, f, k) \o seqs[k + 1]
  <2>1. Flattens(last, x, seqs, f)
    BY <1>4, <1>6, <1>7, <1>10 DEF Flattens
  <2>2. QED BY <2>1, NextItems
<1>12. \A k \in 0 .. last : \E before \in AnyText : FirstItems(x, f, k) = before \o ItemText(k + 1)
  <2>1. ASSUME NEW k \in 0 .. last
        PROVE  \E before \in AnyText : FirstItems(x, f, k) = before \o ItemText(k + 1)
    <3>1. CASE k = 0
      <4>1. FirstItems(x, f, k) = ItemText(k + 1)
        BY <3>1 DEF FirstItems, x
      <4>2. ItemText(k + 1) \in AnyText
        BY <1>5
      <4>3. <<>> \in AnyText /\ <<>> \o ItemText(k + 1) = ItemText(k + 1)
        BY <4>2, EmptyText
      <4>4. QED BY <4>1, <4>3
    <3>2. CASE k # 0
      <4>1. k - 1 \in 0 .. last /\ k - 1 < last /\ k - 1 \in 0 .. last - 1 /\ k - 1 + 1 = k /\ k - 1 + 2 = k + 1
        BY <1>4, <3>2
      <4>2. FirstItems(x, f, k) = FirstItems(x, f, k - 1) \o seqs[k] /\ FirstItems(x, f, k - 1) \in AnyText
        BY <1>11, <4>1
      <4>3. seqs[k] = m \o ItemText(k + 1)
        BY <1>6, <4>1
      <4>4. ItemText(k + 1) \in AnyText
        BY <1>5
      <4>5. FirstItems(x, f, k - 1) \o (m \o ItemText(k + 1)) = (FirstItems(x, f, k - 1) \o m) \o ItemText(k + 1)
        BY <1>2, <4>2, <4>4, Assoc
      <4>6. FirstItems(x, f, k - 1) \o m \in AnyText
        BY <1>2, <4>2, JoinIn
      <4>7. QED BY <4>2, <4>3, <4>5, <4>6
    <3>3. QED BY <3>1, <3>2
  <2>2. QED BY <2>1
<1>13. PICK t : t = FirstItems(x, f, last)
  OBVIOUS
<1>14. t \in AnyText
  BY <1>4, <1>11, <1>13
<1>15. PICK split : SplitOf(t, split) /\ SplitString(t) = split[Len(t)]
  BY <1>14, SplitExists
<1> DEFINE TakenFrom(k, r) == /\ r \in AnyText /\ NoneOf(r, {"$"}) /\ t = FirstItems(x, f, k) \o r
                         /\ split[Len(ItemText(k + 1) \o r)] = ItemsFrom(items, n, k)
<1>16. \E r : TakenFrom(last, r)
  <2>1. last \in 0 .. last
    BY <1>4
  <2>2. PICK before \in AnyText : FirstItems(x, f, last) = before \o ItemText(last + 1)
    BY <1>12, <2>1
  <2>3. items[last + 1] \in Word
    <3>1. last + 1 \in 1 .. n
      BY <1>4
    <3>2. QED BY <1>3, <3>1
  <2>4. SplitOf(before \o <<items[last + 1]>>, split)
    BY <1>13, <1>15, <2>2 DEF ItemText
  <2>5. split[Len(<<items[last + 1]>>)] = <<<<items[last + 1]>>>>
    BY <2>3, <2>4, LastItem
  <2>6. ItemsFrom(items, n, last) = <<<<items[last + 1]>>>>
    <3>1. n - last = 1
      BY <1>4
    <3>2. ItemsFrom(items, n, last) = [i \in 1 .. 1 |-> <<items[last + i]>>]
      BY <3>1 DEF ItemsFrom
    <3>3. \A i \in 1 .. 1 : i = 1
      OBVIOUS
    <3>4. QED BY <3>2, <3>3
  <2>7. ItemText(last + 1) \in AnyText
    BY <1>5, <2>1
  <2>8. ItemText(last + 1) \o <<>> = ItemText(last + 1) /\ t \o <<>> = t /\ <<>> \in AnyText
    BY <1>14, <2>7, EmptyText
  <2>9. NoneOf(<<>>, {"$"})
    BY EmptyOf
  <2>10. split[Len(ItemText(last + 1))] = ItemsFrom(items, n, last)
    BY <2>5, <2>6, Zenon DEF ItemText
  <2>11. TakenFrom(last, <<>>)
    BY <1>13, <2>8, <2>9, <2>10, Zenon
  <2>12. QED BY <2>11, Zenon
<1>17. ASSUME NEW k \in 0 .. last - 1, \E r : TakenFrom(k + 1, r)
       PROVE  \E r : TakenFrom(k, r)
  <2>1. PICK q : TakenFrom(k + 1, q)
    BY <1>17
  <2>2. k \in 0 .. last /\ k + 1 \in 0 .. last /\ k < last /\ k + 1 + 1 = k + 2 /\ k \in 0 .. n - 2 /\ k + 1 \in 1 .. n
    BY <1>4
  <2>3. PICK i : i = ItemText(k + 2)
    OBVIOUS
  <2>4. i \in AnyText /\ i # <<>> /\ i[1] \notin {" ", ";"} /\ NoneOf(i, {"$"})
    BY <1>5, <2>2, <2>3
  <2>5. PICK r : r = i \o q
    OBVIOUS
  <2>6. q \in AnyText /\ NoneOf(q, {"$"}) /\ t = FirstItems(x, f, k + 1) \o q /\ split[Len(r)] = ItemsFrom(items, n, k + 1)
    BY <2>1, <2>2, <2>3, <2>5
  <2>7. r \in AnyText /\ r # <<>> /\ r[1] \notin {" ", ";"} /\ NoneOf(r, {"$"})
    <3>1. i \o q \in AnyText /\ i \o q # <<>> /\ (i \o q)[1] = i[1] /\ NoneOf(i \o q, {"$"})
      BY <2>4, <2>6, JoinIn, NotEmpty, FirstStays, JoinedOf
    <3>2. QED BY <2>4, <2>5, <3>1
  <2>8. PICK g : g = FirstItems(x, f, k)
    OBVIOUS
  <2>9. g \in AnyText /\ FirstItems(x, f, k + 1) = g \o (m \o i)
    BY <1>6, <1>11, <2>2, <2>3, <2>8
  <2>10. t = g \o (m \o r)
    <3>1. t = (g \o (m \o i)) \o q
      BY <2>6, <2>9
    <3>2. m \o i \in AnyText
      BY <1>2, <2>4, JoinIn
    <3>3. (g \o (m \o i)) \o q = g \o ((m \o i) \o q)
      BY <2>6, <2>9, <3>2, Assoc
    <3>4. (m \o i) \o q = m \o (i \o q)
      BY <1>2, <2>4, <2>6, Assoc
    <3>5. QED BY <2>5, <3>1, <3>3, <3>4, Zenon
  <2>11. PICK before \in AnyText : g = before \o ItemText(k + 1)
    BY <1>12, <2>2, <2>8
  <2>12. PICK j : j = ItemText(k + 1)
    OBVIOUS
  <2>13. j \in AnyText
    BY <1>5, <2>2, <2>12
  <2>14. m \o r \in AnyText
    BY <1>2, <2>7, JoinIn
  <2>15. t = before \o (j \o (m \o r))
    <3>1. (before \o j) \o (m \o r) = before \o (j \o (m \o r))
      BY <2>13, <2>14, Assoc
    <3>2. QED BY <2>10, <2>11, <2>12, <3>1, Zenon
  <2>16. items[k + 1] \in Word
    BY <1>3, <2>2
  <2>17. SplitOf(before \o (<<items[k + 1]>> \o (m \o r)), split)
    BY <1>15, <2>12, <2>15, Zenon DEF ItemText
  <2>18. split[Len(<<items[k + 1]>> \o (m \o r))] = <<<<items[k + 1]>>>> \o split[Len(r)]
    <3>1. Listed(before, items[k + 1], m, r, split)
      BY <1>2, <2>7, <2>11, <2>16, <2>17, Zenon DEF Listed
    <3>2. TakesOne(items[k + 1], m, r, split)
      BY <3>1, NextItem, Zenon
    <3>3. QED BY <3>2, Zenon DEF TakesOne
  <2>19. <<<<items[k + 1]>>>> \o ItemsFrom(items, n, k + 1) = ItemsFrom(items, n, k)
    BY <2>2, FirstItem
  <2>20. split[Len(j \o (m \o r))] = ItemsFrom(items, n, k)
    BY <2>6, <2>12, <2>18, <2>19, Zenon DEF ItemText
  <2>21. NoneOf(m \o r, {"$"})
    BY <1>2, <2>7, JoinedOf
  <2>22. TakenFrom(k, m \o r)
    BY <2>8, <2>10, <2>12, <2>14, <2>20, <2>21, Zenon
  <2>23. QED BY <2>22, Zenon
<1>18. \E r : TakenFrom(0, r)
  <2> DEFINE T == {d \in 0 .. last : ~ \E r : TakenFrom(last - d, r)}
  <2> HIDE DEF TakenFrom
  <2>1. T = {}
    <3>1. SUFFICES ASSUME T # {} PROVE FALSE
      OBVIOUS
    <3>2. PICK d \in T : \A e \in T : d <= e
      <4>1. T \subseteq 0 .. last
        BY Zenon
      <4> HIDE DEF T
      <4>2. T \subseteq Nat
        <5>1. \A e \in 0 .. last : e \in Nat
          BY <1>4
        <5>2. QED BY <4>1, <5>1, Zenon
      <4>3. QED BY <3>1, <4>2, LeastNumber
    <3>3. d \in 0 .. last /\ ~ \E r : TakenFrom(last - d, r)
      OBVIOUS
    <3>4. d # 0
      <4>1. last - 0 = last
        BY <1>4
      <4>2. QED BY <1>16, <3>3, <4>1
    <3>5. d - 1 \in 0 .. last /\ ~ (d <= d - 1) /\ last - d \in 0 .. last - 1 /\ last - d + 1 = last - (d - 1)
      BY <1>4, <3>3, <3>4
    <3>6. \E r : TakenFrom(last - (d - 1), r)
      BY <3>2, <3>5
    <3>7. \E r : TakenFrom(last - d + 1, r)
      BY <3>5, <3>6
    <3>8. \E r : TakenFrom(last - d, r)
      BY <1>17, <3>5, <3>7
    <3>9. QED BY <3>3, <3>8
  <2>2. last \in 0 .. last /\ last - last = 0
    BY <1>4
  <2>3. QED BY <2>1, <2>2
<1>19. PICK r : TakenFrom(0, r)
  BY <1>18
<1>20. split[Len(t)] = ItemsFrom(items, n, 0)
  <2>1. t = x \o r /\ split[Len(ItemText(0 + 1) \o r)] = ItemsFrom(items, n, 0)
    BY <1>19 DEF FirstItems
  <2>2. ItemText(0 + 1) = x
    BY DEF x
  <2>3. QED BY <2>1, <2>2
<1>21. ItemsFrom(items, n, 0) = [i \in 1 .. n |-> <<items[i]>>]
  <2>1. n - 0 = n /\ \A i \in 1 .. n : 0 + i = i
    OBVIOUS
  <2>2. QED BY <2>1 DEF ItemsFrom
<1>22. t = <<items[1]>> \o FlattenSeq([i \in 1 .. n - 1 |-> Mark(b, ";", c) \o <<items[i + 1]>>])
  BY <1>1, <1>10, <1>13, Zenon DEF x, ItemText, seqs, last
<1>23. QED BY <1>15, <1>20, <1>21, <1>22, Zenon DEF ListIsRead

(* The texts are those that can be written, and are read as they are meant. *)
SomethingWritten == WrittenLine \/ WrittenAddress \/ WrittenList
ScanInv == SomethingWritten /\ ReadAsWritten

\* Reading a text that can be written gives what is meant, for each of the three kinds.
LEMMA WrittenIsRead ==
  ASSUME SomethingWritten, ScanNext
  PROVE  ReadAsWritten'
<1>1. /\ taken' = CASE written.kind = "line" -> ReadLine(text)
                    [] written.kind = "address" -> SplitAddr(text)
                    [] written.kind = "list" -> SplitString(text)
      /\ written' = written
  BY DEF ScanNext
<1>2. taken' = IF written.kind = "address" /\ ~IsRange THEN NotRead ELSE written.parts
  <2>1. CASE WrittenLine
    <3>1. PICK n \in Word, v \in Values, b \in Blank, c \in Blank, d \in Blank, comment \in Comments :
              /\ written = [kind |-> "line", parts |-> <<<<n>>, v>>]
              /\ text = <<n>> \o Mark(b, "=", c) \o v \o Space(d) \o comment
      BY <2>1, Zenon DEF WrittenLine
    <3>2. written.kind = "line" /\ written.parts = <<<<n>>, v>>
      BY <3>1
    <3>3. ReadLine(text) = <<<<n>>, v>>
      BY <3>1, LineRead
    <3>4. taken' = ReadLine(text)
      BY <1>1, <3>2
    <3>5. written.kind # "address"
      BY <3>2
    <3>6. QED BY <3>2, <3>3, <3>4, <3>5, Zenon
  <2>2. CASE WrittenAddress
    <3>1. PICK host \in Word, p \in Ports, q \in Ports, range \in BOOLEAN, b \in Spaces, c \in Spaces :
              /\ written = [kind |-> "address", parts |-> <<<<host>>, <<p>>, <<IF range THEN q ELSE p>>>>]
              /\ text = <<host>> \o Mark(b, ":", c) \o <<p>> \o IF range THEN Mark(b, "~", c) \o <<q>> ELSE <<>>
      BY <2>2, Zenon DEF WrittenAddress
    <3>2. PICK last : last = IF range THEN q ELSE p
      OBVIOUS
    <3>3. written.kind = "address" /\ written.parts = <<<<host>>, <<p>>, <<last>>>>
      BY <3>1, <3>2
    <3>4. last \in Ports
      BY <3>2
    <3>5. SplitAddr(text) = IF NumberOf[last] < NumberOf[p] THEN NotRead ELSE <<<<host>>, <<p>>, <<last>>>>
      <4>1. AddressIsRead(host, p, q, range, b, c)
        BY AddressRead
      <4>2. QED BY <3>1, <3>2, <4>1, Zenon DEF AddressIsRead
    <3>6. taken' = SplitAddr(text)
      BY <1>1, <3>3
    <3>7. IsRange <=> NumberOf[p] <= NumberOf[last]
      <4>1. written.parts[2][1] = p /\ written.parts[3][1] = last
        BY <3>3
      <4>2. QED BY <4>1, Zenon DEF IsRange
    <3>8. NumberOf[p] \in Nat /\ NumberOf[last] \in Nat
      BY <3>4, PortFacts
    <3>9. ~IsRange <=> NumberOf[last] < NumberOf[p]
      BY <3>7, <3>8
    <3>10. QED BY <3>3, <3>5, <3>6, <3>9, Zenon
  <2>3. CASE WrittenList
    <3>0. PICK n \in 1 .. ItemsMax : \E items \in [1 .. n -> Word], b, c \in Spaces :
              /\ written = [kind |-> "list", parts |-> [i \in 1 .. n |-> <<items[i]>>]]
              /\ text = <<items[1]>> \o FlattenSeq([i \in 1 .. n - 1 |-> Mark(b, ";", c) \o <<items[i + 1]>>])
      BY <2>3, Zenon DEF WrittenList
    <3>1. PICK items \in [1 .. n -> Word], b \in Spaces, c \in Spaces :
              /\ written = [kind |-> "list", parts |-> [i \in 1 .. n |-> <<items[i]>>]]
              /\ text = <<items[1]>> \o FlattenSeq([i \in 1 .. n - 1 |-> Mark(b, ";", c) \o <<items[i + 1]>>])
      BY <3>0, Zenon
    <3>2. written.kind = "list" /\ written.parts = [i \in 1 .. n |-> <<items[i]>>]
      BY <3>1, Zenon
    <3>3. n \in Nat \ {0}
      <4>1. ItemsMax \in Nat
        BY ScanningAssumption, Zenon
      <4>2. QED BY <4>1
    <3>4. SplitString(text) = [i \in 1 .. n |-> <<items[i]>>]
      <4>1. ListIsRead(n, items, b, c)
        BY <3>3, ListRead
      <4>2. QED BY <3>1, <4>1, Zenon DEF ListIsRead
    <3>5. taken' = SplitString(text)
      BY <1>1, <3>2
    <3>6. written.kind # "address"
      BY <3>2
    <3>7. QED BY <3>2, <3>4, <3>5, <3>6, Zenon
  <2>4. QED BY <2>1, <2>2, <2>3 DEF SomethingWritten
<1>3. (written.kind = "address" /\ ~IsRange)' <=> (written.kind = "address" /\ ~IsRange)
  BY <1>1 DEF IsRange
<1>4. QED BY <1>1, <1>2, <1>3, Zenon DEF ReadAsWritten, Unread, NotRead

\* ScanInv is inductive.
LEMMA ScanStep ==
  ASSUME ScanInv, [ScanNext]_scanVars
  PROVE  ScanInv'
<1>1. CASE ScanNext
  <2>1. ReadAsWritten'
    BY <1>1, WrittenIsRead DEF ScanInv
  <2>2. text' = text /\ written' = written
    BY <1>1 DEF ScanNext
  <2>3. SomethingWritten' <=> SomethingWritten
    BY <2>2 DEF SomethingWritten, WrittenLine, WrittenAddress, WrittenList
  <2>4. QED BY <2>1, <2>3, Zenon DEF ScanInv
<1>2. CASE UNCHANGED scanVars
  <2>1. text' = text /\ written' = written /\ taken' = taken
    BY <1>2 DEF scanVars
  <2>2. SomethingWritten' <=> SomethingWritten
    BY <2>1 DEF SomethingWritten, WrittenLine, WrittenAddress, WrittenList
  <2>3. ReadAsWritten' <=> ReadAsWritten
    BY <2>1 DEF ReadAsWritten, IsRange
  <2>4. QED BY <2>2, <2>3, Zenon DEF ScanInv
<1>3. QED BY <1>1, <1>2

\* Whatever is written in a line, an address or a list, with whatever blanks around the marks,

\* is what the program reads, for any words and lists of any length.
THEOREM TextsAreRead == ScanSpec => []ReadAsWritten
<1>1. ScanInit => ScanInv
  BY DEF ScanInit, ScanInv, SomethingWritten, ReadAsWritten
<1>2. ScanInv => ReadAsWritten
  BY DEF ScanInv
<1>3. QED BY <1>1, <1>2, ScanStep, PTL DEF ScanSpec

-----------------------------------------------------------------------------
(* The server of one thread. *)

StPlaces == {"select", "round", "serving", "ended"}
ConnStates == {"new", "backlog", "open", "closed"}

StTypes ==
    /\ stAt \in StPlaces
    /\ conn \in [StConn -> ConnStates]
    /\ fdOf \in [StConn -> StFd \cup {None}]
    /\ nTotalClient \in Int

(* An open connection has a descriptor of its own, another has none.       *)
DescriptorsFit ==
    /\ \A c \in StConn : IF conn[c] = "open" THEN fdOf[c] \in StFd \ {Listen} ELSE fdOf[c] = None
    /\ \A c, d \in StConn : conn[c] = "open" /\ conn[d] = "open" /\ fdOf[c] = fdOf[d] => c = d

\* Somebody has a request, or his end, to be read on it.
HasNews(fd) == \E c \in StConn : conn[c] = "open" /\ fdOf[c] = fd /\ c \in sent \cup gone

SelectedAreOpen ==
    /\ setActive \subseteq Opened \cup {Listen}
    /\ stAt # "ended" => Listen \in setActive
    /\ setReadable \subseteq StFd
    /\ \A fd \in setReadable \ {Listen} : HasNews(fd)
    /\ stAt \in {"select", "ended"} => setReadable = {}
    /\ stAt = "serving" => serving \in Opened /\ serving \notin setReadable /\ serving \notin setActive

CountFits == IsFiniteSet(Opened) /\ TotalIsClients

StInv == StTypes /\ DescriptorsFit /\ SelectedAreOpen /\ CountFits

\* The descriptors of open connections.
LEMMA OpenedFacts ==
  ASSUME StTypes, DescriptorsFit
  PROVE  /\ Opened \subseteq StFd /\ Listen \notin Opened /\ None \notin Opened
         /\ \A c \in StConn : conn[c] = "open" => fdOf[c] \in Opened
         /\ \A c \in StConn : fdOf[c] \in Opened => conn[c] = "open"
         /\ None \notin StFd
<1>1. None \notin StFd
  BY STAssumption DEF None
<1>2. Opened \subseteq StFd /\ Listen \notin Opened
  BY DEF Opened, DescriptorsFit
<1>3. \A c \in StConn : conn[c] = "open" => fdOf[c] \in Opened
  BY DEF Opened
<1>4. \A c \in StConn : fdOf[c] \in Opened => conn[c] = "open"
  BY <1>1, <1>2 DEF DescriptorsFit
<1>5. QED BY <1>1, <1>2, <1>3, <1>4

\* Whose descriptor it is.
LEMMA ConnOfFacts ==
  ASSUME DescriptorsFit, NEW c \in StConn, conn[c] = "open"
  PROVE  ConnOf(fdOf[c]) = c
<1>1. ConnOf(fdOf[c]) \in StConn /\ conn[ConnOf(fdOf[c])] = "open" /\ fdOf[ConnOf(fdOf[c])] = fdOf[c]
  BY DEF ConnOf
<1>2. QED BY <1>1 DEF DescriptorsFit

\* A descriptor that is open and ready has news.
LEMMA NewsOfReady ==
  ASSUME DescriptorsFit, NEW fd \in Opened
  PROVE  ConnOf(fd) \in sent \cup gone <=> HasNews(fd)
<1>1. PICK c \in StConn : conn[c] = "open" /\ fdOf[c] = fd
  BY DEF Opened
<1>2. ConnOf(fd) = c
  BY <1>1, ConnOfFacts
<1>3. \A d \in StConn : conn[d] = "open" /\ fdOf[d] = fd => d = c
  BY <1>1 DEF DescriptorsFit
<1>4. QED BY <1>1, <1>2, <1>3 DEF HasNews

\* The least of some descriptors is one of them.
LEMMA MinFacts ==
  ASSUME NEW S \in SUBSET StFd, S # {}
  PROVE  Min(S) \in S
<1>1. S \subseteq Nat
  BY STAssumption
<1>2. \E m \in S : \A k \in S : m <= k
  BY <1>1, LeastNumber
<1>3. QED BY <1>2 DEF Min

\* What DestroySocket leaves, when all it is given are open connections.
LEMMA Destroy_Kept ==
  ASSUME StTypes, DescriptorsFit, NEW fds, fds \subseteq StFd, Destroy(fds)
  PROVE  /\ conn' \in [StConn -> ConnStates] /\ fdOf' \in [StConn -> StFd \cup {None}]
         /\ DescriptorsFit' /\ Opened' = Opened \ fds
         /\ \A fd : fd \notin fds /\ HasNews(fd) /\ gone' = gone => HasNews(fd)'
<1>1. None \notin fds
  BY OpenedFacts
<1>2. /\ conn' = [c \in StConn |-> IF conn[c] = "open" /\ fdOf[c] \in fds THEN "closed" ELSE conn[c]]
      /\ fdOf' = [c \in StConn |-> IF fdOf[c] \in fds THEN None ELSE fdOf[c]]
      /\ sent' = {c \in sent : fdOf[c] \notin fds \/ fdOf[c] = None}
  BY DEF Destroy
<1>3. conn' \in [StConn -> ConnStates] /\ fdOf' \in [StConn -> StFd \cup {None}]
  BY <1>2 DEF StTypes, ConnStates
<1>4. \A c \in StConn : /\ conn'[c] = "open" <=> conn[c] = "open" /\ fdOf[c] \notin fds
                        /\ conn'[c] = "open" => fdOf'[c] = fdOf[c]
                        /\ conn'[c] # "open" => fdOf'[c] = None
  BY <1>1, <1>2 DEF DescriptorsFit
<1>5. DescriptorsFit'
  BY <1>4 DEF DescriptorsFit
<1>6. Opened' = Opened \ fds
  BY <1>4 DEF Opened
<1>7. ASSUME NEW fd, fd \notin fds, HasNews(fd), gone' = gone PROVE HasNews(fd)'
  <2>1. PICK c \in StConn : conn[c] = "open" /\ fdOf[c] = fd /\ c \in sent \cup gone
    BY <1>7 DEF HasNews
  <2>2. conn'[c] = "open" /\ fdOf'[c] = fd /\ c \in sent' \cup gone'
    BY <1>2, <1>4, <1>7, <2>1
  <2>3. QED BY <2>2 DEF HasNews
<1>8. QED BY <1>3, <1>5, <1>6, <1>7

LEMMA STInit_Inv == STInit => StInv
<1> SUFFICES ASSUME STInit PROVE StInv
  OBVIOUS
<1>1. StTypes
  BY DEF STInit, StTypes, StPlaces, ConnStates
<1>2. Opened = {}
  BY DEF STInit, Opened
<1>3. DescriptorsFit
  BY DEF STInit, DescriptorsFit
<1>4. SelectedAreOpen
  BY DEF STInit, SelectedAreOpen
<1>5. CountFits
  BY <1>2, FS_EmptySet DEF STInit, CountFits, TotalIsClients
<1>6. QED BY <1>1, <1>3, <1>4, <1>5 DEF StInv

\* A step that neither opens nor closes a connection.
LEMMA ConnectionsStand ==
  ASSUME StInv, UNCHANGED <<fdOf, nTotalClient>>, conn' \in [StConn -> ConnStates],
         \A c \in StConn : conn'[c] = "open" <=> conn[c] = "open",
         stAt' = "ended" <=> stAt = "ended"
  PROVE  DescriptorsFit' /\ Opened' = Opened /\ CountFits'
<1>1. Opened' = Opened
  BY DEF Opened
<1>2. DescriptorsFit'
  BY DEF StInv, DescriptorsFit
<1>3. CountFits'
  BY <1>1 DEF StInv, CountFits, TotalIsClients
<1>4. QED BY <1>1, <1>2, <1>3

\* The clients, and Shutdown.
LEMMA Clients_Inv ==
  ASSUME StInv, Clients \/ Shutdown \/ UNCHANGED stVars
  PROVE  StInv'
<1>1. UNCHANGED <<stAt, fdOf, setActive, setReadable, serving, nTotalClient>>
  BY DEF Clients, Connects, SendRequest, HangUp, Shutdown, stVars
<1>2. conn' \in [StConn -> ConnStates] /\ \A c \in StConn : conn'[c] = "open" <=> conn[c] = "open"
  BY DEF StInv, StTypes, ConnStates, Clients, Connects, SendRequest, HangUp, Shutdown, stVars
<1>3. sent \cup gone \subseteq sent' \cup gone'
  BY DEF Clients, Connects, SendRequest, HangUp, Shutdown, stVars
<1>4. DescriptorsFit' /\ Opened' = Opened /\ CountFits'
  BY <1>1, <1>2, ConnectionsStand
<1>5. \A fd : HasNews(fd) => HasNews(fd)'
  BY <1>1, <1>2, <1>3 DEF HasNews
<1>6. SelectedAreOpen'
  BY <1>1, <1>4, <1>5 DEF StInv, SelectedAreOpen
<1>7. StTypes'
  BY <1>1, <1>2 DEF StInv, StTypes
<1>8. QED BY <1>4, <1>6, <1>7 DEF StInv

LEMMA STSelect_Inv ==
  ASSUME StInv, STSelect
  PROVE  StInv'
<1>1. UNCHANGED <<conn, fdOf, sent, gone, setActive, serving, nTotalClient>> /\ stAt = "select" /\ stAt' = "round"
  BY DEF STSelect
<1>2. DescriptorsFit' /\ Opened' = Opened /\ CountFits'
  BY <1>1, ConnectionsStand DEF StInv, StTypes
<1>3. Opened \subseteq StFd
  BY OpenedFacts DEF StInv
<1>4. setReadable' \subseteq setActive /\ \A fd \in setReadable' \ {Listen} : ConnOf(fd) \in sent \cup gone
  BY DEF STSelect, STReady, Selectable, Readable
<1>5. \A fd \in setReadable' \ {Listen} : fd \in Opened
  BY <1>4 DEF StInv, SelectedAreOpen
<1>6. \A fd \in setReadable' \ {Listen} : HasNews(fd)
  BY <1>4, <1>5, NewsOfReady DEF StInv
<1>7. \A fd : HasNews(fd)' <=> HasNews(fd)
  BY <1>1 DEF HasNews
<1>8. setReadable' \subseteq StFd
  BY <1>3, <1>5, STAssumption
<1>9. SelectedAreOpen'
  BY <1>1, <1>2, <1>6, <1>7, <1>8 DEF StInv, SelectedAreOpen
<1>10. StTypes'
  BY <1>1 DEF StInv, StTypes, StPlaces
<1>11. QED BY <1>2, <1>9, <1>10 DEF StInv

\* While the server runs, its count is that of the open connections.
LEMMA CountIsOpened ==
  ASSUME StInv, stAt # "ended"
  PROVE  IsFiniteSet(Opened) /\ nTotalClient = Cardinality(Opened)
<1>1. IsFiniteSet(Opened) /\ nTotalClient = Cardinality(Opened) - 0
  BY DEF StInv, CountFits, TotalIsClients
<1>2. Cardinality(Opened) \in Nat
  BY <1>1, FS_CardinalityType
<1>3. QED BY <1>1, <1>2

\* Connections are closed: as many clients fewer.
LEMMA FewerClients ==
  ASSUME StInv, stAt # "ended", NEW fds, fds \subseteq Opened, Destroy(fds)
  PROVE  IsFiniteSet(Opened') /\ nTotalClient' = Cardinality(Opened') /\ nTotalClient' \in Int
<1>1. Opened' = Opened \ fds
  BY OpenedFacts, Destroy_Kept DEF StInv
<1>2. IsFiniteSet(Opened) /\ nTotalClient = Cardinality(Opened)
  BY CountIsOpened
<1>3. IsFiniteSet(Opened \ fds) /\ Cardinality(Opened \ fds) = Cardinality(Opened) - Cardinality(Opened \cap fds)
  BY <1>2, FS_Difference
<1>4. Opened \cap fds = fds
  OBVIOUS
<1>5. nTotalClient' = nTotalClient - Cardinality(fds)
  BY DEF Destroy, CountWithout
<1>6. nTotalClient' = Cardinality(Opened \ fds)
  BY <1>2, <1>3, <1>4, <1>5
<1>7. Cardinality(Opened \ fds) \in Nat
  BY <1>3, FS_CardinalityType
<1>8. QED BY <1>1, <1>3, <1>6, <1>7

LEMMA SelectTimeout_Inv ==
  ASSUME StInv, SelectTimeout
  PROVE  StInv'
<1>1. PICK expired \in SUBSET (setActive \ {Listen}) : Destroy(expired) /\ setActive' = ActiveAfter(expired)
  BY DEF SelectTimeout
<1>2. UNCHANGED <<stAt, gone, setReadable, serving>> /\ stAt = "select"
  BY DEF SelectTimeout
<1>3. expired \subseteq Opened /\ Opened \subseteq StFd
  BY OpenedFacts DEF StInv, SelectedAreOpen
<1>4. /\ conn' \in [StConn -> ConnStates] /\ fdOf' \in [StConn -> StFd \cup {None}]
      /\ DescriptorsFit' /\ Opened' = Opened \ expired
  BY <1>1, <1>3, Destroy_Kept DEF StInv
<1>5. IsFiniteSet(Opened') /\ nTotalClient' = Cardinality(Opened') /\ nTotalClient' \in Int
  BY <1>1, <1>2, <1>3, FewerClients
<1>6. StTypes'
  BY <1>2, <1>4, <1>5 DEF StInv, StTypes
<1>7. CountFits'
  BY <1>2, <1>5 DEF CountFits, TotalIsClients
<1>8. setActive' \subseteq Opened' \cup {Listen} /\ Listen \in setActive'
  BY <1>1, <1>2, <1>4 DEF StInv, SelectedAreOpen, ActiveAfter
<1>9. setReadable' = {} /\ stAt' = "select"
  BY <1>2 DEF StInv, SelectedAreOpen
<1>10. SelectedAreOpen'
  BY <1>8, <1>9 DEF SelectedAreOpen
<1>11. QED BY <1>4, <1>6, <1>7, <1>10 DEF StInv

\* One that waits is accepted, with a descriptor nobody has, or turned away.
LEMMA Accept_Kept ==
  ASSUME StInv, NEW c \in Backlog, Accept(c), UNCHANGED <<stAt, gone>>, stAt = "round"
  PROVE  /\ StTypes' /\ DescriptorsFit' /\ CountFits'
         /\ Opened \subseteq Opened' /\ setActive \subseteq setActive' /\ setActive' \subseteq setActive \cup Opened'
         /\ \A fd : HasNews(fd) => HasNews(fd)'
<1>1. c \in StConn /\ conn[c] = "backlog" /\ fdOf[c] = None
  BY DEF Backlog, StInv, DescriptorsFit
<1>2. StTypes /\ DescriptorsFit /\ IsFiniteSet(Opened) /\ nTotalClient = Cardinality(Opened)
  BY CountIsOpened DEF StInv
<1>3. CASE nTotalClient >= nConnectionMax \/ StFd \subseteq Opened \cup {Listen}
  <2>1. conn' = [conn EXCEPT ![c] = "closed"] /\ sent' = sent \ {c} /\ UNCHANGED <<fdOf, setActive, nTotalClient>>
    BY <1>3 DEF Accept
  <2>2. conn' \in [StConn -> ConnStates]
    BY <1>2, <2>1 DEF StTypes, ConnStates
  <2>3. \A d \in StConn : conn'[d] = "open" <=> conn[d] = "open"
    BY <1>1, <1>2, <2>1 DEF StTypes
  <2>4. DescriptorsFit' /\ Opened' = Opened /\ CountFits'
    BY <2>1, <2>2, <2>3, ConnectionsStand
  <2>5. \A d \in StConn : conn[d] = "open" => d # c
    BY <1>1
  <2>6. \A fd : HasNews(fd) => HasNews(fd)'
    BY <2>1, <2>3, <2>5 DEF HasNews
  <2>7. StTypes'
    BY <1>2, <2>1, <2>2 DEF StTypes
  <2>8. QED BY <2>1, <2>4, <2>6, <2>7
<1>4. CASE ~(nTotalClient >= nConnectionMax \/ StFd \subseteq Opened \cup {Listen})
  <2> DEFINE fd == Min(StFd \ (Opened \cup {Listen}))
  <2>1. /\ conn' = [conn EXCEPT ![c] = "open"] /\ fdOf' = [fdOf EXCEPT ![c] = fd]
        /\ setActive' = setActive \cup {fd} /\ nTotalClient' = nTotalClient + 1 /\ sent' = sent
    BY <1>4 DEF Accept
  <2>2. fd \in StFd \ (Opened \cup {Listen})
    BY <1>4, MinFacts
  <2> HIDE DEF fd
  <2>3. conn' \in [StConn -> ConnStates] /\ fdOf' \in [StConn -> StFd \cup {None}]
    BY <1>2, <2>1, <2>2 DEF StTypes, ConnStates
  <2>4. /\ conn'[c] = "open" /\ fdOf'[c] = fd
        /\ \A d \in StConn \ {c} : conn'[d] = conn[d] /\ fdOf'[d] = fdOf[d]
    BY <1>1, <1>2, <2>1 DEF StTypes
  <2>5. \A d \in StConn : conn[d] = "open" => fdOf[d] # fd /\ d # c
    BY <1>1, <2>2 DEF Opened
  <2>6. DescriptorsFit'
    BY <1>2, <2>2, <2>4, <2>5 DEF DescriptorsFit
  <2>7. Opened' = Opened \cup {fd}
    BY <1>1, <2>4, <2>5 DEF Opened
  <2>8. IsFiniteSet(Opened \cup {fd}) /\ Cardinality(Opened \cup {fd}) = Cardinality(Opened) + 1
    BY <1>2, <2>2, FS_AddElement
  <2>9. CountFits'
    BY <1>2, <2>1, <2>7, <2>8 DEF CountFits, TotalIsClients
  <2>10. nTotalClient' \in Int
    BY <1>2, <2>1 DEF StTypes
  <2>11. \A g : HasNews(g) => HasNews(g)'
    BY <2>1, <2>4, <2>5 DEF HasNews
  <2>12. StTypes'
    BY <1>2, <2>3, <2>10 DEF StTypes
  <2>13. QED BY <2>1, <2>6, <2>7, <2>9, <2>11, <2>12
<1>5. QED BY <1>3, <1>4

LEMMA AcceptSocket_Inv ==
  ASSUME StInv, AcceptSocket
  PROVE  StInv'
<1>1. stAt = "round" /\ UNCHANGED <<stAt, gone, serving>> /\ Next_fd = Listen
  BY DEF AcceptSocket
<1>2. CASE Backlog = {}
  <2>1. UNCHANGED <<conn, fdOf, sent, setActive, nTotalClient>> /\ setReadable' = setReadable \ {Listen}
    BY <1>2 DEF AcceptSocket
  <2>2. DescriptorsFit' /\ Opened' = Opened /\ CountFits'
    BY <1>1, <2>1, ConnectionsStand DEF StInv, StTypes
  <2>3. \A fd : HasNews(fd)' <=> HasNews(fd)
    BY <1>1, <2>1 DEF HasNews
  <2>4. SelectedAreOpen'
    BY <1>1, <2>1, <2>2, <2>3 DEF StInv, SelectedAreOpen
  <2>5. StTypes'
    BY <1>1, <2>1 DEF StInv, StTypes
  <2>6. QED BY <2>2, <2>4, <2>5 DEF StInv
<1>3. CASE Backlog # {}
  <2>1. PICK c \in Backlog : Accept(c)
    BY <1>3 DEF AcceptSocket
  <2>2. setReadable' = setReadable
    BY <1>3 DEF AcceptSocket
  <2>3. /\ StTypes' /\ DescriptorsFit' /\ CountFits'
        /\ Opened \subseteq Opened' /\ setActive \subseteq setActive' /\ setActive' \subseteq setActive \cup Opened'
        /\ \A fd : HasNews(fd) => HasNews(fd)'
    BY <1>1, <2>1, Accept_Kept
  <2>4. SelectedAreOpen'
    BY <1>1, <2>2, <2>3 DEF StInv, SelectedAreOpen
  <2>5. QED BY <2>3, <2>4 DEF StInv
<1>4. QED BY <1>2, <1>3

LEMMA DoReceiveNormalData_Inv ==
  ASSUME StInv, DoReceiveNormalData
  PROVE  StInv'
<1>1. /\ UNCHANGED <<conn, fdOf, gone, nTotalClient>> /\ stAt = "round" /\ stAt' = "serving" /\ serving' = Next_fd
      /\ setReadable' = setReadable \ {Next_fd} /\ setActive' = setActive \ {Next_fd}
      /\ sent' = sent \ {ConnOf(Next_fd)} /\ setReadable # {} /\ Next_fd # Listen
  BY DEF DoReceiveNormalData
<1>2. Next_fd \in setReadable
  BY <1>1, MinFacts DEF Next_fd, StInv, SelectedAreOpen
<1>3. PICK c \in StConn : conn[c] = "open" /\ fdOf[c] = Next_fd
  BY <1>1, <1>2 DEF StInv, SelectedAreOpen, HasNews
<1>4. ConnOf(Next_fd) = c
  BY <1>3, ConnOfFacts DEF StInv
<1>5. DescriptorsFit' /\ Opened' = Opened /\ CountFits'
  BY <1>1, ConnectionsStand DEF StInv, StTypes
<1>6. ASSUME NEW fd, fd # Next_fd, HasNews(fd) PROVE HasNews(fd)'
  <2>1. PICK d \in StConn : conn[d] = "open" /\ fdOf[d] = fd /\ d \in sent \cup gone
    BY <1>6 DEF HasNews
  <2>2. d # c
    BY <1>3, <1>6, <2>1
  <2>3. QED BY <1>1, <1>4, <2>1, <2>2 DEF HasNews
<1>7. Next_fd \in Opened
  BY <1>3 DEF Opened
<1>8. SelectedAreOpen'
  BY <1>1, <1>2, <1>5, <1>6, <1>7 DEF StInv, SelectedAreOpen
<1>9. StTypes'
  BY <1>1 DEF StInv, StTypes, StPlaces
<1>10. QED BY <1>5, <1>8, <1>9 DEF StInv

LEMMA HandlerReturns_Inv ==
  ASSUME StInv, HandlerReturns
  PROVE  StInv'
<1>1. stAt = "serving" /\ stAt' = "round" /\ UNCHANGED <<gone, setReadable>>
  BY DEF HandlerReturns
<1>2. serving \in Opened /\ serving \notin setReadable /\ serving \notin setActive /\ Opened \subseteq StFd /\ Listen \notin Opened
  BY <1>1, OpenedFacts DEF StInv, SelectedAreOpen
<1>3. CASE Destroy({serving}) /\ setActive' = setActive
  <2>1. {serving} \subseteq Opened /\ {serving} \subseteq StFd
    BY <1>2
  <2>2. /\ conn' \in [StConn -> ConnStates] /\ fdOf' \in [StConn -> StFd \cup {None}]
        /\ DescriptorsFit' /\ Opened' = Opened \ {serving}
        /\ \A fd : fd \notin {serving} /\ HasNews(fd) /\ gone' = gone => HasNews(fd)'
    BY <1>3, <2>1, Destroy_Kept DEF StInv
  <2>3. IsFiniteSet(Opened') /\ nTotalClient' = Cardinality(Opened') /\ nTotalClient' \in Int
    BY <1>1, <1>3, <2>1, FewerClients
  <2>4. setActive' \subseteq Opened' \cup {Listen} /\ Listen \in setActive'
    BY <1>1, <1>2, <1>3, <2>2 DEF StInv, SelectedAreOpen
  <2>5. \A fd \in setReadable' \ {Listen} : HasNews(fd)'
    BY <1>1, <1>2, <2>2 DEF StInv, SelectedAreOpen
  <2>6. SelectedAreOpen'
    BY <1>1, <2>4, <2>5 DEF StInv, SelectedAreOpen
  <2>7. StTypes'
    BY <1>1, <2>2, <2>3 DEF StTypes, StPlaces
  <2>8. CountFits'
    BY <1>1, <2>3 DEF CountFits, TotalIsClients
  <2>9. QED BY <2>2, <2>6, <2>7, <2>8 DEF StInv
<1>4. CASE setActive' = Again /\ UNCHANGED <<conn, fdOf, sent, nTotalClient>>
  <2>1. DescriptorsFit' /\ Opened' = Opened /\ CountFits'
    BY <1>1, <1>4, ConnectionsStand DEF StInv, StTypes
  <2>2. \A fd : HasNews(fd)' <=> HasNews(fd)
    BY <1>1, <1>4 DEF HasNews
  <2>3. SelectedAreOpen'
    BY <1>1, <1>2, <1>4, <2>1, <2>2 DEF StInv, SelectedAreOpen, Again
  <2>4. StTypes'
    BY <1>1, <1>4 DEF StInv, StTypes, StPlaces
  <2>5. QED BY <2>1, <2>3, <2>4 DEF StInv
<1>5. CASE UNCHANGED <<conn, fdOf, sent, nTotalClient, setActive>>
  <2>1. DescriptorsFit' /\ Opened' = Opened /\ CountFits'
    BY <1>1, <1>5, ConnectionsStand DEF StInv, StTypes
  <2>2. \A fd : HasNews(fd)' <=> HasNews(fd)
    BY <1>1, <1>5 DEF HasNews
  <2>3. SelectedAreOpen'
    BY <1>1, <1>2, <1>5, <2>1, <2>2 DEF StInv, SelectedAreOpen
  <2>4. StTypes'
    BY <1>1, <1>5 DEF StInv, StTypes, StPlaces
  <2>5. QED BY <2>1, <2>3, <2>4 DEF StInv
<1>6. QED BY <1>3, <1>4, <1>5 DEF HandlerReturns

LEMMA STRoundEnds_Inv ==
  ASSUME StInv, STRoundEnds
  PROVE  StInv'
<1>1. /\ stAt = "round" /\ stAt' = "select" /\ setReadable = {}
      /\ UNCHANGED <<conn, fdOf, sent, gone, setActive, setReadable, serving, nTotalClient>>
  BY DEF STRoundEnds
<1>2. DescriptorsFit' /\ Opened' = Opened /\ CountFits'
  BY <1>1, ConnectionsStand DEF StInv, StTypes
<1>3. SelectedAreOpen'
  BY <1>1, <1>2 DEF StInv, SelectedAreOpen
<1>4. StTypes'
  BY <1>1 DEF StInv, StTypes, StPlaces
<1>5. QED BY <1>2, <1>3, <1>4 DEF StInv

\* Go ends: the listening socket is counted as a client that leaves.
LEMMA GoReturns_Inv ==
  ASSUME StInv, GoReturns
  PROVE  StInv'
<1>1. /\ stAt = "select" /\ stAt' = "ended" /\ Destroy(setActive) /\ setActive' = {}
      /\ UNCHANGED <<gone, setReadable, serving>>
  BY DEF GoReturns
<1>2. /\ Opened \subseteq StFd /\ Listen \notin Opened /\ Listen \in setActive
      /\ setActive \subseteq Opened \cup {Listen} /\ Listen \in StFd
  BY <1>1, OpenedFacts, STAssumption DEF StInv, SelectedAreOpen
<1>3. /\ conn' \in [StConn -> ConnStates] /\ fdOf' \in [StConn -> StFd \cup {None}]
      /\ DescriptorsFit' /\ Opened' = Opened \ setActive
  BY <1>1, <1>2, Destroy_Kept DEF StInv
<1>4. IsFiniteSet(Opened) /\ nTotalClient = Cardinality(Opened)
  BY <1>1, CountIsOpened
<1>5. IsFiniteSet(Opened \ setActive) /\ Cardinality(Opened \ setActive) = Cardinality(Opened) - Cardinality(Opened \cap setActive)
  BY <1>4, FS_Difference
<1>6. setActive = (Opened \cap setActive) \cup {Listen} /\ Listen \notin Opened \cap setActive
  BY <1>2
<1>7. IsFiniteSet(Opened \cap setActive)
  BY <1>4, FS_Intersection
<1>8. Cardinality(setActive) = Cardinality(Opened \cap setActive) + 1
  BY <1>6, <1>7, FS_AddElement
<1>9. Cardinality(Opened) \in Nat /\ Cardinality(Opened \cap setActive) \in Nat
  BY <1>4, <1>7, FS_CardinalityType
<1>10. nTotalClient' = nTotalClient - Cardinality(setActive)
  BY <1>1 DEF Destroy, CountWithout
<1>11. nTotalClient' = Cardinality(Opened \ setActive) - 1 /\ nTotalClient' \in Int
  BY <1>4, <1>5, <1>8, <1>9, <1>10
<1>12. CountFits'
  BY <1>1, <1>3, <1>5, <1>11 DEF CountFits, TotalIsClients
<1>13. SelectedAreOpen'
  BY <1>1 DEF StInv, SelectedAreOpen
<1>14. StTypes'
  BY <1>1, <1>3, <1>11 DEF StTypes, StPlaces
<1>15. QED BY <1>3, <1>12, <1>13, <1>14 DEF StInv

LEMMA STNext_Inv == StInv /\ [STNext]_stVars => StInv'
<1> SUFFICES ASSUME StInv, [STNext]_stVars PROVE StInv'
  OBVIOUS
<1>1. CASE Clients \/ Shutdown \/ UNCHANGED stVars
  BY <1>1, Clients_Inv
<1>2. CASE STSelect
  BY <1>2, STSelect_Inv
<1>3. CASE SelectTimeout
  BY <1>3, SelectTimeout_Inv
<1>4. CASE AcceptSocket
  BY <1>4, AcceptSocket_Inv
<1>5. CASE DoReceiveNormalData
  BY <1>5, DoReceiveNormalData_Inv
<1>6. CASE HandlerReturns
  BY <1>6, HandlerReturns_Inv
<1>7. CASE STRoundEnds
  BY <1>7, STRoundEnds_Inv
<1>8. CASE GoReturns
  BY <1>8, GoReturns_Inv
<1>9. QED BY <1>1, <1>2, <1>3, <1>4, <1>5, <1>6, <1>7, <1>8 DEF STNext, Go, Returned

(* The server of one thread counts the connections it has, but for the     *)
(* listening socket it destroys as a client when Go ends; and it never     *)
(* turns to a connection on which there is nothing to be read, whatever    *)
(* is closed, accepted and given the same descriptor within a round.       *)
THEOREM OneThreadServesReady == STSpec => [](TotalIsClients /\ NeverWaits)
<1>1. STInit => StInv
  BY STInit_Inv
<1>2. StInv /\ [STNext]_stVars => StInv'
  BY STNext_Inv
<1>3. StInv => TotalIsClients /\ NeverWaits
  <2> SUFFICES ASSUME StInv PROVE TotalIsClients /\ NeverWaits
    OBVIOUS
  <2>1. TotalIsClients /\ setActive \subseteq Opened \cup {Listen}
    BY DEF StInv, CountFits, SelectedAreOpen
  <2>2. ASSUME NEW fd \in setReadable \ {Listen} PROVE fd \in Opened /\ ConnOf(fd) \in sent \cup gone
    <3>1. HasNews(fd)
      BY <2>2 DEF StInv, SelectedAreOpen
    <3>2. fd \in Opened
      BY <3>1 DEF HasNews, Opened
    <3>3. QED BY <3>1, <3>2, NewsOfReady DEF StInv
  <2>3. QED BY <2>1, <2>2 DEF NeverWaits
<1>4. QED BY <1>1, <1>2, <1>3, PTL DEF STSpec

-----------------------------------------------------------------------------
(* The lock of the bulletin board. *)

USE OwnerAssumption, SemVMXAssumption

(* A thread inside is on the record of its process, however many locks     *)
(* were taken before: that is why the end of a process frees the lock.     *)
InsideIsRecorded == \A t \in Inside : semadj[Owner[t]] >= 1

(* While the semaphore is intact it counts: free and nobody inside, or     *)
(* taken by one thread.                                                    *)
Counts ==
  \/ semval = 1 /\ Inside = {}
  \/ semval = 0 /\ \E t \in Thread : Inside = {t}

IInv == TypeOK /\ InsideIsRecorded /\ NeverLost /\ (intact => Counts)

LEMMA InitIInv == Init => IInv
BY DEF Init, InitialValue, IInv, TypeOK, Place, InsideIsRecorded, NeverLost, Counts, Inside

LEMMA LockKeeps ==
  ASSUME IInv, NEW t \in Thread, Lock(t)
  PROVE  IInv'
<1> USE DEF IInv, UndoOfLock
<1>1. /\ semval' = semval - 1 /\ semval >= 1 /\ semval \in 0 .. SemVMX
      /\ at' = [at EXCEPT ![t] = "in"] /\ at[t] = "out" /\ intact' = intact
  BY DEF Lock, TypeOK
<1>2. /\ Owner[t] \in Process
      /\ semadj' = [semadj EXCEPT ![Owner[t]] = semadj[Owner[t]] + 1]
      /\ semadj[Owner[t]] + 1 <= SemVMX
  BY DEF Lock
<1>3. TypeOK'
  BY <1>1, <1>2 DEF TypeOK, Place
<1>4. Inside' = Inside \cup {t}
  BY <1>1 DEF Inside, TypeOK
<1>5. InsideIsRecorded'
  BY <1>2, <1>4 DEF InsideIsRecorded, TypeOK, Inside
<1>6. NeverLost'
  BY <1>4 DEF NeverLost
<1>7. intact' => Counts'
  BY <1>1, <1>4 DEF Counts
<1>8. QED BY <1>3, <1>5, <1>6, <1>7

LEMMA UnlockKeeps ==
  ASSUME IInv, NEW t \in Thread, Unlock(t)
  PROVE  IInv'
<1> USE DEF IInv
<1>1. /\ semval' = IF semval < SemVMX THEN semval + 1 ELSE semval
      /\ at' = [at EXCEPT ![t] = "out"] /\ at[t] = "in"
      /\ UNCHANGED <<semadj, intact>>
  BY DEF Unlock
<1>2. TypeOK' /\ semval' >= 1
  BY <1>1 DEF TypeOK, Place
<1>3. Inside' = Inside \ {t} /\ t \in Inside
  BY <1>1 DEF Inside, TypeOK
<1>4. InsideIsRecorded' /\ NeverLost'
  BY <1>1, <1>2, <1>3 DEF InsideIsRecorded, NeverLost
<1>5. intact' => Counts'
  BY <1>1, <1>3 DEF Counts
<1>6. QED BY <1>2, <1>4, <1>5

LEMMA ExitKeeps ==
  ASSUME IInv, NEW p \in Process, Exit(p)
  PROVE  IInv'
<1> USE DEF IInv
<1>1. /\ semval' = IF semval + semadj[p] < SemVMX THEN semval + semadj[p] ELSE SemVMX
      /\ at' = [t \in Thread |-> IF Owner[t] = p THEN "ended" ELSE at[t]]
      /\ semadj' = [semadj EXCEPT ![p] = 0]
      /\ intact' = (intact /\ semadj[p] = IF \E t \in Inside : Owner[t] = p THEN 1 ELSE 0)
  BY DEF Exit
<1>2. semval \in 0 .. SemVMX /\ semadj[p] \in 0 .. SemVMX
  BY DEF TypeOK
<1>3. TypeOK'
  BY <1>1, <1>2 DEF TypeOK, Place
<1>4. Inside' = {t \in Inside : Owner[t] # p}
  BY <1>1 DEF Inside
<1>5. InsideIsRecorded'
  BY <1>1, <1>4 DEF InsideIsRecorded, TypeOK, Inside
<1>6. NeverLost'
  <2>1. SUFFICES ASSUME semval' = 0
                 PROVE  Inside' # {}
    BY DEF NeverLost
  <2>2. semval = 0 /\ semadj[p] = 0
    BY <1>1, <1>2, <2>1
  <2>3. \A t \in Inside : Owner[t] # p
    BY <2>2 DEF InsideIsRecorded
  <2>4. QED BY <1>4, <2>2, <2>3 DEF NeverLost
<1>7. intact' => Counts'
  <2>1. SUFFICES ASSUME intact, Counts,
                        semadj[p] = IF \E t \in Inside : Owner[t] = p THEN 1 ELSE 0
                 PROVE  Counts'
    BY <1>1
  <2>2. CASE \E t \in Inside : Owner[t] = p
    <3>1. semadj[p] = 1 /\ semval = 0 /\ Inside' = {}
      BY <1>4, <2>1, <2>2 DEF Counts
    <3>2. semval' = 1
      BY <1>1, <3>1
    <3>3. QED BY <3>1, <3>2 DEF Counts
  <2>3. CASE ~ \E t \in Inside : Owner[t] = p
    <3>1. semadj[p] = 0 /\ Inside' = Inside
      BY <1>4, <2>1, <2>3
    <3>2. semval' = semval
      BY <1>1, <1>2, <3>1
    <3>3. QED BY <2>1, <3>1, <3>2 DEF Counts
  <2>4. QED BY <2>2, <2>3
<1>8. QED BY <1>3, <1>5, <1>6, <1>7

(* Being turned away, giving up and starting afresh leave the semaphore    *)
(* and those inside alone.                                                 *)
LEMMA OutsideKeeps ==
  ASSUME IInv, at' \in [Thread -> Place], Inside' = Inside,
         UNCHANGED <<semval, semadj, intact>>
  PROVE  IInv'
BY DEF IInv, TypeOK, InsideIsRecorded, NeverLost, Counts

LEMMA NextIInv ==
  ASSUME IInv, [Next]_vars
  PROVE  IInv'
<1>1. ASSUME NEW t \in Thread, LockRefused(t) \/ GiveUp(t)
      PROVE  IInv'
  <2>1. at' \in [Thread -> Place] /\ Inside' = Inside
    BY <1>1 DEF LockRefused, GiveUp, Inside, IInv, TypeOK, Place
  <2>2. QED BY <1>1, <2>1, OutsideKeeps DEF LockRefused, GiveUp
<1>2. ASSUME NEW p \in Process, Fork(p)
      PROVE  IInv'
  <2>1. at' \in [Thread -> Place] /\ Inside' = Inside
    BY <1>2 DEF Fork, Inside, IInv, TypeOK, Place
  <2>2. QED BY <1>2, <2>1, OutsideKeeps DEF Fork
<1>3. CASE UNCHANGED vars
  <2>1. at' \in [Thread -> Place] /\ Inside' = Inside
    BY <1>3 DEF vars, Inside, IInv, TypeOK
  <2>2. QED BY <1>3, <2>1, OutsideKeeps DEF vars
<1>4. QED
  BY <1>1, <1>2, <1>3, LockKeeps, UnlockKeeps, ExitKeeps DEF Next

LEMMA AlwaysIInv == Spec => []IInv
BY InitIInv, NextIInv, PTL DEF Spec

(* The semaphore and the records stay within the kernel's limits.          *)
THEOREM TypeCorrect == Spec => []TypeOK
<1>1. IInv => TypeOK
  BY DEF IInv
<1>2. QED BY <1>1, AlwaysIInv, PTL

(* Synchronized(m_nSEMID) excludes for as long as no process ends that had *)
(* completed an operation, whatever the number of processes and threads;   *)
(* the proof fails at Exit without that condition.                         *)
THEOREM ExclusiveUntilExit == Spec => []ExclusiveWhileIntact
<1>1. IInv => ExclusiveWhileIntact
  BY DEF IInv, Counts, ExclusiveWhileIntact, Exclusive, Inside
<1>2. QED BY <1>1, AlwaysIInv, PTL

(* A process that is killed inside an operation never takes the lock with  *)
(* it: SEM_UNDO on Lock alone is enough for that.                          *)
THEOREM LockIsNeverLost == Spec => []NeverLost
<1>1. IInv => NeverLost
  BY DEF IInv
<1>2. QED BY <1>1, AlwaysIInv, PTL

(* Both together: Synchronized(m_nSEMID) excludes until a process ends, and*)
(* whatever ends, the lock is not lost with it.                            *)
THEOREM LockIsKept == Spec => []LockKept
<1>1. IInv => ExclusiveWhileIntact /\ NeverLost
  BY DEF IInv, Counts, ExclusiveWhileIntact, Exclusive, Inside
<1>2. IInv => LockKept
  BY <1>1 DEF LockKept
<1>3. QED BY <1>2, AlwaysIInv, PTL

-----------------------------------------------------------------------------
(* The network server.  A connection is in one of five places: it is       *)
(* selected, waits to be read, is in a thread's hand, or in the pipe on    *)
(* its way back to be selected or to be closed.  Counting it in all of     *)
(* them, as OnePlace does, comes to saying that nothing is twice in one    *)
(* place, that the places are apart, and that together they are what is    *)
(* known: open, and not forgotten.                                         *)

Message == [type : {"ADD_FD", "REMOVE_FD", "EXIT_THREAD", "WRITE_DATA_TO_CLIENT"},
            fd : Fd \cup {NoFd}]
Carried == {"ADD_FD", "REMOVE_FD"}
NetPlace == {"none", "created", "waiting", "holding", "select", "serving", "writing"}

NetTypes ==
  /\ thread \in [Worker -> NetPlace]
  /\ hand \in [Worker -> Fd \cup {NoFd}]
  /\ active \subseteq Fd /\ forgotten \subseteq open
  /\ readable \in Seq(Fd) /\ pipe \in Seq(Message)
  /\ totalClient \in Int /\ leaked \in Nat

(* A thread has a descriptor while it serves or writes, and only then.     *)
HandInv == \A w \in Worker : hand[w] # NoFd <=> thread[w] \in {"serving", "writing"}

ToRead  == {fd \in Fd : \E k \in DOMAIN readable : readable[k] = fd}
InHand  == {fd \in Fd : \E w \in Worker : hand[w] = fd}
ComesBack == Queued("ADD_FD")
ToClose == Queued("REMOVE_FD")

ReadOnce == \A i, j \in DOMAIN readable : readable[i] = readable[j] => i = j
HandOnce == \A v, w \in Worker : hand[v] = hand[w] /\ hand[v] # NoFd => v = w
PipeOnce ==
  /\ \A i, j \in DOMAIN pipe : pipe[i] = pipe[j] /\ pipe[i].type \in Carried => i = j
  /\ \A i \in DOMAIN pipe : pipe[i].type \in Carried => pipe[i].fd \in Fd

Apart ==
  /\ active \cap (ToRead \cup InHand \cup ComesBack \cup ToClose) = {}
  /\ ToRead \cap (InHand \cup ComesBack \cup ToClose) = {}
  /\ InHand \cap (ComesBack \cup ToClose) = {}
  /\ ComesBack \cap ToClose = {}
  /\ Known = active \cup ToRead \cup InHand \cup ComesBack \cup ToClose

NetInv ==
  /\ NetTypes /\ HandInv /\ ReadOnce /\ HandOnce /\ PipeOnce /\ Apart
  /\ CountIsClients

LEMMA NetInitInv == NetInit => NetInv
<1> SUFFICES ASSUME NetInit
             PROVE  NetInv
  OBVIOUS
<1>1. NetTypes
  BY NetServerAssumption DEF NetInit, NetTypes, NetPlace
<1>2. HandInv /\ HandOnce /\ InHand = {}
  BY NetServerAssumption DEF NetInit, HandInv, HandOnce, InHand
<1>3. /\ ReadOnce /\ ToRead = {}
      /\ PipeOnce /\ ComesBack = {} /\ ToClose = {}
  BY DEF NetInit, ReadOnce, ToRead, PipeOnce, ComesBack, ToClose, Queued
<1>4. Apart
  BY <1>2, <1>3 DEF NetInit, Apart, Known
<1>5. Known \ ToClose = {} /\ Cardinality({}) = 0
  BY FS_EmptySet DEF NetInit, Known
<1>6. CountIsClients
  <2>1. Cardinality(Known \ ToClose) = 0
    BY <1>5, Zenon
  <2>2. totalClient = 0 /\ leaked = 0
    BY DEF NetInit
  <2>3. QED BY <2>1, <2>2, NetServerAssumption DEF CountIsClients, ToClose
<1>7. QED BY <1>1, <1>2, <1>3, <1>4, <1>6 DEF NetInv

-----------------------------------------------------------------------------
(* What becomes of each place.                                             *)

(* A message is written into the pipe.                                     *)
LEMMA Appended ==
  ASSUME NetTypes, PipeOnce, NEW m \in Message, pipe' = Append(pipe, m),
         m.type = "ADD_FD" => m.fd \in Fd \ ComesBack,
         m.type # "REMOVE_FD"
  PROVE  /\ pipe' \in Seq(Message) /\ PipeOnce'
         /\ ComesBack' = ComesBack \cup IF m.type = "ADD_FD" THEN {m.fd} ELSE {}
         /\ ToClose' = ToClose
<1>1. /\ pipe' \in Seq(Message) /\ DOMAIN pipe = 1 .. Len(pipe)
      /\ DOMAIN pipe' = 1 .. Len(pipe) + 1 /\ Len(pipe) \in Nat
      /\ \A i \in DOMAIN pipe : pipe'[i] = pipe[i] /\ i \in DOMAIN pipe'
      /\ pipe'[Len(pipe) + 1] = m
      /\ \A i \in DOMAIN pipe' : i \in DOMAIN pipe \/ i = Len(pipe) + 1
  BY AppendProperties, LenProperties DEF NetTypes
<1>2. m.type = "ADD_FD" => \A i \in DOMAIN pipe : pipe[i] # m
  <2>1. SUFFICES ASSUME m.type = "ADD_FD", NEW i \in DOMAIN pipe, pipe[i] = m
                 PROVE  FALSE
    OBVIOUS
  <2>2. m = Msg("ADD_FD", m.fd)
    BY <2>1 DEF Message, Msg
  <2>3. QED BY <2>1, <2>2 DEF ComesBack, Queued
<1>3. PipeOnce'
  <2>1. ASSUME NEW i \in DOMAIN pipe', NEW j \in DOMAIN pipe', pipe'[i] = pipe'[j], pipe'[i].type \in Carried
        PROVE  i = j
    <3>1. CASE i \in DOMAIN pipe /\ j \in DOMAIN pipe
      BY <1>1, <2>1, <3>1 DEF PipeOnce
    <3>2. CASE i = Len(pipe) + 1 \/ j = Len(pipe) + 1
      <4>1. m.type = "ADD_FD"
        BY <1>1, <2>1, <3>2 DEF Carried
      <4>2. QED BY <1>1, <1>2, <2>1, <3>2, <4>1
    <3>3. QED BY <1>1, <3>1, <3>2
  <2>2. ASSUME NEW i \in DOMAIN pipe', pipe'[i].type \in Carried
        PROVE  pipe'[i].fd \in Fd
    BY <1>1, <2>2 DEF PipeOnce, Carried
  <2>3. QED BY <2>1, <2>2 DEF PipeOnce
<1>4. ASSUME NEW type \in Carried
      PROVE  Queued(type)' = Queued(type) \cup IF m.type = type THEN {m.fd} ELSE {}
  <2>1. ASSUME NEW fd \in Fd
        PROVE  (\E k \in DOMAIN pipe' : pipe'[k] = Msg(type, fd))
                 <=> (\E k \in DOMAIN pipe : pipe[k] = Msg(type, fd)) \/ m = Msg(type, fd)
    BY <1>1
  <2>2. \A fd \in Fd : m = Msg(type, fd) <=> m.type = type /\ m.fd = fd
    BY DEF Message, Msg
  <2>3. m.type = type => m.fd \in Fd
    BY DEF Carried
  <2>4. QED BY <2>1, <2>2, <2>3 DEF Queued
<1>5. QED BY <1>1, <1>3, <1>4 DEF ComesBack, ToClose, Carried

(* The selecting thread reads a message out of it.                         *)
LEMMA Popped ==
  ASSUME NetTypes, PipeOnce, pipe' = IF pipe = <<>> THEN pipe ELSE Tail(pipe)
  PROVE  /\ pipe' \in Seq(Message) /\ PipeOnce'
         /\ ComesBack' = ComesBack \ FirstOf("ADD_FD") /\ FirstOf("ADD_FD") \subseteq ComesBack
         /\ ToClose' = ToClose \ FirstOf("REMOVE_FD") /\ FirstOf("REMOVE_FD") \subseteq ToClose
<1>1. CASE pipe = <<>>
  BY <1>1 DEF NetTypes, PipeOnce, ComesBack, ToClose, Queued, FirstOf
<1>2. CASE pipe # <<>>
  <2>1. /\ pipe' = Tail(pipe) /\ pipe' \in Seq(Message)
        /\ Len(pipe) \in Nat \ {0} /\ DOMAIN pipe = 1 .. Len(pipe)
        /\ DOMAIN pipe' = 1 .. Len(pipe) - 1
        /\ \A i \in DOMAIN pipe' : pipe'[i] = pipe[i + 1] /\ i + 1 \in DOMAIN pipe
        /\ \A i \in DOMAIN pipe : i = 1 \/ (i - 1 \in DOMAIN pipe' /\ pipe'[i - 1] = pipe[i])
    BY <1>2, HeadTailProperties, LenProperties, EmptySeq DEF NetTypes
  <2>2. 1 \in DOMAIN pipe /\ Head(pipe) = pipe[1] /\ pipe[1] \in Message
    BY <1>2, <2>1, HeadTailProperties DEF NetTypes
  <2>3. PipeOnce'
    <3>1. ASSUME NEW i \in DOMAIN pipe', NEW j \in DOMAIN pipe', pipe'[i] = pipe'[j], pipe'[i].type \in Carried
          PROVE  i = j
      <4>1. i + 1 = j + 1
        BY <2>1, <3>1 DEF PipeOnce
      <4>2. QED BY <2>1, <4>1
    <3>2. ASSUME NEW i \in DOMAIN pipe', pipe'[i].type \in Carried
          PROVE  pipe'[i].fd \in Fd
      BY <2>1, <3>2 DEF PipeOnce
    <3>3. QED BY <3>1, <3>2 DEF PipeOnce
  <2>4. ASSUME NEW type \in Carried
        PROVE  Queued(type)' = Queued(type) \ FirstOf(type) /\ FirstOf(type) \subseteq Queued(type)
    <3>1. FirstOf(type) = IF pipe[1].type = type THEN {pipe[1].fd} ELSE {}
      BY <1>2, <2>2 DEF FirstOf
    <3>2. \A fd \in Fd : pipe[1] = Msg(type, fd) <=> pipe[1].type = type /\ pipe[1].fd = fd
      BY <2>2 DEF Message, Msg
    <3>3. pipe[1].type = type => pipe[1].fd \in Fd
      BY <2>2 DEF PipeOnce
    <3>4. ASSUME NEW fd \in Fd
          PROVE  (\E k \in DOMAIN pipe' : pipe'[k] = Msg(type, fd))
                   <=> (\E k \in DOMAIN pipe : pipe[k] = Msg(type, fd)) /\ pipe[1] # Msg(type, fd)
      <4>1. Msg(type, fd).type \in Carried
        BY DEF Msg
      <4>2. \A k \in DOMAIN pipe : pipe[k] = Msg(type, fd) /\ pipe[1] = Msg(type, fd) => k = 1
        BY <2>2, <4>1 DEF PipeOnce
      <4>3. \A k \in DOMAIN pipe' : pipe'[k] = Msg(type, fd) => pipe[1] # Msg(type, fd)
        <5>1. SUFFICES ASSUME NEW k \in DOMAIN pipe', pipe'[k] = Msg(type, fd), pipe[1] = Msg(type, fd)
                       PROVE  FALSE
          OBVIOUS
        <5>2. k + 1 = 1
          BY <2>1, <4>2, <5>1
        <5>3. QED BY <2>1, <5>2
      <4>4. QED BY <2>1, <2>2, <4>2, <4>3
    <3>5. QED BY <2>2, <3>1, <3>2, <3>3, <3>4 DEF Queued
  <2>5. QED BY <2>1, <2>3, <2>4 DEF ComesBack, ToClose, Carried
<1>3. QED BY <1>1, <1>2

(* A thread takes a descriptor, and puts it down.                          *)
LEMMA Taken ==
  ASSUME NetTypes, HandOnce, NEW w \in Worker, hand[w] = NoFd, NEW fd \in Fd \ InHand,
         hand' = [hand EXCEPT ![w] = fd]
  PROVE  hand' \in [Worker -> Fd \cup {NoFd}] /\ HandOnce' /\ InHand' = InHand \cup {fd}
<1>1. fd # NoFd /\ NoFd \notin Fd
  BY NetServerAssumption
<1>2. \A v \in Worker : hand[v] # fd
  BY DEF InHand
<1>3. /\ hand' \in [Worker -> Fd \cup {NoFd}] /\ hand'[w] = fd
      /\ \A v \in Worker \ {w} : hand'[v] = hand[v]
  BY DEF NetTypes
<1>4. HandOnce'
  BY <1>1, <1>2, <1>3 DEF HandOnce
<1>5. InHand' = InHand \cup {fd}
  BY <1>1, <1>2, <1>3 DEF InHand
<1>6. QED BY <1>3, <1>4, <1>5

LEMMA PutDown ==
  ASSUME NetTypes, HandOnce, NEW w \in Worker, hand[w] # NoFd,
         hand' = [hand EXCEPT ![w] = NoFd]
  PROVE  /\ hand' \in [Worker -> Fd \cup {NoFd}] /\ HandOnce'
         /\ InHand' = InHand \ {hand[w]} /\ hand[w] \in InHand
<1>1. NoFd \notin Fd
  BY NetServerAssumption
<1>2. /\ hand' \in [Worker -> Fd \cup {NoFd}] /\ hand'[w] = NoFd /\ hand[w] \in Fd
      /\ \A v \in Worker \ {w} : hand'[v] = hand[v]
  BY DEF NetTypes
<1>3. HandOnce'
  BY <1>1, <1>2 DEF HandOnce
<1>4. \A v \in Worker \ {w} : hand[v] # hand[w]
  BY <1>2 DEF HandOnce
<1>5. InHand' = InHand \ {hand[w]} /\ hand[w] \in InHand
  BY <1>1, <1>2, <1>4 DEF InHand
<1>6. QED BY <1>2, <1>3, <1>5

(* What select has found ready is put behind what waits already.           *)
LEMMA FoundReady ==
  ASSUME NetTypes, ReadOnce, NEW S \in SUBSET Fd, S \cap ToRead = {},
         NEW fds \in InOrder(S), readable' = readable \o fds
  PROVE  readable' \in Seq(Fd) /\ ReadOnce' /\ ToRead' = ToRead \cup S
<1>1. IsFiniteSet(S) /\ Cardinality(S) \in Nat
  BY NetServerAssumption, FS_Subset, FS_CardinalityType
<1>2. /\ fds \in Seq(Fd) /\ Len(fds) = Cardinality(S) /\ DOMAIN fds = 1 .. Len(fds)
      /\ \A i \in DOMAIN fds : fds[i] \in S
      /\ \A i, j \in DOMAIN fds : i < j => fds[i] < fds[j]
      /\ \A fd \in S : \E i \in DOMAIN fds : fds[i] = fd
  <2>1. /\ fds \in [1 .. Cardinality(S) -> S]
        /\ \A i, j \in DOMAIN fds : i < j => fds[i] < fds[j]
        /\ \A fd \in S : \E i \in DOMAIN fds : fds[i] = fd
    BY DEF InOrder
  <2>2. fds \in [1 .. Cardinality(S) -> Fd]
    BY <2>1
  <2>3. fds \in Seq(Fd)
    BY <1>1, <2>2, SeqDef
  <2>4. DOMAIN fds = 1 .. Len(fds) /\ Len(fds) \in Nat
    BY <2>3, LenProperties
  <2>5. DOMAIN fds = 1 .. Cardinality(S)
    BY <2>1
  <2>6. Len(fds) = Cardinality(S)
    BY <1>1, <2>4, <2>5
  <2>7. QED BY <2>1, <2>3, <2>4, <2>6
<1>3. /\ readable' \in Seq(Fd)
      /\ Len(readable) \in Nat /\ DOMAIN readable = 1 .. Len(readable)
      /\ DOMAIN readable' = 1 .. Len(readable) + Len(fds) /\ Len(fds) \in Nat
      /\ \A i \in DOMAIN readable' :
            readable'[i] = IF i <= Len(readable) THEN readable[i] ELSE fds[i - Len(readable)]
  BY <1>1, <1>2, ConcatProperties, LenProperties DEF NetTypes
<1>4. \A i \in DOMAIN readable' : \/ i \in DOMAIN readable /\ readable'[i] = readable[i]
                                 \/ /\ i > Len(readable) /\ i - Len(readable) \in DOMAIN fds
                                    /\ readable'[i] = fds[i - Len(readable)]
  BY <1>2, <1>3
<1>5. \A i \in DOMAIN readable : readable[i] \in ToRead
  BY <1>3, ElementOfSeq DEF ToRead, NetTypes
<1>6. \A i, j \in DOMAIN fds : fds[i] = fds[j] => i = j
  <2>1. \A i \in DOMAIN fds : fds[i] \in Nat
    BY <1>2, NetServerAssumption
  <2>2. QED BY <1>2, <2>1
<1>7. ReadOnce'
  <2>1. SUFFICES ASSUME NEW i \in DOMAIN readable', NEW j \in DOMAIN readable', readable'[i] = readable'[j]
                 PROVE  i = j
    BY DEF ReadOnce
  <2>2. CASE i \in DOMAIN readable /\ j \in DOMAIN readable
    BY <1>3, <2>1, <2>2 DEF ReadOnce
  <2>3. CASE i \notin DOMAIN readable /\ j \notin DOMAIN readable
    <3>1. i - Len(readable) = j - Len(readable)
      BY <1>4, <1>6, <2>1, <2>3
    <3>2. QED BY <1>3, <3>1
  <2>4. ASSUME NEW x \in DOMAIN readable', NEW y \in DOMAIN readable',
               x \in DOMAIN readable, y \notin DOMAIN readable, readable'[x] = readable'[y]
        PROVE  FALSE
    <3>1. readable'[x] \in ToRead
      BY <1>3, <1>5, <2>4
    <3>2. readable'[y] \in S
      BY <1>2, <1>4, <2>4
    <3>3. QED BY <2>4, <3>1, <3>2
  <2>5. QED BY <2>1, <2>2, <2>3, <2>4
<1>8. ToRead' = ToRead \cup S
  <2>1. \A i \in DOMAIN readable' : readable'[i] \in ToRead \cup S
    BY <1>2, <1>4, <1>5
  <2>2. ASSUME NEW fd \in ToRead
        PROVE  \E i \in DOMAIN readable' : readable'[i] = fd
    <3>1. PICK i \in DOMAIN readable : readable[i] = fd
      BY DEF ToRead
    <3>2. i \in DOMAIN readable' /\ readable'[i] = fd
      BY <1>3, <3>1
    <3>3. QED BY <3>2
  <2>3. ASSUME NEW fd \in S
        PROVE  \E i \in DOMAIN readable' : readable'[i] = fd
    <3>1. PICK i \in DOMAIN fds : fds[i] = fd
      BY <1>2
    <3>2. /\ Len(readable) + i \in DOMAIN readable' /\ ~(Len(readable) + i <= Len(readable))
          /\ Len(readable) + i - Len(readable) = i
      BY <1>2, <1>3
    <3>3. readable'[Len(readable) + i] = fd
      BY <1>3, <3>1, <3>2
    <3>4. QED BY <3>2, <3>3
  <2>4. QED BY <2>1, <2>2, <2>3 DEF ToRead
<1>9. QED BY <1>3, <1>7, <1>8

(* Whoever has the lock takes the last of those that wait.                 *)
LEMMA LastTaken ==
  ASSUME NetTypes, ReadOnce, readable # <<>>,
         readable' = SubSeq(readable, 1, Len(readable) - 1)
  PROVE  /\ readable' \in Seq(Fd) /\ ReadOnce'
         /\ ToRead' = ToRead \ {readable[Len(readable)]} /\ readable[Len(readable)] \in ToRead
<1>1. Len(readable) \in Nat \ {0} /\ DOMAIN readable = 1 .. Len(readable)
  BY EmptySeq, LenProperties DEF NetTypes
<1>2. \A i \in DOMAIN readable : readable[i] \in Fd
  BY <1>1, ElementOfSeq DEF NetTypes
<1>3. /\ readable' \in Seq(Fd) /\ Len(readable') = Len(readable) - 1
      /\ \A i \in 1 .. Len(readable) - 1 : readable'[i] = readable[i]
  <2>1. \A i \in 1 .. Len(readable) - 1 : readable[i] \in Fd
    BY <1>1, <1>2
  <2>2. 1 \in Int /\ Len(readable) - 1 \in Int
    BY <1>1
  <2>3. /\ SubSeq(readable, 1, Len(readable) - 1) \in Seq(Fd)
        /\ Len(SubSeq(readable, 1, Len(readable) - 1)) = IF 1 <= Len(readable) - 1 THEN Len(readable) - 1 - 1 + 1 ELSE 0
        /\ \A i \in 1 .. Len(readable) - 1 - 1 + 1 : SubSeq(readable, 1, Len(readable) - 1)[i] = readable[1 + i - 1]
    BY <2>1, <2>2, SubSeqProperties
  <2>4. QED BY <1>1, <2>3
<1>4. DOMAIN readable' = 1 .. Len(readable) - 1
  BY <1>3, LenProperties
<1>5. ReadOnce'
  BY <1>1, <1>3, <1>4 DEF ReadOnce
<1>6. /\ Len(readable) \in DOMAIN readable
      /\ \A i \in DOMAIN readable : i \in DOMAIN readable' \/ i = Len(readable)
      /\ \A i \in DOMAIN readable' : i \in DOMAIN readable /\ i # Len(readable)
  BY <1>1, <1>4
<1>7. \A i \in DOMAIN readable' : readable'[i] # readable[Len(readable)]
  BY <1>3, <1>4, <1>6 DEF ReadOnce
<1>8. ToRead' = ToRead \ {readable[Len(readable)]}
  BY <1>3, <1>4, <1>6, <1>7 DEF ToRead
<1>9. QED BY <1>2, <1>3, <1>5, <1>6, <1>8 DEF ToRead

(* Nothing that is known goes elsewhere than through these.                 *)
LEMMA Finite ==
  ASSUME NetInv
  PROVE  /\ Known \subseteq Fd /\ IsFiniteSet(Known) /\ IsFiniteSet(Known \ ToClose)
         /\ Cardinality(Known) \in Nat /\ Cardinality(Known \ ToClose) \in Nat
<1>1. Known \subseteq Fd
  BY DEF NetInv, NetTypes, Apart, ToRead, InHand, ComesBack, ToClose, Queued
<1>2. QED BY <1>1, NetServerAssumption, FS_Subset, FS_CardinalityType

(* Steps that leave all the places as they are.                            *)
LEMMA PlacesStay ==
  ASSUME NetInv, NetTypes', HandInv', hand' = hand, readable' = readable, PipeOnce',
         active' = active, Known' = Known, ComesBack' = ComesBack, ToClose' = ToClose,
         totalClient' = totalClient, leaked' = leaked
  PROVE  NetInv'
<1>1. ToRead' = ToRead /\ InHand' = InHand /\ ReadOnce' /\ HandOnce'
  BY DEF NetInv, ToRead, InHand, ReadOnce, HandOnce
<1>2. Apart'
  BY <1>1 DEF NetInv, Apart
<1>3. CountIsClients'
  BY DEF NetInv, CountIsClients, ToClose
<1>4. QED BY <1>1, <1>2, <1>3 DEF NetInv

-----------------------------------------------------------------------------
(* A thread, from its start to what it does with the lock.                 *)

LEMMA BeginKeeps ==
  ASSUME NetInv, NEW w \in Worker, Begin(w)
  PROVE  NetInv'
<1>1. /\ thread[w] = "created" /\ thread' = [thread EXCEPT ![w] = IF goes[w] THEN "waiting" ELSE "none"]
      /\ UNCHANGED <<hand, open, forgotten, active, readable, pipe, totalClient, leaked>>
  BY DEF Begin, Loop, MoveTo, socketVars
<1>2. NetTypes' /\ HandInv'
  BY <1>1 DEF NetInv, NetTypes, HandInv, NetPlace
<1>3. PipeOnce' /\ ComesBack' = ComesBack /\ ToClose' = ToClose
  BY <1>1 DEF NetInv, PipeOnce, ComesBack, ToClose, Queued
<1>4. Known' = Known
  BY <1>1 DEF Known
<1>5. QED BY <1>1, <1>2, <1>3, <1>4, PlacesStay

(* The descriptor goes from one place into the thread's hand.              *)
LEMMA TakeKeeps ==
  ASSUME NetInv, NEW w \in Worker, HasEvent(w), NEW fd \in (active \cup ToRead),
         NEW place \in {"serving", "writing"}, MoveTo(w, place),
         hand' = [hand EXCEPT ![w] = fd], active' = active \ {fd},
         readable' \in Seq(Fd), ReadOnce', ToRead' = ToRead \ {fd},
         UNCHANGED <<open, forgotten, pipe, totalClient, leaked>>
  PROVE  NetInv'
<1>1. hand[w] = NoFd
  BY DEF HasEvent, NetInv, HandInv
<1>2. fd \in Fd \ InHand /\ fd # NoFd
  BY NetServerAssumption DEF NetInv, NetTypes, Apart, ToRead
<1>3. hand' \in [Worker -> Fd \cup {NoFd}] /\ HandOnce' /\ InHand' = InHand \cup {fd}
  BY <1>1, <1>2, Taken DEF NetInv
<1>4. PipeOnce' /\ ComesBack' = ComesBack /\ ToClose' = ToClose
  BY DEF NetInv, PipeOnce, ComesBack, ToClose, Queued
<1>5. thread' \in [Worker -> NetPlace] /\ HandInv'
  BY <1>2 DEF MoveTo, NetInv, NetTypes, HandInv, NetPlace
<1>6. NetTypes'
  BY <1>3, <1>5 DEF NetInv, NetTypes
<1>7. Apart'
  BY <1>2, <1>3, <1>4 DEF NetInv, Apart, Known
<1>8. CountIsClients'
  BY <1>4 DEF NetInv, CountIsClients, ToClose, Known
<1>9. QED BY <1>3, <1>4, <1>5, <1>6, <1>7, <1>8 DEF NetInv

LEMMA LookKeeps ==
  ASSUME NetInv, NEW w \in Worker, Look(w)
  PROVE  NetInv'
<1> USE DEF NetInv
<1>1. HasEvent(w) /\ UNCHANGED <<open, forgotten, pipe, totalClient, leaked>> /\ Known' = Known
  BY DEF Look, Known
<1>2. CASE Stopped /\ MoveTo(w, "none") /\ UNCHANGED <<hand, active, readable, writeable>>
  <2>1. NetTypes' /\ HandInv'
    BY <1>1, <1>2 DEF NetTypes, HandInv, NetPlace, MoveTo, HasEvent
  <2>2. PipeOnce' /\ ComesBack' = ComesBack /\ ToClose' = ToClose
    BY <1>1 DEF PipeOnce, ComesBack, ToClose, Queued
  <2>3. QED BY <1>1, <1>2, <2>1, <2>2, PlacesStay
<1>3. CASE readable # <<>> /\ TakeReadable(w)
  <2>1. /\ hand' = [hand EXCEPT ![w] = readable[Len(readable)]] /\ MoveTo(w, "serving")
        /\ readable' = SubSeq(readable, 1, Len(readable) - 1) /\ active' = active
    BY <1>3 DEF TakeReadable
  <2>2. /\ readable' \in Seq(Fd) /\ ReadOnce'
        /\ ToRead' = ToRead \ {readable[Len(readable)]} /\ readable[Len(readable)] \in ToRead
    BY <1>3, <2>1, LastTaken
  <2>3. active' = active \ {readable[Len(readable)]}
    BY <2>1, <2>2 DEF Apart
  <2>4. QED BY <1>1, <2>1, <2>2, <2>3, TakeKeeps
<1>4. CASE TakeWriteable(w)
  <2>1. PICK fd \in DueNotices : hand' = [hand EXCEPT ![w] = fd] /\ active' = active \ {fd}
    BY <1>4 DEF TakeWriteable
  <2>2. MoveTo(w, "writing") /\ readable' = readable /\ fd \in active
    BY <1>4 DEF TakeWriteable, DueNotices
  <2>3. readable' \in Seq(Fd) /\ ReadOnce' /\ ToRead' = ToRead \ {fd}
    BY <2>2 DEF NetTypes, ReadOnce, ToRead, Apart
  <2>4. QED BY <1>1, <2>1, <2>2, <2>3, TakeKeeps
<1>5. CASE MoveTo(w, "select") /\ UNCHANGED <<hand, active, readable, writeable>>
  <2>1. NetTypes' /\ HandInv'
    BY <1>1, <1>5 DEF NetTypes, HandInv, NetPlace, MoveTo, HasEvent
  <2>2. PipeOnce' /\ ComesBack' = ComesBack /\ ToClose' = ToClose
    BY <1>1 DEF PipeOnce, ComesBack, ToClose, Queued
  <2>3. QED BY <1>1, <1>5, <2>1, <2>2, PlacesStay
<1>6. QED BY <1>2, <1>3, <1>4, <1>5 DEF Look

-----------------------------------------------------------------------------
(* What select returns.                                                    *)

LEMMA SelectedKeeps ==
  ASSUME NetInv, NEW w \in Worker, Selected(w)
  PROVE  NetInv'
<1> USE DEF NetInv
<1>1. PICK new \in Accepted :
         /\ totalClient' = totalClient + Cardinality(new)
         /\ open' = (open \cup new) \ FirstOf("REMOVE_FD")
         /\ active' = (((active \ ReadyFds) \cup new) \cup FirstOf("ADD_FD")) \ FirstOf("REMOVE_FD")
  BY DEF Selected
<1>2. /\ thread[w] = "select" /\ MoveTo(w, "holding") /\ UNCHANGED <<hand, leaked, forgotten>>
      /\ pipe' = IF pipe = <<>> THEN pipe ELSE Tail(pipe)
      /\ \E fds \in InOrder(ReadyFds) : readable' = readable \o fds
  BY DEF Selected
<1>3. /\ pipe' \in Seq(Message) /\ PipeOnce'
      /\ ComesBack' = ComesBack \ FirstOf("ADD_FD") /\ FirstOf("ADD_FD") \subseteq ComesBack
      /\ ToClose' = ToClose \ FirstOf("REMOVE_FD") /\ FirstOf("REMOVE_FD") \subseteq ToClose
  BY <1>2, Popped
<1>4. /\ ReadyFds \subseteq active /\ ReadyFds \in SUBSET Fd /\ ReadyFds \cap ToRead = {}
  BY DEF ReadyFds, NetTypes, Apart
<1>5. readable' \in Seq(Fd) /\ ReadOnce' /\ ToRead' = ToRead \cup ReadyFds
  BY <1>2, <1>4, FoundReady
<1>6. HandOnce' /\ InHand' = InHand
  BY <1>2 DEF HandOnce, InHand
<1>7. /\ new = {} \/ (totalClient < ConnectionMax /\ \E fd \in Fd \ open : new = {fd})
      /\ new \subseteq Fd /\ new \cap open = {}
  <2>1. new = {} \/ (totalClient < ConnectionMax /\ \E fd \in Fd \ open : new = {fd})
    BY DEF Accepted
  <2>2. QED BY <2>1
<1>8. thread' \in [Worker -> NetPlace] /\ HandInv'
  BY <1>2 DEF MoveTo, NetTypes, NetPlace, HandInv
<1>20. /\ FirstOf("REMOVE_FD") \subseteq Known /\ forgotten \cap new = {}
       /\ forgotten' \subseteq open' /\ Known' = (Known \cup new) \ FirstOf("REMOVE_FD")
  <2>1. FirstOf("REMOVE_FD") \subseteq Known
    BY <1>3 DEF Apart
  <2>2. QED BY <1>1, <1>2, <1>7, <2>1 DEF NetTypes, Known
<1>9. Apart'
  BY <1>1, <1>3, <1>4, <1>5, <1>6, <1>7, <1>20 DEF Apart, Known
<1>10. Known' \ ToClose' = (Known \ ToClose) \cup new /\ new \cap (Known \ ToClose) = {}
  BY <1>3, <1>7, <1>20 DEF Apart, Known
<1>11. CountIsClients' /\ totalClient' \in Int
  <2>1. /\ IsFiniteSet(Known \ ToClose) /\ Cardinality(Known \ ToClose) \in Nat
        /\ totalClient = Cardinality(Known \ ToClose) + leaked /\ totalClient \in 0 .. ConnectionMax
        /\ ConnectionMax \in Nat /\ leaked \in Nat
    BY Finite, NetServerAssumption DEF CountIsClients, ToClose, NetTypes
  <2>2. CASE new = {}
    <3>1. Cardinality({}) = 0
      BY FS_EmptySet
    <3>2. Cardinality(new) = 0
      BY <2>2, <3>1
    <3>3. Known' \ ToClose' = Known \ ToClose
      BY <1>10, <2>2
    <3>4. totalClient' = totalClient
      BY <1>1, <2>1, <3>2
    <3>5. totalClient' = Cardinality(Known' \ ToClose') + leaked'
      BY <1>2, <2>1, <3>3, <3>4
    <3>6. totalClient' \in 0 .. ConnectionMax /\ totalClient' \in Int
      BY <2>1, <3>4
    <3>7. QED BY <3>5, <3>6 DEF CountIsClients, ToClose
  <2>3. CASE totalClient < ConnectionMax /\ \E fd \in Fd \ open : new = {fd}
    <3>1. PICK fd \in Fd \ open : new = {fd}
      BY <2>3
    <3>2. Cardinality(new) = 1
      BY <3>1, FS_Singleton
    <3>3. Cardinality((Known \ ToClose) \cup {fd}) = Cardinality(Known \ ToClose) + 1
      <4>1. fd \notin Known \ ToClose
        BY <1>10, <3>1
      <4>2. QED BY <2>1, <4>1, FS_AddElement
    <3>4. Cardinality(Known' \ ToClose') = Cardinality(Known \ ToClose) + 1
      BY <1>10, <3>1, <3>3
    <3>5. QED BY <1>1, <1>2, <2>1, <2>3, <3>2, <3>4 DEF CountIsClients, ToClose
  <2>4. QED BY <1>7, <2>2, <2>3
<1>12. NetTypes'
  BY <1>1, <1>2, <1>3, <1>5, <1>7, <1>8, <1>11, <1>20 DEF NetTypes, Apart, ComesBack, Queued
<1>13. QED BY <1>3, <1>5, <1>6, <1>8, <1>9, <1>11, <1>12

LEMMA ExpireKeeps ==
  ASSUME NetInv, NEW w \in Worker, Expire(w)
  PROVE  NetInv'
<1> USE DEF NetInv
<1>1. /\ thread[w] = "select" /\ pipe = <<>> /\ MoveTo(w, "holding")
      /\ UNCHANGED <<hand, open, readable, leaked>>
  BY DEF Expire
<1>2. PICK S \in SUBSET active, undone \in SUBSET active, T \in SUBSET active :
         /\ undone \subseteq S /\ T = S \ undone
         /\ active' = active \ S /\ totalClient' = totalClient - Cardinality(S)
         /\ forgotten' = forgotten \cup undone
         /\ \E fds \in InOrder(T) : pipe' = pipe \o [k \in DOMAIN fds |-> Msg("REMOVE_FD", fds[k])]
  <2>1. PICK S \in SUBSET active : \E undone \in SUBSET S :
           /\ active' = active \ S /\ totalClient' = totalClient - Cardinality(S)
           /\ forgotten' = forgotten \cup undone
           /\ \E fds \in InOrder(S \ undone) : pipe' = pipe \o [k \in DOMAIN fds |-> Msg("REMOVE_FD", fds[k])]
    BY Zenon DEF Expire, ActiveWithout
  <2>2. PICK undone \in SUBSET S :
           /\ active' = active \ S /\ totalClient' = totalClient - Cardinality(S)
           /\ forgotten' = forgotten \cup undone
           /\ \E fds \in InOrder(S \ undone) : pipe' = pipe \o [k \in DOMAIN fds |-> Msg("REMOVE_FD", fds[k])]
    BY <2>1
  <2>3. undone \in SUBSET active /\ S \ undone \in SUBSET active
    OBVIOUS
  <2>4. QED BY <2>2, <2>3
<1>3. PICK fds \in InOrder(T) : pipe' = pipe \o [k \in DOMAIN fds |-> Msg("REMOVE_FD", fds[k])]
  BY <1>2
<1>4. /\ S \in SUBSET Fd /\ T \in SUBSET Fd /\ IsFiniteSet(S) /\ Cardinality(S) \in Nat
      /\ IsFiniteSet(T) /\ Cardinality(T) \in Nat
  BY NetServerAssumption, FS_Subset, FS_CardinalityType DEF NetTypes
<1>5. /\ fds \in [1 .. Cardinality(T) -> T]
      /\ \A i, j \in DOMAIN fds : i < j => fds[i] < fds[j]
      /\ \A fd \in T : \E i \in DOMAIN fds : fds[i] = fd
      /\ \A i \in DOMAIN fds : fds[i] \in T
  BY DEF InOrder
<1>6. /\ [k \in DOMAIN fds |-> Msg("REMOVE_FD", fds[k])] \in [1 .. Cardinality(T) -> Message]
  BY <1>4, <1>5 DEF Msg, Message
<1>7. [k \in DOMAIN fds |-> Msg("REMOVE_FD", fds[k])] \in Seq(Message)
  BY <1>4, <1>6, SeqDef
<1>8. pipe' = [k \in DOMAIN fds |-> Msg("REMOVE_FD", fds[k])]
  BY <1>1, <1>3, <1>7, ConcatEmptySeq
<1>9. /\ pipe' \in Seq(Message) /\ DOMAIN pipe' = DOMAIN fds
      /\ \A k \in DOMAIN pipe' : pipe'[k] = Msg("REMOVE_FD", fds[k])
  BY <1>7, <1>8
<1>10. \A i, j \in DOMAIN fds : fds[i] = fds[j] => i = j
  <2>1. DOMAIN fds = 1 .. Cardinality(T) /\ \A i \in DOMAIN fds : fds[i] \in Nat
    <3>1. Fd \subseteq Nat
      BY NetServerAssumption
    <3>2. QED BY <1>4, <1>5, <3>1
  <2>2. QED BY <1>4, <1>5, <2>1
<1>11. PipeOnce'
  BY <1>4, <1>5, <1>9, <1>10 DEF PipeOnce, Msg
<1>12. ComesBack' = {} /\ ComesBack = {} /\ ToClose = {}
  BY <1>1, <1>9 DEF ComesBack, ToClose, Queued, Msg
<1>13. ToClose' = T
  <2>1. \A fd \in Fd, k \in DOMAIN pipe' : pipe'[k] = Msg("REMOVE_FD", fd) <=> fds[k] = fd
    BY <1>9 DEF Msg
  <2>2. QED BY <1>4, <1>5, <1>9, <2>1 DEF ToClose, Queued
<1>14. ReadOnce' /\ ToRead' = ToRead /\ HandOnce' /\ InHand' = InHand
  BY <1>1 DEF ReadOnce, ToRead, HandOnce, InHand
<1>15. thread' \in [Worker -> NetPlace] /\ HandInv'
  BY <1>1 DEF MoveTo, NetTypes, NetPlace, HandInv
<1>16. Known' = Known \ undone /\ S \subseteq Known /\ forgotten' \subseteq open'
  <2>1. S \subseteq Known
    BY DEF Apart
  <2>2. QED BY <1>1, <1>2, <2>1 DEF NetTypes, Known
<1>17. Apart'
  BY <1>1, <1>2, <1>12, <1>13, <1>14, <1>16 DEF Apart
<1>18. CountIsClients' /\ totalClient' \in Int
  <2>1. /\ IsFiniteSet(Known) /\ Cardinality(Known) \in Nat
        /\ totalClient = Cardinality(Known) + leaked /\ totalClient \in 0 .. ConnectionMax
        /\ ConnectionMax \in Nat /\ leaked \in Nat
    <3>1. Known \ ToClose = Known
      BY <1>12
    <3>2. QED BY <3>1, Finite, NetServerAssumption DEF CountIsClients, ToClose, NetTypes
  <2>2. /\ Cardinality(Known \ S) = Cardinality(Known) - Cardinality(S) /\ Cardinality(Known \ S) \in Nat
    <3>1. S = Known \cap S
      BY <1>16
    <3>2. Cardinality(Known \ S) = Cardinality(Known) - Cardinality(Known \cap S)
      BY <1>4, <2>1, FS_Difference
    <3>3. IsFiniteSet(Known \ S)
      BY <2>1, FS_Subset
    <3>4. QED BY <3>1, <3>2, <3>3, FS_CardinalityType
  <2>3. Known' \ ToClose' = Known \ S
    BY <1>2, <1>13, <1>16
  <2>4. Cardinality(Known' \ ToClose') = Cardinality(Known) - Cardinality(S)
    BY <2>2, <2>3
  <2>5. totalClient' = Cardinality(Known' \ ToClose') + leaked'
    BY <1>1, <1>2, <1>4, <2>1, <2>4
  <2>6. totalClient' \in 0 .. ConnectionMax
    BY <1>1, <1>2, <1>4, <2>1, <2>2
  <2>7. QED BY <2>5, <2>6 DEF CountIsClients, ToClose
<1>19. NetTypes'
  BY <1>1, <1>2, <1>9, <1>15, <1>16, <1>18 DEF NetTypes
<1>20. QED BY <1>11, <1>14, <1>15, <1>17, <1>18, <1>19

-----------------------------------------------------------------------------
(* A thread with a descriptor.                                             *)

(* It gives the connection back through the pipe.                          *)
LEMMA EnableKeeps ==
  ASSUME NetInv, NEW w \in Worker, thread[w] \in {"serving", "writing"},
         pipe' = EnableSocket(hand[w]), hand' = [hand EXCEPT ![w] = NoFd], Loop(w),
         UNCHANGED <<open, forgotten, active, readable, totalClient, leaked>>
  PROVE  NetInv'
<1> USE DEF NetInv
<1>1. hand[w] # NoFd
  BY DEF HandInv
<1>2. /\ hand' \in [Worker -> Fd \cup {NoFd}] /\ HandOnce'
      /\ InHand' = InHand \ {hand[w]} /\ hand[w] \in InHand
  BY <1>1, PutDown
<1>3. /\ Msg("ADD_FD", hand[w]) \in Message /\ Msg("ADD_FD", hand[w]).type = "ADD_FD"
      /\ Msg("ADD_FD", hand[w]).fd = hand[w] /\ hand[w] \in Fd \ ComesBack
  BY <1>2 DEF Msg, Message, Apart, InHand
<1>4. /\ pipe' \in Seq(Message) /\ PipeOnce'
      /\ ComesBack' = ComesBack \cup {hand[w]} /\ ToClose' = ToClose
  BY <1>3, Appended DEF EnableSocket
<1>5. ReadOnce' /\ ToRead' = ToRead
  BY DEF ReadOnce, ToRead
<1>6. thread' \in [Worker -> NetPlace] /\ HandInv'
  BY DEF Loop, MoveTo, NetTypes, NetPlace, HandInv
<1>7. Apart'
  BY <1>2, <1>4, <1>5 DEF Apart, Known
<1>8. CountIsClients'
  BY <1>4 DEF CountIsClients, ToClose, Known
<1>9. NetTypes'
  BY <1>2, <1>4, <1>6 DEF NetTypes
<1>10. QED BY <1>2, <1>4, <1>5, <1>6, <1>7, <1>8, <1>9

(* It closes the connection, which is counted out, or left in the count.   *)
LEMMA CloseKeeps ==
  ASSUME NetInv, NEW w \in Worker, thread[w] \in {"serving", "writing"},
         CloseFds({hand[w]}), hand' = [hand EXCEPT ![w] = NoFd], Loop(w),
         UNCHANGED <<active, readable, pipe, forgotten>>,
         \/ totalClient' = CountedOut /\ leaked' = leaked
         \/ totalClient' = totalClient /\ leaked' = leaked + 1
  PROVE  NetInv'
<1> USE DEF NetInv
<1>1. hand[w] # NoFd
  BY DEF HandInv
<1>2. /\ hand' \in [Worker -> Fd \cup {NoFd}] /\ HandOnce'
      /\ InHand' = InHand \ {hand[w]} /\ hand[w] \in InHand
  BY <1>1, PutDown
<1>3. Known' = Known \ {hand[w]} /\ forgotten' \subseteq open'
  <2>1. open' = open \ {hand[w]}
    BY DEF CloseFds
  <2>2. hand[w] \in Known
    BY <1>2 DEF Apart
  <2>3. QED BY <2>1, <2>2 DEF NetTypes, Known
<1>4. /\ ReadOnce' /\ ToRead' = ToRead
      /\ PipeOnce' /\ ComesBack' = ComesBack /\ ToClose' = ToClose
  BY DEF ReadOnce, ToRead, PipeOnce, ComesBack, ToClose, Queued
<1>5. thread' \in [Worker -> NetPlace] /\ HandInv'
  BY DEF Loop, MoveTo, NetTypes, NetPlace, HandInv
<1>6. Apart'
  BY <1>2, <1>3, <1>4 DEF Apart
<1>7. Known' \ ToClose' = (Known \ ToClose) \ {hand[w]} /\ hand[w] \in Known \ ToClose
  BY <1>2, <1>3, <1>4 DEF Apart
<1>8. CountIsClients' /\ totalClient' \in Int /\ leaked' \in Nat
  <2>1. /\ IsFiniteSet(Known \ ToClose) /\ Cardinality(Known \ ToClose) \in Nat
        /\ totalClient = Cardinality(Known \ ToClose) + leaked /\ totalClient \in 0 .. ConnectionMax
        /\ ConnectionMax \in Nat /\ leaked \in Nat
    BY Finite, NetServerAssumption DEF CountIsClients, ToClose, NetTypes
  <2>2. /\ Cardinality((Known \ ToClose) \ {hand[w]}) = Cardinality(Known \ ToClose) - 1
        /\ IsFiniteSet((Known \ ToClose) \ {hand[w]})
    BY <1>7, <2>1, FS_RemoveElement
  <2>3. Cardinality(Known' \ ToClose') = Cardinality(Known \ ToClose) - 1
        /\ Cardinality(Known' \ ToClose') \in Nat
    BY <1>7, <2>2, FS_CardinalityType
  <2>4. totalClient' = Cardinality(Known' \ ToClose') + leaked'
    BY <2>1, <2>3 DEF CountedOut
  <2>5. totalClient' \in 0 .. ConnectionMax /\ leaked' \in Nat
    BY <2>1, <2>3, <2>4 DEF CountedOut
  <2>6. QED BY <2>4, <2>5 DEF CountIsClients, ToClose
<1>9. NetTypes'
  BY <1>2, <1>3, <1>4, <1>5, <1>8 DEF NetTypes
<1>10. QED BY <1>2, <1>4, <1>5, <1>6, <1>8, <1>9

-----------------------------------------------------------------------------
(* Everybody else, who at most writes something into the pipe.             *)

LEMMA OthersKeep ==
  ASSUME NetInv, UNCHANGED <<hand, open, forgotten, active, readable, totalClient, leaked>>,
         thread' \in [Worker -> NetPlace],
         \A w \in Worker : thread'[w] = thread[w] \/ (thread[w] = "none" /\ thread'[w] = "created"),
         \/ pipe' = pipe
         \/ \E type \in {"EXIT_THREAD", "WRITE_DATA_TO_CLIENT"} : pipe' = Append(pipe, Msg(type, NoFd))
  PROVE  NetInv'
<1> USE DEF NetInv
<1>1. pipe' \in Seq(Message) /\ PipeOnce' /\ ComesBack' = ComesBack /\ ToClose' = ToClose
  <2>1. CASE pipe' = pipe
    BY <2>1 DEF NetTypes, PipeOnce, ComesBack, ToClose, Queued
  <2>2. ASSUME NEW type \in {"EXIT_THREAD", "WRITE_DATA_TO_CLIENT"}, pipe' = Append(pipe, Msg(type, NoFd))
        PROVE  pipe' \in Seq(Message) /\ PipeOnce' /\ ComesBack' = ComesBack /\ ToClose' = ToClose
    <3>1. Msg(type, NoFd) \in Message /\ Msg(type, NoFd).type = type /\ type \notin Carried
      BY DEF Msg, Message, Carried
    <3>2. QED BY <2>2, <3>1, Appended DEF Carried
  <2>3. QED BY <2>1, <2>2
<1>2. HandInv'
  BY DEF HandInv
<1>3. NetTypes'
  BY <1>1 DEF NetTypes
<1>4. Known' = Known
  BY DEF Known
<1>5. QED BY <1>1, <1>2, <1>3, <1>4, PlacesStay

LEMMA ManageKeeps ==
  ASSUME NetInv, Manage
  PROVE  NetInv'
<1>1. UNCHANGED <<hand, open, forgotten, active, readable, totalClient, leaked>>
  BY DEF Manage, socketVars
<1>2. \/ pipe' = pipe
      \/ \E type \in {"EXIT_THREAD", "WRITE_DATA_TO_CLIENT"} : pipe' = Append(pipe, Msg(type, NoFd))
  BY DEF Manage, Tried
<1>3. /\ thread' \in [Worker -> NetPlace]
      /\ \A w \in Worker : thread'[w] = thread[w] \/ (thread[w] = "none" /\ thread'[w] = "created")
  <2>1. CASE UNCHANGED thread
    BY <2>1 DEF NetInv, NetTypes
  <2>2. CASE IsNeededToCreateThread
    <3> DEFINE left == {w \in listed : goes[w]}
               v == CHOOSE u \in Worker \ left : thread[u] = "none"
    <3>1. thread' = [thread EXCEPT ![v] = "created"] /\ \E u \in Worker \ left : thread[u] = "none"
      BY <2>2 DEF Manage, MoveTo
    <3>2. v \in Worker /\ thread[v] = "none"
      BY <3>1
    <3>3. QED BY <3>1, <3>2 DEF NetInv, NetTypes, NetPlace
  <2>3. QED BY <2>1, <2>2 DEF Manage
<1>4. QED BY <1>1, <1>2, <1>3, OthersKeep

LEMMA NetNextInv ==
  ASSUME NetInv, [NetNext]_netVars
  PROVE  NetInv'
<1> DEFINE StillThreads == /\ thread' \in [Worker -> NetPlace]
                          /\ \A w \in Worker : thread'[w] = thread[w] \/ (thread[w] = "none" /\ thread'[w] = "created")
<1>1. thread' = thread => StillThreads
  BY DEF NetInv, NetTypes
<1>2. ASSUME NEW w \in Worker, Work(w) \/ Expire(w)
      PROVE  NetInv'
  <2>1. CASE Begin(w) \/ Look(w) \/ Selected(w) \/ Expire(w)
    BY <2>1, BeginKeeps, LookKeeps, SelectedKeeps, ExpireKeeps
  <2>2. CASE Served(w)
    BY <2>2, EnableKeeps DEF Served
  <2>3. CASE Written(w)
    BY <2>3, EnableKeeps DEF Written, socketVars
  <2>4. CASE NotEnabled(w)
    BY <2>4, CloseKeeps DEF NotEnabled
  <2>5. CASE DestroySocketInternal(w)
    BY <2>5, CloseKeeps DEF DestroySocketInternal
  <2>6. QED BY <1>2, <2>1, <2>2, <2>3, <2>4, <2>5 DEF Work
<1>3. ASSUME NEW fd \in Fd, Arrive(fd)
      PROVE  NetInv'
  BY <1>1, <1>3, OthersKeep DEF Arrive, pool
<1>4. ASSUME NEW fds \in SUBSET Fd, WriteSocketPositive(fds)
      PROVE  NetInv'
  BY <1>1, <1>4, OthersKeep DEF WriteSocketPositive, Tried, pool
<1>5. CASE ShutdownBegins \/ ShutdownEnds
  BY <1>1, <1>5, OthersKeep DEF ShutdownBegins, ShutdownEnds, Tried, pool, socketVars
<1>6. CASE StopWorkers
  BY <1>1, <1>6, OthersKeep DEF StopWorkers, Tried, socketVars
<1>7. CASE UNCHANGED netVars
  BY <1>1, <1>7, OthersKeep DEF netVars, pool, socketVars
<1>8. QED BY <1>2, <1>3, <1>4, <1>5, <1>6, <1>7, ManageKeeps DEF NetNext, ManagerStep

-----------------------------------------------------------------------------
(* In one place means counted once.                                        *)

LEMMA CountedOnce ==
  ASSUME NEW S, NEW P, \A i, j \in S : i = j, P <=> S # {}
  PROVE  Cardinality(S) = IF P THEN 1 ELSE 0
<1>1. CASE S = {}
  BY <1>1, FS_EmptySet
<1>2. CASE S # {}
  <2>1. PICK i : S = {i}
    BY <1>2
  <2>2. QED BY <1>2, <2>1, FS_Singleton
<1>3. QED BY <1>1, <1>2

LEMMA InvIsOnePlace == NetInv => OnePlace
<1> SUFFICES ASSUME NetInv, NEW fd \in Fd
             PROVE  Places(fd) = IF fd \in Known THEN 1 ELSE 0
  BY DEF OnePlace
<1> USE DEF NetInv
<1>1. Cardinality({fd} \cap active) = IF fd \in active THEN 1 ELSE 0
  <2> DEFINE S == {fd} \cap active
  <2>1. (\A i, j \in S : i = j) /\ (fd \in active <=> S # {})
    OBVIOUS
  <2> HIDE DEF S
  <2>2. Cardinality(S) = IF fd \in active THEN 1 ELSE 0
    BY <2>1, CountedOnce
  <2>3. QED BY <2>2 DEF S
<1>2. Cardinality({k \in DOMAIN readable : readable[k] = fd}) = IF fd \in ToRead THEN 1 ELSE 0
  <2> DEFINE S == {k \in DOMAIN readable : readable[k] = fd}
  <2>1. \A i, j \in S : i = j
    BY DEF ReadOnce
  <2>2. fd \in ToRead <=> S # {}
    BY DEF ToRead
  <2> HIDE DEF S
  <2>3. Cardinality(S) = IF fd \in ToRead THEN 1 ELSE 0
    BY <2>1, <2>2, CountedOnce
  <2>4. QED BY <2>3 DEF S
<1>3. Cardinality({w \in Worker : hand[w] = fd}) = IF fd \in InHand THEN 1 ELSE 0
  <2> DEFINE S == {w \in Worker : hand[w] = fd}
  <2>1. \A i, j \in S : i = j
    BY NetServerAssumption DEF HandOnce
  <2>2. fd \in InHand <=> S # {}
    BY DEF InHand
  <2> HIDE DEF S
  <2>3. Cardinality(S) = IF fd \in InHand THEN 1 ELSE 0
    BY <2>1, <2>2, CountedOnce
  <2>4. QED BY <2>3 DEF S
<1>4. ASSUME NEW type \in Carried
      PROVE  Queues(type, fd) = IF fd \in Queued(type) THEN 1 ELSE 0
  <2> DEFINE S == {k \in DOMAIN pipe : pipe[k] = Msg(type, fd)}
  <2>1. \A i, j \in S : i = j
    BY DEF PipeOnce, Msg
  <2>2. fd \in Queued(type) <=> S # {}
    BY DEF Queued
  <2>3. Queues(type, fd) = Cardinality(S)
    BY DEF Queues
  <2> HIDE DEF S
  <2>4. QED BY <2>1, <2>2, <2>3, CountedOnce
<1>5. /\ Queues("ADD_FD", fd) = IF fd \in ComesBack THEN 1 ELSE 0
      /\ Queues("REMOVE_FD", fd) = IF fd \in ToClose THEN 1 ELSE 0
  BY <1>4 DEF Carried, ComesBack, ToClose
<1>6. Places(fd) = (IF fd \in active THEN 1 ELSE 0) + (IF fd \in ToRead THEN 1 ELSE 0)
                   + (IF fd \in InHand THEN 1 ELSE 0) + (IF fd \in ComesBack THEN 1 ELSE 0)
                   + (IF fd \in ToClose THEN 1 ELSE 0)
  BY <1>1, <1>2, <1>3, <1>5 DEF Places
<1>7. /\ fd \in Known <=> fd \in active \/ fd \in ToRead \/ fd \in InHand \/ fd \in ComesBack \/ fd \in ToClose
      /\ ~(fd \in active /\ (fd \in ToRead \/ fd \in InHand \/ fd \in ComesBack \/ fd \in ToClose))
      /\ ~(fd \in ToRead /\ (fd \in InHand \/ fd \in ComesBack \/ fd \in ToClose))
      /\ ~(fd \in InHand /\ (fd \in ComesBack \/ fd \in ToClose))
      /\ ~(fd \in ComesBack /\ fd \in ToClose)
  BY DEF Apart
<1>8. QED BY <1>6, <1>7

(* However the threads take turns, and whatever breaks, expires, is        *)
(* written to or shut down meanwhile, each connection that stands is in    *)
(* one hand only and counted once, but those that expire while a signal    *)
(* interrupts the write of their end: these stand for ever, in no hand and *)
(* not counted.  None that is closed is in any hand, and m_nTotalClient    *)
(* never passes its limit: for any threads, connections and limits.        *)
THEOREM ConnectionsAreKept == NetSpec => []SocketsKept
<1>1. NetInv => SocketsKept
  BY InvIsOnePlace DEF SocketsKept, NetInv
<1>2. QED BY <1>1, NetInitInv, NetNextInv, PTL DEF NetSpec

=============================================================================
