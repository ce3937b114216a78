-------------------------------- MODULE Fml32 --------------------------------
(***************************************************************************)
(* The FML32 functions (FML32API.cpp) on one fielded buffer: a header of   *)
(* three words and a body in which fields lie one after the other, each an *)
(* identifier, for a string or an array its length, and the value.         *)
(*                                                                         *)
(* The body is modelled cell by cell, so that a field that is misread is   *)
(* misread here too: an identifier and a length take one cell, a short one *)
(* (so do a char and a float: they differ in nothing but their width), a   *)
(* long two (so does a double), a string or an array one for each byte.    *)
(***************************************************************************)
EXTENDS Integers, Sequences, FiniteSets

CONSTANTS Field,       \* field identifiers
          TypeOf,      \* their types: Fldtype32, "short", "long" or "string"
          Small,       \* values of shorts and longs: sequences of one element
          Text,        \* values of strings: sequences of bytes
          BodySize     \* bound: cells of a body

\* A number is one cell; a text is any sequence of bytes.
ASSUME FmlAssumption ==
    /\ TypeOf \in [Field -> {"short", "long", "string"}] /\ BodySize \in Nat
    /\ \A v \in Small : v = <<v[1]>>
    /\ \A v \in Text : v \in Seq({v[k] : k \in DOMAIN v})

VARIABLES cells,       \* the body, from offset 0
          size,        \* body size of the header
          offset,      \* body offset of the header: the end of the fields
          ret,         \* what the last function returned: "OK" or the Ferror32
          spoiled      \* Fchg32 has torn the fields: the model follows the
                       \* buffer no further

vars == <<cells, size, offset, ret, spoiled>>

Value == Small \cup Text
ValuesOf(f) == IF TypeOf[f] = "string" THEN Text ELSE Small

Id(f) == [kind |-> "id", of |-> f]
TextLength(n) == [kind |-> "length", len |-> n]
Byte(b) == [kind |-> "byte", of |-> b]
Cell == [kind : {"id"}, of : Field] \cup [kind : {"length"}, len : 0 .. BodySize]
        \cup [kind : {"byte"}, of : {"half", "zero"} \cup UNION {{v[k] : k \in DOMAIN v} : v \in Value}]

\* A field as FMLWriteUINT... and Fadd32 lay it out.
Layout(f, v) ==
    CASE TypeOf[f] = "short" -> <<Id(f), Byte(v[1])>>
      [] TypeOf[f] = "long" -> <<Id(f), Byte("half"), Byte(v[1])>>
      [] TypeOf[f] = "string" -> <<Id(f), TextLength(Len(v))>> \o [k \in 1 .. Len(v) |-> Byte(v[k])]

\* Finit32.
Init == /\ cells = [k \in 0 .. BodySize - 1 |-> Byte("zero")]
        /\ size = BodySize
        /\ offset = 0
        /\ ret = "OK"
        /\ spoiled = FALSE

\* What memory holds at k; beyond the allocated buffer it may be anything, and
\* what is not an identifier has no type.
At(k) == IF k \in DOMAIN cells THEN cells[k] ELSE Byte("zero")

\* FMLFieldNextOffset: from one field to the next, 0 for the -1 of an unknown type.
FMLFieldNextOffset(k) ==
    IF At(k).kind # "id" THEN 0
    ELSE CASE TypeOf[At(k).of] = "short" -> 2
           [] TypeOf[At(k).of] = "long" -> 3
           [] TypeOf[At(k).of] = "string" ->
                  2 + (IF At(k + 1).kind = "length" THEN At(k + 1).len ELSE 0)

\* The value of the field at k, as Fget32 copies it.
ValueAt(k) ==
    CASE TypeOf[At(k).of] = "short" -> <<At(k + 1).of>>
      [] TypeOf[At(k).of] = "long" -> <<At(k + 2).of>>
      [] TypeOf[At(k).of] = "string" ->
             IF At(k + 1).kind = "length"
             THEN [j \in 1 .. At(k + 1).len |-> At(k + 1 + j).of] ELSE <<>>

\* Places of the fields that a walk through the body comes by, from k on.
Walk[k \in 0 .. 4 * BodySize] ==
    IF k >= offset \/ FMLFieldNextOffset(k) = 0 THEN <<>>
    ELSE <<k>> \o Walk[k + FMLFieldNextOffset(k)]

\* What a program reads out of the buffer.
Contents == LET places == Walk[0]
            IN [j \in DOMAIN places |-> [id |-> At(places[j]).of, value |-> ValueAt(places[j])]]

\* The walk of Fget32 and Fchg32: the place of occurrence oc of f, or -1.
PlaceOf(f, oc) ==
    LET places == Walk[0]
        hits == {j \in DOMAIN places :
                    /\ At(places[j]).of = f
                    /\ Cardinality({m \in 1 .. j - 1 : At(places[m]).of = f}) = oc}
    IN IF hits = {} THEN -1 ELSE places[CHOOSE j \in hits : TRUE]

-----------------------------------------------------------------------------
Write(k, new) == [j \in DOMAIN cells |->
                    IF j - k + 1 \in DOMAIN new THEN new[j - k + 1] ELSE cells[j]]

\* memmove of n cells inside the body.
Move(to, from, n) == [j \in DOMAIN cells |->
                        IF j \in to .. to + n - 1 THEN At(from + j - to) ELSE cells[j]]

Room(f, v) == offset + Len(Layout(f, v)) <= size

\* Fadd32: after the last field, if there is room.
Fadd32(f, v) ==
    /\ UNCHANGED <<size, spoiled>>
    /\ IF Room(f, v)
       THEN /\ cells' = Write(offset, Layout(f, v))
            /\ offset' = offset + Len(Layout(f, v))
            /\ ret' = "OK"
       ELSE UNCHANGED <<cells, offset>> /\ ret' = "FNOSPACE"

(* A mistake: every number is written with the width of a long. *)
FixedAsLong(k, f, v) == Write(k, <<Id(f), Byte("half"), Byte(v[1])>>)

\* A value of fixed width is written in its place.
Fixed(k, f, v) == Write(k, Layout(f, v))

\* Fchg32 of a short or a long.
FchgFixed(f, oc, v) ==
    /\ TypeOf[f] # "string"
    /\ UNCHANGED <<size, offset, spoiled>>
    /\ IF PlaceOf(f, oc) # -1
       THEN cells' = Fixed(PlaceOf(f, oc), f, v) /\ ret' = "OK"
       ELSE UNCHANGED cells /\ ret' = "FNOTPRES"

\* Fchg32 of a string or an array: what comes behind is moved, but neither
\* the length nor the value is written (386-400).  A value as long as the old
\* one leaves everything as it was; any other tears the fields.
FchgText(f, oc, v) ==
    /\ TypeOf[f] = "string"
    /\ UNCHANGED size
    /\ LET k == PlaceOf(f, oc)
           section == FMLFieldNextOffset(k)
           grown == Len(v) - (section - 2)
       IN /\ IF k = -1 THEN UNCHANGED <<cells, offset>> /\ ret' = "FNOTPRES"
             ELSE IF k + section + grown > size
             THEN UNCHANGED <<cells, offset>> /\ ret' = "FNOSPACE"
             ELSE /\ cells' = Move(k + 2 + Len(v), k + section, offset - (k + section))
                  /\ offset' = offset + grown
                  /\ ret' = "OK"
          /\ spoiled' = (ret' = "OK" /\ grown # 0)

\* Fchg32 without a value: the rest is moved over the field, and the length of
\* the rest, not of the field, is taken off the offset (299-301 and its like).
\* The last field stays; a rest as long as the field makes it right.
FchgDelete(f, oc) ==
    /\ UNCHANGED size
    /\ LET k == PlaceOf(f, oc)
           rest == offset - (k + FMLFieldNextOffset(k))
       IN /\ IF k = -1 THEN UNCHANGED <<cells, offset>> /\ ret' = "FNOTPRES"
             ELSE /\ cells' = Move(k, k + FMLFieldNextOffset(k), rest)
                  /\ offset' = offset - rest
                  /\ ret' = "OK"
          /\ spoiled' = (ret' = "OK" /\ rest \notin {0, FMLFieldNextOffset(k)})

\* FMLValidSize, less the header.
FMLValidSize == offset

\* The buffer is the data of a tpcall: FMLHeaderToNet, the valid cells, and
\* FMLHeaderToLocal on the other side, where the buffer is just full.
Tpcall ==
    /\ offset > 0
    /\ cells' = [j \in DOMAIN cells |-> IF j < FMLValidSize THEN cells[j] ELSE Byte("zero")]
    /\ size' = offset
    /\ ret' = "OK"
    /\ UNCHANGED <<offset, spoiled>>

Next == ~spoiled /\
    \/ \E f \in Field :
         \/ \E v \in ValuesOf(f) : Fadd32(f, v)
         \/ \E oc \in 0 .. Len(Walk[0]) :
              \/ \E v \in ValuesOf(f) : FchgFixed(f, oc, v) \/ FchgText(f, oc, v)
              \/ FchgDelete(f, oc)
    \/ Tpcall

Spec == Init /\ [][Next]_vars

-----------------------------------------------------------------------------
\* Fget32: the value, or FNOTPRES.
Fget32(f, oc) == LET k == PlaceOf(f, oc)
                 IN IF k = -1 THEN [ret |-> "FNOTPRES", value |-> <<>>]
                    ELSE [ret |-> "OK", value |-> ValueAt(k)]

\* Foccur32 takes every step by the width of the first field (636).  Where a
\* step ends inside a field, the bytes of a value are taken for an identifier,
\* which may be the one that is looked for: one of these numbers is returned.
FieldPlaces == {Walk[0][j] : j \in DOMAIN Walk[0]}
FoccurSteps == {k \in 0 .. offset - 1 :
                   FMLFieldNextOffset(0) > 0 /\ k % FMLFieldNextOffset(0) = 0}
FoccurHits(f) == {k \in FoccurSteps \cap FieldPlaces : At(k) = Id(f)}
Foccur32(f) == LET n == Cardinality(FoccurHits(f))
               IN n .. n + Cardinality(FoccurSteps \ FieldPlaces)

-----------------------------------------------------------------------------
TypeOK ==
    /\ cells \in [0 .. BodySize - 1 -> Cell]
    /\ size \in 0 .. BodySize
    /\ offset \in 0 .. 2 * BodySize
    /\ spoiled \in BOOLEAN
    /\ ret \in {"OK", "FNOSPACE", "FNOTPRES"}

Abstract == INSTANCE FieldedBuffer WITH fields <- Contents

(* Until Fchg32 tears them (see spoiled), the buffer is the list of fields *)
(* that the program has made of it: every step adds, changes or deletes    *)
(* one field of the list, or leaves all as they are, across a tpcall too.  *)
(* That Fchg32 says "OK" where it has done nothing of what it was asked    *)
(* for is FchgAsCommented's matter.                                        *)
KeptFields ==
    [][spoiled' \/ UNCHANGED <<cells, offset>> \/ UNCHANGED Contents \/ Abstract!Next]_vars

(* The fields end where the header says: a walk comes by whole fields only *)
(* and stops exactly at the offset, inside the body.                       *)
WellFormed == ~spoiled =>
    /\ offset <= size
    /\ LET places == Walk[0]
       IN offset = 0 \/ places[Len(places)] + FMLFieldNextOffset(places[Len(places)]) = offset

\* The fields that the steps of Foccur32 are sure to come by: all before them
\* are as long as the first.
Reached == {j \in DOMAIN Walk[0] :
               \A m \in 1 .. j - 1 : FMLFieldNextOffset(Walk[0][m]) = FMLFieldNextOffset(0)}
Uniform == \A j \in DOMAIN Walk[0] : FMLFieldNextOffset(Walk[0][j]) = FMLFieldNextOffset(0)

(* Foccur32 counts no less than the occurrences up to and with the field   *)
(* behind the first of another length.  In a buffer of equally long fields  *)
(* it counts right: every occurrence that was counted can be read, and the *)
(* next one cannot.  Where lengths differ (636) it may count too few, and  *)
(* too many, and more is not said of it.                                   *)
OccurrencesRead == ~spoiled =>
    \A f \in Field : \A n \in Foccur32(f) :
        /\ n >= Cardinality({j \in Reached : At(Walk[0][j]).of = f})
        /\ Uniform => \A oc \in 0 .. n : Fget32(f, oc).ret = "OK" <=> oc < n

(* A fielded buffer is the list of fields its program has made: all of these. *)
FieldsKept == [](WellFormed /\ OccurrencesRead) /\ KeptFields

(* What the comment above Fchg32 says of an occurrence that is found: its  *)
(* value becomes the given one (234); without a value it is deleted (236). *)
(* An "OK" for it means no less.                                           *)
FchgAsCommented ==
    [][\A f \in Field, oc \in 0 .. Len(Walk[0]) :
          /\ \A v \in ValuesOf(f) :
                (FchgFixed(f, oc, v) \/ FchgText(f, oc, v)) /\ ret' = "OK" => Abstract!Change(f, oc, v)
          /\ FchgDelete(f, oc) /\ ret' = "OK" => Abstract!Delete(f, oc)]_vars
=============================================================================
