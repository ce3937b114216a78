---------------------------- MODULE FieldedBuffer ----------------------------
(***************************************************************************)
(* What a fielded buffer is to a program: a list of fields with values, in *)
(* the order in which they were added.  The comment above Fchg32 says what *)
(* may be done to it (FML32API.cpp:232).                                   *)
(***************************************************************************)
EXTENDS Naturals, Sequences, FiniteSets

CONSTANTS Field, Value

VARIABLE fields    \* sequence of [id, value]

Init == fields = <<>>

\* seq[k] is occurrence oc of field f, counted from 0.
IsOccurrence(seq, f, oc, k) ==
    seq[k].id = f /\ Cardinality({j \in 1 .. k - 1 : seq[j].id = f}) = oc

Add(f, v) == fields' = Append(fields, [id |-> f, value |-> v])

Change(f, oc, v) == \E k \in DOMAIN fields :
    /\ IsOccurrence(fields, f, oc, k)
    /\ fields' = [fields EXCEPT ![k].value = v]

Delete(f, oc) == \E k \in DOMAIN fields :
    /\ IsOccurrence(fields, f, oc, k)
    /\ fields' = SubSeq(fields, 1, k - 1) \o SubSeq(fields, k + 1, Len(fields))

Next == \E f \in Field :
    \/ \E v \in Value : Add(f, v) \/ \E oc \in DOMAIN fields : Change(f, oc - 1, v)
    \/ \E oc \in DOMAIN fields : Delete(f, oc - 1)

Spec == Init /\ [][Next]_fields
=============================================================================
