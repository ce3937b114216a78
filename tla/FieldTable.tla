----------------------------- MODULE FieldTable -----------------------------
(***************************************************************************)
(* mkfldhdr32: a table of FML32 fields is read line by line (Fml32Paser)   *)
(* and written as a header that gives each field its identifier, from      *)
(* which Fldtype32 later takes the type of the field.                      *)
(***************************************************************************)
EXTENDS Integers, Sequences

CONSTANTS FieldType,   \* the FLD_ codes of types: 0 .. 6 in the code
          Factor,      \* FML32_BASE_FACTOR
          Base,        \* numbers of *base lines
          Number,      \* numbers of fields
          TableMax     \* bound: lines of a table

ASSUME TableAssumption == Factor \in Nat \ {0} /\ FieldType \subseteq Nat
                          /\ Base \subseteq Nat /\ Number \subseteq Nat

VARIABLES tableLines,  \* the lines read so far
          baseNum,     \* m_nBaseNum
          fieldItems,  \* m_Fml32ItemVector
          tableState   \* "reading", "refused", or "written": the header exists

tableVars == <<tableLines, baseNum, fieldItems, tableState>>

BaseLine == [kind : {"base"}, number : Base]
FieldLine == [kind : {"field"}, number : Number, type : FieldType]
OtherLine == {[kind |-> "blank"], [kind |-> "unknown"]}

TableInit == /\ tableLines = <<>>
             /\ baseNum = 0
             /\ fieldItems = <<>>
             /\ tableState = "reading"

(* A mistake: the base is left out of the check. *)
NumberAloneFits(line) == line.number <= Factor - 1

\* A number and the base together stay below the next type's identifiers.
NumberFits(line) == line.number + baseNum <= Factor - 1

\* One turn of the loop of Parse; a comment is a blank line.
ReadTableLine(line) ==
    /\ tableState = "reading" /\ Len(tableLines) < TableMax
    /\ tableLines' = Append(tableLines, line)
    /\ CASE line.kind = "blank" -> UNCHANGED <<baseNum, fieldItems, tableState>>
         [] line.kind = "base" -> /\ baseNum' = line.number
                                  /\ UNCHANGED <<fieldItems, tableState>>
         [] line.kind = "field" /\ NumberFits(line) ->
                /\ fieldItems' = Append(fieldItems, line)
                /\ UNCHANGED <<baseNum, tableState>>
         [] OTHER -> tableState' = "refused" /\ UNCHANGED <<baseNum, fieldItems>>

\* The end of the file: bResult is true as soon as there was a field, and
\* GenHeader follows.
EndOfTable ==
    /\ tableState = "reading"
    /\ tableState' = IF fieldItems # <<>> THEN "written" ELSE "refused"
    /\ UNCHANGED <<tableLines, baseNum, fieldItems>>

TableNext == (\E line \in BaseLine \cup FieldLine \cup OtherLine : ReadTableLine(line))
             \/ EndOfTable

TableSpec == TableInit /\ [][TableNext]_tableVars

\* GetFieldID, and the base as it stands when the header is written.
GetFieldID(item) == Factor * item.type + item.number
HeaderID(item) == GetFieldID(item) + baseNum

Fldtype32(id) == id \div Factor

-----------------------------------------------------------------------------
\* The only *base lines come before all fields.
OneBase == \A j, k \in DOMAIN tableLines :
    j < k /\ tableLines[j].kind = "field" => tableLines[k].kind # "base"

(* The identifiers of the header say the types of the fields, and two      *)
(* fields have one only if they are one: in a table that sets its base     *)
(* before its fields.  A later base moves the earlier fields along, out of *)
(* the range that was checked, because GenHeader adds the last one to all. *)
IdentifiersSayTypes == tableState = "written" /\ OneBase =>
    \A j, k \in DOMAIN fieldItems :
        /\ Fldtype32(HeaderID(fieldItems[j])) = fieldItems[j].type
        /\ HeaderID(fieldItems[j]) = HeaderID(fieldItems[k]) => fieldItems[j] = fieldItems[k]
=============================================================================
