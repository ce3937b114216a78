------------------------------ MODULE ViewFile ------------------------------
(***************************************************************************)
(* viewc32: a view file is read line by line (View32Paser) into the text   *)
(* of a C header and into the description of its structures; a program     *)
(* compiled with the header measures the structures; genviewbinfile writes *)
(* the description with what was measured as the file that applications    *)
(* load.  It extends the module of the other compiler of headers, with     *)
(* which it has nothing in common but that programs include both headers.  *)
(***************************************************************************)
EXTENDS FieldTable, Sequences, FiniteSets

CONSTANTS ViewName,    \* names of structures
          ItemType,    \* types of items, "string" among them
          Width,       \* bytes of one element of a type, as the compiler has it
          Count,       \* counts of items, as the file has them: 0 for "-"
          Length,      \* lengths of strings: 0 for none
          ViewMax      \* bound: lines of a file

ASSUME ViewFileAssumption ==
    /\ Width \in [ItemType -> Nat] /\ ("string" \in ItemType => Width["string"] = 1)
    /\ Count \subseteq Int /\ Length \subseteq Nat

VARIABLES lineNo,      \* how many lines have been read
          runSection,  \* in a structure or between two
          structItemNum,
          structInfo,  \* the structure being read
          structs,     \* m_FileInfo.structs
          validLine,   \* m_ValidLine: what the header will say
          bResult,     \* a structure has come to its END
          viewState,   \* "reading", "refused", "parsed", "measured"
          offsets      \* the offsets of items in the file that was written

viewVars == <<lineNo, runSection, structItemNum, structInfo, structs,
              validLine, bResult, viewState, offsets>>

ItemLine == [kind : {"item"}, type : ItemType, count : Count, length : Length]
ViewLine == [kind : {"VIEW"}, name : ViewName]
OtherViewLine == {[kind |-> "END"], [kind |-> "blank"], [kind |-> "$"], [kind |-> "unknown"]}

ViewInit == /\ lineNo = 0
            /\ runSection = "SPACE_SECTION"
            /\ structItemNum = 0
            /\ structInfo = [name |-> "", items |-> <<>>]
            /\ structs = <<>>
            /\ validLine = <<>>
            /\ bResult = FALSE
            /\ viewState = "reading"
            /\ offsets = <<>>

\* What an item is in the description, and what the header declares: there an
\* array only from two elements on.
ItemOf(line) == [type |-> line.type, count |-> IF line.count < 1 THEN 1 ELSE line.count,
                 length |-> IF line.type = "string" THEN line.length ELSE 0]
Declared(line) == [type |-> line.type, elements |-> IF line.count > 1 THEN line.count ELSE 0,
                   length |-> IF line.type = "string" THEN line.length ELSE 0]

Refuse == /\ viewState' = "refused"
          /\ UNCHANGED <<runSection, structItemNum, structInfo, structs, validLine, bResult>>

\* An item: only in a structure, and a string only with its length.
ReadItem(line) ==
    IF runSection # "STRUCT_SECTION" \/ (line.type = "string" /\ line.length = 0) THEN Refuse
    ELSE /\ validLine' = Append(validLine, [label |-> "ITEM", item |-> Declared(line)])
         /\ structInfo' = [structInfo EXCEPT !.items = Append(@, ItemOf(line))]
         /\ structItemNum' = structItemNum + 1
         /\ UNCHANGED <<runSection, structs, bResult, viewState>>

\* VIEW: only between structures.
ReadView(line) ==
    IF runSection # "SPACE_SECTION" \/ structItemNum # 0 THEN Refuse
    ELSE /\ validLine' = Append(validLine, [label |-> "BEGIN", name |-> line.name])
         /\ runSection' = "STRUCT_SECTION"
         /\ structItemNum' = 0
         /\ structInfo' = [name |-> line.name, items |-> <<>>]
         /\ UNCHANGED <<structs, bResult, viewState>>

\* END: only of a structure with items.
ReadEnd ==
    IF runSection # "STRUCT_SECTION" \/ structItemNum = 0 THEN Refuse
    ELSE /\ validLine' = Append(validLine, [label |-> "END"])
         /\ runSection' = "SPACE_SECTION"
         /\ structItemNum' = 0
         /\ structs' = Append(structs, structInfo)
         /\ bResult' = TRUE
         /\ UNCHANGED <<structInfo, viewState>>

\* One turn of the loop of ParseTextToStruct.  A line that begins with $ goes
\* into the header as it is.
ReadViewLine(line) ==
    /\ viewState = "reading" /\ lineNo < ViewMax
    /\ lineNo' = lineNo + 1
    /\ UNCHANGED offsets
    /\ \/ line.kind = "item" /\ ReadItem(line)
       \/ line.kind = "VIEW" /\ ReadView(line)
       \/ line.kind = "END" /\ ReadEnd
       \/ line.kind = "unknown" /\ Refuse
       \/ /\ line.kind \in {"blank", "$"}
          /\ validLine' = IF line.kind = "$" THEN Append(validLine, [label |-> "COMMENT"])
                          ELSE validLine
          /\ UNCHANGED <<runSection, structItemNum, structInfo, structs, bResult, viewState>>

\* The end of the file.  A structure that is still open is not asked for.
EndOfView ==
    /\ viewState = "reading"
    /\ viewState' = IF bResult THEN "parsed" ELSE "refused"
    /\ UNCHANGED <<lineNo, runSection, structItemNum, structInfo, structs, validLine,
                   bResult, offsets>>

-----------------------------------------------------------------------------
(* The program that measures, and genviewbinfile.                          *)

\* The k-th of some lines.
Nth(lines, k) == CHOOSE x \in lines : Cardinality({y \in lines : y <= x}) = k

\* Entries of the header that belong to its j-th structure: up to its END.
Begins == {k \in DOMAIN validLine : validLine[k].label = "BEGIN"}
BeginOf(j) == Nth(Begins, j)
EndsAfter(k) == {e \in DOMAIN validLine : e > k /\ validLine[e].label = "END"}
MembersAfter(k) == {m \in DOMAIN validLine : m > k /\ validLine[m].label = "ITEM"
                                            /\ \A e \in EndsAfter(k) : m < e}
DeclaredIn(j) == LET members == MembersAfter(BeginOf(j))
                 IN [k \in 1 .. Cardinality(members) |-> validLine[Nth(members, k)]]

\* What the compiler makes of a declaration, without padding.
Times(x) == IF x = 0 THEN 1 ELSE x
Extent(item) == Width[item.type] * Times(item.elements) * Times(item.length)
Offset(items, k) ==
    LET end[n \in Nat] == IF n = 0 THEN 0 ELSE end[n - 1] + Extent(items[n].item)
    IN end[k - 1]

\* The program stores the offsets of all structures in one array, in order:
\* of each item behind those of the items before it.
ItemPlaces == UNION {{<<i, k>> : k \in DOMAIN structs[i].items} : i \in DOMAIN structs}
UpTo(p) == {q \in ItemPlaces : q[1] < p[1] \/ (q[1] = p[1] /\ q[2] <= p[2])}
FlatIndex(p) == Cardinality(UpTo(p))
Measured == [x \in {FlatIndex(p) : p \in ItemPlaces} |->
                LET at == CHOOSE p \in ItemPlaces : FlatIndex(p) = x
                IN Offset(DeclaredIn(at[1]), at[2])]

\* genviewbinfile walks the structures with one index.
ItemIndex(i, k) == FlatIndex(<<i, k>>)

\* GenTestProgram: compiled, run and gone.  A structure that is not closed or
\* is there twice does not compile.
Measure ==
    /\ viewState = "parsed"
    /\ IF runSection = "STRUCT_SECTION"
          \/ \E i, j \in DOMAIN structs : i # j /\ structs[i].name = structs[j].name
       THEN viewState' = "refused" /\ UNCHANGED offsets
       ELSE /\ viewState' = "measured"
            /\ offsets' = [i \in DOMAIN structs |->
                              [k \in DOMAIN structs[i].items |-> Measured[ItemIndex(i, k)]]]
    /\ UNCHANGED <<lineNo, runSection, structItemNum, structInfo, structs, validLine, bResult>>

ViewNext == (\E line \in ItemLine \cup ViewLine \cup OtherViewLine : ReadViewLine(line))
            \/ EndOfView \/ Measure

ViewSpec == ViewInit /\ [][ViewNext]_viewVars

-----------------------------------------------------------------------------
\* GetSizeByType.
SizeByType(item) == IF item.type = "string" THEN item.length ELSE Width[item.type]

(* The file that applications load describes the structures that programs  *)
(* are compiled with: the same items in the same order, each where the     *)
(* compiler put it and as long as the compiler made it.                    *)
DescribesHeader == viewState = "measured" =>
    /\ Cardinality(Begins) = Len(structs)
    /\ \A i \in DOMAIN structs :
          LET declared == DeclaredIn(i) IN
          /\ Len(declared) = Len(structs[i].items)
          /\ \A k \in DOMAIN declared :
                /\ offsets[i][k] = Offset(declared, k)
                /\ Extent(declared[k].item) = SizeByType(structs[i].items[k]) * structs[i].items[k].count

(* What mkfldhdr32 and viewc32 write says what their tables do: the numbers *)
(* that identify fields, and the offsets of the items of a view.            *)
HeadersRight == IdentifiersSayTypes /\ DescribesHeader
=============================================================================
