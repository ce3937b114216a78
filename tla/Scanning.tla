------------------------------- MODULE Scanning -------------------------------
(***************************************************************************)
(* How texts are taken apart: lines of a configuration file, addresses and *)
(* lists.  All three are the same sscanf, "%[^ D]%*[ D]%[^$]" with another *)
(* delimiter D: what stands before the first blank or D, and what follows  *)
(* after all the blanks and D.  A text is a sequence of words and marks.   *)
(***************************************************************************)
EXTENDS Integers, Sequences, SequencesExt

CONSTANTS Word,  \* what is neither a blank nor a mark
          Blank, \* what stands around the marks of a line: " ", "tab", "cr" or nothing, ""
          ItemsMax \* bound: the items of a list

ASSUME ScanningAssumption ==
    /\ Word \cap {" ", "tab", "cr", "=", ";", ":", "~", "#", "$", ""} = {}
    /\ Blank \subseteq {" ", "tab", "cr", ""}
    /\ ItemsMax \in Nat

VARIABLES written, \* what somebody means: its kind and its parts
          text,    \* how it is written
          taken    \* what the program makes of it

scanVars == <<written, text, taken>>

-----------------------------------------------------------------------------
(* What is written.                                                        *)

Space(b) == IF b = "" THEN <<>> ELSE <<b>>
Mark(b, mark, c) == Space(b) \o <<mark>> \o Space(c)
Values == {<<v>> : v \in Word} \cup (Word \X {" ", "=", ":"} \X Word)
Comments == {<<>>, <<"#">>, <<"#", " ", "=">>}
Spaces == {"", " "}  \* lists and addresses have no other blanks

\* atoi.
NumberOf == [port \in {"0", "26000", "26001"} |-> CASE port = "0" -> 0 [] port = "26000" -> 26000 [] port = "26001" -> 26001]
Ports == DOMAIN NumberOf

WrittenLine ==
    \E n \in Word, v \in Values, b, c, d \in Blank, comment \in Comments :
        /\ written = [kind |-> "line", parts |-> <<<<n>>, v>>]
        /\ text = <<n>> \o Mark(b, "=", c) \o v \o Space(d) \o comment
WrittenAddress ==
    \E host \in Word, p, q \in Ports, range \in BOOLEAN, b, c \in Spaces :
        /\ written = [kind |-> "address", parts |-> <<<<host>>, <<p>>, <<IF range THEN q ELSE p>>>>]
        /\ text = <<host>> \o Mark(b, ":", c) \o <<p>> \o IF range THEN Mark(b, "~", c) \o <<q>> ELSE <<>>
WrittenList ==
    \E n \in 1 .. ItemsMax : \E items \in [1 .. n -> Word], b, c \in Spaces :
        /\ written = [kind |-> "list", parts |-> [i \in 1 .. n |-> <<items[i]>>]]
        /\ text = <<items[1]>> \o FlattenSeq([i \in 1 .. n - 1 |-> Mark(b, ";", c) \o <<items[i + 1]>>])

NotRead == <<>>
Unread == <<"unread">>
ScanInit == (WrittenLine \/ WrittenAddress \/ WrittenList) /\ taken = Unread

-----------------------------------------------------------------------------
(* sscanf: what it fills in.                                               *)

\* The length of the longest beginning of t of what is in chars, "%[...]", and of what is not, "%[^...]".
Before(t, stops) == IF stops = {} THEN Len(t) ELSE (CHOOSE i \in stops : \A j \in stops : i <= j) - 1
While(t, chars) == Before(t, {i \in DOMAIN t : t[i] \notin chars})
Until(t, chars) == Before(t, {i \in DOMAIN t : t[i] \in chars})
From(t, i) == SubSeq(t, i + 1, Len(t))

\* "%[^ D]%*[ D]%[^$]": nothing, the first part, or both.
Scan(t, D) ==
    LET i == Until(t, {" ", D})
        rest == From(t, i)
        j == While(rest, {" ", D})
        last == From(rest, j)
        k == Until(last, {"$"})
    IN  IF i = 0 THEN <<>>
        ELSE IF j = 0 \/ k = 0 THEN <<SubSeq(t, 1, i)>>
        ELSE <<SubSeq(t, 1, i), SubSeq(last, 1, k)>>

\* StringUtil::TrimAll.
BlankChars == {" ", "tab", "cr"}
TrimAll(t) ==
    LET i == While(t, BlankChars)
        j == While(Reverse(t), BlankChars)
    IN  IF i = Len(t) THEN <<>> ELSE SubSeq(t, i + 1, Len(t) - j)

(* A mistake: the name is not trimmed. *)
NameAsItIs(pair) == <<pair[1], TrimAll(pair[2])>>

Trimmed(pair) == <<TrimAll(pair[1]), TrimAll(pair[2])>>

\* A line without the comment; without two parts it is passed over.
ReadLine(t) ==
    LET line == SubSeq(t, 1, Until(t, {"#"}))
        pair == Scan(line, "=")
    IN  IF line = <<>> \/ Len(pair) # 2 THEN NotRead ELSE Trimmed(pair)

\* Socket::SplitAddr: a host and a port, or a range of them.
SplitAddr(t) ==
    LET hostPort == Scan(t, ":")
        ports == Scan(hostPort[2], "~")
    IN  IF Len(hostPort) # 2 \/ ports = <<>> \/ NumberOf[Last(ports)[1]] < NumberOf[ports[1][1]] THEN NotRead
        ELSE <<hostPort[1], ports[1], Last(ports)>>

Piece(parts) == IF parts = <<>> THEN <<>> ELSE <<parts[1]>>

\* StringUtil::SplitString: the rest of a text is the next one.
SplitString(t) ==
    LET Split[n \in 0 .. Len(t)] ==
          LET parts == Scan(From(t, Len(t) - n), ";")
          IN  Piece(parts) \o IF Len(parts) = 2 THEN Split[Len(parts[2])] ELSE <<>>
    IN  Split[Len(t)]

ScanNext ==
    /\ taken = Unread
    /\ taken' = CASE written.kind = "line" -> ReadLine(text)
                  [] written.kind = "address" -> SplitAddr(text)
                  [] written.kind = "list" -> SplitString(text)
    /\ UNCHANGED <<written, text>>
ScanSpec == ScanInit /\ [][ScanNext]_scanVars

-----------------------------------------------------------------------------
IsRange == NumberOf[written.parts[2][1]] <= NumberOf[written.parts[3][1]]

(* What is written is what is read, whatever blanks stand around the marks *)
(* and whatever marks are within the value: nothing of a comment becomes   *)
(* part of it.  Only a range of ports of which the last is less than the   *)
(* first is not an address.                                                *)
ReadAsWritten ==
    taken = Unread \/ taken = IF written.kind = "address" /\ ~IsRange THEN NotRead ELSE written.parts
=============================================================================
