------------------------------ MODULE ByteOrder ------------------------------
(* Integers in the memory of a host, byte by byte, and what htonl and its     *)
(* kin make of them (Utility.cpp).  A byte has ByteBase values.               *)
EXTENDS Integers, Sequences, SequencesExt

CONSTANT ByteBase
ASSUME BaseAssumption == ByteBase \in Nat \ {0, 1}

Order == {"big", "little"}

\* The last n digits of v, the most significant one first, and the value of digits.
Digits(v, n) ==
    LET rest[k \in 0 .. n] == IF k = 0 THEN v ELSE rest[k - 1] \div ByteBase
    IN [i \in 1 .. n |-> rest[n - i] % ByteBase]
ValueOf(digits) ==
    LET value[k \in 0 .. Len(digits)] == IF k = 0 THEN 0 ELSE value[k - 1] * ByteBase + digits[k]
    IN value[Len(digits)]

InMemory(v, n, order) == IF order = "big" THEN Digits(v, n) ELSE Reverse(Digits(v, n))
FromMemory(bytes, order) == ValueOf(IF order = "big" THEN bytes ELSE Reverse(bytes))

SwapBytes(v, n) == ValueOf(Reverse(Digits(v, n)))

\* htonl, ntohl and those for other widths.
ToNet(v, n, order) == IF order = "little" THEN SwapBytes(v, n) ELSE v

\* IntegerToLocalByte16, 32 and 64.
IntegerToLocalByte(v, n, order, inBigEndian) ==
    IF (order = "big") # inBigEndian THEN SwapBytes(v, n) ELSE v
=============================================================================
