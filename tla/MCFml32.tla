------------------------------ MODULE MCFml32 ------------------------------
(* Model values for the FML32 functions on one buffer. *)
EXTENDS Fml32

MCFields == {"s", "l", "t"}
MCTypes == [s |-> "short", l |-> "long", t |-> "string"]
MCSmalls == {<<"0">>, <<"1">>}
MCTexts == {<<>>, <<"x", "y">>}
=============================================================================
