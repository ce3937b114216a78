------------------------------ MODULE MCIPCSem ------------------------------
(* Model values for the runs of IPCSem: a WSH with two threads and SYNC with  *)
(* one.                                                                     *)
EXTENDS IPCSem, TLC

CONSTANTS wsh, sync, w1, w2, s1

MCProcess == {wsh, sync}
MCThread == {w1, w2, s1}
MCOwner == (w1 :> wsh) @@ (w2 :> wsh) @@ (s1 :> sync)

=============================================================================
