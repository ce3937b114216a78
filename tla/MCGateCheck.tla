----------------------------- MODULE MCGateCheck -----------------------------
(* Model values for the runs of GateCheck. *)
EXTENDS GateCheck, TLC

CONSTANTS t1, t2

MCCaller == {t1, t2}

=============================================================================
