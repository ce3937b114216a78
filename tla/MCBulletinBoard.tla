--------------------------- MODULE MCBulletinBoard ---------------------------
(* Model values and symmetry for BulletinBoard, and the administrator's      *)
(* tools of Shutdown: what is on a board, and how the boards of a host come  *)
(* and go.  They share no state here; the first state of a behaviour chooses *)
(* one of them, and the other stays as it is.                                *)
EXTENDS BulletinBoard, Shutdown, TLC

CONSTANTS n1, n2, a1, a2

MCName == {n1, n2}
MCAddr == {a1, a2}
Sym == Permutations({n1, n2}) \cup Permutations({a1, a2})

VARIABLE part

partVars == <<part, vars, toolsVars>>

PartInit ==
  /\ part \in {"services", "tools"}
  /\ Init /\ ToolsInit
  /\ part = "services" => suppressed   \* any value: it is not read then

PartNext ==
  /\ UNCHANGED part
  /\ \/ part = "services" /\ Next /\ UNCHANGED toolsVars
     \/ part = "tools" /\ ToolsNext /\ UNCHANGED vars

PartSpec == PartInit /\ [][PartNext]_partVars

=============================================================================
