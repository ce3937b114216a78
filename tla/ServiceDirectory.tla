-------------------------- MODULE ServiceDirectory --------------------------
(***************************************************************************)
(* What the bulletin board of a txgate promises the rest of tuxone: a      *)
(* bounded set of registrations, each owned by this gate (SELF) or by the  *)
(* gate it was copied from, and a version that moves with every change.    *)
(* Slots, slot states and memory layout do not appear; BulletinBoard.tla   *)
(* implements this module.                                                 *)
(***************************************************************************)
EXTENDS Integers, FiniteSets

CONSTANTS
  Name,      \* service names
  Addr,      \* server addresses
  Gate,      \* the other gates this one copies registrations from
  SELF,      \* the owner of a registration made at this gate
  Capacity,  \* how many registrations the board holds
  Version    \* the values of the version

VARIABLES
  directory, \* the set of current registrations
  version

dvars == <<directory, version>>

Entry == [owner : Gate \cup {SELF}, name : Name, addr : Addr]

Init ==
  /\ directory = {}
  /\ version \in Version

(***************************************************************************)
(* A change of the directory is always accompanied by a new version.       *)
(***************************************************************************)
Become(new) ==
  /\ directory' = new
  /\ version' \in Version
  /\ new # directory => version' # version

(***************************************************************************)
(* A server at address a offers service n at this gate.                    *)
(***************************************************************************)
Register(n, a) ==
  LET e == [owner |-> SELF, name |-> n, addr |-> a] IN
  /\ e \notin directory
  /\ Cardinality(directory) < Capacity
  /\ Become(directory \cup {e})

(***************************************************************************)
(* Everything the server at address a offers at this gate is withdrawn;    *)
(* what other gates reported about that address is not touched.            *)
(***************************************************************************)
Withdraw(a) ==
  Become({e \in directory : ~(e.owner = SELF /\ e.addr = a)})

(***************************************************************************)
(* The registrations copied from gate g become those it reports: what it   *)
(* no longer reports goes, what is still reported stays, and what is new   *)
(* is added unless the board is full.                                      *)
(***************************************************************************)
Synchronise(g, reported) ==
  LET wanted  == {[owner |-> g, name |-> s.name, addr |-> s.addr] : s \in reported}
      kept    == {e \in directory : e.owner = g => e \in wanted}
      missing == wanted \ directory
  IN \E added \in SUBSET missing :
       /\ added = missing \/ Cardinality(kept \cup added) = Capacity
       /\ Become(kept \cup added)

Next ==
  \/ \E n \in Name, a \in Addr : Register(n, a)
  \/ \E a \in Addr : Withdraw(a)
  \/ \E g \in Gate, reported \in SUBSET [name : Name, addr : Addr] :
       Synchronise(g, reported)

Spec == Init /\ [][Next]_dvars

=============================================================================
