------------------------------- MODULE Ledger -------------------------------
(***************************************************************************)
(* What the inventory of kpt live promises, whatever stores it: an object  *)
(* that kpt put on the cluster is written down somewhere on that cluster   *)
(* for as long as it exists, so that a later apply can prune it and        *)
(* destroy can delete it.                                                  *)
(***************************************************************************)
CONSTANT Objs

VARIABLES
  recorded,     \* the objects that some inventory on the cluster lists
  owned         \* the objects on the cluster that carry an inventory's mark

vars == <<recorded, owned>>

Init ==
  /\ recorded \in SUBSET Objs
  /\ owned \in SUBSET recorded

\* Intentions are written down before anything is applied.
Record ==
  /\ recorded' \in SUBSET Objs
  /\ recorded \subseteq recorded'
  /\ UNCHANGED owned

Apply(o) ==
  /\ o \in recorded
  /\ owned' = owned \union {o}
  /\ UNCHANGED recorded

Remove(o) ==
  /\ owned' = owned \ {o}
  /\ UNCHANGED recorded

\* An entry is struck out only once its object is gone.
Forget ==
  /\ recorded' \in SUBSET recorded
  /\ owned \subseteq recorded'
  /\ UNCHANGED owned

Next == Record \/ Forget \/ \E o \in Objs : Apply(o) \/ Remove(o)

Spec == Init /\ [][Next]_vars
=============================================================================
