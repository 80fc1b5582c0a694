------------------------------ MODULE MCDepots ------------------------------
(* Instances of Depots for TLC. *)
EXTENDS Depots, TLC

Names == {StorageName(n) : n \in Node \cup {EmptyNode}}
         \cup {CommitName(n) : n \in Node \cup {EmptyNode}}

Slots == Permutations(Proc) \cup Permutations(Depot) \cup Permutations(Node)
=============================================================================
