---------------------------- MODULE MCDepotTable ----------------------------
(* Instances of DepotTable for TLC. *)
EXTENDS DepotTable, TLC

Slots == Permutations(Proc) \cup Permutations(Key)
=============================================================================
