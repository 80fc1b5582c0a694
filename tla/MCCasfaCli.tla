----------------------------- MODULE MCCasfaCli -----------------------------
(* CasfaCli for model checking. *)
EXTENDS CasfaCli, TLC

Symmetric == Permutations(Proc) \cup Permutations(Token)
=============================================================================
