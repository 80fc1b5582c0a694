-------------------------- MODULE MCClientPairing --------------------------
(* Instances of ClientPairing for TLC. *)
EXTENDS ClientPairing, TLC

Slots == Permutations(Proc) \cup Permutations(Code) \cup Permutations(User)
=============================================================================
