----------------------------- MODULE MCTickets -----------------------------
(* Instances of Tickets for TLC. *)
EXTENDS Tickets, TLC

Slots == Permutations(Proc) \cup Permutations(Root)
=============================================================================
