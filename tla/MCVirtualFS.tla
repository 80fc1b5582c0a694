---------------------------- MODULE MCVirtualFS ----------------------------
(* Instances of VirtualFS for TLC: two names, a stored directory in the root. *)
EXTENDS VirtualFS

CONSTANTS f1, f2, f3

Sub == [b |-> f1]
MCData == {f1, f2, f3}
MCRoot == {[a |-> Sub]}
MCNode == MCData \cup MCRoot \cup {Sub}
MCMounted == {[form |-> "node", val |-> Sub]}
MCPath == {<<"a">>, <<"b">>, <<"a", "b">>, <<"b", "b">>}

Slots == Permutations(Call)
=============================================================================
