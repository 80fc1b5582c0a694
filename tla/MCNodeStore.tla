---------------------------- MODULE MCNodeStore ----------------------------
(* Instances of NodeStore for TLC.  Sizes are those of the binary format:    *)
(* a 16-byte header, 16 bytes per child, at least 64 bytes of FileInfo.      *)
EXTENDS NodeStore, TLC

CONSTANTS leaf, tail, file, dict, big

MCKind == (leaf :> "file") @@ (tail :> "successor") @@ (file :> "file")
          @@ (dict :> "dict") @@ (big :> "file")

MCChildren == (leaf :> <<>>) @@ (tail :> <<>>) @@ (file :> <<tail>>)
              @@ (dict :> <<leaf, leaf>>) @@ (big :> <<>>)

\* dict names its one child twice, under names that happen to be as long as
\* the child's payload, as the validator demands.
MCPayload == (leaf :> 66) @@ (tail :> 10) @@ (file :> 70)
             @@ (dict :> 132) @@ (big :> 100)

KindOf     == [n \in Node |-> MCKind[n]]
ChildrenOf == [n \in Node |-> MCChildren[n]]
PayloadOf  == [n \in Node |-> MCPayload[n]]

Unlimited == [r \in Realm |-> 0]
\* Room for leaf and for dict or big alone, not for any two of them.
Limited   == [r \in Realm |-> 190]

Slots          == Permutations(Proc)
SlotsAndRealms == Permutations(Proc) \cup Permutations(Realm)
=============================================================================
