------------------------------ MODULE NodeBody ------------------------------
(***************************************************************************)
(* What the body of a CAS node determines: its children, its sizes, and    *)
(* what storing it charges a realm (packages/cas-core, and the size        *)
(* computations of the casfa-v2 chunks controller).                        *)
(*                                                                         *)
(* A node is identified with its content hash: a body that does not hash   *)
(* to its key is refused before any store is read, so it is no node.       *)
(***************************************************************************)
EXTENDS Integers, Sequences, FiniteSets, Functions

CONSTANTS
  Node,         \* node bodies, each identified with its content hash
  Kind,         \* Node -> "dict" | "file" | "successor"
  Children,     \* Node -> sequence of child keys, as in the body
  Payload,      \* Node -> header.size, the length of the payload section
  HeaderSize,   \* HEADER_SIZE of the binary format
  HashSize      \* HASH_SIZE of the binary format

NodeKinds == {"dict", "file", "successor"}

FileInfoSize == 64

\* Steps 1 to 10 of validateNode, as far as they bound the sizes: a file starts
\* with its FileInfo, and the names of a dict are distinct, each with two bytes
\* for its length.
WellFormed(n) ==
  /\ Kind[n] = "file" => Payload[n] >= FileInfoSize
  /\ Kind[n] = "dict" /\ Children[n] # <<>> => Payload[n] >= 3 * Len(Children[n]) - 1

ASSUME BodyAssumption ==
  /\ Node # {} /\ IsFiniteSet(Node)
  /\ Kind \in [Node -> NodeKinds]
  /\ Children \in [Node -> Seq(Node)]
  /\ Payload \in [Node -> Nat]
  /\ HeaderSize \in Nat \ {0}
  /\ HashSize \in Nat
  /\ \A n \in Node : WellFormed(n)

ChildSet(n) == Range(Children[n])

\* bytes.length, which step 5 of validateNode forces to be this sum.
PhysicalSize(n) == HeaderSize + HashSize * Len(Children[n]) + Payload[n]

\* A directory carries no data of its own.
LogicalSize(n) == IF Kind[n] = "dict" THEN 0 ELSE Payload[n]

\* Step 13 of validateNode: a dict's header.size must be the sum of its
\* children's header.size, a child that occurs twice counting twice.
PayloadBelow(n) ==
  LET at == DOMAIN Children[n]
  IN  FoldFunctionOnSet(+, 0, [i \in at |-> Payload[Children[n][i]]], at)

SizeAgrees(n) ==
  Kind[n] = "dict" /\ Children[n] # <<>> => Payload[n] = PayloadBelow(n)

\* The counters of a realm's USAGE row, and updateUsage's atomic add.
Usage == [physicalBytes : Nat, logicalBytes : Nat, nodeCount : Nat]

NoUsage == [physicalBytes |-> 0, logicalBytes |-> 0, nodeCount |-> 0]

\* Faulty variant: usage deltas with the sign of a deletion.
Charge_Negated(u, n) ==
  [physicalBytes |-> u.physicalBytes - PhysicalSize(n),
   logicalBytes  |-> u.logicalBytes - LogicalSize(n),
   nodeCount     |-> u.nodeCount - 1]

Charge(u, n) ==
  [physicalBytes |-> u.physicalBytes + PhysicalSize(n),
   logicalBytes  |-> u.logicalBytes + LogicalSize(n),
   nodeCount     |-> u.nodeCount + 1]
=============================================================================
