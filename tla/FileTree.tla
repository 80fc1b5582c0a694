------------------------------ MODULE FileTree ------------------------------
(***************************************************************************)
(* How cas-core writes a file that is longer than one node: the layout of  *)
(* topology.ts, which fixes the tree by the size of the file and the node  *)
(* limit, the upload of its nodes (controller.ts), and the reading back.   *)
(*                                                                         *)
(* The bytes of the file are the numbers from 0 to size - 1, and a stored  *)
(* node is the record of what it holds: its span of bytes, and its         *)
(* children.  Put of a node is one step, and any of them can fail.         *)
(*                                                                         *)
(* The capacity of a depth is computed with exp and log, in floating       *)
(* point.  For depth 1 it is exact; for depth 2 it may come out just under *)
(* the exact value, and files of exactly that size are then laid out one   *)
(* deeper.  Larger files, which would have subtrees of a capacity that is  *)
(* not an integer, are left out: under the limits in use, 1 and 4 MB, they *)
(* have more than 68 GB, while writeFile takes them as one array.          *)
(***************************************************************************)
EXTENDS Naturals, Sequences

CONSTANTS
  Limit,       \* node limits, in bytes
  HeaderSize,  \* constants.ts
  HashSize,
  InfoSize

ASSUME TreeAssumption ==
  /\ HashSize \in Nat \ {0} /\ HeaderSize \in Nat /\ InfoSize \in Nat
  /\ \A lim \in Limit : lim \in Nat /\ lim > HeaderSize + HashSize

VARIABLES
  limit,   \* nodeLimit of the context
  low,     \* the capacity of depth 2 comes out under its exact value
  size,    \* the size of the file
  puts,    \* the nodes writeFile has still to store
  stored,  \* the nodes in the store
  result   \* how the last call of writeFile ended

vars == <<limit, low, size, puts, stored, result>>

-----------------------------------------------------------------------------

CeilDiv(a, b) == (a + b - 1) \div b

Least(a, b) == IF a <= b THEN a ELSE b

\* Where pieces of these sizes begin, one after the other, and where the last
\* one ends.
Offsets(first, sizes) ==
  LET at[i \in 1..(Len(sizes) + 1)] == IF i = 1 THEN first ELSE at[i - 1] + sizes[i - 1]
  IN  at

\* The first sequence, and the others after it.
Joined(first, seqs) ==
  LET upTo[i \in 0..Len(seqs)] == IF i = 0 THEN first ELSE upTo[i - 1] \o seqs[i]
  IN  upTo[Len(seqs)]

\* Faulty variant: the header takes no room.
Usable_Whole == limit

\* computeUsableSpace
Usable == limit - HeaderSize

\* Faulty variant: the capacity for hashes of twice the size.
Holds_Wide(d, s) ==
  \/ d = 1 /\ s <= Usable
  \/ d = 2 /\ s * 2 * HashSize <= Usable * Usable
  \/ d = 3

\* computeCapacity(d) >= s, for the depths in reach.
Holds(d, s) ==
  \/ d = 1 /\ s <= Usable
  \/ d = 2 /\ s * HashSize <= Usable * Usable /\ ~(low /\ s * HashSize = Usable * Usable)
  \/ d = 3

\* What a child of a node of depth d takes at most.
ChildCapacity(d) == IF d = 2 THEN Usable ELSE (Usable * Usable) \div HashSize

\* computeDepth
Depth(s) == CHOOSE d \in 1..3 : Holds(d, s) /\ \A e \in 1..(d - 1) : ~Holds(e, s)

\* Faulty variant: the last, partial child is forgotten.
ChildCount_Down(d, s) ==
  IF d = 1 \/ s <= Usable THEN 0 ELSE (s - Usable) \div (ChildCapacity(d) - HashSize)

ChildCount(d, s) ==
  IF d = 1 \/ s <= Usable THEN 0 ELSE CeilDiv(s - Usable, ChildCapacity(d) - HashSize)

\* computeLayoutAtDepth throws if the children leave no room.
Fits(d, s) == ChildCount(d, s) * HashSize <= Usable

DataSize(d, s) ==
  IF ChildCount(d, s) = 0 THEN Least(s, Usable) ELSE Usable - ChildCount(d, s) * HashSize

\* The sizes given to the children.
Shares(d, s) ==
  LET leftover(i) == s - DataSize(d, s) - (i - 1) * ChildCapacity(d)
  IN  [i \in 1..ChildCount(d, s) |-> Least(leftover(i), ChildCapacity(d))]

\* computeLayout, for the whole tree: whether it succeeds.
LayoutFits ==
  LET fits[d \in 1..3] == [s \in Nat |->
        /\ Fits(d, s)
        /\ \A i \in 1..ChildCount(d, s) : fits[d - 1][Shares(d, s)[i]]]
  IN  fits[Depth(size)][size]

\* computeLayoutTotalSize, for each depth and size.
LayoutSize ==
  LET total[d \in 1..3] == [s \in Nat |->
        LET below == [i \in 1..ChildCount(d, s) |-> total[d - 1][Shares(d, s)[i]]]
        IN  Offsets(DataSize(d, s), below)[ChildCount(d, s) + 1]]
  IN  total

\* The order of storage.put: the children one after the other, then the node.
InOrder(node, below) == Joined(<<>>, below) \o <<node>>

\* uploadFileNode of the whole tree: its nodes, in the order they are put.
Upload ==
  LET up[d \in 1..3] == [s \in Nat |-> [offset \in Nat |->
        LET shares == Shares(d, s)
            end == offset + DataSize(d, s)
            start == Offsets(end, [i \in DOMAIN shares |-> LayoutSize[d - 1][shares[i]]])
            kids == [i \in DOMAIN shares |-> up[d - 1][shares[i]][start[i]]]
            node == [kind |-> IF d = Depth(size) THEN "file" ELSE "successor",
                     span |-> <<offset, Least(end, size)>>,
                     children |-> [i \in DOMAIN shares |-> kids[i].node]]
        IN  [node |-> node, puts |-> InOrder(node, [i \in DOMAIN shares |-> kids[i].puts])]]]
  IN  up[Depth(size)][size][0]

-----------------------------------------------------------------------------

Init ==
  /\ limit \in Limit /\ low \in BOOLEAN
  /\ size \in 0..((Usable * Usable) \div HashSize)
  /\ puts = <<>> /\ stored = {} /\ result = "none"

\* writeFile, up to its first put.
WriteFile ==
  /\ result \in {"none", "failed"}
  /\ \/ ~LayoutFits /\ result' = "thrown" /\ UNCHANGED puts
     \/ LayoutFits /\ result' = "writing" /\ puts' = Upload.puts
  /\ UNCHANGED <<limit, low, size, stored>>

Put ==
  /\ result = "writing"
  /\ stored' = stored \cup {Head(puts)}
  /\ puts' = Tail(puts)
  /\ result' = IF Len(puts) = 1 THEN "written" ELSE "writing"
  /\ UNCHANGED <<limit, low, size>>

\* The put throws, and writeFile with it; what is stored stays.
PutFails ==
  /\ result = "writing"
  /\ puts' = <<>> /\ result' = "failed"
  /\ UNCHANGED <<limit, low, size, stored>>

Next == WriteFile \/ Put \/ PutFails

Spec == Init /\ [][Next]_vars

-----------------------------------------------------------------------------
(* Reading. *)

\* readFileNodeData of a stored node: the spans it puts together, in order.  A
\* child that is not in the store is passed over without an error.
ReadFile(node) ==
  LET read[x \in stored] ==
        Joined(<<x.span>>, [i \in DOMAIN x.children |->
          IF x.children[i] \in stored THEN read[x.children[i]] ELSE <<>>])
  IN  read[node]

\* Header, children, FileInfo of the root, and data.
EncodedSize(node) ==
  HeaderSize + Len(node.children) * HashSize + (node.span[2] - node.span[1])
    + (IF node.kind = "file" THEN InfoSize ELSE 0)

-----------------------------------------------------------------------------
(* Properties. *)

Files == {n \in stored : n.kind = "file"}

\* A file that can be read at all reads back as every byte once and in order,
\* also while it is written and after a write that failed: its root is stored
\* after every other node, or a child not there would be passed over.
FilesReadBack ==
  \A f \in Files :
    LET spans == ReadFile(f) IN
    /\ spans[1][1] = 0 /\ spans[Len(spans)][2] = size
    /\ \A i \in 1..(Len(spans) - 1) : spans[i][2] = spans[i + 1][1]
    /\ \A i \in DOMAIN spans : spans[i][1] <= spans[i][2]

\* No node is longer than the limit, but for the root, which the layout does not
\* know to hold the 64 bytes of FileInfo: it may be longer by that.
NodesFit ==
  \A n \in stored : EncodedSize(n) <= limit + (IF n.kind = "file" THEN InfoSize ELSE 0)

\* The most that a tree of depth 2 can hold, whatever its shape: a node with n
\* children has room for the rest of its data.
BestOfTwo ==
  LET held == {n * Usable + (Usable - n * HashSize) : n \in 0..(Usable \div HashSize)}
  IN  CHOOSE x \in held : \A y \in held : y <= x

\* writeFile only throws where the limit less the header is no multiple of the
\* hash size; otherwise the tree is as shallow as any tree for the file, unless
\* the file has exactly the capacity of depth 2 and that has come out low.
ShallowTrees ==
  /\ result = "thrown" => Usable % HashSize # 0
  /\ Files # {} /\ size <= BestOfTwo =>
       Depth(size) = (IF size <= Usable THEN 1 ELSE 2) \/ (low /\ size = BestOfTwo)
=============================================================================
