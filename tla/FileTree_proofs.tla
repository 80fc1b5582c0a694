-------------------------- MODULE FileTree_proofs --------------------------
(***************************************************************************)
(* Proofs about FileTree, for any node limits, header, hash and info       *)
(* sizes, and any file within the capacity of depth 2.                     *)
(***************************************************************************)
EXTENDS FileTree, Integers, WellFoundedInduction, TLAPS

-----------------------------------------------------------------------------
(* Sequences. *)

\* Induction over the naturals, for a property given as the set of those that
\* have it.
LEMMA NatInductionOn ==
  ASSUME NEW C, 0 \in C, \A n \in Nat : n \in C => n + 1 \in C
  PROVE  Nat \subseteq C
<1> DEFINE R == OpToRel(<, Nat)
           Left == Nat \ C
<1> SUFFICES ASSUME Left # {} PROVE FALSE
  OBVIOUS
<1>1. PICK n \in Left : \A m \in Left : ~(<<m, n>> \in R)
  <2>1. Left \subseteq Nat /\ Left # {}
    OBVIOUS
  <2>2. IsWellFoundedOn(R, Nat)
    BY NatLessThanWellFounded
  <2> HIDE DEF R, Left
  <2> QED
    BY <2>1, <2>2, WFMin
<1>2. n - 1 \in Left
  OBVIOUS
<1>3. <<n - 1, n>> \in R
  BY <1>2 DEF OpToRel
<1> QED
  BY <1>1, <1>2, <1>3

\* What Offsets computes, piece by piece.
IsOffsets(at, first, sizes, n) ==
  at = [i \in 1..(n + 1) |-> IF i = 1 THEN first ELSE at[i - 1] + sizes[i - 1]]

\* Its recursion has a solution.
LEMMA OffsetsExist ==
  ASSUME NEW first, NEW sizes, NEW n \in Nat
  PROVE  \E at : IsOffsets(at, first, sizes, n)
<1> DEFINE C == {m \in Nat : \E at : IsOffsets(at, first, sizes, m)}
<1>1. 0 \in C
  <2> DEFINE at == [i \in 1..(0 + 1) |-> first]
  <2>1. IsOffsets(at, first, sizes, 0)
    BY DEF IsOffsets
  <2> QED
    BY <2>1
<1>2. ASSUME NEW m \in Nat, m \in C PROVE m + 1 \in C
  <2>1. PICK at : IsOffsets(at, first, sizes, m)
    BY <1>2
  <2> DEFINE e == at[m + 1] + sizes[m + 1]
             g == [i \in 1..(m + 1 + 1) |-> IF i = m + 2 THEN e ELSE at[i]]
  <2>2. \A i \in 1..(m + 1) : g[i] = at[i]
    OBVIOUS
  <2>3. \A i \in 1..(m + 1) : at[i] = IF i = 1 THEN first ELSE at[i - 1] + sizes[i - 1]
    BY <2>1 DEF IsOffsets
  <2>4. g[m + 2] = e /\ g = [i \in 1..(m + 1 + 1) |-> g[i]]
    OBVIOUS
  <2>5. ASSUME NEW i \in 1..(m + 1 + 1)
        PROVE  g[i] = IF i = 1 THEN first ELSE g[i - 1] + sizes[i - 1]
    <3> HIDE DEF g
    <3>1. CASE i = m + 2
      <4>1. g[i - 1] = at[m + 1] /\ i - 1 = m + 1 /\ i # 1
        BY <2>2, <3>1
      <4> QED
        BY <2>4, <3>1, <4>1
    <3>2. CASE i \in 1..(m + 1)
      <4>1. i # 1 => i - 1 \in 1..(m + 1)
        BY <3>2
      <4> QED
        BY <2>2, <2>3, <3>2, <4>1
    <3> QED
      BY <3>1, <3>2
  <2> HIDE DEF g
  <2>6. IsOffsets(g, first, sizes, m + 1)
    BY <2>4, <2>5 DEF IsOffsets
  <2> QED
    BY <2>6
<1> HIDE DEF C
<1>3. Nat \subseteq C
  BY <1>1, <1>2, NatInductionOn
<1> QED
  BY <1>3 DEF C

\* Each piece begins where the one before it ends.
LEMMA OffsetsFacts ==
  ASSUME NEW first \in Int, NEW sizes \in Seq(Nat)
  PROVE  /\ Offsets(first, sizes)[1] = first
         /\ \A i \in 1..Len(sizes) : Offsets(first, sizes)[i + 1] = Offsets(first, sizes)[i] + sizes[i]
<1> DEFINE n == Len(sizes)
           at == CHOOSE f : IsOffsets(f, first, sizes, n)
<1>1. n \in Nat
  OBVIOUS
<1>2. IsOffsets(at, first, sizes, n)
  BY <1>1, OffsetsExist
<1>3. Offsets(first, sizes) = at
  BY DEF Offsets, IsOffsets
<1> HIDE DEF at
<1>4. \A i \in 1..(n + 1) : at[i] = IF i = 1 THEN first ELSE at[i - 1] + sizes[i - 1]
  BY <1>2 DEF IsOffsets
<1>5. at[1] = first
  BY <1>1, <1>4
<1>6. ASSUME NEW i \in 1..n PROVE at[i + 1] = at[i] + sizes[i]
  <2>1. i + 1 \in 1..(n + 1) /\ i + 1 # 1 /\ (i + 1) - 1 = i
    BY <1>1
  <2> QED
    BY <1>4, <2>1
<1> QED
  BY <1>3, <1>5, <1>6

\* What Joined computes, sequence by sequence.
IsJoined(upTo, first, seqs, n) ==
  upTo = [i \in 0..n |-> IF i = 0 THEN first ELSE upTo[i - 1] \o seqs[i]]

\* Its recursion has a solution.
LEMMA JoinedExists ==
  ASSUME NEW first, NEW seqs, NEW n \in Nat
  PROVE  \E u : IsJoined(u, first, seqs, n)
<1> DEFINE C == {m \in Nat : \E u : IsJoined(u, first, seqs, m)}
<1>1. 0 \in C
  <2> DEFINE u == [i \in 0..0 |-> first]
  <2>1. IsJoined(u, first, seqs, 0)
    BY DEF IsJoined
  <2> QED
    BY <2>1
<1>2. ASSUME NEW m \in Nat, m \in C PROVE m + 1 \in C
  <2>1. PICK u : IsJoined(u, first, seqs, m)
    BY <1>2
  <2> DEFINE e == u[m] \o seqs[m + 1]
             g == [i \in 0..(m + 1) |-> IF i = m + 1 THEN e ELSE u[i]]
  <2>2. \A i \in 0..m : g[i] = u[i]
    OBVIOUS
  <2>3. \A i \in 0..m : u[i] = IF i = 0 THEN first ELSE u[i - 1] \o seqs[i]
    BY <2>1 DEF IsJoined
  <2>4. g[m + 1] = e /\ g = [i \in 0..(m + 1) |-> g[i]]
    OBVIOUS
  <2>5. ASSUME NEW i \in 0..(m + 1)
        PROVE  g[i] = IF i = 0 THEN first ELSE g[i - 1] \o seqs[i]
    <3> HIDE DEF g
    <3>1. CASE i = m + 1
      <4>1. g[i - 1] = u[m] /\ i # 0
        BY <2>2, <3>1
      <4> QED
        BY <2>4, <3>1, <4>1
    <3>2. CASE i \in 0..m
      <4>1. i # 0 => i - 1 \in 0..m
        BY <3>2
      <4> QED
        BY <2>2, <2>3, <3>2, <4>1
    <3> QED
      BY <3>1, <3>2
  <2> HIDE DEF g
  <2>6. IsJoined(g, first, seqs, m + 1)
    BY <2>4, <2>5 DEF IsJoined
  <2> QED
    BY <2>6
<1> HIDE DEF C
<1>3. Nat \subseteq C
  BY <1>1, <1>2, NatInductionOn
<1> QED
  BY <1>3 DEF C

\* The joins of the first n sequences, for every n.
Joins(u, first, seqs) ==
  /\ Joined(first, seqs) = u[Len(seqs)] /\ u[0] = first
  /\ \A i \in 1..Len(seqs) : u[i] = u[i - 1] \o seqs[i]

\* Joined puts the sequences on one after the other.
LEMMA JoinedSteps ==
  ASSUME NEW first, NEW seqs, Len(seqs) \in Nat
  PROVE  \E u : Joins(u, first, seqs)
<1> DEFINE n == Len(seqs)
           u == CHOOSE f : IsJoined(f, first, seqs, n)
<1>1. IsJoined(u, first, seqs, n)
  BY JoinedExists
<1>2. Joined(first, seqs) = u[n]
  BY DEF Joined, IsJoined
<1> HIDE DEF u
<1>3. \A i \in 0..n : u[i] = IF i = 0 THEN first ELSE u[i - 1] \o seqs[i]
  BY <1>1 DEF IsJoined
<1>4. u[0] = first
  BY <1>3
<1>5. \A i \in 1..n : u[i] = u[i - 1] \o seqs[i]
  <2> SUFFICES ASSUME NEW i \in 1..n PROVE u[i] = u[i - 1] \o seqs[i]
    OBVIOUS
  <2>1. i \in 0..n /\ i # 0
    OBVIOUS
  <2> HIDE DEF n
  <2> QED
    BY <1>3, <2>1
<1> QED
  BY <1>2, <1>4, <1>5 DEF Joins

\* What is in a sequence.
Elems(q) == {q[i] : i \in 1..Len(q)}

\* What is in two sequences, one after the other.
LEMMA ElemsConcat ==
  ASSUME NEW S, NEW p \in Seq(S), NEW q \in Seq(S)
  PROVE  p \o q \in Seq(S) /\ Elems(p \o q) = Elems(p) \cup Elems(q)
<1>1. /\ p \o q \in Seq(S) /\ Len(p \o q) = Len(p) + Len(q)
      /\ \A i \in 1..Len(p) : (p \o q)[i] = p[i]
      /\ \A i \in 1..Len(q) : (p \o q)[Len(p) + i] = q[i]
  OBVIOUS
<1>2. Elems(p) \subseteq Elems(p \o q)
  <2> SUFFICES ASSUME NEW i \in 1..Len(p) PROVE p[i] \in Elems(p \o q)
    BY DEF Elems
  <2>1. i \in 1..Len(p \o q)
    BY <1>1
  <2> QED
    BY <1>1, <2>1 DEF Elems
<1>3. Elems(q) \subseteq Elems(p \o q)
  <2> SUFFICES ASSUME NEW i \in 1..Len(q) PROVE q[i] \in Elems(p \o q)
    BY DEF Elems
  <2>1. Len(p) + i \in 1..Len(p \o q)
    BY <1>1
  <2> QED
    BY <1>1, <2>1 DEF Elems
<1>4. Elems(p \o q) \subseteq Elems(p) \cup Elems(q)
  <2> SUFFICES ASSUME NEW i \in 1..Len(p \o q) PROVE (p \o q)[i] \in Elems(p) \cup Elems(q)
    BY DEF Elems
  <2>1. CASE i \in 1..Len(p)
    BY <1>1, <2>1 DEF Elems
  <2>2. CASE i \notin 1..Len(p)
    <3>1. i - Len(p) \in 1..Len(q) /\ Len(p) + (i - Len(p)) = i
      BY <1>1, <2>2
    <3>2. (p \o q)[i] = q[i - Len(p)]
      BY <1>1, <3>1
    <3> QED
      BY <3>1, <3>2 DEF Elems
  <2> QED
    BY <2>1, <2>2
<1> QED
  BY <1>1, <1>2, <1>3, <1>4

\* Joined holds what the sequences hold, and nothing else.
LEMMA JoinedElems ==
  ASSUME NEW S, NEW first \in Seq(S), NEW seqs \in Seq(Seq(S))
  PROVE  /\ Joined(first, seqs) \in Seq(S)
         /\ Elems(Joined(first, seqs)) = Elems(first) \cup UNION {Elems(seqs[i]) : i \in 1..Len(seqs)}
<1>2. PICK u : Joins(u, first, seqs)
  <2>1. Len(seqs) \in Nat
    OBVIOUS
  <2> QED
    BY <2>1, JoinedSteps
<1> DEFINE n == Len(seqs)
<1>1. /\ n \in Nat /\ \A i \in 1..n : seqs[i] \in Seq(S)
      /\ u[0] = first /\ \A i \in 1..n : u[i] = u[i - 1] \o seqs[i]
      /\ Joined(first, seqs) = u[n]
  <2>1. n \in Nat /\ \A i \in 1..n : seqs[i] \in Seq(S)
    OBVIOUS
  <2>2. /\ u[0] = first /\ \A i \in 1..n : u[i] = u[i - 1] \o seqs[i]
        /\ Joined(first, seqs) = u[n]
    <3> HIDE DEF n
    <3> QED
      BY <1>2 DEF Joins, n
  <2> QED
    BY <2>1, <2>2
<1> DEFINE Held(m) == Elems(first) \cup UNION {Elems(seqs[i]) : i \in 1..m}
           C == {m \in Nat : m <= n => u[m] \in Seq(S) /\ Elems(u[m]) = Held(m)}
<1> HIDE DEF n
<1>3. 0 \in C
  <2>1. Held(0) = Elems(first)
    OBVIOUS
  <2> QED
    BY <1>1, <2>1
<1>4. ASSUME NEW m \in Nat, m \in C PROVE m + 1 \in C
  <2> SUFFICES ASSUME m + 1 <= n PROVE u[m + 1] \in Seq(S) /\ Elems(u[m + 1]) = Held(m + 1)
    OBVIOUS
  <2>1. u[m] \in Seq(S) /\ Elems(u[m]) = Held(m)
    BY <1>1, <1>4
  <2>2. m + 1 \in 1..n /\ u[m + 1] = u[m] \o seqs[m + 1] /\ seqs[m + 1] \in Seq(S)
    <3>1. m + 1 \in 1..n /\ (m + 1) - 1 = m
      BY <1>1
    <3> QED
      BY <1>1, <3>1
  <2>3. u[m + 1] \in Seq(S) /\ Elems(u[m + 1]) = Elems(u[m]) \cup Elems(seqs[m + 1])
    BY <2>1, <2>2, ElemsConcat
  <2>4. Held(m + 1) = Held(m) \cup Elems(seqs[m + 1])
    <3>1. 1..(m + 1) = (1..m) \cup {m + 1}
      OBVIOUS
    <3> QED
      BY <3>1
  <2> QED
    BY <2>1, <2>3, <2>4
<1> HIDE DEF C
<1>5. Nat \subseteq C
  BY <1>3, <1>4, NatInductionOn
<1>6. n \in C /\ n <= n
  BY <1>1, <1>5
<1>7. u[n] \in Seq(S) /\ Elems(u[n]) = Held(n)
  BY <1>6 DEF C
<1> QED
  BY <1>1, <1>7 DEF n

-----------------------------------------------------------------------------
(* Arithmetic of the layout. *)

\* A limit, a file and a rounding that a context and a call of writeFile can have.
Sized ==
  /\ limit \in Limit /\ low \in BOOLEAN
  /\ size \in 0..((Usable * Usable) \div HashSize)

\* Rounding up.
LEMMA CeilFacts ==
  ASSUME NEW a \in Nat, NEW b \in Nat \ {0}
  PROVE  /\ CeilDiv(a, b) \in Nat
         /\ a <= CeilDiv(a, b) * b
         /\ a > 0 => CeilDiv(a, b) >= 1 /\ (CeilDiv(a, b) - 1) * b < a
<1> DEFINE n == (a + b - 1) \div b
<1>1. a + b - 1 \in Nat
  OBVIOUS
<1>2. n \in Nat /\ n * b <= a + b - 1 /\ a + b - 1 < n * b + b
  BY <1>1
<1> HIDE DEF n
<1>3. (n - 1) * b = n * b - b /\ n * b \in Nat
  BY <1>2
<1>4. n = 0 => n * b = 0
  OBVIOUS
<1> QED
  BY <1>2, <1>3, <1>4 DEF CeilDiv, n

\* What is left of a node for data and hashes.
LEMMA UsableFacts ==
  ASSUME Sized
  PROVE  /\ Usable \in Nat /\ HashSize \in Nat /\ HashSize >= 1 /\ Usable > HashSize
         /\ limit = HeaderSize + Usable /\ HeaderSize \in Nat /\ InfoSize \in Nat
BY TreeAssumption DEF Sized, Usable

\* A child takes more than its hash does.
LEMMA CapacityFacts ==
  ASSUME Sized, NEW d \in 1..3
  PROVE  ChildCapacity(d) \in Nat /\ ChildCapacity(d) > HashSize
<1> DEFINE u == Usable
           h == HashSize
           q == (u * u) \div h
<1>1. u \in Nat /\ h \in Nat /\ h >= 1 /\ u > h
  BY UsableFacts
<1> HIDE DEF u, h
<1>2. u * u \in Nat /\ u * u >= u * h /\ u * h \in Nat
  <2>1. u = h + (u - h) /\ u - h \in Nat
    BY <1>1
  <2>2. u * u = u * h + u * (u - h) /\ u * (u - h) \in Nat /\ u * h \in Nat
    BY <1>1, <2>1
  <2> QED
    BY <2>2
<1>3. q \in Nat /\ u * u < q * h + h
  BY <1>1, <1>2
<1> HIDE DEF q
<1>4. q >= u
  <2> SUFFICES ASSUME u - (q + 1) \in Nat PROVE FALSE
    BY <1>1, <1>3
  <2>1. (u - (q + 1)) * h \in Nat
    BY <1>1
  <2>2. (u - (q + 1)) * h = u * h - (q * h + h)
    BY <1>1, <1>3
  <2>3. q * h \in Nat
    BY <1>1, <1>3
  <2> QED
    BY <1>1, <1>2, <1>3, <2>1, <2>2, <2>3
<1> QED
  BY <1>1, <1>3, <1>4 DEF ChildCapacity, u, h, q

\* How a node's subtree of s bytes is divided: its own data, then full children
\* and a last one that is not empty.
LEMMA ShareFacts ==
  ASSUME Sized, NEW d \in 1..3, NEW s \in Nat
  PROVE  /\ ChildCount(d, s) \in Nat
         /\ d = 1 => ChildCount(d, s) = 0
         /\ ChildCount(d, s) = 0 => DataSize(d, s) = Least(s, Usable) /\ (d # 1 => s <= Usable)
         /\ ChildCount(d, s) # 0 => DataSize(d, s) = Usable - ChildCount(d, s) * HashSize
         /\ Shares(d, s) \in Seq(Nat) /\ Len(Shares(d, s)) = ChildCount(d, s)
         /\ \A i \in 1..ChildCount(d, s) : Shares(d, s)[i] <= ChildCapacity(d)
         /\ \A i \in 1..ChildCount(d, s) :
              i < ChildCount(d, s) => Shares(d, s)[i] = ChildCapacity(d)
         /\ ChildCount(d, s) # 0 =>
              Shares(d, s)[ChildCount(d, s)]
                = s - DataSize(d, s) - (ChildCount(d, s) - 1) * ChildCapacity(d)
<1> DEFINE u == Usable
           h == HashSize
           c == ChildCapacity(d)
           n == ChildCount(d, s)
           m == DataSize(d, s)
           left(i) == s - m - (i - 1) * c
<1>1. u \in Nat /\ h \in Nat /\ h >= 1 /\ u > h /\ c \in Nat /\ c > h
  BY UsableFacts, CapacityFacts
<1>2. CASE n = 0
  <2>1. d # 1 => s <= u
    <3> SUFFICES ASSUME d # 1, s > u PROVE FALSE
      BY <1>1
    <3>1. n = CeilDiv(s - u, c - h)
      BY <1>1 DEF ChildCount
    <3>2. s - u \in Nat /\ s - u > 0 /\ c - h \in Nat \ {0}
      BY <1>1
    <3> HIDE DEF u, c, h, n
    <3> DEFINE a == s - u
               b == c - h
    <3>3. CeilDiv(a, b) >= 1
      <4> HIDE DEF a, b
      <4>1. a \in Nat /\ a > 0 /\ b \in Nat \ {0}
        BY <3>2 DEF a, b
      <4> QED
        BY <4>1, CeilFacts
    <3> QED
      BY <1>2, <3>1, <3>3
  <2>2. Shares(d, s) = <<>>
    BY <1>2 DEF Shares
  <2> QED
    BY <1>2, <2>1, <2>2 DEF DataSize
<1>3. CASE n # 0
  <2>1. d # 1 /\ s > u /\ n = CeilDiv(s - u, c - h)
    BY <1>1, <1>3 DEF ChildCount
  <2>2. m = u - n * h
    BY <1>3 DEF DataSize
  <2>3. Shares(d, s) = [i \in 1..n |-> Least(left(i), c)]
    BY DEF Shares
  <2> HIDE DEF u, h, c, n, m
  <2>4. n \in Nat /\ n >= 1 /\ s - u <= n * (c - h) /\ (n - 1) * (c - h) < s - u
    BY <1>1, <2>1, CeilFacts
  <2>5. n * (c - h) = n * c - n * h /\ n * c \in Nat /\ n * h \in Nat
    BY <1>1, <2>4
  <2>6. (n - 1) * (c - h) = (n - 1) * c - (n - 1) * h /\ (n - 1) * h = n * h - h
        /\ (n - 1) * c = n * c - c
    BY <1>1, <2>4
  <2>7. left(n) \in Nat /\ left(n) > 0 /\ left(n) <= c
    BY <1>1, <2>1, <2>2, <2>4, <2>5, <2>6
  <2>8. ASSUME NEW i \in 1..n, i < n PROVE left(i) \in Nat /\ left(i) >= c
    <3>1. (n - i) * c = n * c - i * c /\ i * c \in Nat /\ (i - 1) * c = i * c - c
      BY <1>1, <2>4
    <3>2. n - i >= 1 /\ n - i \in Nat
      BY <2>4, <2>8
    <3>3. (n - i) * c >= c
      <4>1. (n - i) * c = c + (n - i - 1) * c /\ (n - i - 1) * c \in Nat
        BY <1>1, <3>2
      <4> QED
        BY <1>1, <4>1
    <3>4. left(i) = left(n) + (n - i) * c
      BY <1>1, <2>1, <2>2, <2>4, <2>5, <2>6, <3>1
    <3>5. (n - i) * c \in Nat
      BY <1>1, <3>2
    <3> HIDE DEF left
    <3> QED
      BY <1>1, <2>7, <3>3, <3>4, <3>5
  <2> HIDE DEF left
  <2>9. \A i \in 1..n : Least(left(i), c) \in Nat /\ Least(left(i), c) <= c
    BY <1>1, <2>4, <2>7, <2>8 DEF Least
  <2>10. Shares(d, s) \in Seq(Nat) /\ Len(Shares(d, s)) = n
    BY <2>3, <2>4, <2>9
  <2>11. \A i \in 1..n : i < n => Shares(d, s)[i] = c
    BY <1>1, <2>3, <2>8 DEF Least
  <2>12. n \in 1..n /\ Shares(d, s)[n] = left(n)
    BY <1>1, <2>3, <2>4, <2>7 DEF Least
  <2> QED
    BY <1>3, <2>1, <2>2, <2>3, <2>4, <2>9, <2>10, <2>11, <2>12 DEF u, h, c, n, m, left
<1> QED
  BY <1>2, <1>3

\* Where the children of a node begin, and where the last one ends.
LEMMA ShareOffsets ==
  ASSUME Sized, NEW d \in 1..3, NEW s \in Nat, NEW first \in Int
  PROVE  LET at == Offsets(first, Shares(d, s))
             n == ChildCount(d, s)
         IN  /\ \A i \in 1..n : at[i] = first + (i - 1) * ChildCapacity(d)
             /\ \A i \in 1..n : at[i + 1] = at[i] + Shares(d, s)[i]
             /\ at[n + 1] = IF n = 0 THEN first ELSE first + s - DataSize(d, s)
<1> DEFINE at == Offsets(first, Shares(d, s))
           n == ChildCount(d, s)
           c == ChildCapacity(d)
           q == Shares(d, s)
           m == DataSize(d, s)
<1>1. /\ n \in Nat /\ c \in Nat /\ q \in Seq(Nat) /\ Len(q) = n
      /\ \A i \in 1..n : i < n => q[i] = c
      /\ n # 0 => q[n] = s - m - (n - 1) * c
  BY ShareFacts, CapacityFacts
<1>2. m \in Int
  <2>1. Usable \in Nat /\ HashSize \in Nat
    BY UsableFacts
  <2>2. n * HashSize \in Int
    BY <1>1, <2>1
  <2> QED
    BY <1>1, <2>1, <2>2 DEF DataSize, Least
<1>3. at[1] = first /\ \A i \in 1..n : at[i + 1] = at[i] + q[i]
  BY <1>1, OffsetsFacts
<1> HIDE DEF at, n, c, q, m
<1>4. \A i \in 1..n : at[i] = first + (i - 1) * c
  <2> DEFINE C == {k \in Nat : k + 1 <= n => at[k + 1] = first + k * c}
  <2>1. 0 \in C
    BY <1>1, <1>3
  <2>2. ASSUME NEW k \in Nat, k \in C PROVE k + 1 \in C
    <3> SUFFICES ASSUME k + 1 + 1 <= n PROVE at[k + 1 + 1] = first + (k + 1) * c
      OBVIOUS
    <3>1. at[k + 1] = first + k * c /\ k + 1 \in 1..n /\ k + 1 < n
      BY <1>1, <2>2
    <3>2. at[k + 1 + 1] = at[k + 1] + c
      BY <1>1, <1>3, <3>1
    <3>3. k * c \in Nat /\ (k + 1) * c = k * c + c
      BY <1>1
    <3> QED
      BY <1>1, <3>1, <3>2, <3>3
  <2> HIDE DEF C
  <2>3. Nat \subseteq C
    BY <2>1, <2>2, NatInductionOn
  <2> SUFFICES ASSUME NEW i \in 1..n PROVE at[i] = first + (i - 1) * c
    OBVIOUS
  <2>4. i - 1 \in Nat /\ (i - 1) + 1 = i /\ i <= n
    BY <1>1
  <2> QED
    BY <2>3, <2>4 DEF C
<1>5. at[n + 1] = IF n = 0 THEN first ELSE first + s - m
  <2>1. CASE n = 0
    BY <1>3, <2>1
  <2>2. CASE n # 0
    <3>1. n \in 1..n
      BY <1>1, <2>2
    <3>2. at[n + 1] = (first + (n - 1) * c) + (s - m - (n - 1) * c)
      BY <1>1, <1>3, <1>4, <2>2, <3>1
    <3>3. (n - 1) * c \in Int
      BY <1>1
    <3> QED
      BY <1>2, <2>2, <3>2, <3>3
  <2> QED
    BY <2>1, <2>2
<1> QED
  BY <1>3, <1>4, <1>5 DEF at, n, c, q, m

\* The size of one subtree, from what is known of the sizes of those below it.
LEMMA SubtreeSize ==
  ASSUME Sized, NEW d \in 1..3, NEW s \in Nat, NEW below,
         d # 1 => \A t \in Nat : t <= ChildCapacity(d) => below[t] = t
  PROVE  Offsets(DataSize(d, s), [i \in 1..ChildCount(d, s) |-> below[Shares(d, s)[i]]])
             [ChildCount(d, s) + 1]
           = IF d = 1 THEN Least(s, Usable) ELSE s
<1> DEFINE n == ChildCount(d, s)
           q == Shares(d, s)
           m == DataSize(d, s)
<1>1. /\ n \in Nat /\ q \in Seq(Nat) /\ Len(q) = n /\ (d = 1 => n = 0)
      /\ n = 0 => m = Least(s, Usable) /\ (d # 1 => s <= Usable)
      /\ \A i \in 1..n : q[i] <= ChildCapacity(d)
  BY ShareFacts
<1>2. m \in Int
  <2>1. Usable \in Nat /\ HashSize \in Nat
    BY UsableFacts
  <2>2. n * HashSize \in Int
    BY <1>1, <2>1
  <2> QED
    BY <1>1, <2>1, <2>2 DEF DataSize, Least
<1>3. Offsets(m, q)[n + 1] = IF n = 0 THEN m ELSE m + s - m
  BY <1>2, ShareOffsets
<1> HIDE DEF n, q, m
<1>4. [i \in 1..n |-> below[q[i]]] = q
  <2>1. \A i \in 1..n : q[i] \in Nat
    BY <1>1
  <2>2. \A i \in 1..n : below[q[i]] = q[i]
    BY <1>1, <2>1
  <2>3. q = [i \in 1..n |-> q[i]]
    BY <1>1
  <2>4. [i \in 1..n |-> below[q[i]]] = [i \in 1..n |-> q[i]]
    BY <2>2
  <2> QED
    BY <2>3, <2>4
<1>5. Offsets(m, q)[n + 1] = IF d = 1 THEN Least(s, Usable) ELSE s
  <2>1. CASE n = 0
    BY <1>1, <1>3, <2>1, UsableFacts DEF Least
  <2>2. CASE n # 0
    BY <1>1, <1>2, <1>3, <2>2
  <2> QED
    BY <2>1, <2>2
<1> QED
  BY <1>4, <1>5 DEF n, q, m

\* The sizes that computeLayoutTotalSize computes, for every depth and share.
IsLayout(total) ==
  total = [d \in 1..3 |-> [s \in Nat |->
    Offsets(DataSize(d, s), [i \in 1..ChildCount(d, s) |-> total[d - 1][Shares(d, s)[i]]])
      [ChildCount(d, s) + 1]]]

\* A layout holds what it is made for.
LEMMA LayoutSizes ==
  ASSUME Sized
  PROVE  \A d \in 1..3, s \in Nat : LayoutSize[d][s] = IF d = 1 THEN Least(s, Usable) ELSE s
<1> DEFINE held(d, s) == IF d = 1 THEN Least(s, Usable) ELSE s
           sum(total, d, s) ==
             Offsets(DataSize(d, s), [i \in 1..ChildCount(d, s) |-> total[d - 1][Shares(d, s)[i]]])
               [ChildCount(d, s) + 1]
           t == CHOOSE total : IsLayout(total)
           known(total, d) == d # 1 => \A x \in Nat : x <= ChildCapacity(d) => total[d - 1][x] = x
<1>1. ASSUME NEW total, NEW d \in 1..3, NEW s \in Nat, known(total, d)
      PROVE  sum(total, d, s) = held(d, s)
  BY <1>1, SubtreeSize
<1>2. ASSUME NEW total, NEW d \in 1..3,
             d # 1 => \A x \in Nat : total[d - 1][x] = held(d - 1, x)
      PROVE  known(total, d)
  <2> SUFFICES ASSUME d # 1, NEW x \in Nat, x <= ChildCapacity(d) PROVE total[d - 1][x] = x
    OBVIOUS
  <2>1. total[d - 1][x] = held(d - 1, x)
    BY <1>2
  <2>2. d = 2 => x <= Usable
    BY DEF ChildCapacity
  <2> QED
    BY <2>1, <2>2, UsableFacts DEF Least
<1>3. IsLayout([d \in 1..3 |-> [s \in Nat |-> held(d, s)]])
  <2> DEFINE z == [d \in 1..3 |-> [s \in Nat |-> held(d, s)]]
  <2>1. \A d \in 1..3 : \A s \in Nat : z[d][s] = held(d, s)
    OBVIOUS
  <2> HIDE DEF held, sum, known
  <2>2. \A d \in 1..3 : d # 1 => d - 1 \in 1..3
    OBVIOUS
  <2> HIDE DEF z
  <2>3. \A d \in 1..3 : known(z, d)
    BY <1>2, <2>1, <2>2
  <2>4. \A d \in 1..3, s \in Nat : sum(z, d, s) = held(d, s)
    BY <1>1, <2>3
  <2>5. z = [d \in 1..3 |-> [s \in Nat |-> sum(z, d, s)]]
    BY <2>4 DEF z
  <2> QED
    BY <2>5 DEF IsLayout, z, sum
<1>4. t = [d \in 1..3 |-> [s \in Nat |-> sum(t, d, s)]]
  <2>1. IsLayout(t)
    BY <1>3
  <2> QED
    BY <2>1 DEF IsLayout
<1>5. LayoutSize = t
  BY DEF LayoutSize, IsLayout
<1> HIDE DEF t, held, sum, known
<1>6. \A d \in 1..3 : known(t, d) => \A s \in Nat : t[d][s] = held(d, s)
  <2> SUFFICES ASSUME NEW d \in 1..3, known(t, d), NEW s \in Nat PROVE t[d][s] = held(d, s)
    OBVIOUS
  <2>1. t[d][s] = sum(t, d, s)
    BY <1>4
  <2> QED
    BY <1>1, <2>1
<1>7. \A s \in Nat : t[1][s] = held(1, s)
  <2>1. known(t, 1)
    BY DEF known
  <2> QED
    BY <1>6, <2>1
<1>8. \A s \in Nat : t[2][s] = held(2, s)
  <2>1. known(t, 2)
    BY <1>2, <1>7
  <2> QED
    BY <1>6, <2>1
<1>9. \A s \in Nat : t[3][s] = held(3, s)
  <2>1. known(t, 3)
    BY <1>2, <1>8
  <2> QED
    BY <1>6, <2>1
<1>10. \A d \in 1..3, s \in Nat : t[d][s] = held(d, s)
  BY <1>7, <1>8, <1>9
<1> QED
  BY <1>5, <1>10 DEF held

\* The depth of the file's tree: the least that holds it; and 3 only when the
\* capacity of depth 2 is met exactly and has come out low.
LEMMA DepthFacts ==
  ASSUME Sized
  PROVE  /\ Depth(size) \in 1..3 /\ size \in Nat /\ size * HashSize <= Usable * Usable
         /\ Depth(size) = 1 <=> size <= Usable
         /\ Depth(size) = 3 => low /\ size * HashSize = Usable * Usable
<1> DEFINE u == Usable
           h == HashSize
           q == (u * u) \div h
           P(d) == Holds(d, size) /\ \A e \in 1..(d - 1) : ~Holds(e, size)
<1>1. u \in Nat /\ h \in Nat /\ h >= 1
  BY UsableFacts
<1>2. size \in Nat /\ size * h <= u * u
  <2>1. size \in 0..q
    BY DEF Sized
  <2> HIDE DEF u, h
  <2>2. u * u \in Nat
    BY <1>1
  <2>3. q \in Nat /\ q * h <= u * u /\ q * h \in Nat
    BY <1>1, <2>2
  <2> HIDE DEF q
  <2>4. size \in Nat /\ q - size \in Nat
    BY <2>1, <2>3
  <2>5. (q - size) * h \in Nat /\ (q - size) * h = q * h - size * h /\ size * h \in Nat
    BY <1>1, <2>3, <2>4
  <2> QED
    BY <2>2, <2>3, <2>4, <2>5
<1>3. \E d \in 1..3 : P(d)
  <2>1. CASE Holds(1, size)
    <3>1. P(1)
      BY <2>1
    <3> QED
      BY <3>1
  <2>2. CASE ~Holds(1, size) /\ Holds(2, size)
    <3>1. 1..(2 - 1) = {1}
      OBVIOUS
    <3>2. P(2)
      BY <2>2, <3>1
    <3> QED
      BY <3>2
  <2>3. CASE ~Holds(1, size) /\ ~Holds(2, size)
    <3>1. 1..(3 - 1) = {1, 2}
      OBVIOUS
    <3>2. P(3)
      BY <2>3, <3>1 DEF Holds
    <3> QED
      BY <3>2
  <2> QED
    BY <2>1, <2>2, <2>3
<1>4. Depth(size) \in 1..3 /\ P(Depth(size))
  BY <1>3 DEF Depth
<1>5. Depth(size) = 1 <=> size <= u
  <2>1. Holds(1, size) <=> size <= u
    BY DEF Holds
  <2>2. Depth(size) # 1 => 1 \in 1..(Depth(size) - 1)
    BY <1>4
  <2> QED
    BY <1>4, <2>1, <2>2
<1>6. Depth(size) = 3 => low /\ size * h = u * u
  <2> SUFFICES ASSUME Depth(size) = 3 PROVE low /\ size * h = u * u
    OBVIOUS
  <2>1. ~Holds(2, size)
    BY <1>4
  <2> QED
    BY <1>2, <2>1 DEF Holds
<1> QED
  BY <1>2, <1>4, <1>5, <1>6

\* That the layout of a subtree of the file succeeds, spelled out for the depths
\* there are: the lowest nodes have no children and always fit.
WholeFits(d, s) ==
  /\ Fits(d, s)
  /\ d = 3 => \A i \in 1..ChildCount(3, s) : Fits(2, Shares(3, s)[i])

\* One node of the layout, from what is known of those below it.
LEMMA SubtreeFits ==
  ASSUME Sized, NEW d \in 1..3, NEW s \in Nat, NEW below,
         d # 1 => \A t \in Nat : below[t] <=> WholeFits(d - 1, t)
  PROVE  (Fits(d, s) /\ \A i \in 1..ChildCount(d, s) : below[Shares(d, s)[i]]) <=> WholeFits(d, s)
<1>1. \A i \in 1..ChildCount(d, s) : Shares(d, s)[i] \in Nat
  <2> DEFINE q == Shares(d, s)
             n == ChildCount(d, s)
  <2>1. q \in Seq(Nat) /\ Len(q) = n
    BY ShareFacts
  <2> HIDE DEF q, n
  <2>2. \A i \in 1..n : q[i] \in Nat
    BY <2>1
  <2> QED
    BY <2>2 DEF q, n
<1>2. CASE d = 1
  <2>1. ChildCount(d, s) = 0
    BY <1>2 DEF ChildCount
  <2> QED
    BY <1>2, <2>1 DEF WholeFits
<1>3. CASE d = 2
  <2>1. ASSUME NEW t \in Nat PROVE below[t]
    <3>1. ChildCount(1, t) = 0
      BY DEF ChildCount
    <3>2. Fits(1, t)
      BY <3>1, UsableFacts DEF Fits
    <3> QED
      BY <1>3, <3>2 DEF WholeFits
  <2> QED
    BY <1>1, <1>3, <2>1 DEF WholeFits
<1>4. CASE d = 3
  <2>1. \A t \in Nat : below[t] <=> Fits(2, t)
    BY <1>4 DEF WholeFits
  <2> QED
    BY <1>1, <1>4, <2>1 DEF WholeFits
<1> QED
  BY <1>2, <1>3, <1>4

\* What computeLayout finds for every depth and size.
IsFitting(fits) ==
  fits = [d \in 1..3 |-> [s \in Nat |->
    Fits(d, s) /\ \A i \in 1..ChildCount(d, s) : fits[d - 1][Shares(d, s)[i]]]]

\* The layout of the file succeeds when each of its nodes has room.
LEMMA LayoutFitsFacts ==
  ASSUME Sized
  PROVE  LayoutFits <=> WholeFits(Depth(size), size)
<1> DEFINE all(f, d, s) == Fits(d, s) /\ \A i \in 1..ChildCount(d, s) : f[d - 1][Shares(d, s)[i]]
           t == CHOOSE f : IsFitting(f)
           known(f, d) == d # 1 => \A x \in Nat : f[d - 1][x] <=> WholeFits(d - 1, x)
<1>1. ASSUME NEW f, NEW d \in 1..3, NEW s \in Nat, known(f, d)
      PROVE  all(f, d, s) <=> WholeFits(d, s)
  BY <1>1, SubtreeFits
<1>2. IsFitting([d \in 1..3 |-> [s \in Nat |-> WholeFits(d, s)]])
  <2> DEFINE z == [d \in 1..3 |-> [s \in Nat |-> WholeFits(d, s)]]
  <2>1. \A d \in 1..3 : \A s \in Nat : z[d][s] = WholeFits(d, s)
    OBVIOUS
  <2>2. \A d \in 1..3 : d # 1 => d - 1 \in 1..3
    OBVIOUS
  <2> HIDE DEF z, all
  <2>3. \A d \in 1..3 : known(z, d)
    BY <2>1, <2>2
  <2>4. \A d \in 1..3, s \in Nat : all(z, d, s) = WholeFits(d, s)
    <3> SUFFICES ASSUME NEW d \in 1..3, NEW s \in Nat PROVE all(z, d, s) = WholeFits(d, s)
      OBVIOUS
    <3>1. all(z, d, s) <=> WholeFits(d, s)
      BY <1>1, <2>3
    <3> QED
      BY <3>1 DEF all, WholeFits
  <2>5. z = [d \in 1..3 |-> [s \in Nat |-> all(z, d, s)]]
    BY <2>4 DEF z
  <2> QED
    BY <2>5 DEF IsFitting, z, all
<1>3. t = [d \in 1..3 |-> [s \in Nat |-> all(t, d, s)]]
  <2>1. IsFitting(t)
    BY <1>2
  <2> QED
    BY <2>1 DEF IsFitting
<1>4. LayoutFits = t[Depth(size)][size]
  BY DEF LayoutFits, IsFitting
<1> HIDE DEF t, all, known
<1>5. \A d \in 1..3 : known(t, d) => \A s \in Nat : t[d][s] <=> WholeFits(d, s)
  <2> SUFFICES ASSUME NEW d \in 1..3, known(t, d), NEW s \in Nat PROVE t[d][s] <=> WholeFits(d, s)
    OBVIOUS
  <2>1. t[d][s] = all(t, d, s)
    BY <1>3
  <2> QED
    BY <1>1, <2>1
<1>6. known(t, 1)
  BY DEF known
<1>7. known(t, 2)
  BY <1>5, <1>6 DEF known
<1>8. known(t, 3)
  BY <1>5, <1>7 DEF known
<1>9. \A d \in 1..3, s \in Nat : t[d][s] <=> WholeFits(d, s)
  <2>1. \A d \in 1..3 : known(t, d)
    BY <1>6, <1>7, <1>8
  <2> QED
    BY <1>5, <2>1
<1> QED
  BY <1>4, <1>9, DepthFacts

-----------------------------------------------------------------------------
(* The nodes of the tree. *)

\* The uploads of a node's children, from the uploads of the depth below.
KidsOf(lower, d, s, offset) ==
  LET shares == Shares(d, s)
      start == Offsets(offset + DataSize(d, s), [i \in DOMAIN shares |-> LayoutSize[d - 1][shares[i]]])
  IN  [i \in DOMAIN shares |-> lower[shares[i]][start[i]]]

\* The upload of a node with these children.
Over(d, s, offset, kids) ==
  LET shares == Shares(d, s)
      node == [kind |-> IF d = Depth(size) THEN "file" ELSE "successor",
               span |-> <<offset, Least(offset + DataSize(d, s), size)>>,
               children |-> [i \in DOMAIN shares |-> kids[i].node]]
  IN  [node |-> node, puts |-> InOrder(node, [i \in DOMAIN shares |-> kids[i].puts])]

\* The uploads of the subtrees of depth d, from those of the depth below.
UploadsOf(lower, d) ==
  [s \in Nat |-> [offset \in Nat |-> Over(d, s, offset, KidsOf(lower, d, s, offset))]]

\* What Upload is chosen by.
IsUpload(up) == up = [d \in 1..3 |-> UploadsOf(up[d - 1], d)]

\* The upload of every subtree, by depth, share and offset.
Uploads == CHOOSE up : IsUpload(up)

\* The node of a subtree, and the nodes that its upload puts.
NodeFor(d, s, offset) == Uploads[d][s][offset].node
PutsFor(d, s, offset) == Uploads[d][s][offset].puts

\* Where the children of a node begin.
Begins(d, s, offset) == Offsets(offset + DataSize(d, s), Shares(d, s))

\* The recursion of the upload has a solution.
LEMMA UploadsExist ==
  ASSUME Sized
  PROVE  /\ \A d \in 1..3 : Uploads[d] = UploadsOf(Uploads[d - 1], d)
         /\ Upload = Uploads[Depth(size)][size][0]
<1>1. ASSUME NEW x, NEW y PROVE UploadsOf(x, 1) = UploadsOf(y, 1)
  <2>1. ASSUME NEW s \in Nat PROVE DOMAIN Shares(1, s) = {}
    <3>1. ChildCount(1, s) = 0
      BY DEF ChildCount
    <3> QED
      BY <3>1 DEF Shares
  <2>2. ASSUME NEW s \in Nat, NEW o \in Nat PROVE KidsOf(x, 1, s, o) = KidsOf(y, 1, s, o)
    BY <2>1 DEF KidsOf
  <2> QED
    BY <2>2 DEF UploadsOf
<1> DEFINE u1 == UploadsOf({}, 1)
           u2 == UploadsOf(u1, 2)
           u3 == UploadsOf(u2, 3)
           z == [d \in 1..3 |-> IF d = 1 THEN u1 ELSE IF d = 2 THEN u2 ELSE u3]
<1>2. IsUpload(z)
  <2>1. z[1] = u1 /\ z[2] = u2 /\ z[3] = u3
    OBVIOUS
  <2>2. u1 = UploadsOf(z[1 - 1], 1)
    BY <1>1
  <2>3. u2 = UploadsOf(z[2 - 1], 2) /\ u3 = UploadsOf(z[3 - 1], 3)
    BY <2>1
  <2> HIDE DEF u1, u2, u3
  <2>4. \A d \in 1..3 : z[d] = UploadsOf(z[d - 1], d)
    <3> SUFFICES ASSUME NEW d \in 1..3 PROVE z[d] = UploadsOf(z[d - 1], d)
      OBVIOUS
    <3> HIDE DEF z
    <3>1. d = 1 \/ d = 2 \/ d = 3
      OBVIOUS
    <3> QED
      BY <2>1, <2>2, <2>3, <3>1
  <2>5. z = [d \in 1..3 |-> UploadsOf(z[d - 1], d)]
    <3>1. z = [d \in 1..3 |-> z[d]]
      OBVIOUS
    <3> HIDE DEF z
    <3> QED
      BY <2>4, <3>1
  <2> QED
    BY <2>5 DEF IsUpload
<1>3. IsUpload(Uploads)
  BY <1>2 DEF Uploads
<1>4. Upload = Uploads[Depth(size)][size][0]
  BY DEF Upload, Uploads, IsUpload, UploadsOf, Over, KidsOf
<1>5. \A d \in 1..3 : Uploads[d] = UploadsOf(Uploads[d - 1], d)
  BY <1>3 DEF IsUpload
<1> QED
  BY <1>4, <1>5

\* A subtree that the layout of the file may have: of a depth within the tree's,
\* with a share that fits, inside the file.
Placed(d, s, o) ==
  /\ d \in 1..Depth(size) /\ s \in Nat /\ o \in Nat
  /\ d = 1 => s <= Usable
  /\ WholeFits(d, s) /\ o + s <= size

\* A node's bytes come first, then those of its children one after the other, and
\* each child is a subtree of the depth below.
LEMMA ChildrenPlaced ==
  ASSUME Sized, NEW d, NEW s, NEW o, Placed(d, s, o)
  PROVE  LET n == ChildCount(d, s)
             b == Begins(d, s, o)
         IN  /\ d \in 1..3 /\ s \in Nat /\ o \in Nat
             /\ n \in Nat /\ DataSize(d, s) \in Nat /\ o + DataSize(d, s) <= size
             /\ n * HashSize + DataSize(d, s) <= Usable
             /\ Shares(d, s) \in Seq(Nat) /\ Len(Shares(d, s)) = n
             /\ \A i \in 1..n : d # 1 /\ Placed(d - 1, Shares(d, s)[i], b[i])
             /\ n # 0 => b[1] = o + DataSize(d, s)
             /\ \A i \in 1..n : b[i + 1] = b[i] + Shares(d, s)[i]
             /\ n = 0 => DataSize(d, s) = s
             /\ n # 0 => b[n + 1] = o + s
<1> DEFINE n == ChildCount(d, s)
           b == Begins(d, s, o)
           c == ChildCapacity(d)
           q == Shares(d, s)
           m == DataSize(d, s)
<1>1. d \in 1..3 /\ s \in Nat /\ o \in Nat /\ Depth(size) \in 1..3 /\ size \in Nat
      /\ d <= Depth(size) /\ o + s <= size
  BY DepthFacts DEF Placed
<1>2. /\ n \in Nat /\ c \in Nat /\ q \in Seq(Nat) /\ Len(q) = n /\ (d = 1 => n = 0)
      /\ n = 0 => m = Least(s, Usable) /\ (d # 1 => s <= Usable)
      /\ n # 0 => m = Usable - n * HashSize
      /\ \A i \in 1..n : q[i] <= c
      /\ n # 0 => q[n] = s - m - (n - 1) * c
  BY <1>1, ShareFacts, CapacityFacts
<1>3. n * HashSize <= Usable /\ n * HashSize \in Nat
  BY <1>2, UsableFacts DEF Placed, WholeFits, Fits
<1>4. m \in Nat /\ (n = 0 => m = s) /\ n * HashSize + m <= Usable
  <2>1. CASE n = 0
    <3>1. s <= Usable /\ n * HashSize = 0
      BY <1>2, <2>1, UsableFacts DEF Placed
    <3> QED
      BY <1>1, <1>2, <2>1, <3>1, UsableFacts DEF Least
  <2>2. CASE n # 0
    <3>1. m = Usable - n * HashSize /\ Usable \in Nat
      BY <1>2, <2>2, UsableFacts
    <3> HIDE DEF m
    <3> QED
      BY <1>3, <2>2, <3>1
  <2> QED
    BY <2>1, <2>2
<1>5. /\ \A i \in 1..n : b[i] = o + m + (i - 1) * c
      /\ \A i \in 1..n : b[i + 1] = b[i] + q[i]
      /\ b[n + 1] = IF n = 0 THEN o + m ELSE o + m + s - m
  <2>1. o + m \in Int
    BY <1>1, <1>4
  <2> QED
    BY <1>1, <2>1, ShareOffsets DEF Begins
<1>6. \A i \in 1..n : q[i] \in Nat
  <2> HIDE DEF q, n
  <2> QED
    BY <1>2
<1>7. \A i \in 1..n : WholeFits(d - 1, q[i]) /\ (d - 1 = 1 => q[i] <= Usable)
  <2> SUFFICES ASSUME NEW i \in 1..n PROVE WholeFits(d - 1, q[i]) /\ (d - 1 = 1 => q[i] <= Usable)
    OBVIOUS
  <2>1. d # 1
    BY <1>2
  <2>2. CASE d = 2
    <3>1. ChildCount(1, q[i]) = 0
      BY DEF ChildCount
    <3>2. Fits(1, q[i])
      BY <3>1, UsableFacts DEF Fits
    <3>3. q[i] <= Usable
      BY <1>2, <2>2 DEF ChildCapacity
    <3> QED
      BY <2>2, <3>2, <3>3 DEF WholeFits
  <2>3. CASE d = 3
    <3>1. Fits(2, q[i])
      BY <2>3 DEF Placed, WholeFits
    <3> QED
      BY <2>3, <3>1 DEF WholeFits
  <2> QED
    BY <1>1, <2>1, <2>2, <2>3
<1> HIDE DEF n, b, c, q, m
<1>8. \A i \in 1..n : (i - 1) * c \in Nat /\ (i - 1) * c <= (n - 1) * c
  <2> SUFFICES ASSUME NEW i \in 1..n PROVE (i - 1) * c \in Nat /\ (i - 1) * c <= (n - 1) * c
    OBVIOUS
  <2>1. i - 1 \in Nat /\ n - i \in Nat
    BY <1>2
  <2>2. (n - i) * c \in Nat /\ (i - 1) * c \in Nat
    BY <1>2, <2>1
  <2>3. (n - i) * c = (n - 1) * c - (i - 1) * c
    BY <1>2, <2>1
  <2>4. (n - 1) * c \in Int
    BY <1>2
  <2> QED
    BY <2>2, <2>3, <2>4
<1>9. ASSUME NEW i \in 1..n PROVE b[i] \in Nat /\ b[i] + q[i] <= o + s
  <2>1. b[i] \in Nat
    BY <1>1, <1>4, <1>5, <1>8
  <2>2. CASE i = n
    <3>1. b[n + 1] = b[n] + q[n]
      BY <1>5, <2>2
    <3>2. b[n + 1] = o + s
      BY <1>1, <1>2, <1>4, <1>5, <2>2
    <3>3. b[i] + q[i] = o + s
      BY <2>2, <3>1, <3>2
    <3> QED
      BY <1>1, <2>1, <3>3
  <2>3. CASE i # n
    <3>1. i + 1 \in 1..n /\ n \in 1..n
      BY <1>2, <2>3
    <3>2. b[i + 1] <= b[n]
      BY <1>1, <1>4, <1>5, <1>8, <3>1
    <3>3. b[n] + q[n] = o + s
      BY <1>1, <1>2, <1>4, <1>5, <3>1
    <3>4. b[n] \in Nat /\ q[n] \in Nat /\ b[i + 1] \in Nat
      BY <1>1, <1>4, <1>5, <1>6, <1>8, <3>1
    <3>5. b[i] + q[i] <= b[n]
      BY <1>5, <3>2
    <3>6. b[n] <= o + s
      BY <3>3, <3>4
    <3> QED
      BY <1>1, <1>6, <2>1, <3>4, <3>5, <3>6
  <2> QED
    BY <2>1, <2>2, <2>3
<1>10. \A i \in 1..n : d # 1 /\ Placed(d - 1, q[i], b[i])
  <2> SUFFICES ASSUME NEW i \in 1..n PROVE d # 1 /\ Placed(d - 1, q[i], b[i])
    OBVIOUS
  <2>1. d # 1 /\ d - 1 \in 1..Depth(size)
    BY <1>1, <1>2
  <2>2. b[i] \in Nat /\ b[i] + q[i] <= size /\ q[i] \in Nat
    BY <1>1, <1>6, <1>9
  <2> QED
    BY <1>7, <2>1, <2>2 DEF Placed
<1>11. o + m <= size
  <2>1. CASE n = 0
    BY <1>1, <1>4, <2>1
  <2>2. CASE n # 0
    <3>1. n \in 1..n /\ 1 \in 1..n
      BY <1>2, <2>2
    <3>2. b[1] = o + m
      <4>1. (1 - 1) * c = 0
        BY <1>2
      <4> QED
        BY <1>1, <1>4, <1>5, <3>1, <4>1
    <3>3. b[1] + q[1] <= o + s /\ q[1] \in Nat
      BY <1>6, <1>9, <3>1
    <3> QED
      BY <1>1, <1>4, <3>2, <3>3
  <2> QED
    BY <2>1, <2>2
<1>12. n # 0 => b[1] = o + m /\ b[n + 1] = o + s
  <2> SUFFICES ASSUME n # 0 PROVE b[1] = o + m /\ b[n + 1] = o + s
    OBVIOUS
  <2>1. 1 \in 1..n /\ (1 - 1) * c = 0
    BY <1>2
  <2> QED
    BY <1>1, <1>4, <1>5, <2>1
<1> QED
  BY <1>1, <1>2, <1>4, <1>5, <1>10, <1>11, <1>12 DEF n, b, q, m

\* The nodes of a node's children, and the nodes their uploads put.
KidNodes(d, s, o) ==
  [i \in 1..ChildCount(d, s) |-> NodeFor(d - 1, Shares(d, s)[i], Begins(d, s, o)[i])]
KidPuts(d, s, o) ==
  [i \in 1..ChildCount(d, s) |-> PutsFor(d - 1, Shares(d, s)[i], Begins(d, s, o)[i])]

\* What the upload of a placed subtree is: its node over the nodes of its
\* children, put after everything below it.
LEMMA UploadShape ==
  ASSUME Sized, NEW d, NEW s, NEW o, Placed(d, s, o)
  PROVE  /\ NodeFor(d, s, o) = [kind |-> IF d = Depth(size) THEN "file" ELSE "successor",
                                 span |-> <<o, o + DataSize(d, s)>>,
                                 children |-> KidNodes(d, s, o)]
         /\ PutsFor(d, s, o) = Joined(<<>>, KidPuts(d, s, o)) \o <<NodeFor(d, s, o)>>
<1> DEFINE n == ChildCount(d, s)
           q == Shares(d, s)
           b == Begins(d, s, o)
           m == DataSize(d, s)
           kids == KidsOf(Uploads[d - 1], d, s, o)
<1>1. /\ d \in 1..3 /\ s \in Nat /\ o \in Nat /\ size \in Nat
      /\ n \in Nat /\ m \in Nat /\ o + m <= size
      /\ q \in Seq(Nat) /\ Len(q) = n
      /\ \A i \in 1..n : d # 1 /\ Placed(d - 1, q[i], b[i])
  BY ChildrenPlaced, DepthFacts
<1>2. Uploads[d][s][o] = Over(d, s, o, kids)
  <2>1. Uploads[d] = UploadsOf(Uploads[d - 1], d)
    BY <1>1, UploadsExist
  <2> QED
    BY <1>1, <2>1 DEF UploadsOf
<1>3. DOMAIN q = 1..n
  <2> HIDE DEF q, n
  <2> QED
    BY <1>1
<1>4. [i \in DOMAIN q |-> LayoutSize[d - 1][q[i]]] = q
  <2>1. ASSUME NEW i \in 1..n PROVE LayoutSize[d - 1][q[i]] = q[i]
    <3>1. d - 1 \in 1..3 /\ q[i] \in Nat /\ (d - 1 = 1 => q[i] <= Usable)
      BY <1>1 DEF Placed
    <3>2. LayoutSize[d - 1][q[i]] = IF d - 1 = 1 THEN Least(q[i], Usable) ELSE q[i]
      BY <3>1, LayoutSizes
    <3> QED
      BY <3>1, <3>2 DEF Least
  <2> HIDE DEF q, n
  <2>2. q = [i \in 1..n |-> q[i]]
    BY <1>1
  <2> QED
    BY <1>3, <2>1, <2>2
<1>5. kids = [i \in 1..n |-> Uploads[d - 1][q[i]][b[i]]]
  <2> DEFINE sizes == [i \in DOMAIN q |-> LayoutSize[d - 1][q[i]]]
  <2>1. kids = [i \in DOMAIN q |-> Uploads[d - 1][q[i]][Offsets(o + m, sizes)[i]]]
    BY DEF KidsOf
  <2>2. Offsets(o + m, sizes) = b
    BY <1>4 DEF Begins
  <2> HIDE DEF kids, q, n, b, sizes
  <2> QED
    BY <1>3, <2>1, <2>2
<1>6. Least(o + m, size) = o + m
  BY <1>1 DEF Least
<1> DEFINE node == [kind |-> IF d = Depth(size) THEN "file" ELSE "successor",
                    span |-> <<o, o + m>>,
                    children |-> [i \in 1..n |-> NodeFor(d - 1, q[i], b[i])]]
           under == [i \in 1..n |-> PutsFor(d - 1, q[i], b[i])]
<1>7. \A i \in 1..n : kids[i].node = NodeFor(d - 1, q[i], b[i]) /\ kids[i].puts = PutsFor(d - 1, q[i], b[i])
  BY <1>5 DEF NodeFor, PutsFor
<1> HIDE DEF kids
<1>8. Over(d, s, o, kids) = [node |-> node, puts |-> InOrder(node, under)]
  BY <1>3, <1>6, <1>7 DEF Over
<1>9. NodeFor(d, s, o) = node
  BY <1>2, <1>8 DEF NodeFor
<1>10. PutsFor(d, s, o) = Joined(<<>>, under) \o <<node>>
  <2>1. PutsFor(d, s, o) = InOrder(node, under)
    <3> HIDE DEF node, under
    <3> QED
      BY <1>2, <1>8 DEF PutsFor
  <2> QED
    BY <2>1 DEF InOrder
<1> QED
  BY <1>9, <1>10 DEF KidNodes, KidPuts

\* The parts of a node; only that of the whole file is of kind file.
LEMMA NodeParts ==
  ASSUME Sized, NEW d, NEW s, NEW o, Placed(d, s, o)
  PROVE  /\ NodeFor(d, s, o).kind = IF d = Depth(size) THEN "file" ELSE "successor"
         /\ NodeFor(d, s, o).span = <<o, o + DataSize(d, s)>>
         /\ NodeFor(d, s, o).children = KidNodes(d, s, o)
<1> DEFINE k == IF d = Depth(size) THEN "file" ELSE "successor"
<1>1. NodeFor(d, s, o) = [kind |-> k, span |-> <<o, o + DataSize(d, s)>>, children |-> KidNodes(d, s, o)]
  BY UploadShape
<1> DEFINE span == <<o, o + DataSize(d, s)>>
<1> HIDE DEF k, span
<1>2. NodeFor(d, s, o) = [kind |-> k, span |-> span, children |-> KidNodes(d, s, o)]
  BY <1>1 DEF span
<1>3. /\ NodeFor(d, s, o).kind = k /\ NodeFor(d, s, o).span = span
      /\ NodeFor(d, s, o).children = KidNodes(d, s, o)
  BY <1>2
<1> QED
  BY <1>3 DEF k, span

\* The nodes of the placed subtrees.
PlacedNodes ==
  {NodeFor(t[1], t[2], t[3]) :
     t \in {x \in (1..3) \X Nat \X Nat : Placed(x[1], x[2], x[3])}}

\* The node of every placed subtree is one of them, and there are no others.
LEMMA PlacedNodesAre ==
  ASSUME Sized
  PROVE  /\ \A d, s, o : Placed(d, s, o) => NodeFor(d, s, o) \in PlacedNodes
         /\ \A x \in PlacedNodes : \E d, s, o : Placed(d, s, o) /\ x = NodeFor(d, s, o)
<1>1. ASSUME NEW d, NEW s, NEW o, Placed(d, s, o) PROVE NodeFor(d, s, o) \in PlacedNodes
  <2> DEFINE t == <<d, s, o>>
  <2>1. t \in (1..3) \X Nat \X Nat /\ t[1] = d /\ t[2] = s /\ t[3] = o
    BY <1>1, DepthFacts DEF Placed
  <2> HIDE DEF t
  <2> QED
    BY <1>1, <2>1 DEF PlacedNodes
<1>2. ASSUME NEW x \in PlacedNodes PROVE \E d, s, o : Placed(d, s, o) /\ x = NodeFor(d, s, o)
  BY DEF PlacedNodes
<1> QED
  BY <1>1, <1>2

\* The children of a node.
ChildrenOf(x) == {x.children[i] : i \in DOMAIN x.children}

\* The upload of a subtree puts nodes of the tree: the subtree's own last, with
\* nothing before it that could be the root, and every child of what it puts.
PutsInOrder(d, s, o) ==
  LET p == PutsFor(d, s, o) IN
  /\ p \in Seq(PlacedNodes) /\ Len(p) >= 1 /\ p[Len(p)] = NodeFor(d, s, o)
  /\ \A i \in 1..Len(p) : i # Len(p) => p[i].kind = "successor"
  /\ \A x \in Elems(p) : ChildrenOf(x) \subseteq Elems(p)

\* One subtree, from those below it.
LEMMA SubtreePuts ==
  ASSUME Sized, NEW d, NEW s, NEW o, Placed(d, s, o),
         \A i \in 1..ChildCount(d, s) : PutsInOrder(d - 1, Shares(d, s)[i], Begins(d, s, o)[i])
  PROVE  PutsInOrder(d, s, o)
<1> DEFINE n == ChildCount(d, s)
           q == Shares(d, s)
           b == Begins(d, s, o)
           kid(i) == NodeFor(d - 1, q[i], b[i])
           under == [i \in 1..n |-> PutsFor(d - 1, q[i], b[i])]
           j == Joined(<<>>, under)
           x == NodeFor(d, s, o)
           p == PutsFor(d, s, o)
           S == PlacedNodes
<1>1. n \in Nat /\ (\A i \in 1..n : Placed(d - 1, q[i], b[i])) /\ d \in 1..Depth(size)
  BY ChildrenPlaced DEF Placed
<1>2. x.children = [i \in 1..n |-> kid(i)] /\ p = j \o <<x>>
  <2>1. x.children = KidNodes(d, s, o) /\ p = Joined(<<>>, KidPuts(d, s, o)) \o <<x>>
    BY UploadShape
  <2> QED
    BY <2>1 DEF KidNodes, KidPuts
<1>3. ASSUME NEW i \in 1..n PROVE kid(i).kind = "successor"
  <2>1. Placed(d - 1, q[i], b[i])
    BY <1>1
  <2>2. kid(i).kind = IF d - 1 = Depth(size) THEN "file" ELSE "successor"
    BY <2>1, NodeParts
  <2> QED
    BY <1>1, <2>2, DepthFacts
<1>4. ASSUME NEW i \in 1..n
      PROVE  /\ under[i] \in Seq(S) /\ kid(i) \in Elems(under[i])
             /\ \A y \in Elems(under[i]) : y.kind = "successor" /\ ChildrenOf(y) \subseteq Elems(under[i])
  <2>1. PutsInOrder(d - 1, q[i], b[i]) /\ under[i] = PutsFor(d - 1, q[i], b[i])
    OBVIOUS
  <2> DEFINE v == under[i]
             k == kid(i)
  <2>2. /\ v \in Seq(S) /\ Len(v) >= 1 /\ v[Len(v)] = k
        /\ \A l \in 1..Len(v) : l # Len(v) => v[l].kind = "successor"
        /\ \A y \in Elems(v) : ChildrenOf(y) \subseteq Elems(v)
    BY <2>1 DEF PutsInOrder
  <2>3. k.kind = "successor"
    BY <1>3
  <2> HIDE DEF v, k, S
  <2>4. Len(v) \in 1..Len(v)
    BY <2>2
  <2>5. k \in Elems(v)
    BY <2>2, <2>4 DEF Elems
  <2>6. \A y \in Elems(v) : y.kind = "successor"
    BY <2>2, <2>3 DEF Elems
  <2> QED
    BY <2>2, <2>5, <2>6 DEF v, k
<1>5. x \in S
  BY PlacedNodesAre
<1>6. under \in Seq(Seq(S)) /\ Len(under) = n
  <2>1. \A i \in 1..n : PutsFor(d - 1, q[i], b[i]) \in Seq(S)
    BY <1>4
  <2> HIDE DEF n, q, b, S
  <2> QED
    BY <1>1, <2>1
<1> HIDE DEF n, under, x, S
<1>7. j \in Seq(S) /\ Elems(j) = UNION {Elems(under[i]) : i \in 1..n}
  <2>1. <<>> \in Seq(S) /\ Elems(<<>>) = {}
    BY DEF Elems
  <2> HIDE DEF j
  <2>2. /\ Joined(<<>>, under) \in Seq(S)
        /\ Elems(Joined(<<>>, under)) = Elems(<<>>) \cup UNION {Elems(under[i]) : i \in 1..Len(under)}
    BY <1>6, <2>1, JoinedElems
  <2> QED
    BY <1>6, <2>1, <2>2 DEF j
<1> HIDE DEF j, kid, p
<1>8. /\ p \in Seq(S) /\ Len(p) = Len(j) + 1 /\ p[Len(p)] = x /\ Len(j) \in Nat
      /\ \A i \in 1..Len(j) : p[i] = j[i]
  BY <1>2, <1>5, <1>7
<1>9. Elems(p) = Elems(j) \cup {x}
  <2> DEFINE t == <<x>>
  <2>1. Elems(t) = {x} /\ t \in Seq(S) /\ p = j \o t
    BY <1>2, <1>5 DEF Elems
  <2> HIDE DEF t
  <2>2. j \in Seq(S)
    BY <1>7
  <2>3. Elems(j \o t) = Elems(j) \cup Elems(t)
    BY <2>1, <2>2, ElemsConcat
  <2> QED
    BY <2>1, <2>3
<1>10. ASSUME NEW i \in 1..Len(p), i # Len(p) PROVE p[i].kind = "successor"
  <2>1. i \in 1..Len(j) /\ p[i] = j[i]
    BY <1>8, <1>10
  <2>2. p[i] \in Elems(j)
    BY <2>1 DEF Elems
  <2> QED
    BY <1>4, <1>7, <2>2
<1>11. ASSUME NEW y \in Elems(p) PROVE ChildrenOf(y) \subseteq Elems(p)
  <2>1. CASE y \in Elems(j)
    BY <1>4, <1>7, <1>9, <2>1
  <2>2. CASE y = x
    <3>1. ChildrenOf(x) = {kid(i) : i \in 1..n}
      BY <1>2 DEF ChildrenOf
    <3>2. \A i \in 1..n : kid(i) \in Elems(j)
      BY <1>4, <1>7
    <3> QED
      BY <1>9, <2>2, <3>1, <3>2
  <2> QED
    BY <1>9, <2>1, <2>2
<1> QED
  BY <1>8, <1>10, <1>11 DEF PutsInOrder, p, x, S

\* Every subtree of the tree.
LEMMA AllPutsInOrder ==
  ASSUME Sized
  PROVE  \A d, s, o : Placed(d, s, o) => PutsInOrder(d, s, o)
<1> DEFINE A(e) == \A s, o : Placed(e, s, o) => PutsInOrder(e, s, o)
<1>1. ASSUME NEW d \in 1..3, d # 1 => A(d - 1) PROVE A(d)
  <2> SUFFICES ASSUME NEW s, NEW o, Placed(d, s, o) PROVE PutsInOrder(d, s, o)
    OBVIOUS
  <2>1. \A i \in 1..ChildCount(d, s) : d # 1 /\ Placed(d - 1, Shares(d, s)[i], Begins(d, s, o)[i])
    BY ChildrenPlaced
  <2>2. \A i \in 1..ChildCount(d, s) : PutsInOrder(d - 1, Shares(d, s)[i], Begins(d, s, o)[i])
    BY <1>1, <2>1
  <2> QED
    BY <2>2, SubtreePuts
<1> HIDE DEF A
<1>2. A(1)
  BY <1>1
<1>3. A(2)
  BY <1>1, <1>2
<1>4. A(3)
  BY <1>1, <1>3
<1>5. \A d, s, o : Placed(d, s, o) => d \in 1..3
  BY DepthFacts DEF Placed
<1> QED
  BY <1>2, <1>3, <1>4, <1>5 DEF A

\* A node of the tree has room for its hashes and data; only the FileInfo of the
\* root may be in excess.
LEMMA NodeRoom ==
  ASSUME Sized, NEW x \in PlacedNodes
  PROVE  EncodedSize(x) <= limit + (IF x.kind = "file" THEN InfoSize ELSE 0)
<1>1. PICK d, s, o : Placed(d, s, o) /\ x = NodeFor(d, s, o)
  BY PlacedNodesAre
<1> DEFINE n == ChildCount(d, s)
           m == DataSize(d, s)
<1>2. /\ n \in Nat /\ m \in Nat /\ o \in Nat /\ n * HashSize + m <= Usable
  BY <1>1, ChildrenPlaced
<1>3. x.children = KidNodes(d, s, o) /\ x.span = <<o, o + m>>
  BY <1>1, NodeParts
<1>4. Len(x.children) = n
  <2> HIDE DEF n
  <2>1. x.children = [i \in 1..n |-> NodeFor(d - 1, Shares(d, s)[i], Begins(d, s, o)[i])]
    BY <1>3 DEF KidNodes, n
  <2> QED
    BY <1>2, <2>1
<1>5. x.span[2] - x.span[1] = m
  <2> HIDE DEF m
  <2> QED
    BY <1>2, <1>3
<1>6. EncodedSize(x) = HeaderSize + n * HashSize + m + (IF x.kind = "file" THEN InfoSize ELSE 0)
  BY <1>4, <1>5 DEF EncodedSize
<1>7. n * HashSize \in Nat /\ HeaderSize \in Nat /\ Usable \in Nat /\ limit = HeaderSize + Usable
      /\ InfoSize \in Nat
  <2> HIDE DEF n
  <2> QED
    BY <1>2, UsableFacts
<1> HIDE DEF n, m
<1> QED
  BY <1>2, <1>6, <1>7

\* The root of the tree, and every node of it.
Root == NodeFor(Depth(size), size, 0)
Tree == Elems(Upload.puts)

\* The upload of a file whose layout succeeds: nodes of the tree with all their
\* children, the root last, and no other node that could be taken for it.
LEMMA UploadFacts ==
  ASSUME Sized, LayoutFits
  PROVE  /\ Placed(Depth(size), size, 0)
         /\ Tree \subseteq PlacedNodes /\ Root \in Tree /\ Root.kind = "file"
         /\ \A x \in Tree : ChildrenOf(x) \subseteq Tree /\ (x # Root => x.kind # "file")
         /\ Upload.puts \in Seq(Tree) /\ Len(Upload.puts) >= 1
         /\ Upload.puts[Len(Upload.puts)] = Root
         /\ \A i \in 1..Len(Upload.puts) : i # Len(Upload.puts) => Upload.puts[i].kind # "file"
<1> DEFINE p == Upload.puts
           e == Depth(size)
<1>1. Placed(e, size, 0)
  BY DepthFacts, LayoutFitsFacts DEF Placed
<1>2. p = PutsFor(e, size, 0)
  BY UploadsExist DEF PutsFor
<1>3. PutsInOrder(e, size, 0)
  BY <1>1, AllPutsInOrder
<1>4. /\ p \in Seq(PlacedNodes) /\ Len(p) >= 1 /\ p[Len(p)] = Root
      /\ \A i \in 1..Len(p) : i # Len(p) => p[i].kind = "successor"
      /\ \A x \in Elems(p) : ChildrenOf(x) \subseteq Elems(p)
  BY <1>2, <1>3 DEF PutsInOrder, Root
<1>5. Root.kind = "file"
  BY <1>1, NodeParts DEF Root
<1>6. Tree = Elems(p)
  BY DEF Tree
<1> HIDE DEF p
<1>7. Tree \subseteq PlacedNodes /\ Root \in Tree
  <2>1. Len(p) \in 1..Len(p)
    BY <1>4
  <2> QED
    BY <1>4, <1>6, <2>1 DEF Elems
<1>8. p \in Seq(Tree)
  <2>1. Len(p) \in Nat /\ p = [i \in 1..Len(p) |-> p[i]]
    BY <1>4
  <2>2. \A i \in 1..Len(p) : p[i] \in Tree
    BY <1>6 DEF Elems
  <2> QED
    BY <2>1, <2>2
<1>9. \A x \in Tree : x # Root => x.kind # "file"
  BY <1>4, <1>6 DEF Elems
<1> QED
  BY <1>1, <1>4, <1>5, <1>6, <1>7, <1>8, <1>9 DEF p

-----------------------------------------------------------------------------
(* The writing of the file. *)

\* What the store and the nodes still to put have to do with the tree.
Writing ==
  /\ stored # {} => LayoutFits
  /\ stored \subseteq Tree
  /\ Root \in stored => Tree \subseteq stored
  /\ result = "thrown" => ~LayoutFits
  /\ result = "writing" =>
       /\ LayoutFits
       /\ puts \in Seq(Tree) /\ Len(puts) >= 1 /\ puts[Len(puts)] = Root
       /\ \A i \in 1..Len(puts) : i # Len(puts) => puts[i].kind # "file"
       /\ Tree \subseteq stored \cup Elems(puts)

\* The inductive invariant: a writeFile in progress has put a first part of the
\* tree's nodes and has the rest before it, whatever earlier calls have left.
WriteInv == Sized /\ Writing

\* The tree is fixed by the limit, the rounding and the size of the file, which no
\* step changes.
LEMMA TreeFixed ==
  ASSUME UNCHANGED <<limit, low, size>>
  PROVE  /\ Upload' = Upload /\ Tree' = Tree /\ Root' = Root
         /\ LayoutFits' = LayoutFits /\ Sized' = Sized
<1>1. limit' = limit /\ low' = low /\ size' = size
  OBVIOUS
<1>2. Usable' = Usable /\ Depth(size)' = Depth(size)
  BY <1>1 DEF Usable, Depth, Holds
<1>3. LayoutSize' = LayoutSize
  BY <1>1 DEF LayoutSize, DataSize, ChildCount, ChildCapacity, Shares, Usable
<1>4. Upload' = Upload
  BY <1>1, <1>2, <1>3 DEF Upload, DataSize, ChildCount, ChildCapacity, Shares, Usable
<1>5. LayoutFits' = LayoutFits
  BY <1>1, <1>2 DEF LayoutFits, Fits, ChildCount, ChildCapacity, Shares, DataSize, Usable
<1>6. Uploads' = Uploads
  BY <1>1, <1>2, <1>3
     DEF Uploads, IsUpload, UploadsOf, Over, KidsOf, DataSize, ChildCount, ChildCapacity, Shares, Usable
<1> QED
  BY <1>1, <1>2, <1>4, <1>5, <1>6 DEF Tree, Root, NodeFor, Sized

\* The invariant holds at first, and no step breaks it.
THEOREM WriteInductive == Spec => []WriteInv
<1>1. Init => WriteInv
  BY DEF Init, WriteInv, Sized, Writing
<1>2. WriteInv /\ [Next]_vars => WriteInv'
  <2> SUFFICES ASSUME WriteInv, [Next]_vars PROVE WriteInv'
    OBVIOUS
  <2>1. UNCHANGED <<limit, low, size>>
    BY DEF Next, WriteFile, Put, PutFails, vars
  <2>2. Tree' = Tree /\ Root' = Root /\ (LayoutFits' <=> LayoutFits) /\ Sized' /\ Upload' = Upload
    BY <2>1, TreeFixed DEF WriteInv
  <2>3. ASSUME WriteFile PROVE Writing'
    <3>1. CASE ~LayoutFits /\ result' = "thrown"
      BY <2>2, <2>3, <3>1 DEF WriteFile, WriteInv, Writing
    <3>2. CASE LayoutFits /\ result' = "writing" /\ puts' = Upload.puts
      <4>1. /\ Upload.puts \in Seq(Tree) /\ Len(Upload.puts) >= 1
            /\ Upload.puts[Len(Upload.puts)] = Root
            /\ \A i \in 1..Len(Upload.puts) : i # Len(Upload.puts) => Upload.puts[i].kind # "file"
        BY <3>2, UploadFacts DEF WriteInv
      <4>2. Tree = Elems(puts')
        BY <3>2 DEF Tree
      <4>3. /\ puts' \in Seq(Tree) /\ Len(puts') >= 1 /\ puts'[Len(puts')] = Root
            /\ \A i \in 1..Len(puts') : i # Len(puts') => puts'[i].kind # "file"
        BY <3>2, <4>1
      <4>4. stored' = stored
        BY <2>3 DEF WriteFile
      <4>5. Elems(puts)' = Elems(puts')
        BY DEF Elems
      <4> QED
        BY <2>2, <3>2, <4>2, <4>3, <4>4, <4>5 DEF WriteInv, Writing
    <3> QED
      BY <2>3, <3>1, <3>2 DEF WriteFile
  <2>4. ASSUME Put PROVE Writing'
    <3>1. /\ result = "writing" /\ stored' = stored \cup {Head(puts)} /\ puts' = Tail(puts)
          /\ result' = IF Len(puts) = 1 THEN "written" ELSE "writing"
      BY <2>4 DEF Put
    <3>2. /\ LayoutFits /\ puts \in Seq(Tree) /\ Len(puts) >= 1 /\ puts[Len(puts)] = Root
          /\ \A i \in 1..Len(puts) : i # Len(puts) => puts[i].kind # "file"
          /\ Tree \subseteq stored \cup Elems(puts)
          /\ stored \subseteq Tree /\ (Root \in stored => Tree \subseteq stored)
      BY <3>1 DEF WriteInv, Writing
    <3>3. Root.kind = "file"
      BY <3>2, UploadFacts DEF WriteInv
    <3> DEFINE T == Tree
    <3> HIDE DEF T
    <3>4. puts \in Seq(T) /\ stored \subseteq T
      BY <3>2 DEF T
    <3>5. Head(puts) = puts[1] /\ puts[1] \in T
      BY <3>2, <3>4
    <3>6. Elems(puts) = {Head(puts)} \cup Elems(puts')
      <4>1. /\ Len(puts') = Len(puts) - 1 /\ Len(puts) \in Nat
            /\ \A i \in 1..Len(puts') : puts'[i] = puts[i + 1]
        BY <3>1, <3>2, <3>4
      <4>2. Elems(puts') = {puts[i + 1] : i \in 1..(Len(puts) - 1)}
        BY <4>1 DEF Elems
      <4>3. \A i \in 1..Len(puts) : i # 1 => i - 1 \in 1..(Len(puts) - 1) /\ (i - 1) + 1 = i
        BY <4>1
      <4>4. \A i \in 1..(Len(puts) - 1) : i + 1 \in 1..Len(puts)
        BY <4>1
      <4>5. Elems(puts) = {puts[i] : i \in 1..Len(puts)} /\ 1 \in 1..Len(puts)
        BY <3>2, <4>1 DEF Elems
      <4>6. Elems(puts) \subseteq {puts[1]} \cup Elems(puts')
        BY <4>2, <4>3, <4>5
      <4>7. {puts[1]} \cup Elems(puts') \subseteq Elems(puts)
        BY <4>2, <4>4, <4>5
      <4> QED
        BY <3>5, <4>6, <4>7
    <3>7. stored' \subseteq T /\ T \subseteq stored' \cup Elems(puts')
      BY <3>1, <3>2, <3>4, <3>5, <3>6 DEF T
    <3>8. CASE Len(puts) = 1
      <4>1. Elems(puts') = {}
        BY <3>1, <3>4, <3>8 DEF Elems
      <4>2. T \subseteq stored'
        BY <3>7, <4>1
      <4>3. result' = "written"
        BY <3>1, <3>8
      <4> QED
        BY <2>2, <3>2, <3>7, <4>2, <4>3 DEF Writing, T
    <3>9. CASE Len(puts) # 1
      <4>1. /\ Len(puts) \in Nat /\ Len(puts') = Len(puts) - 1 /\ Len(puts') >= 1 /\ puts' \in Seq(T)
            /\ \A i \in 1..Len(puts') : puts'[i] = puts[i + 1]
        <5>1. puts \in Seq(T) /\ puts # <<>> /\ puts' = Tail(puts)
          BY <3>1, <3>2, <3>4
        <5>2. /\ Len(puts) \in Nat /\ Len(puts') = Len(puts) - 1 /\ puts' \in Seq(T)
              /\ \A i \in 1..Len(puts') : puts'[i] = puts[i + 1]
          BY <5>1
        <5> QED
          BY <3>2, <3>9, <5>2
      <4>2. puts'[Len(puts')] = Root
        <5>1. Len(puts') \in 1..Len(puts') /\ Len(puts') + 1 = Len(puts)
          BY <4>1
        <5>2. puts'[Len(puts')] = puts[Len(puts') + 1]
          BY <4>1, <5>1
        <5> QED
          BY <3>2, <5>1, <5>2
      <4>3. \A i \in 1..Len(puts') : i # Len(puts') => puts'[i].kind # "file"
        <5> SUFFICES ASSUME NEW i \in 1..Len(puts'), i # Len(puts') PROVE puts'[i].kind # "file"
          OBVIOUS
        <5>1. i + 1 \in 1..Len(puts) /\ i + 1 # Len(puts)
          BY <4>1
        <5> QED
          BY <3>2, <4>1, <5>1
      <4>4. Head(puts) # Root
        <5>1. 1 \in 1..Len(puts) /\ 1 # Len(puts)
          BY <3>2, <3>9, <4>1
        <5> QED
          BY <3>2, <3>3, <3>5, <5>1
      <4>5. Root \in stored' => T \subseteq stored'
        BY <3>1, <3>2, <4>4 DEF T
      <4>6. result' = "writing"
        BY <3>1, <3>9
      <4>7. Elems(puts)' = Elems(puts')
        BY DEF Elems
      <4> QED
        BY <2>2, <3>2, <3>7, <4>1, <4>2, <4>3, <4>5, <4>6, <4>7 DEF Writing, T
    <3> QED
      BY <3>8, <3>9
  <2>5. ASSUME PutFails PROVE Writing'
    BY <2>2, <2>5 DEF PutFails, WriteInv, Writing
  <2>6. ASSUME UNCHANGED vars PROVE Writing'
    <3>1. Elems(puts)' = Elems(puts)
      BY <2>6 DEF vars, Elems
    <3> QED
      BY <2>2, <2>6, <3>1 DEF vars, WriteInv, Writing
  <2> QED
    BY <2>2, <2>3, <2>4, <2>5, <2>6 DEF Next, WriteInv
<1> QED
  BY <1>1, <1>2, PTL DEF Spec

\* No node of a file's tree is longer than the limit, but for the FileInfo of its
\* root: the data of a node leaves room for the hashes of all its children.
THEOREM NodesHaveRoom == Spec => []NodesFit
<1>1. WriteInv => NodesFit
  <2> SUFFICES ASSUME WriteInv, NEW n \in stored
               PROVE  EncodedSize(n) <= limit + (IF n.kind = "file" THEN InfoSize ELSE 0)
    BY DEF NodesFit
  <2>1. n \in PlacedNodes
    BY UploadFacts DEF WriteInv, Writing
  <2> QED
    BY <2>1, NodeRoom DEF WriteInv
<1> QED
  BY <1>1, WriteInductive, PTL

-----------------------------------------------------------------------------
(* Reading. *)

\* Spans that follow on one another from one place to another.
Chain(r, a, b) ==
  /\ r \in Seq(Nat \X Nat) /\ Len(r) >= 1
  /\ r[1][1] = a /\ r[Len(r)][2] = b
  /\ \A i \in 1..Len(r) : r[i][1] <= r[i][2]
  /\ \A i \in 1..(Len(r) - 1) : r[i][2] = r[i + 1][1]

\* A chain goes on where another ends.
LEMMA ChainOn ==
  ASSUME NEW r, NEW t, NEW a, NEW b, NEW c, Chain(r, a, b), Chain(t, b, c)
  PROVE  Chain(r \o t, a, c)
<1> DEFINE w == r \o t
           P == Nat \X Nat
<1>1. /\ r \in Seq(P) /\ Len(r) >= 1 /\ r[1][1] = a /\ r[Len(r)][2] = b
      /\ t \in Seq(P) /\ Len(t) >= 1 /\ t[1][1] = b /\ t[Len(t)][2] = c
      /\ \A i \in 1..Len(r) : r[i][1] <= r[i][2]
      /\ \A i \in 1..Len(t) : t[i][1] <= t[i][2]
      /\ \A i \in 1..(Len(r) - 1) : r[i][2] = r[i + 1][1]
      /\ \A i \in 1..(Len(t) - 1) : t[i][2] = t[i + 1][1]
  BY DEF Chain
<1> HIDE DEF P
<1>2. /\ w \in Seq(P) /\ Len(w) = Len(r) + Len(t) /\ Len(r) \in Nat /\ Len(t) \in Nat
      /\ \A i \in 1..Len(r) : w[i] = r[i]
      /\ \A i \in 1..Len(t) : w[Len(r) + i] = t[i]
  BY <1>1
<1> HIDE DEF w
<1>3. \A i \in 1..Len(w) : i \in 1..Len(r) \/ (i - Len(r) \in 1..Len(t) /\ i = Len(r) + (i - Len(r)))
  BY <1>2
<1>4. w[1] = r[1] /\ w[Len(w)] = t[Len(t)]
  <2>1. 1 \in 1..Len(r) /\ Len(t) \in 1..Len(t)
    BY <1>1, <1>2
  <2> QED
    BY <1>2, <2>1
<1>5. ASSUME NEW i \in 1..Len(w) PROVE w[i][1] <= w[i][2]
  <2>1. CASE i \in 1..Len(r)
    BY <1>1, <1>2, <2>1
  <2>2. CASE i - Len(r) \in 1..Len(t) /\ i = Len(r) + (i - Len(r))
    <3>1. w[i] = t[i - Len(r)]
      BY <1>2, <2>2
    <3> QED
      BY <1>1, <2>2, <3>1
  <2> QED
    BY <1>3, <2>1, <2>2
<1>6. ASSUME NEW i \in 1..(Len(w) - 1) PROVE w[i][2] = w[i + 1][1]
  <2>1. CASE i < Len(r)
    <3>1. i \in 1..(Len(r) - 1) /\ i \in 1..Len(r) /\ i + 1 \in 1..Len(r)
      BY <1>2, <2>1
    <3> QED
      BY <1>1, <1>2, <3>1
  <2>2. CASE i = Len(r)
    <3>1. i \in 1..Len(r) /\ 1 \in 1..Len(t)
      BY <1>1, <1>2, <2>2
    <3>2. w[i] = r[i] /\ w[i + 1] = t[1]
      BY <1>2, <2>2, <3>1
    <3> QED
      BY <1>1, <2>2, <3>2
  <2>3. CASE i > Len(r)
    <3> DEFINE k == i - Len(r)
    <3>1. k \in 1..(Len(t) - 1) /\ k \in 1..Len(t) /\ k + 1 \in 1..Len(t)
          /\ Len(r) + k = i /\ Len(r) + (k + 1) = i + 1
      BY <1>2, <2>3
    <3> HIDE DEF k
    <3>2. w[i] = t[k] /\ w[i + 1] = t[k + 1]
      BY <1>2, <3>1
    <3> QED
      BY <1>1, <3>1, <3>2
  <2> QED
    BY <1>2, <2>1, <2>2, <2>3
<1>7. Len(w) >= 1
  BY <1>1, <1>2
<1> QED
  BY <1>1, <1>2, <1>4, <1>5, <1>6, <1>7 DEF Chain, w, P

\* Chains that follow on one another, joined, are a chain.
LEMMA ChainsJoined ==
  ASSUME NEW first, NEW seqs, NEW a, NEW at, NEW n \in Nat, Len(seqs) = n,
         Chain(first, a, at[1]),
         \A i \in 1..n : Chain(seqs[i], at[i], at[i + 1])
  PROVE  Chain(Joined(first, seqs), a, at[n + 1])
<1>1. PICK u : Joins(u, first, seqs)
  BY JoinedSteps
<1>2. /\ Joined(first, seqs) = u[n] /\ u[0] = first
      /\ \A i \in 1..n : u[i] = u[i - 1] \o seqs[i]
  BY <1>1 DEF Joins
<1> DEFINE C == {m \in Nat : m <= n => Chain(u[m], a, at[m + 1])}
<1>3. 0 \in C
  BY <1>2
<1>4. ASSUME NEW m \in Nat, m \in C PROVE m + 1 \in C
  <2> SUFFICES ASSUME m + 1 <= n PROVE Chain(u[m + 1], a, at[m + 1 + 1])
    OBVIOUS
  <2>1. m + 1 \in 1..n /\ (m + 1) - 1 = m
    OBVIOUS
  <2>2. Chain(u[m], a, at[m + 1])
    BY <1>4
  <2>3. Chain(seqs[m + 1], at[m + 1], at[m + 1 + 1]) /\ u[m + 1] = u[m] \o seqs[m + 1]
    BY <1>2, <2>1
  <2> QED
    BY <2>2, <2>3, ChainOn
<1> HIDE DEF C
<1>5. Nat \subseteq C
  BY <1>3, <1>4, NatInductionOn
<1>6. n \in C /\ n <= n
  BY <1>5
<1> QED
  BY <1>2, <1>6 DEF C

\* A solution of the recursion of readFileNodeData.
IsReading(read) ==
  read = [x \in stored |->
    Joined(<<x.span>>, [i \in DOMAIN x.children |->
      IF x.children[i] \in stored THEN read[x.children[i]] ELSE <<>>])]

\* Nodes without children, with children that have none, and so on.
Level1(x) == DOMAIN x.children = {}
Level2(x) == \A i \in DOMAIN x.children : Level1(x.children[i])
Level3(x) == \A i \in DOMAIN x.children : Level2(x.children[i])

\* What is read of them when every child is in the store.
Reading1(x) == Joined(<<x.span>>, [i \in DOMAIN x.children |-> <<>>])
Reading2(x) == Joined(<<x.span>>, [i \in DOMAIN x.children |-> Reading1(x.children[i])])
Reading3(x) == Joined(<<x.span>>, [i \in DOMAIN x.children |-> Reading2(x.children[i])])

\* The tree has three levels at most.
LEMMA ThreeLevels ==
  ASSUME Sized, NEW x \in PlacedNodes
  PROVE  Level3(x)
<1>1. ASSUME NEW d, NEW s, NEW o, Placed(d, s, o)
      PROVE  /\ d \in 1..3
             /\ DOMAIN NodeFor(d, s, o).children = 1..ChildCount(d, s)
             /\ \A i \in 1..ChildCount(d, s) :
                  /\ d # 1 /\ Placed(d - 1, Shares(d, s)[i], Begins(d, s, o)[i])
                  /\ NodeFor(d, s, o).children[i] = NodeFor(d - 1, Shares(d, s)[i], Begins(d, s, o)[i])
  <2>1. NodeFor(d, s, o).children = KidNodes(d, s, o)
    BY <1>1, NodeParts
  <2>2. DOMAIN KidNodes(d, s, o) = 1..ChildCount(d, s)
    BY DEF KidNodes
  <2>3. \A i \in 1..ChildCount(d, s) :
          KidNodes(d, s, o)[i] = NodeFor(d - 1, Shares(d, s)[i], Begins(d, s, o)[i])
    BY DEF KidNodes
  <2>4. d \in 1..3 /\ \A i \in 1..ChildCount(d, s) :
                         d # 1 /\ Placed(d - 1, Shares(d, s)[i], Begins(d, s, o)[i])
    BY <1>1, ChildrenPlaced
  <2> QED
    BY <2>1, <2>2, <2>3, <2>4
<1>2. \A s, o : Placed(1, s, o) => Level1(NodeFor(1, s, o))
  <2> SUFFICES ASSUME NEW s, NEW o, Placed(1, s, o) PROVE DOMAIN NodeFor(1, s, o).children = {}
    BY DEF Level1
  <2> QED
    BY <1>1
<1>3. \A s, o : Placed(2, s, o) => Level2(NodeFor(2, s, o))
  <2> SUFFICES ASSUME NEW s, NEW o, Placed(2, s, o),
                      NEW i \in DOMAIN NodeFor(2, s, o).children
               PROVE  Level1(NodeFor(2, s, o).children[i])
    BY DEF Level2
  <2>1. i \in 1..ChildCount(2, s)
    BY <1>1
  <2>2. Placed(2 - 1, Shares(2, s)[i], Begins(2, s, o)[i])
        /\ NodeFor(2, s, o).children[i] = NodeFor(2 - 1, Shares(2, s)[i], Begins(2, s, o)[i])
    BY <1>1, <2>1
  <2>3. 2 - 1 = 1
    OBVIOUS
  <2> QED
    BY <1>2, <2>2, <2>3
<1>4. \A s, o : Placed(3, s, o) => Level3(NodeFor(3, s, o))
  <2> SUFFICES ASSUME NEW s, NEW o, Placed(3, s, o),
                      NEW i \in DOMAIN NodeFor(3, s, o).children
               PROVE  Level2(NodeFor(3, s, o).children[i])
    BY DEF Level3
  <2>1. i \in 1..ChildCount(3, s)
    BY <1>1
  <2>2. Placed(3 - 1, Shares(3, s)[i], Begins(3, s, o)[i])
        /\ NodeFor(3, s, o).children[i] = NodeFor(3 - 1, Shares(3, s)[i], Begins(3, s, o)[i])
    BY <1>1, <2>1
  <2>3. 3 - 1 = 2
    OBVIOUS
  <2> QED
    BY <1>3, <2>2, <2>3
<1>5. \A y : (Level1(y) => Level2(y)) /\ (Level2(y) => Level3(y))
  BY DEF Level1, Level2, Level3
<1>6. PICK d, s, o : Placed(d, s, o) /\ x = NodeFor(d, s, o)
  BY PlacedNodesAre
<1>7. d = 1 \/ d = 2 \/ d = 3
  BY <1>1, <1>6
<1> QED
  BY <1>2, <1>3, <1>4, <1>5, <1>6, <1>7

\* When the store holds nodes of the tree with all their children, reading has a
\* result.
LEMMA ReadingExists ==
  ASSUME Sized, stored \subseteq PlacedNodes, \A x \in stored : ChildrenOf(x) \subseteq stored
  PROVE  \E read : IsReading(read)
<1> DEFINE value(x) == IF Level1(x) THEN Reading1(x) ELSE IF Level2(x) THEN Reading2(x) ELSE Reading3(x)
           z == [x \in stored |-> value(x)]
           step(x) == Joined(<<x.span>>, [i \in DOMAIN x.children |->
                        IF x.children[i] \in stored THEN z[x.children[i]] ELSE <<>>])
<1>1. ASSUME NEW x \in stored, NEW i \in DOMAIN x.children PROVE x.children[i] \in stored
  BY DEF ChildrenOf
<1>2. \A x \in stored : Level3(x)
  BY ThreeLevels
<1>3. \A x \in stored : z[x] = value(x)
  OBVIOUS
<1>4. ASSUME NEW x, Level1(x) PROVE Reading1(x) = Reading2(x)
  <2>1. [i \in DOMAIN x.children |-> <<>>] = [i \in DOMAIN x.children |-> Reading1(x.children[i])]
    BY <1>4 DEF Level1
  <2> QED
    BY <2>1 DEF Reading1, Reading2
<1> HIDE DEF z
<1>5. ASSUME NEW x \in stored PROVE value(x) = step(x)
  <2>1. \A i \in DOMAIN x.children : x.children[i] \in stored /\ z[x.children[i]] = value(x.children[i])
    BY <1>1, <1>3
  <2> HIDE DEF value
  <2>2. step(x) = Joined(<<x.span>>, [i \in DOMAIN x.children |-> value(x.children[i])])
    <3>1. [i \in DOMAIN x.children |-> IF x.children[i] \in stored THEN z[x.children[i]] ELSE <<>>]
            = [i \in DOMAIN x.children |-> value(x.children[i])]
      BY <2>1
    <3> QED
      BY <3>1
  <2> HIDE DEF step
  <2>3. CASE Level1(x)
    <3>1. [i \in DOMAIN x.children |-> value(x.children[i])] = [i \in DOMAIN x.children |-> <<>>]
      BY <2>3 DEF Level1
    <3> QED
      BY <2>2, <2>3, <3>1 DEF value, Reading1
  <2>4. CASE ~Level1(x) /\ Level2(x)
    <3>1. \A i \in DOMAIN x.children : value(x.children[i]) = Reading1(x.children[i])
      BY <2>4 DEF Level2, value
    <3>2. [i \in DOMAIN x.children |-> value(x.children[i])]
            = [i \in DOMAIN x.children |-> Reading1(x.children[i])]
      BY <3>1
    <3> QED
      BY <2>2, <2>4, <3>2 DEF value, Reading2
  <2>5. CASE ~Level1(x) /\ ~Level2(x)
    <3>1. \A i \in DOMAIN x.children : value(x.children[i]) = Reading2(x.children[i])
      <4>1. \A i \in DOMAIN x.children : Level2(x.children[i])
        BY <1>2 DEF Level3
      <4> QED
        BY <1>4, <4>1 DEF value
    <3>2. [i \in DOMAIN x.children |-> value(x.children[i])]
            = [i \in DOMAIN x.children |-> Reading2(x.children[i])]
      BY <3>1
    <3> QED
      BY <2>2, <2>5, <3>2 DEF value, Reading3
  <2> QED
    BY <2>3, <2>4, <2>5
<1>6. z = [x \in stored |-> step(x)]
  <2> HIDE DEF value, step
  <2>1. z = [x \in stored |-> value(x)]
    BY DEF z
  <2> QED
    BY <1>5, <2>1
<1> QED
  BY <1>6 DEF IsReading

\* What is read of a subtree's node are its bytes, every one once and in order.
LEMMA SubtreeReads ==
  ASSUME Sized, NEW read, IsReading(read), \A x \in stored : ChildrenOf(x) \subseteq stored
  PROVE  \A d, s, o : Placed(d, s, o) /\ NodeFor(d, s, o) \in stored =>
           Chain(read[NodeFor(d, s, o)], o, o + s)
<1> DEFINE A(e) == \A s, o : Placed(e, s, o) /\ NodeFor(e, s, o) \in stored =>
                      Chain(read[NodeFor(e, s, o)], o, o + s)
<1>1. ASSUME NEW d \in 1..3, d # 1 => A(d - 1) PROVE A(d)
  <2> SUFFICES ASSUME NEW s, NEW o, Placed(d, s, o), NodeFor(d, s, o) \in stored
               PROVE  Chain(read[NodeFor(d, s, o)], o, o + s)
    OBVIOUS
  <2> DEFINE n == ChildCount(d, s)
             m == DataSize(d, s)
             q == Shares(d, s)
             b == Begins(d, s, o)
             x == NodeFor(d, s, o)
             under == [i \in 1..n |-> read[x.children[i]]]
  <2>1. /\ o \in Nat /\ s \in Nat /\ n \in Nat /\ m \in Nat
        /\ \A i \in 1..n : d # 1 /\ Placed(d - 1, q[i], b[i]) /\ b[i + 1] = b[i] + q[i]
        /\ n # 0 => b[1] = o + m /\ b[n + 1] = o + s
        /\ n = 0 => m = s
    BY ChildrenPlaced
  <2>2. x.span = <<o, o + m>> /\ x.children = KidNodes(d, s, o)
    BY NodeParts
  <2>3. /\ DOMAIN x.children = 1..n
        /\ \A i \in 1..n : x.children[i] = NodeFor(d - 1, q[i], b[i]) /\ x.children[i] \in stored
    <3>1. DOMAIN x.children = 1..n /\ \A i \in 1..n : x.children[i] = NodeFor(d - 1, q[i], b[i])
      BY <2>2 DEF KidNodes
    <3>2. ChildrenOf(x) \subseteq stored
      OBVIOUS
    <3>3. \A i \in DOMAIN x.children : x.children[i] \in stored
      BY <3>2 DEF ChildrenOf
    <3> QED
      BY <3>1, <3>3
  <2>4. \A i \in 1..n : Chain(under[i], b[i], b[i + 1])
    <3> SUFFICES ASSUME NEW i \in 1..n PROVE Chain(under[i], b[i], b[i + 1])
      OBVIOUS
    <3>1. Placed(d - 1, q[i], b[i]) /\ A(d - 1) /\ b[i + 1] = b[i] + q[i]
      BY <1>1, <2>1
    <3>2. NodeFor(d - 1, q[i], b[i]) \in stored /\ under[i] = read[NodeFor(d - 1, q[i], b[i])]
      BY <2>3
    <3> QED
      BY <3>1, <3>2
  <2>5. read[x] = Joined(<<x.span>>, under)
    <3>1. read[x] = Joined(<<x.span>>, [i \in DOMAIN x.children |->
                      IF x.children[i] \in stored THEN read[x.children[i]] ELSE <<>>])
      BY DEF IsReading
    <3>2. [i \in DOMAIN x.children |-> IF x.children[i] \in stored THEN read[x.children[i]] ELSE <<>>] = under
      <4> HIDE DEF x, n
      <4> QED
        BY <2>3
    <3> QED
      BY <3>1, <3>2
  <2> HIDE DEF x, n, m, q, under
  <2> DEFINE at == IF n = 0 THEN [i \in {1} |-> o + m] ELSE b
  <2>6. Chain(<<x.span>>, o, o + m)
    <3> DEFINE r == <<x.span>>
    <3>1. Len(r) = 1 /\ r[1] = <<o, o + m>> /\ r \in Seq(Nat \X Nat)
      BY <2>1, <2>2
    <3> HIDE DEF r
    <3>2. r[1][1] = o /\ r[1][2] = o + m /\ o <= o + m
      BY <2>1, <3>1
    <3>3. Chain(r, o, o + m)
      BY <3>1, <3>2 DEF Chain
    <3> QED
      BY <3>3 DEF r
  <2>7. at[1] = o + m /\ at[n + 1] = o + s /\ \A i \in 1..n : at[i] = b[i] /\ at[i + 1] = b[i + 1]
    BY <2>1
  <2>8. Len(under) = n
    BY <2>1 DEF under
  <2> HIDE DEF at, b
  <2>9. \A i \in 1..n : Chain(under[i], at[i], at[i + 1])
    BY <2>4, <2>7
  <2>10. Chain(Joined(<<x.span>>, under), o, at[n + 1])
    BY <2>1, <2>6, <2>7, <2>8, <2>9, ChainsJoined
  <2> QED
    BY <2>5, <2>7, <2>10 DEF x
<1> HIDE DEF A
<1>2. A(1)
  BY <1>1
<1>3. A(2)
  BY <1>1, <1>2
<1>4. A(3)
  BY <1>1, <1>3
<1>5. \A d, s, o : Placed(d, s, o) => d \in 1..3
  BY DepthFacts DEF Placed
<1> QED
  BY <1>2, <1>3, <1>4, <1>5 DEF A

\* A file that can be read at all is whole, whatever failed before: a node in the
\* store that is a file is the root, and the root is put when all else is there.
THEOREM FilesAreWhole == Spec => []FilesReadBack
<1>1. WriteInv => FilesReadBack
  <2> SUFFICES ASSUME WriteInv, NEW f \in Files
               PROVE  LET spans == ReadFile(f) IN
                      /\ spans[1][1] = 0 /\ spans[Len(spans)][2] = size
                      /\ \A i \in 1..(Len(spans) - 1) : spans[i][2] = spans[i + 1][1]
                      /\ \A i \in DOMAIN spans : spans[i][1] <= spans[i][2]
    BY DEF FilesReadBack
  <2>1. Sized /\ LayoutFits /\ f \in stored /\ f.kind = "file" /\ stored \subseteq Tree
    BY DEF Files, WriteInv, Writing
  <2>2. f = Root /\ Tree = stored
    <3>1. f = Root
      BY <2>1, UploadFacts
    <3> QED
      BY <2>1, <3>1 DEF WriteInv, Writing
  <2>3. stored \subseteq PlacedNodes /\ \A x \in stored : ChildrenOf(x) \subseteq stored
    BY <2>1, <2>2, UploadFacts
  <2> DEFINE read == CHOOSE r : IsReading(r)
  <2>4. IsReading(read)
    BY <2>1, <2>3, ReadingExists
  <2>5. ReadFile(f) = read[f]
    BY DEF ReadFile, IsReading
  <2> HIDE DEF read
  <2>6. Placed(Depth(size), size, 0) /\ Root = NodeFor(Depth(size), size, 0)
    BY <2>1, UploadFacts DEF Root
  <2>7. Chain(read[f], 0, 0 + size)
    BY <2>1, <2>2, <2>3, <2>4, <2>6, SubtreeReads
  <2>8. size \in Nat
    BY <2>1, DepthFacts
  <2> DEFINE r == read[f]
  <2>9. /\ r \in Seq(Nat \X Nat) /\ r[1][1] = 0 /\ r[Len(r)][2] = size
        /\ \A i \in 1..Len(r) : r[i][1] <= r[i][2]
        /\ \A i \in 1..(Len(r) - 1) : r[i][2] = r[i + 1][1]
    BY <2>7, <2>8 DEF Chain
  <2> HIDE DEF r
  <2>10. DOMAIN r = 1..Len(r)
    BY <2>9
  <2> QED
    BY <2>5, <2>9, <2>10 DEF r
<1> QED
  BY <1>1, WriteInductive, PTL

-----------------------------------------------------------------------------
(* The depth of the tree, and when the layout fails. *)

\* Rounding up goes no further than a bound that is a multiple itself.
LEMMA CeilBound ==
  ASSUME NEW a \in Nat, NEW b \in Nat \ {0}, NEW k \in Nat, a <= k * b, a > 0
  PROVE  CeilDiv(a, b) \in Nat /\ CeilDiv(a, b) <= k
<1> DEFINE n == CeilDiv(a, b)
<1>1. n \in Nat /\ n >= 1 /\ (n - 1) * b < a
  BY CeilFacts
<1> HIDE DEF n
<1>2. n <= k
  <2> SUFFICES ASSUME n - 1 - k \in Nat PROVE FALSE
    BY <1>1
  <2>1. (n - 1 - k) * b \in Nat /\ k * b \in Nat
    OBVIOUS
  <2>2. (n - 1 - k) * b = (n - 1) * b - k * b /\ (n - 1) * b \in Nat
    BY <1>1
  <2> QED
    BY <1>1, <2>1, <2>2
<1> QED
  BY <1>1, <1>2 DEF n

\* Where the room of a node is a multiple of the hash size, every layout succeeds.
LEMMA WholeHashesFit ==
  ASSUME Sized, Usable % HashSize = 0
  PROVE  LayoutFits
<1> DEFINE u == Usable
           h == HashSize
           k == u \div h
<1>1. u \in Nat /\ h \in Nat /\ h >= 1 /\ u > h
  BY UsableFacts
<1>2. k \in Nat /\ u = k * h
  <2>1. u % h = 0
    OBVIOUS
  <2> HIDE DEF u, h
  <2> QED
    BY <1>1, <2>1
<1> HIDE DEF u, h, k
<1>3. k >= 2
  <2>1. k = 0 => k * h = 0
    BY <1>1
  <2>2. k = 1 => k * h = h
    BY <1>1
  <2> QED
    BY <1>1, <1>2, <2>1, <2>2
<1>4. u * u = (k * u) * h /\ k * u \in Nat
  <2>1. u * u = (k * h) * u
    BY <1>2
  <2>2. (k * h) * u = (k * u) * h
    BY <1>1, <1>2
  <2> QED
    BY <1>1, <1>2, <2>1, <2>2
<1>5. (u * u) \div h = k * u
  <2> DEFINE v == k * u
  <2>1. v \in Nat /\ u * u = v * h
    BY <1>4
  <2> HIDE DEF v
  <2>2. (v * h) \div h = v
    BY <1>1, <2>1
  <2> QED
    BY <2>1, <2>2 DEF v
<1>6. ASSUME NEW t \in Nat, t <= k * u PROVE Fits(2, t)
  <2>1. CASE t <= u
    <3>1. ChildCount(2, t) = 0
      BY <2>1 DEF ChildCount, u
    <3> QED
      BY <1>1, <3>1 DEF Fits, u, h
  <2>2. CASE t > u
    <3> DEFINE a == t - u
               b == u - h
               n == CeilDiv(a, b)
    <3>1. a \in Nat /\ a > 0 /\ b \in Nat \ {0}
      BY <1>1, <2>2
    <3>2. a <= k * b
      <4>1. k * b = k * u - k * h
        BY <1>1, <1>2
      <4> QED
        BY <1>1, <1>2, <1>4, <1>6, <2>2, <4>1
    <3>3. ChildCount(2, t) = n
      BY <1>1, <2>2 DEF ChildCount, ChildCapacity, u, h
    <3> HIDE DEF a, b
    <3>4. n \in Nat /\ n <= k
      BY <1>2, <3>1, <3>2, CeilBound
    <3> HIDE DEF n
    <3>5. n * h <= u
      <4>1. (k - n) * h \in Nat
        BY <1>1, <1>2, <3>4
      <4>2. (k - n) * h = k * h - n * h /\ n * h \in Nat
        BY <1>1, <1>2, <3>4
      <4> QED
        BY <1>1, <1>2, <4>1, <4>2
    <3> QED
      BY <3>3, <3>5 DEF Fits, u, h
  <2> QED
    BY <1>1, <1>6, <2>1, <2>2
<1>7. ASSUME NEW t \in Nat, t <= k * u PROVE Fits(3, t)
  <2>1. CASE t <= u
    <3>1. ChildCount(3, t) = 0
      BY <2>1 DEF ChildCount, u
    <3> QED
      BY <1>1, <3>1 DEF Fits, u, h
  <2>2. CASE t > u
    <3> DEFINE a == t - u
               b == k * u - h
               n == CeilDiv(a, b)
    <3>1. k * u >= u + u
      <4>1. (k - 2) * u \in Nat /\ (k - 2) * u = k * u - (u + u)
        BY <1>1, <1>2, <1>3
      <4> QED
        BY <1>1, <1>4, <4>1
    <3>2. a \in Nat /\ a > 0 /\ b \in Nat \ {0} /\ a <= 1 * b
      BY <1>1, <1>4, <1>7, <2>2, <3>1
    <3>3. ChildCount(3, t) = n
      BY <1>1, <1>5, <2>2 DEF ChildCount, ChildCapacity, u, h
    <3> HIDE DEF a, b
    <3>4. n \in Nat /\ n <= 1
      BY <3>2, CeilBound
    <3> HIDE DEF n
    <3>5. n * h <= u
      <4>1. n = 0 \/ n = 1
        BY <3>4
      <4> QED
        BY <1>1, <4>1
    <3> QED
      BY <3>3, <3>5 DEF Fits, u, h
  <2> QED
    BY <1>1, <1>7, <2>1, <2>2
<1>8. size \in Nat /\ size <= k * u /\ Depth(size) \in 1..3
  <2>1. size \in 0..((u * u) \div h)
    BY DEF Sized, u, h
  <2> QED
    BY <1>4, <1>5, <2>1, DepthFacts
<1>9. \A i \in 1..ChildCount(3, size) : Fits(2, Shares(3, size)[i])
  <2> SUFFICES ASSUME NEW i \in 1..ChildCount(3, size) PROVE Fits(2, Shares(3, size)[i])
    OBVIOUS
  <2> DEFINE q == Shares(3, size)
             n == ChildCount(3, size)
  <2>1. n \in Nat /\ q \in Seq(Nat) /\ Len(q) = n /\ \A j \in 1..n : q[j] <= ChildCapacity(3)
    BY <1>8, ShareFacts
  <2>2. ChildCapacity(3) = k * u
    BY <1>5 DEF ChildCapacity, u, h
  <2>3. i \in 1..n
    OBVIOUS
  <2> HIDE DEF q, n
  <2>4. q[i] \in Nat /\ q[i] <= k * u
    BY <2>1, <2>2, <2>3
  <2> QED
    BY <1>6, <2>4 DEF q
<1>10. Fits(1, size)
  <2>1. ChildCount(1, size) = 0
    BY DEF ChildCount
  <2> QED
    BY <1>1, <2>1 DEF Fits, u, h
<1>11. Fits(Depth(size), size)
  BY <1>6, <1>7, <1>8, <1>10
<1> QED
  BY <1>9, <1>11, LayoutFitsFacts DEF WholeFits

\* No tree of depth 2 holds more than computeCapacity says.
LEMMA BestFacts ==
  ASSUME Sized
  PROVE  BestOfTwo \in Nat /\ BestOfTwo * HashSize <= Usable * Usable
<1> DEFINE u == Usable
           h == HashSize
           k == u \div h
           f(n) == n * u + (u - n * h)
           held == {f(n) : n \in 0..k}
<1>1. u \in Nat /\ h \in Nat /\ h >= 1 /\ u > h
  BY UsableFacts
<1>2. BestOfTwo = CHOOSE x \in held : \A y \in held : y <= x
  BY DEF BestOfTwo
<1> HIDE DEF u, h
<1>3. k \in Nat /\ k * h <= u /\ k * h \in Nat
  BY <1>1
<1> HIDE DEF k
<1>4. ASSUME NEW n \in 0..k PROVE f(n) \in Nat /\ f(n) <= f(k) /\ f(n) * h <= u * u
  <2>1. n \in Nat /\ k - n \in Nat /\ u - h \in Nat
    BY <1>1, <1>3
  <2>2. (k - n) * (u - h) \in Nat /\ n * (u - h) \in Nat /\ k * (u - h) \in Nat
    BY <1>3, <2>1
  <2>3. (k - n) * (u - h) = k * (u - h) - n * (u - h)
    BY <1>1, <1>3, <2>1
  <2>4. f(n) = u + n * (u - h)
    BY <1>1, <2>1
  <2>5. f(k) = u + k * (u - h)
    BY <1>1, <1>3
  <2>6. f(n) \in Nat /\ f(n) <= f(k)
    BY <1>1, <2>2, <2>3, <2>4, <2>5
  <2>7. n * h <= u /\ n * h \in Nat
    <3>1. (k - n) * h \in Nat /\ (k - n) * h = k * h - n * h /\ n * h \in Nat
      BY <1>1, <1>3, <2>1
    <3> QED
      BY <1>1, <1>3, <3>1
  <2>8. (u - n * h) * (u - h) \in Nat
    <3> DEFINE w == u - n * h
    <3>1. w \in Nat
      BY <1>1, <2>7
    <3> HIDE DEF w
    <3>2. w * (u - h) \in Nat
      BY <2>1, <3>1
    <3> QED
      BY <3>2 DEF w
  <2>9. f(n) * h = u * h + (n * h) * (u - h)
    BY <1>1, <2>1, <2>4
  <2>10. (u - n * h) * (u - h) = u * (u - h) - (n * h) * (u - h)
    BY <1>1, <2>1, <2>7
  <2>11. u * (u - h) = u * u - u * h
    BY <1>1
  <2>12. u * h \in Nat /\ u * u \in Nat /\ (n * h) * (u - h) \in Nat
    BY <1>1, <2>1, <2>7
  <2>13. f(n) * h <= u * u
    BY <2>8, <2>9, <2>10, <2>11, <2>12
  <2> QED
    BY <2>6, <2>13
<1> HIDE DEF f
<1>5. \E x \in held : \A y \in held : y <= x
  <2>1. f(k) \in held
    BY <1>3
  <2>2. \A y \in held : y <= f(k)
    BY <1>4
  <2> QED
    BY <2>1, <2>2
<1>6. BestOfTwo \in held
  BY <1>2, <1>5
<1> QED
  BY <1>4, <1>6 DEF u, h

\* The layout only fails where the room of a node is no multiple of the hash size,
\* and a file gets the least depth that any tree could have for it, up to the one
\* size at which the rounding decides.
THEOREM TreesAreShallow == Spec => []ShallowTrees
<1>1. WriteInv => ShallowTrees
  <2> SUFFICES ASSUME WriteInv PROVE ShallowTrees
    OBVIOUS
  <2>1. Sized
    BY DEF WriteInv
  <2>2. result = "thrown" => Usable % HashSize # 0
    BY <2>1, WholeHashesFit DEF WriteInv, Writing
  <2>3. ASSUME size <= BestOfTwo, Depth(size) # 1, Depth(size) # 2
        PROVE  low /\ size = BestOfTwo
    <3>1. low /\ size * HashSize = Usable * Usable /\ size \in Nat
      BY <2>1, <2>3, DepthFacts
    <3>2. BestOfTwo \in Nat /\ BestOfTwo * HashSize <= size * HashSize
      BY <2>1, <3>1, BestFacts
    <3> DEFINE x == BestOfTwo - size
               h == HashSize
    <3>3. h \in Nat /\ h >= 1
      BY <2>1, UsableFacts
    <3>4. x \in Nat /\ x * h = BestOfTwo * h - size * h /\ BestOfTwo * h \in Nat /\ size * h \in Nat
      BY <2>3, <3>1, <3>2, <3>3
    <3>5. x * h <= 0
      BY <3>2, <3>4
    <3>6. x = 0
      <4> HIDE DEF x, h
      <4>1. x # 0 => x * h >= h
        <5>1. x # 0 => x - 1 \in Nat
          BY <3>4
        <5>2. x # 0 => (x - 1) * h \in Nat /\ (x - 1) * h = x * h - h
          BY <3>3, <3>4, <5>1
        <5> QED
          BY <3>3, <3>4, <5>2
      <4> QED
        BY <3>3, <3>4, <3>5, <4>1
    <3> QED
      BY <3>1, <3>2, <3>6
  <2>4. Depth(size) \in 1..3 /\ (Depth(size) = 1 <=> size <= Usable)
    BY <2>1, DepthFacts
  <2> QED
    BY <2>2, <2>3, <2>4 DEF ShallowTrees
<1> QED
  BY <1>1, WriteInductive, PTL
=============================================================================
