---------------------------- MODULE Depots_proofs ----------------------------
(***************************************************************************)
(* Proofs about DepotTable and Depots, for any depots, roots, titles,      *)
(* limits, callers and nodes.                                              *)
(***************************************************************************)
EXTENDS Depots, WellFoundedInduction, TLAPS

-----------------------------------------------------------------------------
(* Histories. *)

\* Induction over the naturals, for a property given as the set of those that
\* have it.
LEMMA NatInductionOn ==
  ASSUME NEW C, 0 \in C, \A n \in Nat : n \in C => n + 1 \in C
  PROVE  Nat \subseteq C
<1> DEFINE R == OpToRel(<, Nat)
           Left == Nat \ C
<1> SUFFICES ASSUME Left # {} PROVE FALSE
  OBVIOUS
<1>1. PICK n \in Left : \A m \in Left : ~(<<m, n>> \in R)
  <2>1. Left \subseteq Nat /\ Left # {}
    OBVIOUS
  <2>2. IsWellFoundedOn(R, Nat)
    BY NatLessThanWellFounded
  <2> HIDE DEF R, Left
  <2> QED
    BY <2>1, <2>2, WFMin
<1>2. n - 1 \in Left
  OBVIOUS
<1>3. <<n - 1, n>> \in R
  BY <1>2 DEF OpToRel
<1> QED
  BY <1>1, <1>2, <1>3

\* What Without computes, entry by entry.
IsKept(k, h, x, n) ==
  k = [i \in 0 .. n |-> IF i = 0 THEN <<>>
                        ELSE IF h[i] = x THEN k[i - 1] ELSE Append(k[i - 1], h[i])]

\* Its recursion has a solution.
LEMMA KeptExists ==
  ASSUME NEW h, NEW x, NEW n \in Nat
  PROVE  \E k : IsKept(k, h, x, n)
<1> DEFINE C == {m \in Nat : \E k : IsKept(k, h, x, m)}
<1>1. 0 \in C
  <2> DEFINE k == [i \in 0 .. 0 |-> <<>>]
  <2>1. IsKept(k, h, x, 0)
    BY DEF IsKept
  <2> QED
    BY <2>1
<1>2. ASSUME NEW m \in Nat, m \in C PROVE m + 1 \in C
  <2>1. PICK k : IsKept(k, h, x, m)
    BY <1>2
  <2> DEFINE e == IF h[m + 1] = x THEN k[m] ELSE Append(k[m], h[m + 1])
             g == [i \in 0 .. m + 1 |-> IF i = m + 1 THEN e ELSE k[i]]
  <2>2. \A i \in 0 .. m : g[i] = k[i]
    OBVIOUS
  <2>3. \A i \in 0 .. m : k[i] = IF i = 0 THEN <<>>
                        ELSE IF h[i] = x THEN k[i - 1] ELSE Append(k[i - 1], h[i])
    BY <2>1 DEF IsKept
  <2>4. g[m + 1] = e /\ DOMAIN g = 0 .. m + 1 /\ g = [i \in 0 .. m + 1 |-> g[i]]
    OBVIOUS
  <2>5. ASSUME NEW i \in 0 .. m + 1
        PROVE  g[i] = IF i = 0 THEN <<>>
                        ELSE IF h[i] = x THEN g[i - 1] ELSE Append(g[i - 1], h[i])
    <3> HIDE DEF g
    <3>1. CASE i = m + 1
      <4>1. g[i - 1] = k[m]
        BY <2>2, <3>1
      <4> QED
        BY <2>4, <3>1, <4>1
    <3>2. CASE i \in 0 .. m
      <4>1. i # 0 => i - 1 \in 0 .. m
        BY <3>2
      <4> QED
        BY <2>2, <2>3, <3>2, <4>1
    <3> QED
      BY <3>1, <3>2
  <2>6. IsKept(g, h, x, m + 1)
    <3> HIDE DEF g
    <3> QED
      BY <2>4, <2>5 DEF IsKept
  <2> QED
    BY <2>6
<1> HIDE DEF C
<1>3. n \in C
  BY <1>1, <1>2, NatInductionOn
<1> QED
  BY <1>3 DEF C

\* The first m entries of a sequence.
Upto(h, m) == {h[j] : j \in 1 .. m}

\* Without takes an entry out, every time it occurs, and nothing else.
LEMMA WithoutFacts ==
  ASSUME NEW S, NEW h \in Seq(S), NEW x
  PROVE  /\ Without(h, x) \in Seq(S)
         /\ Len(Without(h, x)) <= Len(h)
         /\ Range(Without(h, x)) = Range(h) \ {x}
         /\ x \notin Range(h) => Len(Without(h, x)) = Len(h)
<1> DEFINE n == Len(h)
           k == CHOOSE f : IsKept(f, h, x, n)
<1>1. n \in Nat
  OBVIOUS
<1>2. IsKept(k, h, x, n)
  BY <1>1, KeptExists
<1>3. Without(h, x) = k[n]
  BY DEF Without, IsKept
<1> HIDE DEF k
<1>4. \A i \in 0 .. n : k[i] = IF i = 0 THEN <<>>
                        ELSE IF h[i] = x THEN k[i - 1] ELSE Append(k[i - 1], h[i])
  BY <1>2 DEF IsKept
<1> DEFINE Good(m) == /\ k[m] \in Seq(S) /\ Len(k[m]) <= m
                      /\ Upto(k[m], Len(k[m])) = Upto(h, m) \ {x}
                      /\ x \notin Upto(h, m) => Len(k[m]) = m
           C == {m \in Nat : m <= n => Good(m)}
<1>5. 0 \in C
  <2>1. k[0] = <<>>
    BY <1>1, <1>4
  <2>2. Good(0)
    BY <2>1 DEF Upto
  <2> QED
    BY <2>2
<1>6. ASSUME NEW m \in Nat, m \in C PROVE m + 1 \in C
  <2> SUFFICES ASSUME m + 1 <= n PROVE Good(m + 1)
    OBVIOUS
  <2>1. Good(m) /\ h[m + 1] \in S
    BY <1>6
  <2>2. k[m + 1] = IF h[m + 1] = x THEN k[m] ELSE Append(k[m], h[m + 1])
    BY <1>1, <1>4
  <2>3. Upto(h, m + 1) = Upto(h, m) \cup {h[m + 1]}
    BY DEF Upto
  <2>4. CASE h[m + 1] = x
    BY <2>1, <2>2, <2>3, <2>4
  <2>5. CASE h[m + 1] # x
    <3>1. k[m + 1] \in Seq(S) /\ Len(k[m + 1]) = Len(k[m]) + 1
      BY <2>1, <2>2, <2>5
    <3>2. Upto(k[m + 1], Len(k[m + 1])) = Upto(k[m], Len(k[m])) \cup {h[m + 1]}
      <4>1. \A j \in 1 .. Len(k[m]) : k[m + 1][j] = k[m][j]
        BY <2>1, <2>2, <2>5
      <4>2. k[m + 1][Len(k[m]) + 1] = h[m + 1]
        BY <2>1, <2>2, <2>5
      <4>3. Len(k[m]) \in Nat
        BY <2>1
      <4>4. Upto(k[m + 1], Len(k[m]) + 1) = Upto(k[m + 1], Len(k[m])) \cup {k[m + 1][Len(k[m]) + 1]}
        BY <4>3 DEF Upto
      <4>5. Upto(k[m + 1], Len(k[m])) = Upto(k[m], Len(k[m]))
        BY <4>1 DEF Upto
      <4> QED
        BY <3>1, <4>2, <4>4, <4>5
    <3> QED
      BY <2>1, <2>3, <2>5, <3>1, <3>2
  <2> QED
    BY <2>4, <2>5
<1> HIDE DEF C
<1>7. n \in C
  BY <1>1, <1>5, <1>6, NatInductionOn
<1>8. Good(n)
  BY <1>1, <1>7 DEF C
<1>9. Range(h) = Upto(h, n) /\ Range(k[n]) = Upto(k[n], Len(k[n]))
  BY <1>8 DEF Range, Upto
<1> QED
  BY <1>3, <1>8, <1>9

\* Cut keeps the newest entries, as many as the limit allows.
LEMMA CutFacts ==
  ASSUME NEW S, NEW h \in Seq(S), NEW max \in Limit \cup {NoLimit}
  PROVE  /\ Cut(h, max) \in Seq(S)
         /\ Range(Cut(h, max)) \subseteq Range(h)
         /\ max \in Limit => Len(Cut(h, max)) <= max
         /\ Cut(h, max) # h => max \in Limit /\ Len(Cut(h, max)) = max
<1>1. Len(h) \in Nat /\ (max \in Limit <=> max # NoLimit) /\ (max \in Limit => max \in Nat)
  BY TableAssumption DEF Limit
<1>2. CASE max = NoLimit \/ Len(h) <= max
  BY <1>1, <1>2 DEF Cut
<1>3. CASE ~(max = NoLimit \/ Len(h) <= max)
  <2>1. Cut(h, max) = SubSeq(h, 1, max) /\ max \in Limit /\ max \in Nat /\ max < Len(h)
    BY <1>1, <1>3 DEF Cut
  <2>2. /\ SubSeq(h, 1, max) \in Seq(S) /\ Len(SubSeq(h, 1, max)) = max
        /\ \A i \in 1 .. max : SubSeq(h, 1, max)[i] = h[i]
    BY <1>1, <2>1
  <2>3. Range(SubSeq(h, 1, max)) \subseteq Range(h)
    BY <1>1, <2>1, <2>2 DEF Range
  <2> QED
    BY <2>1, <2>2, <2>3
<1> QED
  BY <1>2, <1>3

\* The history a commit writes: entries of the item it read, within the limit it
\* read, and all of them unless the limit made it cut.
LEMMA NextHistoryFacts ==
  ASSUME NEW r \in Row, NEW x \in Key
  PROVE  /\ NextHistory(r, x) \in Seq(Key)
         /\ Range(NextHistory(r, x)) \subseteq Entries(r)
         /\ r.max \in Limit => Len(NextHistory(r, x)) <= r.max
         /\ r.root \in Key /\ r.max \in Limit /\ Len(NextHistory(r, x)) # r.max
              => Entries(r) \subseteq Range(NextHistory(r, x)) \cup {x}
<1> DEFINE T == Key \cup {NoRoot}
           w == Without(r.history, x)
           s == <<r.root>> \o w
           c == Cut(s, r.max)
<1>1. /\ r.history \in Seq(Key) /\ r.root \in T /\ r.max \in Limit \cup {NoLimit}
      /\ NoRoot \notin Key
  BY TableAssumption DEF Row
<1>2. w \in Seq(Key) /\ Range(w) = Range(r.history) \ {x}
  BY <1>1, WithoutFacts
<1> HIDE DEF w
<1>3. Range(r.history) \subseteq Key
  BY <1>1 DEF Range
<1>4. s \in Seq(T) /\ Range(s) = {r.root} \cup Range(w)
  <2>1. /\ w \in Seq(T) /\ <<r.root>> \in Seq(T) /\ Len(<<r.root>>) = 1 /\ Len(w) \in Nat
        /\ DOMAIN w = 1 .. Len(w)
    BY <1>1, <1>2
  <2>2. s \in Seq(T) /\ Len(s) = 1 + Len(w) /\ s[1] = r.root
    BY <2>1
  <2>3. \A i \in 1 .. Len(w) : s[i + 1] = w[i]
    BY <2>1
  <2>4. DOMAIN s = 1 .. 1 + Len(w)
    BY <2>2
  <2> HIDE DEF s
  <2>5. \A y : y \in Range(s) <=> \E i \in 1 .. 1 + Len(w) : s[i] = y
    BY <2>4 DEF Range
  <2>6. \A y : y \in Range(w) <=> \E i \in 1 .. Len(w) : w[i] = y
    BY <2>1 DEF Range
  <2>7. ASSUME NEW i \in 1 .. 1 + Len(w) PROVE s[i] \in {r.root} \cup Range(w)
    <3>1. CASE i = 1
      BY <2>2, <3>1
    <3>2. CASE i # 1
      <4>1. i - 1 \in 1 .. Len(w) /\ (i - 1) + 1 = i
        BY <2>1, <3>2
      <4> QED
        BY <2>3, <2>6, <4>1
    <3> QED
      BY <3>1, <3>2
  <2>8. r.root \in Range(s)
    <3>1. 1 \in 1 .. 1 + Len(w)
      BY <2>1
    <3> QED
      BY <2>2, <2>5, <3>1
  <2>9. ASSUME NEW i \in 1 .. Len(w) PROVE w[i] \in Range(s)
    <3>1. i + 1 \in 1 .. 1 + Len(w)
      BY <2>1
    <3> QED
      BY <2>3, <2>5, <3>1
  <2>10. Range(s) = {r.root} \cup Range(w)
    BY <2>5, <2>6, <2>7, <2>8, <2>9
  <2> QED
    BY <2>2, <2>10 DEF s
<1> HIDE DEF s
<1>5. /\ c \in Seq(T) /\ Range(c) \subseteq Range(s)
      /\ r.max \in Limit => Len(c) <= r.max
      /\ c # s => r.max \in Limit /\ Len(c) = r.max
  BY <1>1, <1>4, CutFacts
<1>6. NextHistory(r, x) = Without(c, NoRoot)
  BY DEF NextHistory, w, s
<1> HIDE DEF c
<1> DEFINE e == Without(c, NoRoot)
<1>7. /\ e \in Seq(T) /\ Len(e) <= Len(c) /\ Range(e) = Range(c) \ {NoRoot}
      /\ NoRoot \notin Range(c) => Len(e) = Len(c)
  BY <1>5, WithoutFacts
<1> HIDE DEF e
<1>8. e \in Seq(Key)
  <2>1. \A i \in 1 .. Len(e) : e[i] \in Range(e) /\ e[i] \in T
    BY <1>7 DEF Range
  <2>2. \A i \in 1 .. Len(e) : e[i] \in Key
    BY <1>7, <2>1
  <2> QED
    BY <1>7, <2>2
<1>9. Range(e) \subseteq Entries(r)
  BY <1>2, <1>4, <1>5, <1>7 DEF Entries
<1>10. r.max \in Limit => Len(e) <= r.max
  <2>1. Len(e) \in Nat /\ Len(c) \in Nat /\ (r.max \in Limit => r.max \in Nat)
    BY <1>5, <1>7 DEF Limit
  <2> QED
    BY <1>5, <1>7, <2>1
<1>11. ASSUME r.root \in Key, r.max \in Limit, Len(e) # r.max
       PROVE  Entries(r) \subseteq Range(e) \cup {x}
  <2>1. NoRoot \notin Range(c)
    BY <1>1, <1>2, <1>3, <1>4, <1>5, <1>11
  <2>2. c = s
    BY <1>5, <1>7, <1>11, <2>1
  <2> QED
    BY <1>1, <1>2, <1>3, <1>4, <1>7, <1>11, <2>1, <2>2 DEF Entries
<1> QED
  BY <1>6, <1>8, <1>9, <1>10, <1>11 DEF e

-----------------------------------------------------------------------------
(* The inductive invariant of the table.  A call outlives the depot it is    *)
(* for; what keeps its blind write from spoiling a depot is that an id is    *)
(* never drawn again, so that an item read half-made belongs to a depot that *)
(* is gone for good.                                                         *)

\* A whole item has a root, and a history within the system limit.
Sound(r) == r.root \in Key /\ r.max \in Limit /\ Len(r.history) <= SystemMaxHistory

\* A depot is there, whole, from its creation to its removal, and not again; an
\* item of another depot is never there.
ItemInv(d) ==
  /\ row[d] \in Row \cup {NoRow}
  /\ d \notin used => ~Present(d)
  /\ d \in used => (Present(d) /\ row[d].whole) \/ d \in removed
  /\ Present(d) /\ row[d].whole => Sound(row[d]) /\ d \notin removed

\* What a call carries: a history within the system limit, or an item that had a
\* limit of its own unless its depot is gone.
CallGood(c, ids, gone) ==
  /\ c \in UpdateCall \cup CommitCall \cup {NoCall}
  /\ c # NoCall => c.depot \in ids
  /\ c \in UpdateCall => Len(c.history) <= SystemMaxHistory
  /\ c \in CommitCall => IF c.read.whole THEN c.read.max \in Limit ELSE c.depot \in gone

\* The inductive invariant of the table.
TableInv ==
  /\ used \subseteq Depot /\ removed \subseteq used
  /\ row = [d \in Depot |-> row[d]] /\ call = [p \in Proc |-> call[p]]
  /\ \A d \in Depot : ItemInv(d)
  /\ \A p \in Proc : CallGood(call[p], used, removed)

\* An item is told from none by its history.
LEMMA RowKinds ==
  /\ NoRow \notin Row
  /\ Stray \in Row
  /\ \A d : ~Present(d) => ~Base(d).whole
BY DEF NoRow, Row, Stray, Present, Base

\* The item an update starts from.
LEMMA BaseFacts ==
  ASSUME TableInv, NEW d \in Depot
  PROVE  /\ Base(d) \in Row
         /\ Base(d).whole => Present(d) /\ Base(d) = row[d] /\ Sound(row[d]) /\ d \notin removed
BY RowKinds DEF TableInv, ItemInv, Base, Present

\* What is known of the call of a caller.
LEMMA CallFacts ==
  ASSUME TableInv, NEW p \in Proc, call[p] # NoCall
  PROVE  /\ CallGood(call[p], used, removed) /\ call[p].depot \in used /\ call[p].depot \in Depot
         /\ call[p] \in UpdateCall => call[p].history \in Seq(Key)
         /\ call[p] \in CommitCall => call[p].root \in Key /\ call[p].read \in Row
BY DEF TableInv, CallGood, UpdateCall, CommitCall

\* An item written back to a depot that was.
LEMMA ItemWritten ==
  ASSUME TableInv, NEW d \in used, NEW r \in Row, row' = [row EXCEPT ![d] = r],
         r.whole = Base(d).whole, r.whole => Sound(r), UNCHANGED <<used, removed>>
  PROVE  row' = [e \in Depot |-> row'[e]] /\ \A e \in Depot : ItemInv(e)'
<1>1. d \in Depot /\ r # NoRow
  BY RowKinds DEF TableInv
<1>2. DOMAIN row = Depot
  BY DEF TableInv
<1>3. row' = [e \in Depot |-> row'[e]] /\ \A e \in Depot : row'[e] = IF e = d THEN r ELSE row[e]
  BY <1>1, <1>2
<1>4. ItemInv(d)
  BY <1>1 DEF TableInv
<1>5. ItemInv(d)'
  BY <1>1, <1>3, <1>4, BaseFacts DEF ItemInv, Present, Base, Stray
<1>6. ASSUME NEW e \in Depot, e # d PROVE ItemInv(e)'
  BY <1>3, <1>6 DEF TableInv, ItemInv, Present
<1> QED
  BY <1>3, <1>5, <1>6

\* Items that stay.
LEMMA ItemsKept ==
  ASSUME TableInv, UNCHANGED <<used, row, removed>>
  PROVE  row' = [e \in Depot |-> row'[e]] /\ \A e \in Depot : ItemInv(e)'
BY DEF TableInv, ItemInv, Present

\* A caller that goes on with another call, while ids are drawn and depots go.
LEMMA CallsKept ==
  ASSUME TableInv, used \subseteq used', removed \subseteq removed',
         \/ UNCHANGED call
         \/ \E p \in Proc : \E c : Carry(p, c) /\ CallGood(c, used', removed')
  PROVE  call' = [p \in Proc |-> call'[p]] /\ \A p \in Proc : CallGood(call'[p], used', removed')
<1>1. \A c : CallGood(c, used, removed) => CallGood(c, used', removed')
  BY DEF CallGood
<1>2. CASE UNCHANGED call
  BY <1>1, <1>2 DEF TableInv
<1>3. ASSUME NEW p \in Proc, NEW c, Carry(p, c), CallGood(c, used', removed')
      PROVE  call' = [o \in Proc |-> call'[o]] /\ \A o \in Proc : CallGood(call'[o], used', removed')
  <2>1. DOMAIN call = Proc
    BY DEF TableInv
  <2>2. call' = [o \in Proc |-> call'[o]] /\ \A o \in Proc : call'[o] = IF o = p THEN c ELSE call[o]
    BY <1>3, <2>1 DEF Carry
  <2>3. ASSUME NEW o \in Proc PROVE CallGood(call'[o], used', removed')
    BY <1>1, <1>3, <2>2 DEF TableInv
  <2> QED
    BY <2>2, <2>3
<1> QED
  BY <1>2, <1>3

-----------------------------------------------------------------------------
(* One lemma per command of the table. *)

\* A call that begins with the roots of the set.
CallWith(p, X) ==
  \E d \in Depot :
    \/ \E t \in Title \cup {NoTitle}, x \in X, m \in Limit : Create(p, d, t, x, m)
    \/ \E t \in Title \cup {NoTitle}, m \in Limit \cup {NoLimit} : Update(p, d, t, m)
    \/ \E x \in X : ReadDepot(p, d, x)
    \/ Delete(p, d)

\* A depot is created under a fresh id, whole.
LEMMA CreateInv ==
  ASSUME TableInv, NEW p \in Proc, NEW d \in Depot, NEW t \in Title \cup {NoTitle},
         NEW x \in Key, NEW m \in Limit, Create(p, d, t, x, m)
  PROVE  TableInv'
<1> DEFINE r == [root |-> x, history |-> <<>>, max |-> m, title |-> t, whole |-> TRUE]
<1>1. r \in Row /\ r # NoRow /\ r.whole /\ Sound(r)
  <2>1. r \in Row
    BY DEF Row
  <2>2. Len(r.history) <= SystemMaxHistory
    BY TableAssumption
  <2> QED
    BY <2>1, <2>2, RowKinds DEF Sound
<1>2. /\ d \notin used /\ used' = used \cup {d} /\ row' = [row EXCEPT ![d] = r]
      /\ UNCHANGED <<call, removed>>
  BY DEF Create
<1> HIDE DEF r
<1>3. row' = [e \in Depot |-> row'[e]] /\ \A e \in Depot : row'[e] = IF e = d THEN r ELSE row[e]
  <2>1. DOMAIN row = Depot
    BY DEF TableInv
  <2> QED
    BY <1>2, <2>1
<1>4. d \notin removed
  BY <1>2 DEF TableInv
<1>5. ItemInv(d)'
  BY <1>1, <1>2, <1>3, <1>4 DEF ItemInv, Present
<1>6. ASSUME NEW e \in Depot, e # d PROVE ItemInv(e)'
  BY <1>2, <1>3, <1>6 DEF TableInv, ItemInv, Present
<1>7. call' = [o \in Proc |-> call'[o]] /\ \A o \in Proc : CallGood(call'[o], used', removed')
  BY <1>2, CallsKept
<1> QED
  BY <1>2, <1>3, <1>5, <1>6, <1>7 DEF TableInv

\* An update, up to its first command.
LEMMA UpdateInv ==
  ASSUME TableInv, NEW p \in Proc, NEW d \in Depot, NEW t \in Title \cup {NoTitle},
         NEW m \in Limit \cup {NoLimit}, Update(p, d, t, m)
  PROVE  TableInv'
<1>1. CASE ~Present(d)
  <2>1. UNCHANGED table
    BY <1>1 DEF Update
  <2> QED
    BY <2>1, ItemsKept, CallsKept DEF table, TableInv
<1>2. CASE Present(d)
  <2> DEFINE b == Base(d)
             h == b.history
             r == [b EXCEPT !.title = IF t = NoTitle THEN @ ELSE t,
                            !.max = IF m = NoLimit THEN @ ELSE m]
             c == [depot |-> d, history |-> Cut(h, m)]
  <2>1. /\ row' = [row EXCEPT ![d] = r] /\ UNCHANGED <<used, removed>>
        /\ UNCHANGED call \/ (Cut(h, m) # h /\ Carry(p, c))
    BY <1>2 DEF Update, SetFields
  <2>2. d \in used
    BY <1>2 DEF TableInv, ItemInv
  <2>3. b \in Row /\ (b.whole => Sound(b))
    BY BaseFacts
  <2> HIDE DEF b
  <2>4. /\ r \in Row /\ r.whole = b.whole /\ r.history = b.history /\ r.root = b.root
        /\ r.max = IF m = NoLimit THEN b.max ELSE m
    BY <2>3 DEF Row
  <2>5. r.whole => Sound(r)
    BY <2>3, <2>4 DEF Sound
  <2>6. row' = [e \in Depot |-> row'[e]] /\ \A e \in Depot : ItemInv(e)'
    <3> HIDE DEF r
    <3> QED
      BY <2>1, <2>2, <2>4, <2>5, ItemWritten DEF b
  <2>7. Cut(h, m) # h => CallGood(c, used', removed')
    <3>1. h \in Seq(Key)
      BY <2>3 DEF Row
    <3>2. /\ Cut(h, m) \in Seq(Key)
          /\ Cut(h, m) # h => m \in Limit /\ Len(Cut(h, m)) = m
      BY <3>1, CutFacts
    <3>3. m \in Limit => m <= SystemMaxHistory
      BY TableAssumption DEF Limit
    <3>4. c \in UpdateCall /\ c \notin CommitCall
      BY <3>2 DEF UpdateCall, CommitCall
    <3> QED
      BY <2>1, <2>2, <3>2, <3>3, <3>4 DEF CallGood
  <2>8. call' = [o \in Proc |-> call'[o]] /\ \A o \in Proc : CallGood(call'[o], used', removed')
    <3> HIDE DEF c
    <3>1. UNCHANGED call \/ \E o \in Proc : \E e : Carry(o, e) /\ CallGood(e, used', removed')
      BY <2>1, <2>7
    <3> QED
      BY <2>1, <3>1, CallsKept
  <2> QED
    BY <2>1, <2>6, <2>8 DEF TableInv
<1> QED
  BY <1>1, <1>2

\* The two blind writes: what they put into a whole item is sound.
LEMMA BlindWrite ==
  ASSUME TableInv, NEW p \in Proc, call[p] # NoCall, Carry(p, NoCall),
         UNCHANGED <<used, removed>>,
         NEW r \in Row, row' = [row EXCEPT ![call[p].depot] = r],
         r.whole = Base(call[p].depot).whole, r.whole => Sound(r)
  PROVE  TableInv'
<1>1. call[p].depot \in used
  BY CallFacts
<1>2. row' = [e \in Depot |-> row'[e]] /\ \A e \in Depot : ItemInv(e)'
  BY <1>1, ItemWritten
<1>3. CallGood(NoCall, used', removed')
  BY NoCallAssumption DEF CallGood
<1>4. call' = [o \in Proc |-> call'[o]] /\ \A o \in Proc : CallGood(call'[o], used', removed')
  BY <1>3, CallsKept
<1> QED
  BY <1>2, <1>4 DEF TableInv

\* The history an update cut was within the limit when it was read.
LEMMA TruncateInv ==
  ASSUME TableInv, NEW p \in Proc, Truncate(p)
  PROVE  TableInv'
<1> DEFINE d == call[p].depot
           b == Base(d)
           r == [b EXCEPT !.history = call[p].history]
<1>1. /\ call[p] \in UpdateCall /\ call[p] # NoCall
      /\ row' = [row EXCEPT ![d] = r] /\ Carry(p, NoCall) /\ UNCHANGED <<used, removed>>
  BY NoCallAssumption DEF Truncate
<1>2. /\ d \in Depot /\ call[p].history \in Seq(Key)
      /\ Len(call[p].history) <= SystemMaxHistory
  BY <1>1, CallFacts DEF CallGood
<1>3. b \in Row /\ (b.whole => Sound(b))
  BY <1>2, BaseFacts
<1> HIDE DEF b
<1>4. /\ r \in Row /\ r.whole = b.whole /\ r.root = b.root /\ r.max = b.max
      /\ r.history = call[p].history
  BY <1>2, <1>3 DEF Row
<1>5. r.whole => Sound(r)
  BY <1>2, <1>3, <1>4 DEF Sound
<1> HIDE DEF r
<1> QED
  BY <1>1, <1>4, <1>5, BlindWrite DEF b

\* The item written is whole only if the item read was: else its depot is gone.
LEMMA WriteRootInv ==
  ASSUME TableInv, NEW p \in Proc, WriteRoot(p)
  PROVE  TableInv'
<1> DEFINE c == call[p]
           d == c.depot
           b == Base(d)
           h == NextHistory(c.read, c.root)
           r == [b EXCEPT !.root = c.root, !.history = h]
<1>1. /\ c \in CommitCall /\ c # NoCall
      /\ row' = [row EXCEPT ![d] = r] /\ Carry(p, NoCall) /\ UNCHANGED <<used, removed>>
  BY NoCallAssumption DEF WriteRoot
<1>2. /\ d \in Depot /\ c.root \in Key /\ c.read \in Row
      /\ IF c.read.whole THEN c.read.max \in Limit ELSE d \in removed
  BY <1>1, CallFacts DEF CallGood
<1>3. b \in Row /\ (b.whole => Sound(b) /\ d \notin removed)
  BY <1>2, BaseFacts
<1>4. h \in Seq(Key) /\ (c.read.max \in Limit => Len(h) <= c.read.max)
  BY <1>2, NextHistoryFacts
<1> HIDE DEF b, h
<1>5. /\ r \in Row /\ r.whole = b.whole /\ r.root = c.root /\ r.max = b.max
      /\ r.history = h
  BY <1>2, <1>3, <1>4 DEF Row
<1>6. r.whole => Sound(r)
  <2>1. Len(h) \in Nat /\ \A m \in Limit : m \in Nat /\ m <= SystemMaxHistory
    BY <1>4, TableAssumption DEF Limit
  <2> QED
    BY <1>2, <1>3, <1>4, <1>5, <2>1, TableAssumption DEF Sound
<1> HIDE DEF r
<1> QED
  BY <1>1, <1>5, <1>6, BlindWrite DEF b

\* The item a commit reads belongs to a depot that is there, or to one that is gone.
LEMMA ReadDepotInv ==
  ASSUME TableInv, NEW p \in Proc, NEW d \in Depot, NEW x \in Key, ReadDepot(p, d, x)
  PROVE  TableInv'
<1> DEFINE c == [depot |-> d, root |-> x, read |-> row[d]]
<1>1. Carry(p, c) /\ UNCHANGED <<used, row, removed>> /\ Present(d)
  BY DEF ReadDepot
<1>2. d \in used /\ row[d] \in Row /\ ItemInv(d)
  BY <1>1 DEF TableInv, ItemInv, Present
<1>3. CallGood(c, used', removed')
  <2>1. c \in CommitCall /\ c \notin UpdateCall
    BY <1>2 DEF CommitCall, UpdateCall
  <2> QED
    BY <1>1, <1>2, <2>1 DEF CallGood, ItemInv, Sound
<1> HIDE DEF c
<1>4. call' = [o \in Proc |-> call'[o]] /\ \A o \in Proc : CallGood(call'[o], used', removed')
  BY <1>1, <1>3, CallsKept
<1> QED
  BY <1>1, <1>4, ItemsKept DEF TableInv

\* A deleted depot is gone for good.
LEMMA DeleteInv ==
  ASSUME TableInv, NEW p \in Proc, NEW d \in Depot, Delete(p, d)
  PROVE  TableInv'
<1>1. /\ row' = [e \in Depot |-> row'[e]]
      /\ \A e \in Depot : row'[e] = IF e = d THEN NoRow ELSE row[e]
  <2>1. DOMAIN row = Depot
    BY DEF TableInv
  <2> QED
    BY <2>1 DEF Delete
<1>2. /\ UNCHANGED <<used, call>>
      /\ removed' = IF Present(d) THEN removed \cup {d} ELSE removed
  BY DEF Delete
<1>3. ItemInv(d)'
  BY <1>1, <1>2 DEF TableInv, ItemInv, Present
<1>4. ASSUME NEW e \in Depot, e # d PROVE ItemInv(e)'
  BY <1>1, <1>2, <1>4 DEF TableInv, ItemInv, Present
<1>5. used' \subseteq Depot /\ removed' \subseteq used'
  BY <1>2 DEF TableInv, ItemInv
<1>6. call' = [o \in Proc |-> call'[o]] /\ \A o \in Proc : CallGood(call'[o], used', removed')
  BY <1>2, CallsKept
<1> QED
  BY <1>1, <1>3, <1>4, <1>5, <1>6 DEF TableInv

\* A call that dies.
LEMMA DropInv ==
  ASSUME TableInv, NEW p \in Proc, Drop(p)
  PROVE  TableInv'
<1>1. Carry(p, NoCall) /\ UNCHANGED <<used, row, removed>>
  BY DEF Drop
<1>2. CallGood(NoCall, used', removed')
  BY NoCallAssumption DEF CallGood
<1>3. call' = [o \in Proc |-> call'[o]] /\ \A o \in Proc : CallGood(call'[o], used', removed')
  BY <1>1, <1>2, CallsKept
<1> QED
  BY <1>1, <1>3, ItemsKept DEF TableInv

\* A command of a caller.
LEMMA CommandInv ==
  ASSUME TableInv, NEW p \in Proc, CallWith(p, Key) \/ Continue(p) \/ Drop(p)
  PROVE  TableInv'
<1>1. CASE CallWith(p, Key)
  BY <1>1, CreateInv, UpdateInv, ReadDepotInv, DeleteInv DEF CallWith
<1>2. CASE Continue(p) \/ Drop(p)
  BY <1>2, TruncateInv, WriteRootInv, DropInv DEF Continue
<1> QED
  BY <1>1, <1>2

-----------------------------------------------------------------------------
(* The theorems about the table. *)

\* No depot, no call.
LEMMA TableInitInv == TableInit => TableInv
<1> SUFFICES ASSUME TableInit PROVE TableInv
  OBVIOUS
<1>1. \A d \in Depot : ItemInv(d)
  BY DEF TableInit, ItemInv, Present
<1>2. \A p \in Proc : CallGood(call[p], used, removed)
  BY NoCallAssumption DEF TableInit, CallGood
<1> QED
  BY <1>1, <1>2 DEF TableInit, TableInv

\* Every step of the table keeps its invariant.
LEMMA TableStepInv == TableInv /\ [TableNext]_table => TableInv'
<1> SUFFICES ASSUME TableInv, [TableNext]_table PROVE TableInv'
  OBVIOUS
<1>1. CASE UNCHANGED table
  BY <1>1, ItemsKept, CallsKept DEF table, TableInv
<1>2. ASSUME NEW p \in Proc, Call(p) \/ Continue(p) \/ Drop(p)
      PROVE  TableInv'
  BY <1>2, CommandInv DEF Call, CallWith
<1> QED
  BY <1>1, <1>2 DEF TableNext

\* The invariant implies the type invariant, the bound on histories included.
LEMMA TableInvTypes == TableInv => TableTypeOK
<1> SUFFICES ASSUME TableInv PROVE TableTypeOK
  OBVIOUS
<1>1. row \in [Depot -> Row \cup {NoRow}]
  BY DEF TableInv, ItemInv
<1>2. call \in [Proc -> UpdateCall \cup CommitCall \cup {NoCall}]
  BY DEF TableInv, CallGood
<1>3. HistoryBounded
  BY DEF TableInv, ItemInv, Sound, HistoryBounded
<1> QED
  BY <1>1, <1>2, <1>3 DEF TableInv, TableTypeOK

\* Every reachable state of the table satisfies the inductive invariant.
THEOREM TableInductive == TableSpec => []TableInv
BY TableInitInv, TableStepInv, PTL DEF TableSpec

\* The table is well typed, and no depot's history outgrows the system limit,
\* whatever updates, commits and deletions interleave and die.
THEOREM TableTypes == TableSpec => []TableTypeOK
BY TableInductive, TableInvTypes, PTL

\* An item without an id is what is left of a deleted depot.
THEOREM Strays == TableSpec => []StraysWereDepots
<1>1. TableInv => StraysWereDepots
  BY DEF TableInv, ItemInv, StraysWereDepots
<1> QED
  BY <1>1, TableInductive, PTL

\* A commit whose read was current when it wrote keeps every root, unless the
\* history is full.
THEOREM CommitsKeepRoots == TableSpec => UndisturbedCommitKeepsAll
<1> DEFINE Kept(p) ==
             LET d == call[p].depot IN
             /\ WriteRoot(p)
             /\ row[d].whole /\ call[p].read = row[d]
             /\ Len(row'[d].history) # row[d].max
             => Entries(row[d]) \subseteq Entries(row'[d])
<1>1. ASSUME TableInv, NEW p \in Proc PROVE Kept(p)
  <2> DEFINE c == call[p]
             d == c.depot
             h == NextHistory(c.read, c.root)
  <2> SUFFICES ASSUME WriteRoot(p), row[d].whole, c.read = row[d],
                      Len(row'[d].history) # row[d].max
               PROVE  Entries(row[d]) \subseteq Entries(row'[d])
    OBVIOUS
  <2>1. c \in CommitCall /\ c # NoCall
    BY NoCallAssumption DEF WriteRoot
  <2>2. d \in Depot /\ d \in used /\ c.root \in Key /\ c.read \in Row
    BY <1>1, <2>1, CallFacts
  <2>3. Present(d) /\ Sound(row[d]) /\ Base(d) = row[d] /\ row[d] \in Row
    BY <1>1, <2>2, RowKinds DEF TableInv, ItemInv, Base, Present
  <2>4. row'[d] = [row[d] EXCEPT !.root = c.root, !.history = h]
    <3>1. DOMAIN row = Depot
      BY <1>1 DEF TableInv
    <3> QED
      BY <2>2, <2>3, <3>1 DEF WriteRoot
  <2> HIDE DEF h
  <2>5. row'[d].root = c.root /\ row'[d].history = h
    BY <2>3, <2>4 DEF Row
  <2>6. Entries(row[d]) \subseteq Range(h) \cup {c.root}
    BY <2>2, <2>3, <2>5, NextHistoryFacts DEF h, Sound
  <2>7. NoRoot \notin Entries(row[d])
    BY DEF Entries
  <2> QED
    BY <2>5, <2>6, <2>7 DEF Entries
<1>2. TableInv /\ [TableNext]_table => [\A p \in Proc : Kept(p)]_table
  BY <1>1
<1> HIDE DEF Kept
<1>3. TableSpec => [][\A p \in Proc : Kept(p)]_table
  BY <1>2, TableInductive, PTL DEF TableSpec
<1> QED
  BY <1>3 DEF UndisturbedCommitKeepsAll, Kept

-----------------------------------------------------------------------------
(* What the depots point at.  The roots a handler brings to the table are    *)
(* stored, and the table only ever moves roots it has been given: from an    *)
(* item to the call that read it, and from a call to the item it writes.     *)

\* What an item points at.
ItemPoints(r, B) == r # NoRow => Entries(r) \subseteq B

\* What a call will make an item point at.
CallPoints(c, B) ==
  /\ c \in UpdateCall => Range(c.history) \subseteq B
  /\ c \in CommitCall => c.root \in B /\ Entries(c.read) \subseteq B

\* Items and calls hold roots of the set only.
PointIn(B) ==
  /\ \A d \in Depot : ItemPoints(row[d], B)
  /\ \A p \in Proc : CallPoints(call[p], B)

\* The item an update starts from has no root of its own to add.
LEMMA BasePoints ==
  ASSUME TableInv, NEW B, PointIn(B), NEW d \in Depot
  PROVE  Base(d) \in Row /\ Entries(Base(d)) \subseteq B /\ Range(Base(d).history) \subseteq B
<1>1. Entries(Stray) = {} /\ Range(Stray.history) = {}
  BY DEF Stray, Entries, Range
<1>2. Base(d) \in Row
  BY BaseFacts
<1>3. CASE ~Present(d)
  BY <1>1, <1>2, <1>3 DEF Base
<1>4. CASE Present(d)
  <2>1. Base(d) = row[d] /\ Entries(row[d]) \subseteq B
    BY <1>4 DEF Base, Present, PointIn, ItemPoints
  <2>2. NoRoot \notin Range(row[d].history)
    BY <1>2, <2>1, TableAssumption DEF Row, Range
  <2> QED
    BY <1>2, <2>1, <2>2 DEF Entries
<1> QED
  BY <1>3, <1>4

\* What a caller goes on with points into the set when what it writes does.
LEMMA PointsWritten ==
  ASSUME TableInv, NEW B, PointIn(B),
         \/ UNCHANGED row
         \/ \E d \in Depot : \E r : row' = [row EXCEPT ![d] = r] /\ ItemPoints(r, B),
         \/ UNCHANGED call
         \/ \E p \in Proc : \E c : Carry(p, c) /\ CallPoints(c, B)
  PROVE  PointIn(B)'
<1>1. DOMAIN row = Depot /\ DOMAIN call = Proc
  BY DEF TableInv
<1>2. \A d \in Depot : ItemPoints(row'[d], B)
  <2>1. CASE UNCHANGED row
    BY <2>1 DEF PointIn
  <2>2. ASSUME NEW d \in Depot, NEW r, row' = [row EXCEPT ![d] = r], ItemPoints(r, B)
        PROVE  \A e \in Depot : ItemPoints(row'[e], B)
    <3>1. \A e \in Depot : row'[e] = IF e = d THEN r ELSE row[e]
      BY <1>1, <2>2
    <3> QED
      BY <2>2, <3>1 DEF PointIn
  <2> QED
    BY <2>1, <2>2
<1>3. \A p \in Proc : CallPoints(call'[p], B)
  <2>1. CASE UNCHANGED call
    BY <2>1 DEF PointIn
  <2>2. ASSUME NEW p \in Proc, NEW c, Carry(p, c), CallPoints(c, B)
        PROVE  \A o \in Proc : CallPoints(call'[o], B)
    <3>1. \A o \in Proc : call'[o] = IF o = p THEN c ELSE call[o]
      BY <1>1, <2>2 DEF Carry
    <3> QED
      BY <2>2, <3>1 DEF PointIn
  <2> QED
    BY <2>1, <2>2
<1> QED
  BY <1>2, <1>3 DEF PointIn

\* A command of a caller who brings stored roots leaves only stored roots.
LEMMA CommandPoints ==
  ASSUME TableInv, NEW B, PointIn(B), NEW p \in Proc,
         CallWith(p, B) \/ Continue(p) \/ Drop(p)
  PROVE  PointIn(B)'
<1>1. CallPoints(NoCall, B)
  BY NoCallAssumption DEF CallPoints
<1>2. ASSUME NEW d \in Depot, NEW t \in Title \cup {NoTitle}, NEW x \in B,
             NEW m \in Limit, Create(p, d, t, x, m)
      PROVE  PointIn(B)'
  <2> DEFINE r == [root |-> x, history |-> <<>>, max |-> m, title |-> t, whole |-> TRUE]
  <2>1. row' = [row EXCEPT ![d] = r] /\ UNCHANGED call
    BY <1>2 DEF Create
  <2>2. ItemPoints(r, B)
    BY DEF ItemPoints, Entries, Range
  <2> HIDE DEF r
  <2> QED
    BY <2>1, <2>2, PointsWritten
<1>3. ASSUME NEW d \in Depot, NEW t \in Title \cup {NoTitle},
             NEW m \in Limit \cup {NoLimit}, Update(p, d, t, m)
      PROVE  PointIn(B)'
  <2> DEFINE b == Base(d)
             h == b.history
             r == [b EXCEPT !.title = IF t = NoTitle THEN @ ELSE t,
                            !.max = IF m = NoLimit THEN @ ELSE m]
             c == [depot |-> d, history |-> Cut(h, m)]
  <2>1. CASE UNCHANGED table
    BY <2>1, PointsWritten DEF table
  <2>2. CASE SetFields(p, d, t, m)
    <3>1. /\ row' = [row EXCEPT ![d] = r]
          /\ UNCHANGED call \/ Carry(p, c)
      BY <2>2 DEF SetFields
    <3>2. b \in Row /\ Entries(b) \subseteq B /\ Range(h) \subseteq B
      BY BasePoints
    <3> HIDE DEF b
    <3>3. r.root = b.root /\ r.history = b.history
      BY <3>2 DEF Row
    <3>4. ItemPoints(r, B)
      BY <3>2, <3>3 DEF ItemPoints, Entries
    <3>5. CallPoints(c, B)
      <4>1. h \in Seq(Key)
        BY <3>2 DEF Row
      <4>2. Range(Cut(h, m)) \subseteq Range(h)
        BY <4>1, CutFacts
      <4>3. c \notin CommitCall
        BY DEF CommitCall
      <4> QED
        BY <3>2, <4>2, <4>3 DEF CallPoints
    <3> HIDE DEF r, c
    <3> QED
      BY <3>1, <3>4, <3>5, PointsWritten
  <2> QED
    BY <1>3, <2>1, <2>2 DEF Update
<1>4. ASSUME NEW d \in Depot, NEW x \in B, ReadDepot(p, d, x)
      PROVE  PointIn(B)'
  <2> DEFINE c == [depot |-> d, root |-> x, read |-> row[d]]
  <2>1. Carry(p, c) /\ UNCHANGED row /\ Present(d)
    BY <1>4 DEF ReadDepot
  <2>2. CallPoints(c, B)
    <3>1. c \notin UpdateCall
      BY DEF UpdateCall
    <3>2. Entries(row[d]) \subseteq B
      BY <2>1 DEF PointIn, ItemPoints, Present
    <3> QED
      BY <3>1, <3>2 DEF CallPoints
  <2> HIDE DEF c
  <2> QED
    BY <2>1, <2>2, PointsWritten
<1>5. ASSUME NEW d \in Depot, Delete(p, d)
      PROVE  PointIn(B)'
  BY <1>5, PointsWritten DEF Delete, ItemPoints
<1>6. CASE Truncate(p)
  <2> DEFINE d == call[p].depot
             b == Base(d)
             r == [b EXCEPT !.history = call[p].history]
  <2>1. /\ call[p] \in UpdateCall /\ call[p] # NoCall
        /\ row' = [row EXCEPT ![d] = r] /\ Carry(p, NoCall)
    BY <1>6, NoCallAssumption DEF Truncate
  <2>2. d \in Depot /\ Range(call[p].history) \subseteq B
    BY <2>1, CallFacts DEF PointIn, CallPoints
  <2>3. b \in Row /\ Entries(b) \subseteq B
    BY <2>2, BasePoints
  <2> HIDE DEF b
  <2>4. r.root = b.root /\ r.history = call[p].history
    BY <2>3 DEF Row
  <2>5. ItemPoints(r, B)
    BY <2>2, <2>3, <2>4 DEF ItemPoints, Entries
  <2> HIDE DEF r
  <2> QED
    BY <1>1, <2>1, <2>2, <2>5, PointsWritten
<1>7. CASE WriteRoot(p)
  <2> DEFINE c == call[p]
             d == c.depot
             b == Base(d)
             h == NextHistory(c.read, c.root)
             r == [b EXCEPT !.root = c.root, !.history = h]
  <2>1. /\ c \in CommitCall /\ c # NoCall
        /\ row' = [row EXCEPT ![d] = r] /\ Carry(p, NoCall)
    BY <1>7, NoCallAssumption DEF WriteRoot
  <2>2. d \in Depot /\ c.root \in Key /\ c.read \in Row
    BY <2>1, CallFacts
  <2>3. c.root \in B /\ Entries(c.read) \subseteq B
    BY <2>1 DEF PointIn, CallPoints
  <2>4. b \in Row
    BY <2>2, BaseFacts
  <2>5. Range(h) \subseteq Entries(c.read) \cup {c.root}
    BY <2>2, NextHistoryFacts
  <2> HIDE DEF b, h
  <2>6. r.root = c.root /\ r.history = h
    BY <2>4 DEF Row
  <2>7. ItemPoints(r, B)
    BY <2>3, <2>5, <2>6 DEF ItemPoints, Entries
  <2> HIDE DEF r
  <2> QED
    BY <1>1, <2>1, <2>2, <2>7, PointsWritten
<1>8. CASE Drop(p)
  BY <1>1, <1>8, PointsWritten DEF Drop
<1> QED
  BY <1>2, <1>3, <1>4, <1>5, <1>6, <1>7, <1>8 DEF CallWith, Continue

-----------------------------------------------------------------------------
(* The endpoints. *)

\* The roots that are there: a stored blob's, and the empty dict's, under which
\* nothing is stored.
There == blobs \cup {EmptyDict}

\* What a handler at an await has in its locals.
ReqGood(label, q) ==
  /\ label \in Step
  /\ label = "idle" => q = NoRequest
  /\ label = "createRow" => q \in CreateRequest
  /\ label = "hasRoot" => q \in CommitRequest
  /\ label = "deleteRow" => q \in DeleteRequest

\* The inductive invariant of the endpoints.
DepotsInv ==
  /\ blobs \subseteq Key
  /\ TableInv
  /\ PointIn(There)
  /\ DOMAIN pc = Proc /\ DOMAIN req = Proc
  /\ \A p \in Proc : ReqGood(pc[p], req[p])
  /\ pc = [p \in Proc |-> pc[p]]

\* A handler that goes on to an await with the locals that await needs, while
\* the other handlers stay.
LEMMA Moved ==
  ASSUME DepotsInv, NEW p \in Proc, NEW label, NEW q, ReqGood(label, q),
         Goto(p, label), req' = [req EXCEPT ![p] = q]
  PROVE  /\ DOMAIN pc' = Proc /\ DOMAIN req' = Proc
         /\ \A o \in Proc : ReqGood(pc'[o], req'[o])
         /\ pc' = [o \in Proc |-> pc'[o]]
<1>1. /\ DOMAIN pc' = Proc /\ pc' = [o \in Proc |-> pc'[o]]
      /\ \A o \in Proc : pc'[o] = IF o = p THEN label ELSE pc[o]
  BY DEF DepotsInv, Goto
<1>2. DOMAIN req' = Proc /\ \A o \in Proc : req'[o] = IF o = p THEN q ELSE req[o]
  BY DEF DepotsInv
<1> QED
  BY <1>1, <1>2 DEF DepotsInv

\* Handlers that stay.
LEMMA Stayed ==
  ASSUME DepotsInv, UNCHANGED <<pc, req>>
  PROVE  /\ DOMAIN pc' = Proc /\ DOMAIN req' = Proc
         /\ \A o \in Proc : ReqGood(pc'[o], req'[o])
         /\ pc' = [o \in Proc |-> pc'[o]]
BY DEF DepotsInv

\* The end of a handler.
LEMMA Ended ==
  ASSUME DepotsInv, NEW p \in Proc, End(p)
  PROVE  /\ DOMAIN pc' = Proc /\ DOMAIN req' = Proc
         /\ \A o \in Proc : ReqGood(pc'[o], req'[o])
         /\ pc' = [o \in Proc |-> pc'[o]]
<1>1. ReqGood("idle", NoRequest)
  BY DEF ReqGood, Step
<1> QED
  BY <1>1, Moved DEF End

\* A step of the table's, or none, by a caller who brings stored roots.
LEMMA TableMoves ==
  ASSUME DepotsInv, UNCHANGED blobs,
         \/ UNCHANGED table
         \/ \E p \in Proc : CallWith(p, There) \/ Continue(p) \/ Drop(p)
  PROVE  TableInv' /\ PointIn(There)'
<1>1. There \subseteq Key /\ There' = There
  BY DepotAssumption DEF There, DepotsInv, EmptyDict
<1>2. TableInv /\ PointIn(There)
  BY DEF DepotsInv
<1>3. CASE UNCHANGED table
  <2>1. TableInv'
    BY <1>2, <1>3, TableStepInv
  <2>2. UNCHANGED <<row, call>>
    BY <1>3 DEF table
  <2> QED
    BY <1>1, <1>2, <2>1, <2>2 DEF PointIn
<1>4. ASSUME NEW p \in Proc, CallWith(p, There) \/ Continue(p) \/ Drop(p)
      PROVE  TableInv' /\ PointIn(There)'
  <2>1. CallWith(p, There) => CallWith(p, Key)
    BY <1>1 DEF CallWith
  <2>2. TableInv'
    BY <1>2, <1>4, <2>1, CommandInv
  <2> DEFINE B == There
  <2> HIDE DEF B
  <2>3. \A d \in Depot : ItemPoints(row'[d], B)
    BY <1>2, <1>4, CommandPoints DEF B, PointIn
  <2>4. \A o \in Proc : CallPoints(call'[o], B)
    BY <1>2, <1>4, CommandPoints DEF B, PointIn
  <2> QED
    BY <1>1, <2>2, <2>3, <2>4 DEF B, PointIn
<1> QED
  BY <1>3, <1>4

\* No depot, no request.
LEMMA DepotsInitInv == Init => DepotsInv
<1> SUFFICES ASSUME Init PROVE DepotsInv
  OBVIOUS
<1>1. TableInv
  BY TableInitInv DEF Init
<1>2. PointIn(There)
  BY NoCallAssumption DEF Init, TableInit, PointIn, ItemPoints, CallPoints
<1>3. \A p \in Proc : ReqGood(pc[p], req[p])
  BY DEF Init, ReqGood, Step
<1> QED
  BY <1>1, <1>2, <1>3 DEF Init, DepotsInv

\* A request that arrives brings what its next await needs; PATCH updates the item at
\* once.
LEMMA ReceiveInv ==
  ASSUME DepotsInv, NEW p \in Proc, Receive(p)
  PROVE  DepotsInv'
<1>1. UNCHANGED blobs /\ (UNCHANGED table \/ CallWith(p, There))
  BY DEF Receive, CheckTitle, SkipTitleCheck, UpdateDepot, FindDepot, ReadTitle, CallWith
<1>2. TableInv' /\ PointIn(There)'
  BY <1>1, TableMoves
<1>3. \/ UNCHANGED <<pc, req>>
      \/ \E label, q : /\ ReqGood(label, q)
                       /\ Goto(p, label) /\ req' = [req EXCEPT ![p] = q]
  <2>1. ASSUME NEW t \in Title, NEW m \in Limit, CheckTitle(p, t, m)
        PROVE  ReqGood("createRow", [title |-> t, max |-> m])
    BY DEF ReqGood, Step, CreateRequest
  <2>2. ASSUME NEW m \in Limit, SkipTitleCheck(p, m)
        PROVE  ReqGood("createRow", [title |-> NoTitle, max |-> m])
    BY DEF ReqGood, Step, CreateRequest
  <2>3. ASSUME NEW d \in Depot, NEW n \in Node \cup {EmptyNode}
        PROVE  ReqGood("hasRoot", [depot |-> d, node |-> n])
    BY DEF ReqGood, Step, CommitRequest
  <2>4. ASSUME NEW d \in Depot
        PROVE  ReqGood("deleteRow", [depot |-> d])
    BY DEF ReqGood, Step, DeleteRequest
  <2> HIDE DEF ReqGood
  <2> QED
    BY <2>1, <2>2, <2>3, <2>4
       DEF Receive, CheckTitle, SkipTitleCheck, UpdateDepot, FindDepot, ReadTitle, Begin
<1>4. /\ DOMAIN pc' = Proc /\ DOMAIN req' = Proc
      /\ \A o \in Proc : ReqGood(pc'[o], req'[o])
      /\ pc' = [o \in Proc |-> pc'[o]]
  BY <1>3, Moved, Stayed
<1> QED
  BY <1>1, <1>2, <1>4 DEF DepotsInv

\* A commit's root is looked up before the table's commit is called with it.
LEMMA HasRootMoves ==
  ASSUME DepotsInv, NEW p \in Proc, HasRoot(p)
  PROVE  UNCHANGED table \/ CallWith(p, There)
<1>1. req[p] \in CommitRequest
  BY DEF HasRoot, DepotsInv, ReqGood
<1> QED
  BY <1>1 DEF HasRoot, CallCommit, CallWith, CommitRequest, There

\* POST /commit.
LEMMA HasRootInv ==
  ASSUME DepotsInv, NEW p \in Proc, HasRoot(p)
  PROVE  DepotsInv'
<1>1. UNCHANGED blobs /\ End(p)
  BY DEF HasRoot, CallCommit
<1>2. TableInv' /\ PointIn(There)'
  BY <1>1, HasRootMoves, TableMoves
<1> QED
  BY <1>1, <1>2, Ended DEF DepotsInv

\* The commands a handler sends are those of a caller with stored roots.
LEMMA TableCommandMoves ==
  ASSUME DepotsInv, NEW p \in Proc, TableCommand(p)
  PROVE  CallWith(p, There) \/ Continue(p)
<1>1. ASSUME NEW d \in Depot, CreateRow(p, d)
      PROVE  CallWith(p, There)
  <2>1. req[p] \in CreateRequest
    BY <1>1 DEF CreateRow, DepotsInv, ReqGood
  <2> QED
    BY <1>1, <2>1 DEF CreateRow, CreateRequest, CallWith, There
<1>2. ASSUME DeleteRow(p)
      PROVE  CallWith(p, There)
  <2>1. req[p] \in DeleteRequest
    BY <1>2 DEF DeleteRow, DepotsInv, ReqGood
  <2> QED
    BY <1>2, <2>1 DEF DeleteRow, DeleteRequest, CallWith
<1> QED
  BY <1>1, <1>2 DEF TableCommand

\* Commands of the table.
LEMMA TableCommandInv ==
  ASSUME DepotsInv, NEW p \in Proc, TableCommand(p)
  PROVE  DepotsInv'
<1>1. UNCHANGED blobs
  BY DEF TableCommand
<1>2. End(p) \/ UNCHANGED <<pc, req>>
  BY DEF TableCommand, CreateRow, DeleteRow
<1>3. TableInv' /\ PointIn(There)'
  BY <1>1, TableCommandMoves, TableMoves
<1> QED
  BY <1>1, <1>2, <1>3, Ended, Stayed DEF DepotsInv

\* A request that dies.
LEMMA DieInv ==
  ASSUME DepotsInv, NEW p \in Proc, Die(p)
  PROVE  DepotsInv'
<1>1. UNCHANGED blobs /\ (UNCHANGED table \/ Drop(p))
  BY DEF Die
<1>2. TableInv' /\ PointIn(There)'
  BY <1>1, TableMoves
<1>3. End(p) \/ UNCHANGED <<pc, req>>
  BY DEF Die
<1> QED
  BY <1>1, <1>2, <1>3, Ended, Stayed DEF DepotsInv

\* A new blob is one more root that is there.
LEMMA StoreNodeInv ==
  ASSUME DepotsInv, NEW n \in Node, StoreNode(n)
  PROVE  DepotsInv'
<1>1. /\ blobs' = blobs \cup {StorageName(n)} /\ UNCHANGED <<table, pc, req>>
  BY DEF StoreNode
<1>2. blobs' \subseteq Key /\ There \subseteq There'
  BY <1>1, DepotAssumption DEF DepotsInv, There
<1>3. TableInv'
  BY <1>1, TableStepInv DEF DepotsInv
<1>4. PointIn(There)'
  <2>1. row' = row /\ call' = call
    BY <1>1 DEF table
  <2>2. \A r : ItemPoints(r, There) => ItemPoints(r, There')
    BY <1>2 DEF ItemPoints
  <2>3. \A c : CallPoints(c, There) => CallPoints(c, There')
    BY <1>2 DEF CallPoints
  <2> QED
    BY <2>1, <2>2, <2>3 DEF PointIn, DepotsInv
<1> QED
  BY <1>1, <1>2, <1>3, <1>4, Stayed DEF DepotsInv

\* Every step of the endpoints keeps the invariant.
LEMMA DepotsStepInv == DepotsInv /\ [Next]_vars => DepotsInv'
<1> SUFFICES ASSUME DepotsInv, [Next]_vars PROVE DepotsInv'
  OBVIOUS
<1>1. CASE UNCHANGED vars
  <2>1. UNCHANGED <<blobs, table, pc, req>>
    BY <1>1 DEF vars
  <2>2. TableInv' /\ PointIn(There)'
    BY <2>1, TableMoves
  <2> QED
    BY <2>1, <2>2, Stayed DEF DepotsInv
<1>2. CASE Next
  BY <1>2, StoreNodeInv, ReceiveInv, HasRootInv, TableCommandInv, DieInv DEF Next
<1> QED
  BY <1>1, <1>2

\* Every reachable state of the endpoints satisfies the inductive invariant.
THEOREM DepotsInductive == Spec => []DepotsInv
BY DepotsInitInv, DepotsStepInv, PTL DEF Spec

\* The table stays well typed, its histories bounded, under the endpoints, and
\* each handler's locals are those of the await it is at.
THEOREM DepotsTypes == Spec => []TypeOK
<1>1. DepotsInv => TypeOK
  <2> SUFFICES ASSUME DepotsInv PROVE TypeOK
    OBVIOUS
  <2>1. TableTypeOK
    BY TableInvTypes DEF DepotsInv
  <2>2. pc \in [Proc -> Step]
    BY DEF DepotsInv, ReqGood
  <2> QED
    BY <2>1, <2>2 DEF DepotsInv, ReqGood, TypeOK
<1> QED
  BY <1>1, DepotsInductive, PTL

\* A depot's roots, those of its history included, are stored, or the empty dict.
THEOREM DepotsPointAtStored == Spec => []RootsStored
<1>1. DepotsInv => RootsStored
  BY DEF DepotsInv, PointIn, ItemPoints, Present, There, RootsStored
<1> QED
  BY <1>1, DepotsInductive, PTL

\* What the endpoints do to the table is what callers of the table may do: the
\* properties of the table hold of it under the endpoints.
THEOREM DepotsImplementTable == Spec => TableSpec
<1>1. Init => TableInit
  BY DEF Init
<1>2. ASSUME DepotsInv, [Next]_vars PROVE [TableNext]_table
  <2>1. There \subseteq Key
    BY <1>2, DepotAssumption DEF There, DepotsInv, EmptyDict
  <2>2. ASSUME NEW p \in Proc, CallWith(p, There) PROVE TableNext
    BY <2>1, <2>2 DEF CallWith, TableNext, Call
  <2>3. ASSUME NEW p \in Proc, Continue(p) \/ Drop(p) PROVE TableNext
    BY <2>3 DEF TableNext
  <2>4. CASE UNCHANGED vars
    BY <2>4 DEF vars
  <2>5. ASSUME NEW n \in Node, StoreNode(n) PROVE UNCHANGED table
    BY <2>5 DEF StoreNode
  <2>6. ASSUME NEW p \in Proc, Receive(p) PROVE UNCHANGED table \/ CallWith(p, There)
    BY <2>6 DEF Receive, CheckTitle, SkipTitleCheck, UpdateDepot, FindDepot, ReadTitle, CallWith
  <2>7. ASSUME NEW p \in Proc, HasRoot(p) PROVE UNCHANGED table \/ CallWith(p, There)
    BY <1>2, <2>7, HasRootMoves
  <2>8. ASSUME NEW p \in Proc, TableCommand(p) PROVE CallWith(p, There) \/ Continue(p)
    BY <1>2, <2>8, TableCommandMoves
  <2>9. ASSUME NEW p \in Proc, Die(p) PROVE UNCHANGED table \/ Drop(p)
    BY <2>9 DEF Die
  <2> QED
    BY <1>2, <2>2, <2>3, <2>4, <2>5, <2>6, <2>7, <2>8, <2>9 DEF Next
<1> QED
  BY <1>1, <1>2, DepotsInductive, PTL DEF Spec, TableSpec

=============================================================================
