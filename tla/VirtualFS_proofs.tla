-------------------------- MODULE VirtualFS_proofs --------------------------
(***************************************************************************)
(* Proofs about VirtualFS, for any names, contents, paths, calls and       *)
(* bounds: what the calls hold stays in range; unless two moves were in    *)
(* flight together no entry is in two places of the tree, and a build does *)
(* not go round in a circle either, unless a directory was moved into      *)
(* itself beside it; an answered write stays in the tree until a call      *)
(* changes that part of it, but for what the property names; a call that   *)
(* runs alone changes of the tree what it is for, and nothing else; and a  *)
(* build answers what is at every path that stays as it is meanwhile.      *)
(* The invariants these need are in VirtualFS_invariants.                  *)
(***************************************************************************)
EXTENDS VirtualFS_invariants, Integers, FiniteSetTheorems, SequenceTheorems, WellFoundedInduction, TLAPS

-----------------------------------------------------------------------------
(* Paths. *)

\* A path that is not empty is its parent and its last name.
LEMMA FrontAndLast ==
  ASSUME NEW S, NEW p \in Seq(S), p # <<>>
  PROVE  /\ Front(p) \in Seq(S)
         /\ Last(p) \in S
         /\ p = Append(Front(p), Last(p))
<1>1. PICK s \in Seq(S), x \in S : p = Append(s, x)
  BY SequenceEmptyOrAppend
<1>2. Len(p) = Len(s) + 1 /\ p[Len(s) + 1] = x
  BY <1>1, AppendProperties
<1>3. Last(p) = x
  BY <1>2 DEF Last
<1>4. Front(p) = s
  <2>1. Len(s) \in Nat /\ Front(p) = SubSeq(p, 1, Len(s))
    BY <1>2, LenProperties DEF Front
  <2>2. \A i \in 1..Len(s) : p[i] = s[i] /\ s[i] \in S
    BY <1>1, AppendProperties, ElementOfSeq
  <2>3. /\ SubSeq(p, 1, Len(s)) \in Seq(S)
        /\ Len(SubSeq(p, 1, Len(s))) = Len(s)
        /\ \A i \in 1..Len(s) : SubSeq(p, 1, Len(s))[i] = s[i]
    BY <2>1, <2>2, SubSeqProperties
  <2> QED
    BY <2>1, <2>3, SeqEqual
<1> QED
  BY <1>1, <1>3, <1>4

\* Every path is at or below itself.
LEMMA BelowItself ==
  ASSUME NEW p \in Seq(Name)
  PROVE  Below(p, p)
BY ConcatEmptySeq, EmptySeq, Zenon DEF Below

\* What is below a path stays so with more names.
LEMMA BelowFurther ==
  ASSUME NEW p \in Seq(Name), NEW q \in Seq(Name), NEW r \in Seq(Name), Below(p, q)
  PROVE  Below(p, q \o r)
<1>1. PICK s \in Seq(Name) : q = p \o s
  BY DEF Below
<1>2. q \o r = p \o (s \o r) /\ s \o r \in Seq(Name)
  BY <1>1, ConcatAssociative, ConcatProperties
<1> QED
  BY <1>2, Zenon DEF Below

\* A path with one name more determines both.
LEMMA SameAppend ==
  ASSUME NEW p \in Seq(Name), NEW q \in Seq(Name), NEW n \in Name, NEW k \in Name,
         Append(p, n) = Append(q, k)
  PROVE  p = q /\ n = k
BY AppendInjective

\* Below and the children of a path.
LEMMA BelowChild ==
  ASSUME NEW p \in Seq(Name), NEW q \in Seq(Name), NEW n \in Name
  PROVE  /\ Below(p, q) => Below(p, Append(q, n))
         /\ Below(p, Append(q, n)) => Below(p, q) \/ p = Append(q, n)
         /\ ~Below(Append(q, n), q)
         /\ ~Below(Append(q, n), <<>>)
<1>1. Append(q, n) = q \o <<n>> /\ <<n>> \in Seq(Name) /\ Append(q, n) \in Seq(Name)
  BY AppendIsConcat, AppendProperties
<1>2. Below(p, q) => Below(p, Append(q, n))
  BY <1>1, BelowFurther, Zenon
<1>3. ASSUME Below(p, Append(q, n)), p # Append(q, n) PROVE Below(p, q)
  <2>1. PICK r \in Seq(Name) : Append(q, n) = p \o r
    BY <1>3 DEF Below
  <2>2. r # <<>>
    BY <1>3, <2>1, ConcatEmptySeq
  <2>3. PICK s \in Seq(Name), x \in Name : r = Append(s, x)
    BY <2>2, SequenceEmptyOrAppend
  <2>4. p \o r = Append(p \o s, x) /\ p \o s \in Seq(Name)
    BY <2>3, AppendIsConcat, ConcatProperties, ConcatAssociative
  <2>5. PICK t \in Seq(Name) : t = p \o s
    BY <2>4, Zenon
  <2>6. Append(q, n) = Append(t, x)
    BY <2>1, <2>3, <2>4, <2>5
  <2>7. q = t
    BY <2>3, <2>6, SameAppend
  <2> QED
    BY <2>3, <2>5, <2>7, Zenon DEF Below
<1>4. ~Below(Append(q, n), q) /\ ~Below(Append(q, n), <<>>)
  BY <1>1, ConcatProperties, AppendProperties, LenProperties, EmptySeq DEF Below
<1> QED
  BY <1>2, <1>3, <1>4

\* The child of a path is a path.
LEMMA SubType ==
  ASSUME NEW p \in Seq(Name), NEW n \in Name
  PROVE  Sub(p, n) \in Seq(Name) /\ Sub(p, n) # <<>>
BY AppendProperties DEF Sub

\* Two children are the same only with the same parent and name.
LEMMA SameSub ==
  \A p, q \in Seq(Name), n, k \in Name : Sub(p, n) = Sub(q, k) => p = q /\ n = k
BY SameAppend DEF Sub

\* Below and the children of a path, with Sub for Append.
LEMMA BelowSub ==
  ASSUME NEW p \in Seq(Name), NEW q \in Seq(Name), NEW n \in Name
  PROVE  /\ Below(p, q) => Below(p, Sub(q, n))
         /\ Below(p, Sub(q, n)) => Below(p, q) \/ p = Sub(q, n)
         /\ ~Below(Sub(q, n), q)
         /\ ~Below(Sub(q, n), <<>>)
BY BelowChild DEF Sub

\* What follows the same path is the same.
LEMMA Cancel ==
  ASSUME NEW p \in Seq(Name), NEW q \in Seq(Name), NEW r \in Seq(Name), p \o q = p \o r
  PROVE  q = r
<1>1. \A S : \A s, t, v \in Seq(S) : s \o t = s \o v => t = v
  BY ConcatSimplifications, Zenon
<1> QED
  BY <1>1, Zenon

\* What lies between a path and one below it.
LEMMA BeyondIs ==
  ASSUME NEW p \in Seq(Name), NEW q \in Seq(Name), Below(p, q)
  PROVE  /\ Beyond(p, q) \in Seq(Name)
         /\ q = p \o Beyond(p, q)
         /\ \A n \in Name : Beyond(p, Append(q, n)) = Append(Beyond(p, q), n)
<1>1. Beyond(p, q) \in Seq(Name) /\ q = p \o Beyond(p, q)
  BY Zenon DEF Below, Beyond
<1>2. ASSUME NEW n \in Name PROVE Beyond(p, Append(q, n)) = Append(Beyond(p, q), n)
  <2> DEFINE r == Beyond(p, q)
  <2>1. Append(r, n) \in Seq(Name) /\ Append(q, n) = p \o Append(r, n)
    <3>1. r \in Seq(Name) /\ q = p \o r
      BY <1>1
    <3> HIDE DEF r
    <3>2. Append(r, n) = r \o <<n>> /\ <<n>> \in Seq(Name) /\ Append(r, n) \in Seq(Name)
      BY <3>1, AppendIsConcat, AppendProperties
    <3>3. p \o (r \o <<n>>) = (p \o r) \o <<n>>
      BY <3>1, <3>2, ConcatAssociative
    <3>4. Append(q, n) = q \o <<n>>
      BY AppendIsConcat
    <3> QED
      BY <3>1, <3>2, <3>3, <3>4
  <2>2. \A s \in Seq(Name) : Append(q, n) = p \o s => s = Append(r, n)
    BY <2>1, Cancel, Zenon
  <2> HIDE DEF r
  <2>3. (CHOOSE s \in Seq(Name) : Append(q, n) = p \o s) = Append(r, n)
    BY <2>1, <2>2, Zenon
  <2> QED
    BY <2>3, Zenon DEF Beyond, r
<1> QED
  BY <1>1, <1>2

\* Two paths below p and q, with the same beyond, are the same path when p and q are.
LEMMA Rebased ==
  ASSUME NEW p \in Seq(Name), NEW q \in Seq(Name), NEW r \in Seq(Name), NEW s \in Seq(Name),
         Below(p, r), Below(p, s), q \o Beyond(p, r) = q \o Beyond(p, s)
  PROVE  r = s
<1>1. /\ Beyond(p, r) \in Seq(Name) /\ r = p \o Beyond(p, r)
      /\ Beyond(p, s) \in Seq(Name) /\ s = p \o Beyond(p, s)
  BY BeyondIs, Zenon
<1>2. Beyond(p, r) = Beyond(p, s)
  BY <1>1, Cancel, Zenon
<1> QED
  BY <1>1, <1>2, Zenon

-----------------------------------------------------------------------------
(* The heap. *)

\* What the types of a heap say of its entries and maps.
LEMMA Sized ==
  ASSUME NEW h, HeapOK(h)
  PROVE  /\ Len(h.ents) \in Nat /\ DOMAIN h.ents = 1..Len(h.ents)
         /\ Len(h.maps) \in Nat /\ DOMAIN h.maps = 1..Len(h.maps)
         /\ \A e \in DOMAIN h.ents : h.ents[e] \in Entry
         /\ \A m \in DOMAIN h.maps :
              /\ h.maps[m] \in Seq(Slot)
              /\ Len(h.maps[m]) \in Nat /\ DOMAIN h.maps[m] = 1..Len(h.maps[m])
              /\ \A i \in DOMAIN h.maps[m] : h.maps[m][i] \in Slot
BY DEF HeapOK, Heap

\* A heap grows into itself, and further.
LEMMA GrowsOn ==
  ASSUME NEW h, HeapOK(h), NEW h1, HeapOK(h1), NEW h2, HeapOK(h2), Grows(h, h1), Grows(h1, h2)
  PROVE  Grows(h, h2)
<1>1. /\ Len(h.ents) \in Nat /\ Len(h1.ents) \in Nat /\ Len(h2.ents) \in Nat
      /\ Len(h.maps) \in Nat /\ Len(h1.maps) \in Nat /\ Len(h2.maps) \in Nat
  BY Sized
<1> QED
  BY <1>1 DEF Grows

\* Where a name is that a map has.
LEMMA Placed ==
  ASSUME NEW h, HeapOK(h), NEW m \in DOMAIN h.maps, NEW n \in Name, Has(h, m, n)
  PROVE  /\ Place(h, m, n) \in DOMAIN h.maps[m]
         /\ h.maps[m][Place(h, m, n)].name = n
         /\ Get(h, m, n) \in DOMAIN h.ents \ {1}
         /\ In(h, m, n, Get(h, m, n))
<1>1. Place(h, m, n) \in Places(h, m, n)
  BY DEF Place, Has
<1>2. /\ Place(h, m, n) \in DOMAIN h.maps[m]
      /\ h.maps[m][Place(h, m, n)].name = n /\ h.maps[m][Place(h, m, n)].ent # 0
  BY <1>1 DEF Places
<1>3. h.maps[m][Place(h, m, n)].ent \in (0..Len(h.ents)) \ {1} /\ Len(h.ents) \in Nat
      /\ DOMAIN h.ents = 1..Len(h.ents)
  BY <1>2, Sized DEF HeapOK
<1> QED
  BY <1>2, <1>3 DEF Get, In

\* A name is in one place.
LEMMA OnePlace ==
  ASSUME NEW h, HeapOK(h), NEW m \in DOMAIN h.maps, NEW n \in Name, NEW x, In(h, m, n, x)
  PROVE  Has(h, m, n) /\ x = Get(h, m, n)
<1>1. PICK i \in DOMAIN h.maps[m] : h.maps[m][i].name = n /\ h.maps[m][i].ent = x /\ x # 0
  BY DEF In
<1>2. i \in Places(h, m, n)
  BY <1>1 DEF Places
<1>3. Place(h, m, n) \in Places(h, m, n)
  BY <1>2 DEF Place
<1>4. Place(h, m, n) = i
  BY <1>1, <1>2, <1>3 DEF Places, HeapOK
<1> QED
  BY <1>1, <1>2, <1>4 DEF Has, Get

\* An entry is added that owns no map, or a map nobody owns.
LEMMA NewEntry ==
  ASSUME NEW h, HeapOK(h), NEW entry \in Entry, entry.map \in 0..Len(h.maps),
         entry.map # 0 => \A e \in DOMAIN h.ents : h.ents[e].map # entry.map,
         entry.type = "node" => entry.val \in Node,
         NEW h2 \in Heap, h2.ents = Append(h.ents, entry), h2.maps = h.maps
  PROVE  /\ HeapOK(h2)
         /\ h2.maps = h.maps
         /\ Len(h2.ents) = Len(h.ents) + 1 /\ DOMAIN h2.ents = 1..(Len(h.ents) + 1)
         /\ h2.ents[Len(h.ents) + 1] = entry
         /\ \A e \in DOMAIN h.ents : h2.ents[e] = h.ents[e]
         /\ Grows(h, h2)
<1>1. h.ents \in Seq(Entry) /\ h.maps \in Seq(Seq(Slot)) /\ h \in Heap
  BY DEF HeapOK, Heap
<1>2. h2.ents = Append(h.ents, entry) /\ h2.maps = h.maps
      /\ h2 \in Heap
  BY <1>1, AppendProperties
<1>3. /\ Len(h.ents) \in Nat /\ DOMAIN h.ents = 1..Len(h.ents)
      /\ Len(h2.ents) = Len(h.ents) + 1 /\ DOMAIN h2.ents = 1..(Len(h.ents) + 1)
      /\ h2.ents[Len(h.ents) + 1] = entry
      /\ \A e \in DOMAIN h.ents : h2.ents[e] = h.ents[e]
  BY <1>1, <1>2, AppendProperties, LenProperties
<1>4. HeapOK(h2)
  BY <1>2, <1>3 DEF HeapOK
<1>5. Grows(h, h2)
  <2>1. Len(h.maps) \in Nat
    BY <1>1, LenProperties
  <2> QED
    BY <1>2, <1>3, <2>1 DEF Grows
<1> QED
  BY <1>2, <1>3, <1>4, <1>5

\* A map is added that nobody owns.
LEMMA NewMap ==
  ASSUME NEW h, HeapOK(h), NEW map \in Seq(Slot),
         \A i \in DOMAIN map : map[i].ent \in (0..Len(h.ents)) \ {1},
         \A i, j \in DOMAIN map :
           map[i].ent # 0 /\ map[j].ent # 0 /\ map[i].name = map[j].name => i = j,
         NEW h2 \in Heap, h2.maps = Append(h.maps, map), h2.ents = h.ents
  PROVE  /\ HeapOK(h2)
         /\ h2.ents = h.ents
         /\ Len(h2.maps) = Len(h.maps) + 1 /\ DOMAIN h2.maps = 1..(Len(h.maps) + 1)
         /\ h2.maps[Len(h.maps) + 1] = map
         /\ \A m \in DOMAIN h.maps : h2.maps[m] = h.maps[m]
         /\ \A e \in DOMAIN h2.ents : h2.ents[e].map # Len(h.maps) + 1
         /\ Grows(h, h2)
<1>1. h.ents \in Seq(Entry) /\ h.maps \in Seq(Seq(Slot)) /\ h \in Heap
  BY DEF HeapOK, Heap
<1>2. h2.maps = Append(h.maps, map) /\ h2.ents = h.ents
      /\ h2 \in Heap
  BY <1>1, AppendProperties
<1>3. /\ Len(h.maps) \in Nat /\ DOMAIN h.maps = 1..Len(h.maps)
      /\ Len(h2.maps) = Len(h.maps) + 1 /\ DOMAIN h2.maps = 1..(Len(h.maps) + 1)
      /\ h2.maps[Len(h.maps) + 1] = map
      /\ \A m \in DOMAIN h.maps : h2.maps[m] = h.maps[m]
  BY <1>1, <1>2, AppendProperties, LenProperties
<1>4. \A e \in DOMAIN h2.ents : h2.ents[e].map # Len(h.maps) + 1
  BY <1>2, <1>3 DEF HeapOK
<1>5. HeapOK(h2)
  <2>1. \A e \in DOMAIN h2.ents :
          /\ h2.ents[e].map \in 0..Len(h2.maps)
          /\ h2.ents[e].type = "node" => h2.ents[e].val \in Node
    BY <1>2, <1>3 DEF HeapOK
  <2>2. \A m \in DOMAIN h2.maps : \A i \in DOMAIN h2.maps[m] :
          h2.maps[m][i].ent \in (0..Len(h2.ents)) \ {1}
    BY <1>2, <1>3 DEF HeapOK
  <2>3. \A m \in DOMAIN h2.maps : \A i, j \in DOMAIN h2.maps[m] :
          /\ h2.maps[m][i].ent # 0 /\ h2.maps[m][j].ent # 0
          /\ h2.maps[m][i].name = h2.maps[m][j].name
          => i = j
    <3> TAKE m \in DOMAIN h2.maps
    <3>1. CASE m \in DOMAIN h.maps
      BY <1>3, <3>1 DEF HeapOK
    <3>2. CASE m = Len(h.maps) + 1
      BY <1>3, <3>2
    <3> QED
      BY <1>3, <3>1, <3>2
  <2> QED
    BY <1>2, <2>1, <2>2, <2>3 DEF HeapOK
<1>6. Grows(h, h2)
  <2>1. Len(h.ents) \in Nat
    BY <1>1, LenProperties
  <2> QED
    BY <1>2, <1>3, <2>1 DEF Grows
<1> QED
  BY <1>2, <1>3, <1>4, <1>5, <1>6

\* One map is changed.
LEMMA NewSlots ==
  ASSUME NEW h, HeapOK(h), NEW m \in DOMAIN h.maps, NEW map \in Seq(Slot),
         \A i \in DOMAIN map : map[i].ent \in (0..Len(h.ents)) \ {1},
         \A i, j \in DOMAIN map :
           map[i].ent # 0 /\ map[j].ent # 0 /\ map[i].name = map[j].name => i = j,
         NEW h2, h2 = [h EXCEPT !.maps = [h.maps EXCEPT ![m] = map]]
  PROVE  /\ HeapOK(h2)
         /\ h2.ents = h.ents
         /\ Len(h2.maps) = Len(h.maps) /\ DOMAIN h2.maps = DOMAIN h.maps
         /\ h2.maps[m] = map
         /\ \A k \in DOMAIN h.maps : k # m => h2.maps[k] = h.maps[k]
         /\ Grows(h, h2)
<1>1. h.ents \in Seq(Entry) /\ h.maps \in Seq(Seq(Slot)) /\ h \in Heap
  BY DEF HeapOK, Heap
<1>2. /\ [h.maps EXCEPT ![m] = map] \in Seq(Seq(Slot))
      /\ Len([h.maps EXCEPT ![m] = map]) = Len(h.maps)
      /\ DOMAIN [h.maps EXCEPT ![m] = map] = DOMAIN h.maps
  BY <1>1, ExceptSeq, LenProperties
<1>3. h2.maps = [h.maps EXCEPT ![m] = map] /\ h2.ents = h.ents
      /\ h2 \in Heap
  BY <1>1, <1>2, Zenon DEF Heap
<1>4. /\ Len(h2.maps) = Len(h.maps) /\ DOMAIN h2.maps = DOMAIN h.maps
      /\ h2.maps[m] = map
      /\ \A k \in DOMAIN h.maps : k # m => h2.maps[k] = h.maps[k]
  BY <1>2, <1>3
<1>5. HeapOK(h2)
  <2>1. \A e \in DOMAIN h2.ents :
          /\ h2.ents[e].map \in 0..Len(h2.maps)
          /\ h2.ents[e].type = "node" => h2.ents[e].val \in Node
    BY <1>3, <1>4 DEF HeapOK
  <2>2. \A k \in DOMAIN h2.maps : \A i \in DOMAIN h2.maps[k] :
          h2.maps[k][i].ent \in (0..Len(h2.ents)) \ {1}
    <3> TAKE k \in DOMAIN h2.maps
    <3>1. CASE k = m
      BY <1>3, <1>4, <3>1
    <3>2. CASE k # m
      BY <1>3, <1>4, <3>2 DEF HeapOK
    <3> QED
      BY <3>1, <3>2
  <2>3. \A k \in DOMAIN h2.maps : \A i, j \in DOMAIN h2.maps[k] :
          /\ h2.maps[k][i].ent # 0 /\ h2.maps[k][j].ent # 0
          /\ h2.maps[k][i].name = h2.maps[k][j].name
          => i = j
    <3> TAKE k \in DOMAIN h2.maps
    <3>1. CASE k = m
      BY <1>4, <3>1
    <3>2. CASE k # m
      BY <1>4, <3>2 DEF HeapOK
    <3> QED
      BY <3>1, <3>2
  <2>4. 1 \in DOMAIN h2.ents /\ \A e, f \in DOMAIN h2.ents :
          h2.ents[e].map = h2.ents[f].map /\ h2.ents[e].map # 0 => e = f
    BY <1>3 DEF HeapOK
  <2> QED
    BY <1>3, <2>1, <2>2, <2>3, <2>4 DEF HeapOK
<1>6. Grows(h, h2)
  <2>1. Len(h.ents) \in Nat /\ Len(h.maps) \in Nat
    BY <1>1, LenProperties
  <2> QED
    BY <1>3, <1>4, <2>1 DEF Grows
<1> QED
  BY <1>3, <1>4, <1>5, <1>6

\* Map.set: the name has the new entry, and the other names what they had.
LEMMA PutSets ==
  ASSUME NEW h, HeapOK(h), NEW m \in DOMAIN h.maps, NEW n \in Name, NEW x \in DOMAIN h.ents \ {1},
         NEW h2, h2 = Put(h, m, n, x)
  PROVE  /\ HeapOK(h2) /\ Grows(h, h2)
         /\ h2.ents = h.ents
         /\ DOMAIN h2.maps = DOMAIN h.maps
         /\ \A k \in DOMAIN h.maps : k # m => h2.maps[k] = h.maps[k]
         /\ \A k \in Name : \A y : In(h2, m, k, y) => IF k = n THEN y = x ELSE In(h, m, k, y)
         /\ In(h2, m, n, x)
<1> DEFINE slot == [name |-> n, ent |-> x]
<1>1. /\ h.maps[m] \in Seq(Slot) /\ Len(h.ents) \in Nat /\ DOMAIN h.ents = 1..Len(h.ents)
      /\ Len(h.maps[m]) \in Nat /\ DOMAIN h.maps[m] = 1..Len(h.maps[m])
      /\ \A i \in DOMAIN h.maps[m] : h.maps[m][i] \in Slot
  BY Sized
<1>2. slot \in Slot /\ x # 0 /\ x \in (0..Len(h.ents)) \ {1}
  BY <1>1 DEF Slot
<1>3. \A i \in DOMAIN h.maps[m] : h.maps[m][i].ent \in (0..Len(h.ents)) \ {1}
  BY DEF HeapOK
<1>4. \A i, j \in DOMAIN h.maps[m] :
        /\ h.maps[m][i].ent # 0 /\ h.maps[m][j].ent # 0
        /\ h.maps[m][i].name = h.maps[m][j].name
        => i = j
  BY DEF HeapOK
<1>5. CASE Has(h, m, n)
  <2> DEFINE p == Place(h, m, n)
             map == [h.maps[m] EXCEPT ![p] = slot]
  <2>1. p \in DOMAIN h.maps[m] /\ h.maps[m][p].name = n /\ h.maps[m][p].ent # 0
    <3>1. p \in Places(h, m, n)
      BY <1>5 DEF Has, Place
    <3> QED
      BY <3>1 DEF Places
  <2>2. h2 = [h EXCEPT !.maps = [h.maps EXCEPT ![m] = map]]
    <3>1. [h.maps[m][p] EXCEPT !.ent = x] = slot
      BY <1>1, <2>1 DEF Slot
    <3>2. h2 = [h EXCEPT !.maps[m][p].ent = x]
      BY <1>5 DEF Put
    <3>3. h2 = [h EXCEPT !.maps = [h.maps EXCEPT ![m] =
                      [h.maps[m] EXCEPT ![p] = [h.maps[m][p] EXCEPT !.ent = x]]]]
      BY <3>2
    <3> HIDE DEF p, slot
    <3> QED
      BY <3>1, <3>3
  <2> HIDE DEF p
  <2>3. /\ map \in Seq(Slot) /\ DOMAIN map = DOMAIN h.maps[m]
        /\ \A i \in DOMAIN map : map[i] = IF i = p THEN slot ELSE h.maps[m][i]
    BY <1>1, <1>2, <2>1, ExceptSeq
  <2>4. \A i \in DOMAIN map : map[i].ent \in (0..Len(h.ents)) \ {1}
    BY <1>2, <1>3, <2>3
  <2>5. \A i, j \in DOMAIN map :
          map[i].ent # 0 /\ map[j].ent # 0 /\ map[i].name = map[j].name => i = j
    BY <1>4, <2>1, <2>3
  <2> HIDE DEF map
  <2> HIDE DEF slot
  <2>6. /\ HeapOK(h2) /\ Grows(h, h2) /\ h2.ents = h.ents /\ DOMAIN h2.maps = DOMAIN h.maps
        /\ h2.maps[m] = map
        /\ \A k \in DOMAIN h.maps : k # m => h2.maps[k] = h.maps[k]
    BY <2>2, <2>3, <2>4, <2>5, NewSlots, SMTT(30)
  <2>7. \A k \in Name : \A y : In(h2, m, k, y) => IF k = n THEN y = x ELSE In(h, m, k, y)
    <3> SUFFICES ASSUME NEW k \in Name, NEW y, In(h2, m, k, y)
                 PROVE  IF k = n THEN y = x ELSE In(h, m, k, y)
      OBVIOUS
    <3>1. PICK i \in DOMAIN map : map[i].name = k /\ map[i].ent = y /\ y # 0
      BY <2>6 DEF In
    <3>2. CASE i = p
      BY <2>3, <3>1, <3>2 DEF slot
    <3>3. CASE i # p
      BY <1>4, <2>1, <2>3, <3>1, <3>3 DEF In
    <3> QED
      BY <3>2, <3>3
  <2>8. In(h2, m, n, x)
    BY <1>2, <2>1, <2>3, <2>6 DEF In, slot
  <2> QED
    BY <2>6, <2>7, <2>8
<1>6. CASE ~Has(h, m, n)
  <2> DEFINE map == Append(h.maps[m], slot)
  <2>1. h2 = [h EXCEPT !.maps = [h.maps EXCEPT ![m] = map]]
    BY <1>6 DEF Put
  <2>2. /\ map \in Seq(Slot) /\ DOMAIN map = 1..(Len(h.maps[m]) + 1)
        /\ map[Len(h.maps[m]) + 1] = slot
        /\ \A i \in DOMAIN h.maps[m] : map[i] = h.maps[m][i]
    BY <1>1, <1>2, AppendProperties, LenProperties
  <2>3. \A i \in DOMAIN map : map[i].ent \in (0..Len(h.ents)) \ {1}
    BY <1>1, <1>2, <1>3, <2>2
  <2>4. \A i \in DOMAIN h.maps[m] : h.maps[m][i].name = n => h.maps[m][i].ent = 0
    BY <1>6 DEF Has, Places
  <2>5. \A i, j \in DOMAIN map :
          map[i].ent # 0 /\ map[j].ent # 0 /\ map[i].name = map[j].name => i = j
    BY <1>1, <1>4, <2>2, <2>4
  <2> HIDE DEF map
  <2> HIDE DEF slot
  <2>6. /\ HeapOK(h2) /\ Grows(h, h2) /\ h2.ents = h.ents /\ DOMAIN h2.maps = DOMAIN h.maps
        /\ h2.maps[m] = map
        /\ \A k \in DOMAIN h.maps : k # m => h2.maps[k] = h.maps[k]
    <3>1. map \in Seq(Slot)
      BY <2>2
    <3> QED
      BY <2>1, <2>3, <2>5, <3>1, NewSlots
  <2>7. \A k \in Name : \A y : In(h2, m, k, y) => IF k = n THEN y = x ELSE In(h, m, k, y)
    <3> SUFFICES ASSUME NEW k \in Name, NEW y, In(h2, m, k, y)
                 PROVE  IF k = n THEN y = x ELSE In(h, m, k, y)
      OBVIOUS
    <3>1. PICK i \in DOMAIN map : map[i].name = k /\ map[i].ent = y /\ y # 0
      BY <2>6 DEF In
    <3>2. CASE i = Len(h.maps[m]) + 1
      BY <2>2, <3>1, <3>2 DEF slot
    <3>3. CASE i # Len(h.maps[m]) + 1
      BY <1>1, <2>2, <2>4, <3>1, <3>3 DEF In
    <3> QED
      BY <3>2, <3>3
  <2>8. In(h2, m, n, x)
    BY <1>1, <1>2, <2>2, <2>6 DEF In, slot
  <2> QED
    BY <2>6, <2>7, <2>8
<1> QED
  BY <1>5, <1>6

\* Map.delete: the name has nothing, and the other names what they had.
LEMMA DelClears ==
  ASSUME NEW h, HeapOK(h), NEW m \in DOMAIN h.maps, NEW n \in Name, NEW h2, h2 = Del(h, m, n)
  PROVE  /\ HeapOK(h2) /\ Grows(h, h2)
         /\ h2.ents = h.ents
         /\ DOMAIN h2.maps = DOMAIN h.maps
         /\ \A k \in DOMAIN h.maps : k # m => h2.maps[k] = h.maps[k]
         /\ \A k \in Name : \A y : In(h2, m, k, y) => k # n /\ In(h, m, k, y)
<1>1. /\ h.maps[m] \in Seq(Slot) /\ Len(h.ents) \in Nat /\ DOMAIN h.ents = 1..Len(h.ents)
      /\ Len(h.maps[m]) \in Nat /\ DOMAIN h.maps[m] = 1..Len(h.maps[m])
      /\ \A i \in DOMAIN h.maps[m] : h.maps[m][i] \in Slot
  BY Sized
<1>2. \A i, j \in DOMAIN h.maps[m] :
        /\ h.maps[m][i].ent # 0 /\ h.maps[m][j].ent # 0
        /\ h.maps[m][i].name = h.maps[m][j].name
        => i = j
  BY DEF HeapOK
<1>3. CASE Has(h, m, n)
  <2> DEFINE p == Place(h, m, n)
             slot == [name |-> n, ent |-> 0]
             map == [h.maps[m] EXCEPT ![p] = slot]
  <2>1. p \in DOMAIN h.maps[m] /\ h.maps[m][p].name = n /\ h.maps[m][p].ent # 0
    <3>1. p \in Places(h, m, n)
      BY <1>3 DEF Has, Place
    <3> QED
      BY <3>1 DEF Places
  <2>2. h2 = [h EXCEPT !.maps = [h.maps EXCEPT ![m] = map]]
    <3>1. [h.maps[m][p] EXCEPT !.ent = 0] = slot
      BY <1>1, <2>1 DEF Slot
    <3>2. h2 = [h EXCEPT !.maps[m][p].ent = 0]
      BY <1>3 DEF Del
    <3>3. h2 = [h EXCEPT !.maps = [h.maps EXCEPT ![m] =
                      [h.maps[m] EXCEPT ![p] = [h.maps[m][p] EXCEPT !.ent = 0]]]]
      BY <3>2
    <3> HIDE DEF p, slot
    <3> QED
      BY <3>1, <3>3
  <2> HIDE DEF p
  <2>3. /\ map \in Seq(Slot) /\ DOMAIN map = DOMAIN h.maps[m]
        /\ \A i \in DOMAIN map : map[i] = IF i = p THEN slot ELSE h.maps[m][i]
    <3>1. slot \in Slot
      BY DEF Slot
    <3> QED
      BY <1>1, <3>1, <2>1, ExceptSeq
  <2>4. \A i \in DOMAIN map : map[i].ent \in (0..Len(h.ents)) \ {1}
    BY <1>1, <2>3 DEF HeapOK
  <2>5. \A i, j \in DOMAIN map :
          map[i].ent # 0 /\ map[j].ent # 0 /\ map[i].name = map[j].name => i = j
    BY <1>2, <2>1, <2>3
  <2> HIDE DEF map
  <2>6. /\ HeapOK(h2) /\ Grows(h, h2) /\ h2.ents = h.ents /\ DOMAIN h2.maps = DOMAIN h.maps
        /\ h2.maps[m] = map
        /\ \A k \in DOMAIN h.maps : k # m => h2.maps[k] = h.maps[k]
    BY <2>2, <2>3, <2>4, <2>5, NewSlots, SMTT(30)
  <2>7. \A k \in Name : \A y : In(h2, m, k, y) => k # n /\ In(h, m, k, y)
    <3> SUFFICES ASSUME NEW k \in Name, NEW y, In(h2, m, k, y)
                 PROVE  k # n /\ In(h, m, k, y)
      OBVIOUS
    <3>1. PICK i \in DOMAIN map : map[i].name = k /\ map[i].ent = y /\ y # 0
      BY <2>6 DEF In
    <3>2. i # p
      BY <2>3, <3>1
    <3>3. i \in DOMAIN h.maps[m] /\ h.maps[m][i].name = k /\ h.maps[m][i].ent = y
      BY <2>3, <3>1, <3>2
    <3> QED
      BY <1>2, <2>1, <3>1, <3>2, <3>3 DEF In
  <2> QED
    BY <2>6, <2>7
<1>4. CASE ~Has(h, m, n)
  <2>1. h2 = h
    BY <1>4 DEF Del
  <2>2. Grows(h, h)
    <3>1. Len(h.maps) \in Nat
      BY Sized
    <3> QED
      BY <1>1, <3>1 DEF Grows
  <2>3. \A k \in Name : \A y : In(h, m, k, y) => k # n
    BY <1>4, OnePlace
  <2> QED
    BY <2>1, <2>2, <2>3
<1> QED
  BY <1>3, <1>4

\* What an entry links to is an entry, and not the root.
LEMMA Linked ==
  ASSUME NEW h, HeapOK(h), NEW e \in DOMAIN h.ents, NEW n \in Name, NEW x, Link(h, e, n, x)
  PROVE  h.ents[e].map \in DOMAIN h.maps /\ x \in DOMAIN h.ents \ {1}
<1>1. /\ Len(h.ents) \in Nat /\ DOMAIN h.ents = 1..Len(h.ents)
      /\ Len(h.maps) \in Nat /\ DOMAIN h.maps = 1..Len(h.maps)
  BY Sized
<1>2. h.ents[e].map \in DOMAIN h.maps
  BY <1>1 DEF Link, HeapOK
<1>3. x \in (0..Len(h.ents)) \ {1} /\ x # 0
  BY <1>2 DEF Link, In, HeapOK
<1> QED
  BY <1>1, <1>2, <1>3

\* The map an entry has is one of the heap's.
LEMMA MapOf ==
  ASSUME NEW h, HeapOK(h), NEW e \in DOMAIN h.ents, h.ents[e].map # 0
  PROVE  h.ents[e].map \in DOMAIN h.maps
<1>1. Len(h.maps) \in Nat /\ DOMAIN h.maps = 1..Len(h.maps)
  BY Sized
<1>2. h.ents[e].map \in 0..Len(h.maps)
  BY DEF HeapOK
<1> QED
  BY <1>1, <1>2

\* What a map holds is an entry.
LEMMA Held ==
  ASSUME NEW h, HeapOK(h), NEW m \in DOMAIN h.maps, NEW n \in Name, NEW x, In(h, m, n, x)
  PROVE  x \in DOMAIN h.ents
<1>1. Len(h.ents) \in Nat /\ DOMAIN h.ents = 1..Len(h.ents)
  BY Sized
<1>2. x \in 0..Len(h.ents) /\ x # 0
  BY DEF In, HeapOK
<1> QED
  BY <1>1, <1>2

\* A map that has not changed holds what it held.
LEMMA SameIn ==
  ASSUME NEW h, NEW h2, NEW l, h2.maps[l] = h.maps[l], NEW i, NEW x
  PROVE  In(h2, l, i, x) <=> In(h, l, i, x)
BY DEF In

\* Map.set with a new entry.
LEMMA PutNewGrows ==
  ASSUME NEW h, HeapOK(h), NEW k \in DOMAIN h.ents, h.ents[k].map # 0, NEW n \in Name,
         NEW entry \in Entry, entry.map \in 0..Len(h.maps),
         entry.map # 0 => /\ \A e \in DOMAIN h.ents : h.ents[e].map # entry.map
                          /\ h.maps[entry.map] = <<>>,
         entry.type = "node" => entry.val \in Node,
         NEW h2, h2 = PutNew(h, h.ents[k].map, n, entry)
  PROVE  /\ HeapOK(h2) /\ Grows(h, h2) /\ Regrown(h, h2, k, {n}) /\ Refilled(h, h2)
         /\ h2.ents[k].map = h.ents[k].map
         /\ Len(h.ents) + 1 \in DOMAIN h2.ents /\ Link(h2, k, n, Len(h.ents) + 1)
<1> DEFINE m == h.ents[k].map
           x == Len(h.ents) + 1
           h1 == [h EXCEPT !.ents = Append(@, entry)]
<1>1. /\ Len(h.ents) \in Nat /\ DOMAIN h.ents = 1..Len(h.ents)
      /\ Len(h.maps) \in Nat /\ DOMAIN h.maps = 1..Len(h.maps)
      /\ 1 \in DOMAIN h.ents
  BY Sized DEF HeapOK
<1>2. m \in DOMAIN h.maps
  BY <1>1 DEF HeapOK
<1>3. /\ HeapOK(h1) /\ h1.maps = h.maps /\ Grows(h, h1)
      /\ DOMAIN h1.ents = 1..(Len(h.ents) + 1) /\ h1.ents[x] = entry
      /\ \A e \in DOMAIN h.ents : h1.ents[e] = h.ents[e]
  <2>1. h1 \in Heap /\ h1.ents = Append(h.ents, entry) /\ h1.maps = h.maps
    BY AppendProperties, Zenon DEF HeapOK, Heap
  <2> HIDE DEF h1
  <2> QED
    BY <2>1, NewEntry
<1>4. h2 = Put(h1, m, n, x)
  BY DEF PutNew
<1> HIDE DEF h1, m, x
<1>5. /\ HeapOK(h2) /\ Grows(h1, h2)
      /\ h2.ents = h1.ents
      /\ DOMAIN h2.maps = DOMAIN h.maps
      /\ \A j \in DOMAIN h.maps : j # m => h2.maps[j] = h.maps[j]
      /\ \A j \in Name : \A y : In(h2, m, j, y) => IF j = n THEN y = x ELSE In(h1, m, j, y)
      /\ In(h2, m, n, x)
  <2>1. m \in DOMAIN h1.maps /\ x \in DOMAIN h1.ents \ {1}
    BY <1>1, <1>2, <1>3 DEF x
  <2> QED
    BY <1>3, <1>4, <2>1, PutSets
<1>6. Grows(h, h2)
  BY <1>3, <1>5, GrowsOn
<1>7. /\ DOMAIN h2.ents = DOMAIN h.ents \cup {x} /\ x \notin DOMAIN h.ents
      /\ h2.ents[x] = entry
      /\ \A e \in DOMAIN h.ents : h2.ents[e] = h.ents[e]
  BY <1>1, <1>3, <1>5 DEF x
<1>8. ASSUME NEW e \in DOMAIN h2.ents, NEW j \in Name, NEW y, Link(h2, e, j, y)
      PROVE  \/ e \in DOMAIN h.ents /\ ~(e = k /\ j = n) /\ Link(h, e, j, y)
             \/ e = k /\ j = n /\ y = x
  <2>1. CASE e = x
    <3>1. entry.map # 0 /\ In(h2, entry.map, j, y)
      BY <1>7, <1>8, <2>1 DEF Link
    <3>2. entry.map \in DOMAIN h.maps /\ entry.map # m
      BY <1>1, <3>1 DEF m
    <3>3. h2.maps[entry.map] = <<>>
      BY <1>5, <3>1, <3>2
    <3> QED
      BY <3>1, <3>3 DEF In
  <2>2. CASE e \in DOMAIN h.ents /\ h.ents[e].map # m
    <3>1. h.ents[e].map # 0 /\ In(h2, h.ents[e].map, j, y)
      BY <1>7, <1>8, <2>2 DEF Link
    <3>2. h.ents[e].map \in DOMAIN h.maps
      BY <1>1, <2>2, <3>1 DEF HeapOK
    <3>3. h2.maps[h.ents[e].map] = h.maps[h.ents[e].map]
      BY <1>5, <2>2, <3>2
    <3>4. In(h, h.ents[e].map, j, y)
      BY <3>1, <3>3 DEF In
    <3> QED
      BY <2>2, <3>1, <3>4 DEF Link, m
  <2>3. CASE e \in DOMAIN h.ents /\ h.ents[e].map = m
    <3>1. e = k
      BY <2>3 DEF HeapOK, m
    <3>2. In(h2, m, j, y)
      BY <1>7, <1>8, <2>3 DEF Link
    <3>3. IF j = n THEN y = x ELSE In(h1, m, j, y)
      BY <1>5, <3>2
    <3>4. In(h1, m, j, y) => In(h, m, j, y)
      BY <1>3 DEF In
    <3> QED
      BY <2>3, <3>1, <3>3, <3>4 DEF Link, m
  <2> QED
    BY <1>7, <2>1, <2>2, <2>3
<1>9. Regrown(h, h2, k, {n})
  BY <1>7, <1>8, Linked DEF Regrown
<1>10. Refilled(h, h2)
  <2> SUFFICES ASSUME NEW l \in DOMAIN h.maps, NEW j \in Name, NEW y, In(h2, l, j, y)
               PROVE  In(h, l, j, y) \/ y \notin DOMAIN h.ents
    BY DEF Refilled
  <2>1. CASE l = m
    <3>1. y = x \/ In(h1, m, j, y)
      BY <1>5, <2>1
    <3>2. In(h1, m, j, y) => In(h, m, j, y)
      BY <1>3 DEF In
    <3> QED
      BY <1>7, <2>1, <3>1, <3>2
  <2>2. CASE l # m
    <3>1. h2.maps[l] = h.maps[l]
      BY <1>5, <2>2
    <3> QED
      BY <3>1, SameIn, Zenon
  <2> QED
    BY <2>1, <2>2
<1>11. Link(h2, k, n, x)
  <2>1. h2.ents[k].map = m /\ m # 0
    BY <1>7 DEF m
  <2> QED
    BY <1>5, <2>1 DEF Link
<1> QED
  BY <1>1, <1>5, <1>6, <1>7, <1>9, <1>10, <1>11 DEF x

\* Map.set with a new directory.
LEMMA PutDirGrows ==
  ASSUME NEW h, HeapOK(h), NEW k \in DOMAIN h.ents, h.ents[k].map # 0, NEW n \in Name,
         NEW h2, h2 = PutDir(h, h.ents[k].map, n)
  PROVE  /\ HeapOK(h2) /\ Grows(h, h2) /\ Regrown(h, h2, k, {n}) /\ Refilled(h, h2)
         /\ h2.ents[k].map = h.ents[k].map
         /\ Len(h.ents) + 1 \in DOMAIN h2.ents /\ Link(h2, k, n, Len(h.ents) + 1)
<1> DEFINE h1 == [h EXCEPT !.maps = Append(@, <<>>)]
           entry == DirEntry(Len(h1.maps))
<1>1. /\ Len(h.ents) \in Nat /\ DOMAIN h.ents = 1..Len(h.ents)
      /\ Len(h.maps) \in Nat /\ DOMAIN h.maps = 1..Len(h.maps)
  BY Sized
<1>2. /\ HeapOK(h1) /\ h1.ents = h.ents /\ Grows(h, h1)
      /\ Len(h1.maps) = Len(h.maps) + 1
      /\ h1.maps[Len(h.maps) + 1] = <<>>
      /\ \A m \in DOMAIN h.maps : h1.maps[m] = h.maps[m]
      /\ \A e \in DOMAIN h1.ents : h1.ents[e].map # Len(h.maps) + 1
  <2>1. h1 \in Heap /\ h1.maps = Append(h.maps, <<>>) /\ h1.ents = h.ents
    <3>1. <<>> \in Seq(Slot)
      BY EmptySeq
    <3> QED
      BY <3>1, AppendProperties, Zenon DEF HeapOK, Heap
  <2>2. <<>> \in Seq(Slot) /\ DOMAIN <<>> = {}
    BY EmptySeq
  <2> HIDE DEF h1
  <2> QED
    BY <2>1, <2>2, NewMap, ZenonT(30)
<1>3. h2 = PutNew(h1, h1.ents[k].map, n, entry)
  BY <1>2 DEF PutDir
<1> HIDE DEF h1
<1>4. entry \in Entry /\ entry.map = Len(h.maps) + 1 /\ entry.type # "node"
  BY <1>1, <1>2 DEF DirEntry, Entry, Value, Form
<1> HIDE DEF entry
<1>5. /\ HeapOK(h2) /\ Grows(h1, h2) /\ Regrown(h1, h2, k, {n}) /\ Refilled(h1, h2)
      /\ h2.ents[k].map = h1.ents[k].map
      /\ Len(h1.ents) + 1 \in DOMAIN h2.ents /\ Link(h2, k, n, Len(h1.ents) + 1)
  <2>1. entry.map \in 0..Len(h1.maps)
    BY <1>1, <1>2, <1>4
  <2> QED
    <3>1. entry.map # 0 => /\ \A e \in DOMAIN h1.ents : h1.ents[e].map # entry.map
                           /\ h1.maps[entry.map] = <<>>
      BY <1>2, <1>4
    <3>2. k \in DOMAIN h1.ents /\ h1.ents[k].map # 0
      BY <1>2
    <3>3. entry.type = "node" => entry.val \in Node
      BY <1>4
    <3> QED
      BY <1>2, <1>3, <1>4, <2>1, <3>1, <3>2, <3>3, PutNewGrows, Zenon
<1>6. Regrown(h, h2, k, {n})
  <2>1. \A e \in DOMAIN h.ents, j \in Name : \A y : Link(h1, e, j, y) => Link(h, e, j, y)
    <3> SUFFICES ASSUME NEW e \in DOMAIN h.ents, NEW j \in Name, NEW y, Link(h1, e, j, y)
                 PROVE  Link(h, e, j, y)
      OBVIOUS
    <3>1. h.ents[e].map \in DOMAIN h.maps
      BY <1>1, <1>2 DEF Link, HeapOK
    <3> QED
      BY <1>2, <3>1 DEF Link, In
  <2> QED
    BY <1>2, <1>5, <2>1 DEF Regrown
<1>7. Refilled(h, h2)
  <2> SUFFICES ASSUME NEW l \in DOMAIN h.maps, NEW j \in Name, NEW y, In(h2, l, j, y)
               PROVE  In(h, l, j, y) \/ y \notin DOMAIN h.ents
    BY DEF Refilled
  <2>1. l \in DOMAIN h1.maps /\ h1.maps[l] = h.maps[l]
    BY <1>2 DEF Grows
  <2>2. In(h1, l, j, y) \/ y \notin DOMAIN h1.ents
    BY <1>5, <2>1 DEF Refilled
  <2>3. In(h1, l, j, y) => In(h, l, j, y)
    BY <2>1, SameIn
  <2> QED
    BY <1>2, <2>2, <2>3
<1> QED
  BY <1>2, <1>5, <1>6, <1>7, GrowsOn

\* The names of a set in some order.
LEMMA InOrder ==
  ASSUME NEW S \in SUBSET Name, IsFiniteSet(S)
  PROVE  /\ SetToSeq(S) \in Seq(S)
         /\ \A i, j \in DOMAIN SetToSeq(S) : SetToSeq(S)[i] = SetToSeq(S)[j] => i = j
         /\ \A x \in S : \E i \in DOMAIN SetToSeq(S) : SetToSeq(S)[i] = x
<1> DEFINE size == Cardinality(S)
<1>1. size \in Nat /\ ExistsBijection(1..size, S)
  BY FS_CardinalityType
<1>2. PICK g \in [1..size -> S] : IsInjective(g)
  <2>1. PICK g : g \in Bijection(1..size, S)
    BY <1>1 DEF ExistsBijection
  <2>2. g \in [1..size -> S] /\ IsInjective(g)
    BY <2>1 DEF Bijection, Injection
  <2> QED
    BY <2>2
<1>3. SetToSeq(S) \in [1..size -> S] /\ IsInjective(SetToSeq(S))
  BY <1>2 DEF SetToSeq
<1>6. IsFiniteSet(1..size) /\ Cardinality(1..size) = Cardinality(S)
  <2> SUFFICES ASSUME NEW k \in Nat, k = size
               PROVE  IsFiniteSet(1..k) /\ Cardinality(1..k) = k
    BY <1>1
  <2>1. 1 \in Int /\ k \in Int
    OBVIOUS
  <2>2. /\ IsFiniteSet(1..k)
        /\ Cardinality(1..k) = IF 1 > k THEN 0 ELSE k - 1 + 1
    BY <2>1, FS_Interval, Zenon
  <2> QED
    BY <2>2
<1> HIDE DEF size
<1>4. SetToSeq(S) \in Seq(S)
  BY <1>1, <1>3, SeqDef
<1>5. \A x \in S : \E i \in 1..size : SetToSeq(S)[i] = x
  <2> DEFINE f == SetToSeq(S)
  <2>1. f \in Injection(1..size, S)
    BY <1>3 DEF Injection
  <2>2. Cardinality(1..size) = Cardinality(S) <=> f \in Surjection(1..size, S)
    <3> HIDE DEF f
    <3> QED
      BY <2>1, FS_Injection
  <2> QED
    BY <1>6, <2>2 DEF Surjection
<1> QED
  BY <1>3, <1>4, <1>5 DEF IsInjective

\* getChildren: the entry gets a new map of new entries.
LEMMA LoadGrows ==
  ASSUME NEW h, HeapOK(h), NEW k \in DOMAIN h.ents, h.ents[k].type = "node",
         IsDict(h.ents[k].val), NEW h2, h2 = LoadChildren(h, k)
  PROVE  /\ HeapOK(h2) /\ Grows(h, h2) /\ Regrown(h, h2, k, Name) /\ Refilled(h, h2)
         /\ Len(h2.maps) \in DOMAIN h2.maps
         /\ h2.ents[k].map = Len(h2.maps) /\ h2.ents[k].map # 0
         /\ Loaded(h, h2, k)
<1> DEFINE v == h.ents[k].val
           names == SetToSeq(DOMAIN v)
           load == [i \in DOMAIN names |-> NodeEntry([form |-> "node", val |-> v[names[i]]])]
           slots == [i \in DOMAIN names |-> [name |-> names[i], ent |-> Len(h.ents) + i]]
           own == [h.ents EXCEPT ![k].map = Len(h.maps) + 1]
           M == Len(h.maps) + 1
<1>1. /\ Len(h.ents) \in Nat /\ DOMAIN h.ents = 1..Len(h.ents)
      /\ Len(h.maps) \in Nat /\ DOMAIN h.maps = 1..Len(h.maps)
      /\ h.ents \in Seq(Entry) /\ h.maps \in Seq(Seq(Slot))
      /\ \A e \in DOMAIN h.ents : h.ents[e] \in Entry
  BY Sized DEF HeapOK, Heap
<1>2. /\ names \in Seq(DOMAIN v) /\ Len(names) \in Nat /\ DOMAIN names = 1..Len(names)
      /\ \A i, j \in DOMAIN names : names[i] = names[j] => i = j
      /\ \A i \in DOMAIN names : names[i] \in Name /\ v[names[i]] \in Node
      /\ \A n \in DOMAIN v : \E i \in DOMAIN names : names[i] = n
      /\ \A i \in DOMAIN names : names[i] \in DOMAIN v
  <2>1. v \in Node \ Data
    BY DEF HeapOK, IsDict
  <2>2. DOMAIN v \in SUBSET Name /\ IsFiniteSet(DOMAIN v) /\ \A n \in DOMAIN v : v[n] \in Node
    BY <2>1, TreeAssumption
  <2> HIDE DEF v
  <2>3. /\ names \in Seq(DOMAIN v)
        /\ \A i, j \in DOMAIN names : names[i] = names[j] => i = j
        /\ \A n \in DOMAIN v : \E i \in DOMAIN names : names[i] = n
    BY <2>2, InOrder
  <2> HIDE DEF names
  <2> QED
    BY <2>2, <2>3, LenProperties, ElementOfSeq
<1>3. h2 = [ents |-> own \o load, maps |-> Append(h.maps, <<>> \o slots)]
  BY DEF LoadChildren
<1> HIDE DEF names
<1>4. /\ load \in Seq(Entry) /\ Len(load) = Len(names)
      /\ \A i \in DOMAIN names : load[i].map = 0 /\ load[i].type = "node" /\ load[i].val \in Node
      /\ \A i \in DOMAIN names : load[i] = NodeEntry([form |-> "node", val |-> v[names[i]]])
  <2>1. \A i \in DOMAIN names :
          /\ load[i] = [type |-> "node", val |-> v[names[i]], form |-> "node", map |-> 0]
          /\ load[i] \in Entry
    BY <1>2 DEF NodeEntry, Entry, Value, Form
  <2>2. load \in [1..Len(names) -> Entry]
    <3> HIDE DEF v
    <3> QED
    BY <1>2, <2>1, Zenon
  <2>3. load \in Seq(Entry) /\ Len(load) = Len(names)
    <3> HIDE DEF load
    <3> QED
      BY <1>2, <2>2, IsASeq, LenProperties
  <2>4. \A i \in DOMAIN names : load[i].map = 0 /\ load[i].type = "node" /\ load[i].val \in Node
    <3> TAKE i \in DOMAIN names
    <3>1. PICK d \in Node : d = v[names[i]]
      BY <1>2
    <3>2. load[i] = [type |-> "node", val |-> d, form |-> "node", map |-> 0]
      BY <2>1, <3>1
    <3> HIDE DEF load, v
    <3> QED
      BY <3>2
  <2> QED
    BY <2>3, <2>4
<1>5. slots \in Seq(Slot) /\ <<>> \o slots = slots /\ DOMAIN slots = DOMAIN names
      /\ \A i \in DOMAIN slots : slots[i].name = names[i] /\ slots[i].ent = Len(h.ents) + i
  <2>1. slots \in [1..Len(names) -> Slot]
    BY <1>1, <1>2 DEF Slot
  <2>2. slots \in Seq(Slot)
    <3> HIDE DEF slots
    <3> QED
      BY <1>2, <2>1, IsASeq
  <2>3. <<>> \o slots = slots
    BY <2>2, ConcatEmptySeq
  <2> QED
    BY <1>2, <2>2, <2>3
<1>6. /\ own \in Seq(Entry) /\ Len(own) = Len(h.ents)
      /\ \A e \in DOMAIN h.ents :
           /\ own[e].map = IF e = k THEN M ELSE h.ents[e].map
           /\ own[e].type = h.ents[e].type /\ own[e].val = h.ents[e].val
           /\ e # k => own[e] = h.ents[e]
  <2>1. [h.ents[k] EXCEPT !.map = M] \in Entry
    <3>1. h.ents[k] \in Entry /\ M \in Nat
      BY <1>1
    <3> HIDE DEF M
    <3> QED
      BY <3>1 DEF Entry
  <2>2. own = [h.ents EXCEPT ![k] = [h.ents[k] EXCEPT !.map = M]]
    OBVIOUS
  <2>3. own \in Seq(Entry) /\ Len(own) = Len(h.ents)
    <3> HIDE DEF own
    <3> QED
      BY <1>1, <2>1, <2>2, ExceptSeq
  <2> QED
    BY <1>1, <2>1, <2>2, <2>3, Zenon DEF Entry
<1> HIDE DEF load, slots, own
<1>7. /\ h2 \in Heap /\ h2.ents = own \o load /\ h2.maps = Append(h.maps, slots)
      /\ Len(h2.ents) = Len(h.ents) + Len(names)
      /\ DOMAIN h2.ents = 1..(Len(h.ents) + Len(names))
      /\ \A e \in DOMAIN h.ents : h2.ents[e] = own[e]
      /\ \A i \in DOMAIN names : h2.ents[Len(h.ents) + i] = load[i]
  <2>1. /\ own \o load \in Seq(Entry) /\ Len(own \o load) = Len(h.ents) + Len(names)
        /\ \A i \in 1..(Len(h.ents) + Len(names)) :
             (own \o load)[i] = IF i <= Len(h.ents) THEN own[i] ELSE load[i - Len(h.ents)]
    <3>1. /\ own \o load \in Seq(Entry) /\ Len(own \o load) = Len(own) + Len(load)
          /\ \A i \in 1..(Len(own) + Len(load)) :
               (own \o load)[i] = IF i <= Len(own) THEN own[i] ELSE load[i - Len(own)]
      <4> DEFINE s1 == own
                 s2 == load
      <4>1. s1 \in Seq(Entry) /\ s2 \in Seq(Entry)
        BY <1>4, <1>6
      <4> HIDE DEF s1, s2
      <4>2. /\ s1 \o s2 \in Seq(Entry) /\ Len(s1 \o s2) = Len(s1) + Len(s2)
            /\ \A i \in 1..(Len(s1) + Len(s2)) :
                 (s1 \o s2)[i] = IF i <= Len(s1) THEN s1[i] ELSE s2[i - Len(s1)]
        BY <4>1, ConcatProperties
      <4> QED
        BY <4>2 DEF s1, s2
    <3> QED
      BY <1>4, <1>6, <3>1
  <2>2. Append(h.maps, slots) \in Seq(Seq(Slot))
    BY <1>1, <1>5, AppendProperties
  <2>3. h2.ents = own \o load /\ h2.maps = Append(h.maps, slots)
    BY <1>3, <1>5
  <2>4. h2 \in Heap
    BY <1>3, <1>5, <2>1, <2>2 DEF Heap
  <2>5. /\ Len(h2.ents) = Len(h.ents) + Len(names)
        /\ DOMAIN h2.ents = 1..(Len(h.ents) + Len(names))
    BY <1>1, <1>2, <2>1, <2>3, LenProperties
  <2>6. \A e \in DOMAIN h.ents : h2.ents[e] = own[e]
    BY <1>1, <1>2, <2>1, <2>3
  <2>7. ASSUME NEW i \in DOMAIN names PROVE h2.ents[Len(h.ents) + i] = load[i]
    <3>1. PICK j \in 1..(Len(h.ents) + Len(names)) : j = Len(h.ents) + i
      BY <1>1, <1>2
    <3>2. ~(j <= Len(h.ents)) /\ j - Len(h.ents) = i
      BY <1>1, <1>2, <3>1
    <3>3. (own \o load)[j] = load[i]
      BY <2>1, <3>2
    <3> QED
      BY <2>3, <3>1, <3>3
  <2> QED
    BY <2>3, <2>4, <2>5, <2>6, <2>7, Zenon
<1>8. /\ Len(h2.maps) = M /\ DOMAIN h2.maps = 1..M /\ h2.maps[M] = slots
      /\ \A m \in DOMAIN h.maps : h2.maps[m] = h.maps[m]
  BY <1>1, <1>5, <1>7, AppendProperties, LenProperties
<1>9. \A e \in DOMAIN h2.ents :
        \/ e \in DOMAIN h.ents /\ h2.ents[e] = own[e]
        \/ \E i \in DOMAIN names : e = Len(h.ents) + i /\ h2.ents[e] = load[i]
  <2> SUFFICES ASSUME NEW e \in DOMAIN h2.ents, e \notin DOMAIN h.ents
               PROVE  \E i \in DOMAIN names : e = Len(h.ents) + i /\ h2.ents[e] = load[i]
    BY <1>7
  <2>1. e - Len(h.ents) \in DOMAIN names /\ e = Len(h.ents) + (e - Len(h.ents))
    BY <1>1, <1>2, <1>7, SMTT(30)
  <2> QED
    BY <1>7, <2>1, Zenon
<1>10. HeapOK(h2)
  <2>1. 1 \in DOMAIN h2.ents
    BY <1>1, <1>2, <1>7 DEF HeapOK
  <2>2. \A e \in DOMAIN h2.ents :
          /\ h2.ents[e].map \in 0..Len(h2.maps)
          /\ h2.ents[e].type = "node" => h2.ents[e].val \in Node
    <3> TAKE e \in DOMAIN h2.ents
    <3>1. CASE e \in DOMAIN h.ents /\ h2.ents[e] = own[e]
      BY <1>1, <1>6, <1>8, <3>1 DEF HeapOK
    <3>2. CASE \E i \in DOMAIN names : e = Len(h.ents) + i /\ h2.ents[e] = load[i]
      BY <1>1, <1>4, <1>8, <3>2
    <3> QED
      BY <1>9, <3>1, <3>2
  <2>3. \A m \in DOMAIN h2.maps : \A i \in DOMAIN h2.maps[m] :
          h2.maps[m][i].ent \in (0..Len(h2.ents)) \ {1}
    <3> TAKE m \in DOMAIN h2.maps
    <3>1. CASE m = M
      <4>1. \A i \in DOMAIN slots : slots[i].ent \in (0..Len(h2.ents)) \ {1}
        <5> TAKE i \in DOMAIN slots
        <5>1. Len(h.ents) \in Nat /\ Len(h.ents) >= 1
          BY <1>1 DEF HeapOK
        <5>2. i \in 1..Len(names) /\ Len(names) \in Nat /\ slots[i].ent = Len(h.ents) + i
          BY <1>2, <1>5
        <5>3. Len(h2.ents) = Len(h.ents) + Len(names)
          BY <1>7
        <5> QED
          BY <5>1, <5>2, <5>3
      <4> QED
        BY <1>8, <3>1, <4>1
    <3>2. CASE m # M
      <4>1. m \in DOMAIN h.maps /\ h2.maps[m] = h.maps[m]
        BY <1>1, <1>8, <3>2
      <4> QED
        BY <1>1, <1>2, <1>7, <4>1, SMTT(30) DEF HeapOK
    <3> QED
      BY <3>1, <3>2
  <2>4. ASSUME NEW e \in DOMAIN h2.ents, NEW f \in DOMAIN h2.ents,
               h2.ents[e].map = h2.ents[f].map, h2.ents[e].map # 0
        PROVE  e = f
    <3>1. e \in DOMAIN h.ents /\ h2.ents[e] = own[e] /\ f \in DOMAIN h.ents /\ h2.ents[f] = own[f]
      BY <1>4, <1>9, <2>4
    <3>2. \A g \in DOMAIN h.ents : h.ents[g].map # M
      BY <1>1 DEF HeapOK
    <3> QED
      BY <1>6, <2>4, <3>1, <3>2 DEF HeapOK
  <2>5. \A m \in DOMAIN h2.maps : \A i, j \in DOMAIN h2.maps[m] :
          /\ h2.maps[m][i].ent # 0 /\ h2.maps[m][j].ent # 0
          /\ h2.maps[m][i].name = h2.maps[m][j].name
          => i = j
    <3> TAKE m \in DOMAIN h2.maps
    <3>1. CASE m = M
      <4>1. \A i, j \in DOMAIN slots : slots[i].name = slots[j].name => i = j
        BY <1>2, <1>5
      <4> QED
        BY <1>8, <3>1, <4>1
    <3>2. CASE m # M
      <4>1. m \in DOMAIN h.maps /\ h2.maps[m] = h.maps[m]
        BY <1>1, <1>8, <3>2
      <4> QED
        BY <4>1 DEF HeapOK
    <3> QED
      BY <3>1, <3>2
  <2> QED
    BY <1>7, <2>1, <2>2, <2>3, <2>4, <2>5, Zenon DEF HeapOK
<1>11. Grows(h, h2)
  BY <1>1, <1>2, <1>6, <1>7, <1>8 DEF Grows
<1>12. Regrown(h, h2, k, Name)
  <2>1. \A e \in DOMAIN h.ents : h2.ents[e].map = h.ents[e].map \/ e = k
    BY <1>6, <1>7
  <2>2. ASSUME NEW e \in DOMAIN h2.ents, NEW n \in Name, NEW x, Link(h2, e, n, x)
        PROVE  \/ e \in DOMAIN h.ents /\ e # k /\ Link(h, e, n, x)
               \/ e = k /\ \E i \in DOMAIN names : n = names[i] /\ x = Len(h.ents) + i
    <3>1. e \in DOMAIN h.ents /\ h2.ents[e] = own[e]
      BY <1>4, <1>9, <2>2 DEF Link
    <3>2. CASE e = k
      <4>1. In(h2, M, n, x)
        BY <1>6, <2>2, <3>1, <3>2 DEF Link
      <4>2. PICK i \in DOMAIN slots : slots[i].name = n /\ slots[i].ent = x
        BY <1>8, <4>1 DEF In
      <4> QED
        BY <1>5, <3>2, <4>2
    <3>3. CASE e # k
      <4>1. h.ents[e].map # 0 /\ In(h2, h.ents[e].map, n, x)
        BY <1>6, <2>2, <3>1, <3>3 DEF Link
      <4>2. h.ents[e].map \in DOMAIN h.maps
        BY <1>1, <3>1, <4>1 DEF HeapOK
      <4> QED
        BY <1>8, <3>1, <3>3, <4>1, <4>2 DEF Link, In
    <3> QED
      BY <3>2, <3>3
  <2>3. \A i \in DOMAIN names : Len(h.ents) + i \in DOMAIN h2.ents \ DOMAIN h.ents
    BY <1>1, <1>2, <1>7
  <2>4. \A e \in DOMAIN h2.ents, n \in Name : \A x : Link(h2, e, n, x) =>
          \/ e \in DOMAIN h.ents /\ ~(e = k /\ n \in Name) /\ Link(h, e, n, x)
          \/ e = k /\ n \in Name /\ x \in DOMAIN h2.ents \ DOMAIN h.ents
    BY <2>2, <2>3
  <2>5. ASSUME NEW n \in Name, NEW l \in Name, NEW x, Link(h2, k, n, x), Link(h2, k, l, x)
        PROVE  n = l
    <3>1. k \in DOMAIN h2.ents
      BY <1>11 DEF Grows
    <3>2. PICK i \in DOMAIN names : n = names[i] /\ x = Len(h.ents) + i
      BY <2>2, <2>5, <3>1
    <3>3. PICK j \in DOMAIN names : l = names[j] /\ x = Len(h.ents) + j
      BY <2>2, <2>5, <3>1
    <3>4. i = j
      BY <1>1, <1>2, <3>2, <3>3
    <3> QED
      BY <3>2, <3>3, <3>4
  <2> QED
    BY <2>1, <2>4, <2>5 DEF Regrown
<1>13. Refilled(h, h2)
  <2>1. \A l \in DOMAIN h.maps : h2.maps[l] = h.maps[l]
    BY <1>8
  <2> QED
    BY <2>1, SameIn, Zenon DEF Refilled
<1>14. Loaded(h, h2, k)
  <2>1. \A e \in DOMAIN h.ents \ {k} : h2.ents[e] = h.ents[e]
    BY <1>6, <1>7
  <2>2. h2.ents[k].map = M /\ M # 0
    BY <1>1, <1>6, <1>7
  <2>3. ASSUME NEW n \in Name, NEW x, Link(h2, k, n, x)
        PROVE  n \in DOMAIN v /\ h2.ents[x] = NodeEntry([form |-> "node", val |-> v[n]])
    <3>1. PICK i \in DOMAIN slots : slots[i].name = n /\ slots[i].ent = x
      BY <1>8, <2>2, <2>3 DEF Link, In
    <3>2. i \in DOMAIN names /\ names[i] = n /\ x = Len(h.ents) + i
      BY <1>5, <3>1
    <3>3. names[i] \in DOMAIN v
      BY <1>2, <3>2
    <3> QED
      BY <1>4, <1>7, <3>2, <3>3, Zenon
  <2>4. ASSUME NEW n \in DOMAIN v PROVE \E x : Link(h2, k, n, x)
    <3>1. PICK i \in DOMAIN names : names[i] = n
      BY <1>2
    <3>2. i \in DOMAIN slots /\ slots[i].name = n /\ slots[i].ent = Len(h.ents) + i
      BY <1>5, <3>1
    <3>3. Len(h.ents) + i # 0
      BY <1>1, <1>2, <3>1
    <3>4. In(h2, M, n, Len(h.ents) + i)
      BY <1>8, <3>2, <3>3 DEF In
    <3> QED
      BY <2>2, <3>4 DEF Link
  <2>5. ASSUME NEW e \in DOMAIN h2.ents \ DOMAIN h.ents PROVE h2.ents[e].type = "node"
    <3>1. PICK i \in DOMAIN names : h2.ents[e] = load[i]
      BY <1>9
    <3> QED
      BY <1>4, <3>1
  <2> QED
    BY <1>8, <2>1, <2>3, <2>4, <2>5 DEF Loaded
<1> QED
  BY <1>1, <1>6, <1>7, <1>8, <1>10, <1>11, <1>12, <1>13, <1>14

-----------------------------------------------------------------------------
(* Trees. *)

\* The new entries have paths, below that of the entry that was changed.
LEMMA PathsOnType ==
  ASSUME NEW h, HeapOK(h), NEW h2, HeapOK(h2), Grows(h, h2), NEW k \in DOMAIN h.ents,
         NEW K \in SUBSET Name, Regrown(h, h2, k, K), NEW P \in [Nat -> Seq(Name)]
  PROVE  /\ PathsOn(h, h2, k, P) \in [Nat -> Seq(Name)]
         /\ \A x \in DOMAIN h.ents : x \in Nat /\ PathsOn(h, h2, k, P)[x] = P[x]
         /\ \A n \in Name : \A x : x \notin DOMAIN h.ents /\ Link(h2, k, n, x)
              => x \in Nat /\ PathsOn(h, h2, k, P)[x] = Sub(P[k], n) /\ n \in K
<1>1. /\ DOMAIN h.ents \subseteq Nat /\ DOMAIN h2.ents \subseteq Nat
      /\ k \in DOMAIN h2.ents /\ k \in Nat
  <2>1. /\ DOMAIN h.ents = 1..Len(h.ents) /\ Len(h.ents) \in Nat
        /\ DOMAIN h2.ents = 1..Len(h2.ents) /\ Len(h2.ents) \in Nat
    BY Sized
  <2>2. DOMAIN h.ents \subseteq DOMAIN h2.ents
    BY DEF Grows
  <2>3. \A u \in Nat : 1..u \subseteq Nat
    OBVIOUS
  <2> QED
    BY <2>1, <2>2, <2>3, Zenon
<1>2. P[k] \in Seq(Name)
  BY <1>1
<1>3. \A x \in Grown(h, h2, k) : /\ NameOf(h2, k, x) \in Name /\ Link(h2, k, NameOf(h2, k, x), x)
                                 /\ Sub(P[k], NameOf(h2, k, x)) \in Seq(Name)
  BY <1>2, SubType DEF Grown, NameOf
<1>4. PathsOn(h, h2, k, P) \in [Nat -> Seq(Name)]
  BY <1>3 DEF PathsOn
<1>5. ASSUME NEW x \in DOMAIN h.ents PROVE x \in Nat /\ PathsOn(h, h2, k, P)[x] = P[x]
  BY <1>1 DEF PathsOn, Grown
<1>6. ASSUME NEW x, NEW n \in Name, x \notin DOMAIN h.ents, Link(h2, k, n, x)
      PROVE  x \in Nat /\ PathsOn(h, h2, k, P)[x] = Sub(P[k], n) /\ n \in K
  BY <1>1, <1>3, <1>6, Linked DEF Grown, Regrown, PathsOn
<1> QED
  BY <1>4, <1>5, <1>6, Zenon

\* What becomes of a tree when an entry k gets new ones.
LEMMA TreeGrows ==
  ASSUME NEW h, HeapOK(h), NEW h2, HeapOK(h2), Grows(h, h2), NEW k \in DOMAIN h.ents,
         NEW K \in SUBSET Name, Regrown(h, h2, k, K), NEW P \in [Nat -> Seq(Name)],
         NEW X, Tree(h, X, P)
  PROVE  /\ k \notin X => Tree(h2, X, PathsOn(h, h2, k, P))
         /\ k \in X => /\ Tree(h2, (X \ Cut(X, P, k, K)) \cup Grown(h, h2, k), PathsOn(h, h2, k, P))
                       /\ Tree(h2, Cut(X, P, k, K), PathsOn(h, h2, k, P))
                       /\ k \notin Cut(X, P, k, K)
<1> DEFINE R == PathsOn(h, h2, k, P)
           C == Cut(X, P, k, K)
           G == Grown(h, h2, k)
<1>1. /\ R \in [Nat -> Seq(Name)]
      /\ \A x \in DOMAIN h.ents : x \in Nat /\ R[x] = P[x] /\ P[x] \in Seq(Name)
      /\ \A n \in Name : \A x : x \notin DOMAIN h.ents /\ Link(h2, k, n, x)
           => x \in Nat /\ R[x] = Sub(P[k], n) /\ n \in K
  <2> HIDE DEF R
  <2>1. /\ R \in [Nat -> Seq(Name)]
        /\ \A x \in DOMAIN h.ents : x \in Nat /\ R[x] = P[x]
        /\ \A n \in Name : \A x : x \notin DOMAIN h.ents /\ Link(h2, k, n, x)
             => x \in Nat /\ R[x] = Sub(P[k], n) /\ n \in K
    BY PathsOnType, Zenon DEF R
  <2> QED
    BY <2>1, Zenon
<1> HIDE DEF R
<1>2. /\ X \subseteq DOMAIN h.ents /\ DOMAIN h.ents \subseteq DOMAIN h2.ents
      /\ \A e \in X, n \in Name : \A x : Link(h, e, n, x) => x \in X /\ P[x] = Sub(P[e], n)
      /\ \A e, f \in X : P[e] = P[f] => e = f
  BY Zenon DEF Tree, Grows
<1>3. \A e \in DOMAIN h2.ents, n \in Name : \A x : Link(h2, e, n, x) =>
        \/ e \in DOMAIN h.ents /\ ~(e = k /\ n \in K) /\ Link(h, e, n, x)
        \/ e = k /\ n \in K /\ x \in DOMAIN h2.ents \ DOMAIN h.ents
  BY DEF Regrown
<1>4. ASSUME k \notin X PROVE Tree(h2, X, R)
  <2>1. ASSUME NEW e \in X, NEW n \in Name, NEW x, Link(h2, e, n, x)
        PROVE  x \in X /\ R[x] = Sub(R[e], n)
    <3>1. e \in DOMAIN h2.ents /\ e # k /\ e \in DOMAIN h.ents
      BY <1>2, <1>4
    <3>2. x \in X /\ P[x] = Sub(P[e], n)
      BY <1>2, <1>3, <2>1, <3>1
    <3> QED
      BY <1>1, <1>2, <3>1, <3>2, Zenon
  <2>2. \A e, f \in X : R[e] = R[f] => e = f
    BY <1>1, <1>2, Zenon
  <2> QED
    BY <1>2, <2>1, <2>2 DEF Tree
<1>5. ASSUME k \in X PROVE k \notin C
  <2>1. P[k] \in Seq(Name)
    BY <1>1
  <2> QED
    BY <2>1, BelowSub DEF Cut
<1>6. ASSUME k \in X PROVE Tree(h2, C, R)
  <2>1. ASSUME NEW e \in C, NEW n \in Name, NEW x, Link(h2, e, n, x)
        PROVE  x \in C /\ R[x] = Sub(R[e], n)
    <3>1. e \in X /\ e # k /\ e \in DOMAIN h2.ents /\ e \in DOMAIN h.ents
      BY <1>2, <1>5, <1>6 DEF Cut
    <3>2. Link(h, e, n, x)
      BY <1>3, <2>1, <3>1
    <3>3. x \in X /\ P[x] = Sub(P[e], n)
      BY <1>2, <3>1, <3>2
    <3>4. PICK j \in K : Below(Sub(P[k], j), P[e])
      BY DEF Cut
    <3>5. Below(Sub(P[k], j), P[x])
      <4>1. P[k] \in Seq(Name) /\ P[e] \in Seq(Name) /\ Sub(P[k], j) \in Seq(Name)
        BY <1>1, <3>1, SubType
      <4> QED
        BY <3>3, <3>4, <4>1, BelowSub
    <3> QED
      BY <1>1, <1>2, <3>1, <3>3, <3>5, Zenon DEF Cut
  <2>2. C \subseteq X
    BY DEF Cut
  <2> HIDE DEF C
  <2>3. \A e, f \in C : R[e] = R[f] => e = f
    BY <1>1, <1>2, <2>2, Zenon
  <2> QED
    BY <1>2, <2>1, <2>2, <2>3 DEF Tree
<1>7. ASSUME k \in X PROVE Tree(h2, (X \ C) \cup G, R)
  <2>1. \A x \in G : /\ x \in DOMAIN h2.ents \ DOMAIN h.ents
                     /\ \E n \in Name : Link(h2, k, n, x) /\ n \in K /\ R[x] = Sub(P[k], n)
    BY <1>1 DEF Grown
  <2>2. ASSUME NEW e \in (X \ C) \cup G, NEW n \in Name, NEW x, Link(h2, e, n, x)
        PROVE  x \in (X \ C) \cup G /\ R[x] = Sub(R[e], n)
    <3>1. e \in DOMAIN h2.ents
      BY <1>2, <2>1
    <3>2. CASE e = k /\ n \in K /\ x \in DOMAIN h2.ents \ DOMAIN h.ents
      BY <1>1, <2>2, <3>2 DEF Grown
    <3>3. CASE e \in DOMAIN h.ents /\ ~(e = k /\ n \in K) /\ Link(h, e, n, x)
      <4>1. e \in X \ C
        BY <2>1, <3>3
      <4>2. x \in X /\ P[x] = Sub(P[e], n)
        BY <1>2, <3>3, <4>1
      <4>3. x \notin C
        <5> SUFFICES ASSUME NEW j \in K, Below(Sub(P[k], j), P[x]) PROVE FALSE
          BY DEF Cut
        <5>1. P[k] \in Seq(Name) /\ P[e] \in Seq(Name) /\ Sub(P[k], j) \in Seq(Name)
          BY <1>1, <3>3, SubType
        <5>2. ~Below(Sub(P[k], j), P[e])
          BY <4>1 DEF Cut
        <5>3. Sub(P[k], j) = Sub(P[e], n)
          BY <4>2, <5>1, <5>2, BelowSub
        <5>4. P[k] = P[e] /\ j = n
          <6>1. PICK u \in Seq(Name), v \in Seq(Name) : u = P[k] /\ v = P[e]
            BY <5>1, Zenon
          <6>2. Sub(u, j) = Sub(v, n) /\ j \in Name
            BY <5>3, <6>1
          <6> QED
            BY <6>1, <6>2, SameSub
        <5> QED
          BY <1>2, <1>7, <3>3, <4>1, <5>4
      <4>4. R[x] = P[x] /\ R[e] = P[e]
        BY <1>1, <1>2, <3>3, <4>2, Zenon
      <4> QED
        BY <4>2, <4>3, <4>4
    <3> QED
      BY <1>3, <2>2, <3>1, <3>2, <3>3
  <2>3. ASSUME NEW e \in (X \ C) \cup G, NEW f \in (X \ C) \cup G, R[e] = R[f]
        PROVE  e = f
    <3>1. ASSUME NEW g \in G, NEW d \in X \ C, R[g] = R[d] PROVE FALSE
      <4>1. PICK n \in Name : n \in K /\ R[g] = Sub(P[k], n)
        BY <2>1
      <4>2. R[d] = P[d]
        BY <1>1, <1>2
      <4>3. Sub(P[k], n) \in Seq(Name)
        BY <1>1, SubType
      <4>4. Below(Sub(P[k], n), P[d])
        BY <3>1, <4>1, <4>2, <4>3, BelowItself, Zenon
      <4> QED
        BY <4>1, <4>4 DEF Cut
    <3>2. CASE e \in G /\ f \in G
      <4>1. PICK n \in Name : Link(h2, k, n, e) /\ R[e] = Sub(P[k], n)
        BY <2>1, <3>2
      <4>2. PICK j \in Name : Link(h2, k, j, f) /\ R[f] = Sub(P[k], j)
        BY <2>1, <3>2
      <4>3. n = j
        <5>1. PICK u \in Seq(Name) : u = P[k]
          BY <1>1, Zenon
        <5>2. Sub(u, n) = Sub(u, j)
          BY <2>3, <4>1, <4>2, <5>1, Zenon
        <5> QED
          BY <5>2, SameSub
      <4>4. h2.ents[k].map \in DOMAIN h2.maps
        BY <1>2, <4>1, Linked
      <4> QED
        BY <4>1, <4>2, <4>3, <4>4, OnePlace DEF Link
    <3>3. CASE e \in X \ C /\ f \in X \ C
      BY <1>1, <1>2, <2>3, <3>3, Zenon
    <3> QED
      BY <2>3, <3>1, <3>2, <3>3
  <2>4. (X \ C) \cup G \subseteq DOMAIN h2.ents
    BY <1>2, <2>1
  <2> QED
    BY <2>2, <2>3, <2>4 DEF Tree
<1> QED
  BY <1>4, <1>5, <1>6, <1>7 DEF R

\* The last name of a path, and the directory it is in.
LEMMA PathSplit ==
  ASSUME NEW p \in Seq(Name), p # <<>>
  PROVE  /\ Front(p) \in Seq(Name) /\ Last(p) \in Name
         /\ p = Sub(Front(p), Last(p))
BY FrontAndLast DEF Sub

\* A move that is at P[cur], with rest to go, in the directory of its path.
LEMMA AboveCut ==
  ASSUME NEW p \in Seq(Name), p # <<>>, NEW l \in Seq(Name), NEW u \in Seq(Name),
         NEW rest \in Seq(Name), u \o rest = Front(p), Below(l, u)
  PROVE  Below(l, p)
<1>1. Below(l, Front(p))
  BY BelowFurther, Zenon
<1> QED
  BY <1>1, PathSplit, BelowSub

\* A step that gives an entry new ones keeps the root in a tree, and a move that
\* has been cut off from it in a tree of its own.
LEMMA StillPlanted ==
  ASSUME NEW h, HeapOK(h), NEW h2, HeapOK(h2), Grows(h, h2), NEW k \in DOMAIN h.ents,
         NEW K \in SUBSET Name, Regrown(h, h2, k, K), NEW q, Planted(h, q),
         q.op = "move" => q.path \in Seq(Name) /\ q.path # <<>> /\ q.rest \in Seq(Name)
  PROVE  Planted(h2, q)
<1>1. PICK P \in [Nat -> Seq(Name)], A \in SUBSET Nat, B \in SUBSET Nat :
        /\ 1 \in A /\ P[1] = <<>> /\ A \cap B = {}
        /\ Tree(h, A, P) /\ Tree(h, B, P)
        /\ Follows(h, q, A, B, P)
  BY Zenon DEF Planted
<1> DEFINE R == PathsOn(h, h2, k, P)
           G == Grown(h, h2, k)
           CA == Cut(A, P, k, K)
           CB == Cut(B, P, k, K)
           t == IF q.stage = "source" THEN q.cur ELSE q.src
<1>2. R \in [Nat -> Seq(Name)] /\ \A x \in DOMAIN h.ents : R[x] = P[x]
  <2> HIDE DEF R
  <2> QED
    BY PathsOnType DEF R
<1>3. /\ k \notin A => Tree(h2, A, R)
      /\ k \in A => Tree(h2, (A \ CA) \cup G, R) /\ Tree(h2, CA, R) /\ k \notin CA
  BY <1>1, TreeGrows, Zenon
<1>4. /\ k \notin B => Tree(h2, B, R)
      /\ k \in B => Tree(h2, (B \ CB) \cup G, R) /\ Tree(h2, CB, R) /\ k \notin CB
  BY <1>1, TreeGrows, Zenon
<1> HIDE DEF R
<1>5. /\ G \cap DOMAIN h.ents = {} /\ A \subseteq DOMAIN h.ents /\ B \subseteq DOMAIN h.ents
      /\ CA \subseteq A /\ CB \subseteq B
      /\ G \subseteq Nat
  <2>1. DOMAIN h2.ents = 1..Len(h2.ents) /\ Len(h2.ents) \in Nat
    BY Sized
  <2>2. \A u \in Nat : 1..u \subseteq Nat
    OBVIOUS
  <2>3. G \cap DOMAIN h.ents = {} /\ G \subseteq DOMAIN h2.ents
    BY DEF Grown
  <2>4. A \subseteq DOMAIN h.ents /\ B \subseteq DOMAIN h.ents
    BY <1>1 DEF Tree
  <2>5. CA \subseteq A /\ CB \subseteq B
    BY DEF Cut
  <2> QED
    BY <2>1, <2>2, <2>3, <2>4, <2>5, Zenon
<1>6. 1 \notin CA /\ R[1] = <<>>
  <2>1. P[k] \in Seq(Name)
    <3>1. DOMAIN h.ents = 1..Len(h.ents) /\ Len(h.ents) \in Nat
      BY Sized
    <3> QED
      BY <3>1
  <2>2. \A n \in K : ~Below(Sub(P[k], n), P[1])
    BY <1>1, <2>1, BelowSub
  <2> QED
    BY <1>1, <1>2, <1>5, <2>2, Zenon DEF Cut
\* What was above the cut keeps what it had.
<1>7. ASSUME k \in A, q.op = "move", t \in A \ CA, t \notin B PROVE Follows(h2, q, (A \ CA) \cup G, {}, R)
  <2> DEFINE A2 == (A \ CA) \cup G
  <2>1. P[k] \in Seq(Name) /\ \A x \in A : P[x] \in Seq(Name)
    BY <1>1, <1>7
  <2>2. ASSUME NEW x \in A, Below(P[x], q.path), t = q.src, P[q.src] = q.path
        PROVE  x \in A2 /\ R[x] = P[x]
    <3>1. ASSUME NEW n \in K, Below(Sub(P[k], n), P[x]) PROVE FALSE
      <4>1. PICK l \in Seq(Name) : l = Sub(P[k], n)
        BY <2>1, SubType, Zenon
      <4>2. PICK r \in Seq(Name) : q.path = P[x] \o r
        BY <2>2, Zenon DEF Below
      <4>3. Below(l, P[q.src])
        BY <2>1, <2>2, <3>1, <4>1, <4>2, BelowFurther
      <4> QED
        BY <1>7, <2>2, <4>1, <4>3, Zenon DEF Cut
    <3>2. x \in A \ CA
      BY <3>1 DEF Cut
    <3> QED
      BY <1>2, <1>5, <3>2, Zenon
  <2>3. CASE q.stage = "source"
    BY <1>1, <1>2, <1>5, <1>7, <2>3 DEF Follows
  <2>4. CASE q.stage = "origin"
    <3>1. /\ t = q.src /\ q.src \in A /\ P[q.src] = q.path
          /\ q.cur \in A /\ P[q.cur] \o q.rest = Front(q.path)
      BY <1>1, <1>7, <2>4, Zenon DEF Follows
    <3>2. q.src \in A2 /\ R[q.src] = P[q.src]
      BY <1>2, <1>5, <1>7, <3>1, Zenon
    <3>3. Below(P[q.cur], q.path)
      <4>1. PICK u \in Seq(Name) : u = P[q.cur]
        BY <2>1, <3>1, Zenon
      <4>2. q.path \in Seq(Name) /\ q.path # <<>> /\ q.rest \in Seq(Name)
        BY <1>7
      <4>3. Below(u, u)
        BY BelowItself
      <4>4. u \o q.rest = Front(q.path)
        BY <3>1, <4>1, Zenon
      <4> QED
        BY <4>1, <4>2, <4>3, <4>4, AboveCut, Zenon
    <3>4. q.cur \in A2 /\ R[q.cur] = P[q.cur]
      BY <2>2, <3>1, <3>3, Zenon
    <3> HIDE DEF A2
    <3> QED
      BY <2>4, <3>1, <3>2, <3>4, Zenon DEF Follows, A2
  <2>5. CASE q.stage = "target"
    <3>1. t = q.src /\ q.src \in A /\ P[q.src] = q.path
      BY <1>1, <1>7, <2>5 DEF Follows
    <3>2. PICK e \in A : P[e] = Front(q.path) /\ h.ents[e].map = q.from
      BY <1>1, <1>7, <2>5 DEF Follows
    <3>3. q.src \in A2 /\ R[q.src] = P[q.src]
      BY <1>2, <1>5, <1>7, <3>1, Zenon
    <3>4. /\ q.path \in Seq(Name) /\ q.path # <<>>
          /\ Front(q.path) \in Seq(Name) /\ Last(q.path) \in Name
          /\ q.path = Sub(Front(q.path), Last(q.path))
      BY <1>7, PathSplit, Zenon
    <3>5. Below(P[e], q.path)
      <4>1. Below(Front(q.path), Front(q.path))
        BY <3>4, BelowItself
      <4> QED
        BY <3>2, <3>4, <4>1, BelowSub
    <3>6. e \in A2 /\ R[e] = P[e]
      BY <2>2, <3>1, <3>5
    <3>7. h2.ents[e].map = h.ents[e].map
      <4> SUFFICES ASSUME e = k, K = Name PROVE FALSE
        BY <1>5 DEF Regrown
      <4>1. Sub(P[k], Last(q.path)) = P[q.src]
        BY <3>1, <3>2, <3>4
      <4>2. Below(Sub(P[k], Last(q.path)), P[q.src])
        BY <2>1, <3>1, <4>1, BelowItself, Zenon
      <4> QED
        BY <1>7, <3>1, <3>4, <4>2, Zenon DEF Cut
    <3> HIDE DEF A2
    <3> QED
      BY <2>5, <3>1, <3>2, <3>3, <3>6, <3>7 DEF Follows, A2
  <2>6. CASE q.stage \notin {"source", "origin", "target"}
    BY <2>6, Zenon DEF Follows
  <2> QED
    BY <2>3, <2>4, <2>5, <2>6
\* What follows the tree that was cut off goes on in it.
<1>8. ASSUME NEW X, NEW Y, q.op = "move" => t \in Y PROVE Follows(h2, q, X, Y, R)
  BY <1>8, Zenon DEF Follows
<1>9. CASE k \in A
  <2>1. 1 \in (A \ CA) \cup G /\ (A \ CA) \cup G \in SUBSET Nat /\ k \notin B
    BY <1>1, <1>5, <1>6, <1>9, Zenon
  <2>2. CASE q.op = "move" => t \in B
    <3>1. Follows(h2, q, (A \ CA) \cup G, B, R)
      BY <1>8, <2>2
    <3>2. ((A \ CA) \cup G) \cap B = {}
      BY <1>1, <1>5, Zenon
    <3> QED
      BY <1>1, <1>2, <1>3, <1>4, <1>6, <1>9, <2>1, <3>1, <3>2, Zenon DEF Planted
  <2>3. CASE q.op = "move" /\ t \in CA
    <3>1. Follows(h2, q, (A \ CA) \cup G, CA, R)
      BY <1>8, <2>3
    <3>2. ((A \ CA) \cup G) \cap CA = {} /\ CA \in SUBSET Nat
      BY <1>1, <1>5, Zenon
    <3> QED
      BY <1>2, <1>3, <1>6, <1>9, <2>1, <3>1, <3>2, Zenon DEF Planted
  <2>4. CASE q.op = "move" /\ t \notin CA /\ t \notin B
    <3>1. q.stage \in {"source", "origin", "target"} => t \in A
      BY <1>1, <2>4, Zenon DEF Follows
    <3>2. Follows(h2, q, (A \ CA) \cup G, {}, R)
      BY <1>7, <1>9, <2>4, <3>1 DEF Follows
    <3>3. Tree(h2, {}, R)
      BY DEF Tree
    <3> QED
      BY <1>2, <1>3, <1>6, <1>9, <2>1, <3>2, <3>3, Zenon DEF Planted
  <2> QED
    BY <2>2, <2>3, <2>4
\* The tree of the root is not touched.
<1>10. ASSUME NEW Y, k \notin A, Follows(h, q, A, {}, P), q.op = "move" PROVE Follows(h2, q, A, Y, R)
  BY <1>2, <1>5, <1>10 DEF Regrown, Follows
<1>11. CASE k \notin A /\ (q.op = "move" => t \in B)
  <2>1. CASE k \notin B
    <3>1. Follows(h2, q, A, B, R)
      BY <1>8, <1>11
    <3> QED
      BY <1>1, <1>2, <1>3, <1>4, <1>6, <1>11, <2>1, <3>1, Zenon DEF Planted
  <2>2. CASE k \in B /\ (q.op = "move" => t \in CB)
    <3>1. Follows(h2, q, A, CB, R)
      BY <1>8, <2>2
    <3>2. A \cap CB = {} /\ CB \in SUBSET Nat
      BY <1>1, <1>5, Zenon
    <3> QED
      BY <1>1, <1>2, <1>3, <1>4, <1>6, <1>11, <2>2, <3>1, <3>2, Zenon DEF Planted
  <2>3. CASE k \in B /\ q.op = "move" /\ t \notin CB
    <3>1. Follows(h2, q, A, (B \ CB) \cup G, R)
      BY <1>8, <1>11, <2>3, Zenon
    <3>2. A \cap ((B \ CB) \cup G) = {} /\ (B \ CB) \cup G \in SUBSET Nat
      BY <1>1, <1>5, Zenon
    <3> QED
      BY <1>1, <1>2, <1>3, <1>4, <1>6, <1>11, <2>3, <3>1, <3>2, Zenon DEF Planted
  <2> QED
    BY <2>1, <2>2, <2>3
<1>12. CASE k \notin A /\ q.op = "move" /\ t \notin B
  <2>1. Follows(h, q, A, {}, P)
    BY <1>1, <1>12, Zenon DEF Follows
  <2>2. Follows(h2, q, A, {}, R)
    BY <1>10, <1>12, <2>1
  <2>3. Tree(h2, {}, R)
    BY DEF Tree
  <2> QED
    BY <1>1, <1>2, <1>3, <1>6, <1>12, <2>2, <2>3, Zenon DEF Planted
<1> QED
  BY <1>9, <1>11, <1>12

\* Nothing is above the root.
LEMMA NothingAbove ==
  \A u, r \in Seq(Name) : <<>> = u \o r => u = <<>>
<1> SUFFICES ASSUME NEW u \in Seq(Name), NEW r \in Seq(Name), <<>> = u \o r PROVE u = <<>>
  OBVIOUS
<1>1. u \o r = <<>>
  OBVIOUS
<1>2. \A S : \A x, y \in Seq(S) : x \o y = <<>> => x = <<>> /\ y = <<>>
  BY ConcatSimplifications
<1> QED
  BY <1>1, <1>2

\* The path something has after a move, and that of its children.
LEMMA MovedIs ==
  ASSUME NEW p \in Seq(Name), NEW l \in Seq(Name), NEW q \in Seq(Name), Below(p, q)
  PROVE  /\ Moved(p, l, q) \in Seq(Name)
         /\ Below(l, Moved(p, l, q))
         /\ \A n \in Name : Moved(p, l, Sub(q, n)) = Sub(Moved(p, l, q), n)
         /\ Moved(p, l, p) = l
<1>1. /\ Beyond(p, q) \in Seq(Name)
      /\ \A n \in Name : Beyond(p, Append(q, n)) = Append(Beyond(p, q), n)
  BY BeyondIs
<1>2. Moved(p, l, q) \in Seq(Name) /\ Below(l, Moved(p, l, q))
  BY <1>1, ConcatProperties, Zenon DEF Moved, Below
<1>3. ASSUME NEW n \in Name PROVE Moved(p, l, Sub(q, n)) = Sub(Moved(p, l, q), n)
  <2>1. PICK r \in Seq(Name) : r = Beyond(p, q)
    BY <1>1
  <2>2. <<n>> \in Seq(Name) /\ Append(r, n) = r \o <<n>> /\ l \o r \in Seq(Name)
    BY AppendIsConcat, ConcatProperties
  <2>3. l \o (r \o <<n>>) = (l \o r) \o <<n>>
    BY <2>2, ConcatAssociative
  <2>4. Append(l \o r, n) = (l \o r) \o <<n>>
    BY <2>2, AppendIsConcat
  <2> QED
    BY <1>1, <2>1, <2>2, <2>3, <2>4, Zenon DEF Moved, Sub
<1>4. Moved(p, l, p) = l
  <2>1. Beyond(p, p) \in Seq(Name) /\ p = p \o Beyond(p, p)
    BY BelowItself, BeyondIs, Zenon
  <2>2. Beyond(p, p) = <<>>
    <3>1. PICK r \in Seq(Name) : r = Beyond(p, p)
      BY <2>1
    <3>2. p \o r = p
      BY <2>1, <3>1
    <3> QED
      BY <3>1, <3>2, ConcatEqualIffEmpty
  <2> QED
    BY <2>2, ConcatEmptySeq DEF Moved
<1> QED
  BY <1>2, <1>3, <1>4

\* A move leaves the root in a tree.
LEMMA Grafted ==
  ASSUME NEW h, HeapOK(h), NEW h2, h2.ents = h.ents, NEW A, NEW X, NEW P, NEW k, NEW n, NEW s,
         NEW from, NEW j, CanGraft(h, A, X, P, k, n, s, from, j),
         Relinked(h, h2, k, n, s, from, j)
  PROVE  Planted(h2, NoCall)
<1>0. /\ P \in [Nat -> Seq(Name)] /\ A \in SUBSET Nat /\ X \in SUBSET Nat
      /\ Tree(h, A, P) /\ Tree(h, X, P) /\ (X = A \/ A \cap X = {})
      /\ 1 \in A /\ P[1] = <<>> /\ s \in X /\ k \in A /\ n \in Name /\ j \in Name
      /\ X = A => P[s] # <<>>
      /\ k \in X => ~Below(P[s], P[k])
      /\ \A e \in A : \A i \in Name :
           X = A /\ Link(h, e, i, s) => h.ents[e].map = from /\ i = j
  BY Zenon DEF CanGraft
<1> USE <1>0
<1> DEFINE l == Sub(P[k], n)
           S == {d \in X : Below(P[s], P[d])}
           C == {d \in A : Below(l, P[d])}
           R == [x \in Nat |-> IF x \in S THEN Moved(P[s], l, P[x]) ELSE P[x]]
           T == ((A \ C) \ S) \cup S
<1>1. /\ A \subseteq DOMAIN h.ents /\ X \subseteq DOMAIN h.ents
      /\ \A e \in A : \A i \in Name : \A x : Link(h, e, i, x) => x \in A /\ P[x] = Sub(P[e], i)
      /\ \A e \in X : \A i \in Name : \A x : Link(h, e, i, x) => x \in X /\ P[x] = Sub(P[e], i)
      /\ \A e, f \in A : P[e] = P[f] => e = f
      /\ \A e, f \in X : P[e] = P[f] => e = f
  BY Zenon DEF Tree
<1>2. /\ P[s] \in Seq(Name) /\ P[k] \in Seq(Name) /\ l \in Seq(Name) /\ l # <<>>
      /\ \A x \in A : P[x] \in Seq(Name)
      /\ \A x \in X : P[x] \in Seq(Name)
  <2>1. P[s] \in Seq(Name) /\ P[k] \in Seq(Name)
    BY Zenon
  <2> QED
    BY <2>1, SubType, Zenon
<1>3. s \in S /\ S \subseteq X /\ k \notin S /\ S \subseteq Nat
  BY <1>2, BelowItself, Zenon
<1>4. \A x \in S : /\ Moved(P[s], l, P[x]) \in Seq(Name) /\ Below(l, Moved(P[s], l, P[x]))
                   /\ \A i \in Name : Moved(P[s], l, Sub(P[x], i)) = Sub(Moved(P[s], l, P[x]), i)
  <2> TAKE x \in S
  <2>1. PICK u \in Seq(Name), v \in Seq(Name) : u = P[s] /\ v = P[x] /\ Below(u, v)
    BY <1>2
  <2>2. PICK w \in Seq(Name) : w = l
    BY <1>2
  <2>3. /\ Moved(u, w, v) \in Seq(Name) /\ Below(w, Moved(u, w, v))
        /\ \A i \in Name : Moved(u, w, Sub(v, i)) = Sub(Moved(u, w, v), i)
    BY <2>1, MovedIs
  <2> HIDE DEF l
  <2> QED
    BY <2>1, <2>2, <2>3
<1>5. Moved(P[s], l, P[s]) = l
  <2>1. PICK u \in Seq(Name) : u = P[s]
    BY <1>2, Zenon
  <2>2. Below(u, u)
    BY BelowItself
  <2> HIDE DEF l
  <2> QED
    BY <1>2, <2>1, <2>2, MovedIs, Zenon
<1> HIDE DEF l
<1>6. R \in [Nat -> Seq(Name)]
  BY <1>4, Zenon
<1>7. \A x \in S : R[x] = Moved(P[s], l, P[x])
  BY <1>3
<1>8. \A x \in A \ S : R[x] = P[x]
  BY Zenon
<1> HIDE DEF R
<1>9. \A x \in S : \A i \in Name : \A y : Link(h, x, i, y) => y \in S /\ R[y] = Sub(R[x], i)
  <2> SUFFICES ASSUME NEW x \in S, NEW i \in Name, NEW y, Link(h, x, i, y)
               PROVE  y \in S /\ R[y] = Sub(R[x], i)
    BY Zenon
  <2>1. y \in X /\ P[y] = Sub(P[x], i)
    BY <1>1, <1>3
  <2>2. y \in S
    <3>1. PICK u \in Seq(Name), v \in Seq(Name) : u = P[s] /\ v = P[x] /\ Below(u, v)
      BY <1>2, Zenon
    <3>2. Below(u, Sub(v, i))
      BY <3>1, BelowSub
    <3> QED
      BY <2>1, <3>1, <3>2
  <2> QED
    BY <1>4, <1>7, <2>1, <2>2
<1>10. ASSUME NEW e \in T, NEW i \in Name, NEW x, Link(h2, e, i, x)
       PROVE  x \in T /\ R[x] = Sub(R[e], i)
  <2>1. e \in DOMAIN h.ents
    BY <1>1, <1>3, Zenon
  <2>2. CASE e = k /\ i = n
    BY <1>3, <1>5, <1>7, <1>8, <1>10, <2>1, <2>2 DEF Relinked, l
  <2>3. CASE ~(e = k /\ i = n)
    <3>1. Link(h, e, i, x) /\ ~(h.ents[e].map = from /\ i = j)
      BY <1>10, <2>1, <2>3 DEF Relinked
    <3>2. CASE e \in S
      BY <1>9, <3>1, <3>2
    <3>3. CASE e \in (A \ C) \ S
      <4>1. x \in A /\ P[x] = Sub(P[e], i)
        BY <1>1, <3>1, <3>3
      <4>2. x \notin S
        <5> SUFFICES ASSUME x \in S PROVE FALSE
          OBVIOUS
        <5>1. X = A
          BY <1>3, <4>1
        <5>2. ~Below(P[s], P[e])
          BY <3>3, <5>1
        <5>3. P[s] = P[x]
          <6>1. PICK u \in Seq(Name), v \in Seq(Name) : u = P[s] /\ v = P[e]
            BY <1>2, <3>3, Zenon
          <6>2. Below(u, Sub(v, i)) /\ ~Below(u, v)
            BY <4>1, <5>2, <6>1
          <6> QED
            BY <4>1, <6>1, <6>2, BelowSub
        <5>4. x = s
          BY <1>1, <1>3, <5>1, <5>3, Zenon
        <5> QED
          BY <3>1, <3>3, <5>1, <5>4
      <4>3. x \notin C
        <5> SUFFICES ASSUME Below(l, P[x]) PROVE FALSE
          OBVIOUS
        <5>1. PICK u \in Seq(Name), v \in Seq(Name) : u = P[k] /\ v = P[e]
          BY <1>2, <3>3, Zenon
        <5>2. ~Below(l, v)
          BY <3>3, <5>1
        <5>3. l = Sub(v, i)
          <6>1. Below(l, Sub(v, i))
            BY <4>1, <5>1
          <6> QED
            BY <1>2, <5>1, <5>2, <6>1, BelowSub, Zenon
        <5>4. u = v /\ n = i
          <6>1. Sub(u, n) = Sub(v, i)
            BY <5>1, <5>3 DEF l
          <6> QED
            BY <6>1, SameSub
        <5> QED
          BY <1>1, <2>3, <3>3, <5>1, <5>4, Zenon
      <4> QED
        BY <1>8, <3>3, <4>1, <4>2, <4>3, Zenon
    <3> QED
      BY <3>2, <3>3
  <2> QED
    BY <2>2, <2>3
<1>11. ASSUME NEW e \in T, NEW f \in T, R[e] = R[f] PROVE e = f
  <2>1. ASSUME NEW x \in S, NEW y \in (A \ C) \ S, R[x] = R[y] PROVE FALSE
    <3>1. Below(l, P[y])
      BY <1>4, <1>7, <1>8, <2>1, Zenon
    <3> QED
      BY <3>1
  <2>2. CASE e \in S /\ f \in S
    <3>1. Moved(P[s], l, P[e]) = Moved(P[s], l, P[f])
      BY <1>7, <1>11, <2>2
    <3>2. PICK u \in Seq(Name), v \in Seq(Name), w \in Seq(Name) :
            u = P[s] /\ v = P[e] /\ w = P[f] /\ Below(u, v) /\ Below(u, w)
      BY <1>2, <2>2, Zenon
    <3>3. v = w
      BY <1>2, <3>1, <3>2, Rebased, Zenon DEF Moved
    <3> QED
      BY <1>1, <2>2, <3>2, <3>3, Zenon
  <2>3. CASE e \in (A \ C) \ S /\ f \in (A \ C) \ S
    <3>1. e \in A \ S /\ f \in A \ S /\ e \in A /\ f \in A
      BY <2>3
    <3>2. R[e] = P[e] /\ R[f] = P[f]
      BY <1>8, <3>1, Zenon
    <3>3. P[e] = P[f]
      BY <1>11, <3>2
    <3> QED
      BY <1>1, <3>1, <3>3, Zenon
  <2> QED
    BY <1>11, <2>1, <2>2, <2>3, Zenon
<1>12. 1 \in T /\ R[1] = <<>>
  <2>1. 1 \notin C
    <3>1. PICK u \in Seq(Name) : u = P[k]
      BY <1>2, Zenon
    <3>2. ~Below(Sub(u, n), <<>>)
      BY <3>1, BelowSub
    <3> QED
      BY <3>1, <3>2 DEF l
  <2>2. 1 \notin S
    <3> SUFFICES ASSUME 1 \in S PROVE FALSE
      OBVIOUS
    <3>1. X = A /\ P[s] # <<>> /\ Below(P[s], <<>>)
      BY <1>3, Zenon
    <3>2. PICK u \in Seq(Name), r \in Seq(Name) : u = P[s] /\ <<>> = u \o r
      BY <1>2, <3>1 DEF Below
    <3>3. u = <<>>
      BY <3>2, NothingAbove, Zenon
    <3> QED
      BY <3>1, <3>2, <3>3
  <2> QED
    BY <1>8, <2>1, <2>2, Zenon
<1>13. T \subseteq DOMAIN h2.ents /\ T \in SUBSET Nat
  BY <1>1, <1>3, Zenon
<1> HIDE DEF T
<1>14. Tree(h2, T, R)
  BY <1>10, <1>11, <1>13, Zenon DEF Tree
<1>15. Tree(h2, {}, R) /\ Follows(h2, NoCall, T, {}, R)
  BY DEF Tree, Follows, NoCall
<1> QED
  BY <1>6, <1>12, <1>13, <1>14, <1>15, Zenon DEF Planted

\* The last step of a move leaves the root in a tree.
LEMMA MoveKeepsTree ==
  ASSUME NEW h, HeapOK(h), NEW h2, h2.ents = h.ents, NEW q, Planted(h, q),
         q.op = "move", q.stage = "target", q.path \in Seq(Name), q.path # <<>>,
         NEW k \in DOMAIN h.ents, NEW n \in Name, q.src \in DOMAIN h.ents,
         Relinked(h, h2, k, n, q.src, q.from, Last(q.path))
  PROVE  Planted(h2, NoCall)
<1>1. PICK P \in [Nat -> Seq(Name)], A \in SUBSET Nat, B \in SUBSET Nat :
        /\ 1 \in A /\ P[1] = <<>> /\ A \cap B = {}
        /\ Tree(h, A, P) /\ Tree(h, B, P)
        /\ Follows(h, q, A, B, P)
  BY Zenon DEF Planted
<1> DEFINE s == q.src
           j == Last(q.path)
<1>2. /\ Front(q.path) \in Seq(Name) /\ j \in Name /\ q.path = Sub(Front(q.path), j)
  BY PathSplit
<1>3. \A X \in SUBSET Nat : Tree(h2, X, P) /\ 1 \in X => Planted(h2, NoCall)
  <2>1. \A X \in SUBSET Nat : Follows(h2, NoCall, X, {}, P)
    BY DEF Follows, NoCall
  <2>2. Tree(h2, {}, P)
    BY DEF Tree
  <2> QED
    BY <1>1, <2>1, <2>2, Zenon DEF Planted
<1>4. /\ A \subseteq DOMAIN h.ents
      /\ \A e \in A : \A i \in Name : \A x : Link(h, e, i, x) => x \in A /\ P[x] = Sub(P[e], i)
      /\ \A e, f \in A : P[e] = P[f] => e = f
      /\ \A e \in A : e \in Nat /\ P[e] \in Seq(Name)
  BY <1>1, Zenon DEF Tree
\* The target directory is not in the tree of the root: neither will s be.
<1>5. CASE k \notin A
  <2>1. Tree(h2, A, P)
    BY <1>4, <1>5 DEF Relinked, Tree
  <2> QED
    BY <1>1, <1>3, <2>1
<1>6. CASE k \in A /\ s \in B
  <2>1. B # A /\ k \notin B
    BY <1>1, <1>6, Zenon
  <2>2. CanGraft(h, A, B, P, k, n, s, q.from, j)
    BY <1>1, <1>2, <1>6, <2>1, Zenon DEF CanGraft
  <2> QED
    BY <2>2, Grafted
<1>7. CASE k \in A /\ s \notin B
  <2>1. s \in A /\ P[s] = q.path
    BY <1>1, <1>7 DEF Follows
  <2>2. PICK o \in A : P[o] = Front(q.path) /\ h.ents[o].map = q.from
    BY <1>1, <1>7 DEF Follows
  <2>3. ASSUME NEW e \in A, NEW i \in Name, Link(h, e, i, s)
        PROVE  h.ents[e].map = q.from /\ i = j
    <3>1. Sub(P[e], i) = Sub(P[o], j)
      BY <1>2, <1>4, <2>1, <2>2, <2>3, SMTT(30)
    <3>2. PICK u \in Seq(Name), v \in Seq(Name) : u = P[e] /\ v = P[o]
      BY <1>4, Zenon
    <3>3. u = v /\ i = j
      <4>1. Sub(u, i) = Sub(v, j)
        BY <3>1, <3>2
      <4> QED
        BY <1>2, <4>1, SameSub
    <3>4. e = o
      BY <1>4, <3>2, <3>3, Zenon
    <3> QED
      BY <2>2, <3>3, <3>4
  <2>4. CASE ~Below(P[s], P[k])
    <3>1. P[s] # <<>>
      BY <2>1
    <3>2. CanGraft(h, A, A, P, k, n, s, q.from, j)
      BY <1>1, <1>2, <1>7, <2>1, <2>3, <2>4, <3>1, Zenon DEF CanGraft
    <3> QED
      BY <3>2, Grafted
  \* A directory is moved into itself, and is gone.
  <2>5. CASE Below(P[s], P[k])
    <3> DEFINE T == {d \in A : ~Below(P[s], P[d])}
    <3>1. ASSUME NEW e \in T, NEW i \in Name, NEW x, Link(h2, e, i, x)
          PROVE  x \in T /\ P[x] = Sub(P[e], i)
      <4>1. e \in DOMAIN h.ents /\ e # k
        BY <1>4, <2>5, Zenon
      <4>2. Link(h, e, i, x) /\ ~(h.ents[e].map = q.from /\ i = j)
        BY <3>1, <4>1, Zenon DEF Relinked
      <4>3. x \in A /\ P[x] = Sub(P[e], i)
        BY <1>4, <4>2
      <4>4. ~Below(P[s], P[x])
        <5> SUFFICES ASSUME Below(P[s], P[x]) PROVE FALSE
          OBVIOUS
        <5>1. PICK u \in Seq(Name), v \in Seq(Name) : u = P[s] /\ v = P[e]
          BY <1>4, <2>1, Zenon
        <5>2. Below(u, Sub(v, i)) /\ ~Below(u, v)
          BY <4>3, <5>1
        <5>3. P[s] = P[x]
          BY <4>3, <5>1, <5>2, BelowSub, Zenon
        <5>4. x = s
          BY <1>4, <2>1, <4>3, <5>3, Zenon
        <5> QED
          BY <2>3, <4>2, <5>4
      <4> QED
        BY <4>3, <4>4
    <3>2. 1 \in T
      <4> SUFFICES ASSUME Below(q.path, <<>>) PROVE FALSE
        BY <1>1, <2>1
      <4>1. PICK r \in Seq(Name) : <<>> = q.path \o r
        BY Zenon DEF Below
      <4> QED
        BY <4>1, NothingAbove, Zenon
    <3>3. T \subseteq A
      OBVIOUS
    <3> HIDE DEF T
    <3>4. Tree(h2, T, P)
      BY <1>4, <3>1, <3>3, Zenon DEF Tree
    <3> QED
      BY <1>3, <3>2, <3>3, <3>4
  <2> QED
    BY <2>4, <2>5
<1> QED
  BY <1>5, <1>6, <1>7

\* A path that goes on with the first segment of z and then the others goes on with z.
LEMMA HeadFirst ==
  ASSUME NEW u \in Seq(Name), NEW z \in Seq(Name), z # <<>>
  PROVE  /\ Head(z) \in Name /\ Tail(z) \in Seq(Name)
         /\ Sub(u, Head(z)) \o Tail(z) = u \o z
<1>1. PICK n \in Name, y \in Seq(Name) : n = Head(z) /\ y = Tail(z)
  BY HeadTailProperties, Zenon
<1>2. PICK one \in Seq(Name) : one = <<n>>
  <2>1. <<n>> \in Seq(Name)
    OBVIOUS
  <2> QED
    BY <2>1, Zenon
<1>3. Len(one) = 1 /\ one[1] = n
  BY <1>2
<1>4. /\ Len(z) \in Nat /\ Len(z) >= 1 /\ Len(y) = Len(z) - 1 /\ Len(y) \in Nat
      /\ \A i \in 1..Len(y) : y[i] = z[i + 1]
      /\ n = z[1]
  BY <1>1, HeadTailProperties, LenProperties, EmptySeq
<1>5. PICK t \in Seq(Name) : t = one \o y
  BY ConcatProperties, Zenon
<1>6. Len(t) = 1 + Len(y) /\ \A i \in 1..(1 + Len(y)) : t[i] = IF i <= 1 THEN one[i] ELSE y[i - 1]
  <2>1. /\ Len(one \o y) = Len(one) + Len(y)
        /\ \A i \in 1..(Len(one) + Len(y)) :
             (one \o y)[i] = IF i <= Len(one) THEN one[i] ELSE y[i - Len(one)]
    BY ConcatProperties
  <2> QED
    BY <1>3, <1>5, <2>1, Zenon
<1>7. Len(t) = Len(z)
  BY <1>4, <1>6
<1>8. \A i \in 1..Len(z) : t[i] = z[i]
  BY <1>3, <1>4, <1>6, <1>7
<1>9. t = z
  BY <1>7, <1>8, SeqEqual
<1>10. (u \o one) \o y = u \o (one \o y)
  BY ConcatAssociative
<1>11. Append(u, n) = u \o <<n>>
  BY AppendIsConcat
<1> QED
  BY <1>1, <1>2, <1>5, <1>9, <1>10, <1>11 DEF Sub

-----------------------------------------------------------------------------
(* Builds. *)

\* A set of numbers that is not empty has a least one.
LEMMA LeastOne ==
  ASSUME NEW S \in SUBSET Nat, S # {}
  PROVE  \E n \in S : \A m \in S : n <= m
<1> DEFINE R == OpToRel(<, Nat)
<1>1. IsWellFoundedOn(R, Nat)
  BY NatLessThanWellFounded, Zenon
<1>2. \A m, n \in Nat : m < n => <<m, n>> \in R
  BY DEF OpToRel
<1> HIDE DEF R
<1>3. PICK n \in S : \A m \in S : ~(<<m, n>> \in R)
  BY <1>1, WFMin, Zenon
<1>4. \A m \in S : ~(m < n)
  BY <1>2, <1>3, Zenon
<1>5. \A m \in S : n <= m
  BY <1>4
<1> QED
  BY <1>5

\* There is no circle where entries have paths.
LEMMA RegionSourced ==
  ASSUME NEW h, NEW P \in [Nat -> Seq(Name)], NEW R \in SUBSET Nat, Region(h, R, P),
         NEW S \in SUBSET R, S # {}
  PROVE  \E e \in S : \A f \in S, n \in Name : ~Link(h, f, n, e)
<1> DEFINE L == {Len(P[e]) : e \in S}
<1>1. \A e \in S : P[e] \in Seq(Name) /\ Len(P[e]) \in Nat
  BY LenProperties
<1>2. L \in SUBSET Nat /\ L # {}
  BY <1>1, Zenon
<1>3. PICK l \in L : \A u \in L : l <= u
  BY <1>2, LeastOne, Zenon
<1>4. PICK e \in S : l = Len(P[e])
  BY <1>3
<1>5. ASSUME NEW f \in S, NEW n \in Name, Link(h, f, n, e) PROVE FALSE
  <2>1. P[e] = Append(P[f], n)
    BY <1>5 DEF Region, Sub
  <2>2. Len(P[e]) = Len(P[f]) + 1
    BY <1>1, <2>1, AppendProperties
  <2>3. l <= Len(P[f])
    BY <1>3, Zenon
  <2> QED
    BY <1>1, <1>4, <2>2, <2>3
<1> QED
  BY <1>5

\* New entries below k get the paths that follow from that of k.
LEMMA RegionGrows ==
  ASSUME NEW h, HeapOK(h), NEW h2, HeapOK(h2), Grows(h, h2), NEW k \in DOMAIN h.ents,
         NEW K \in SUBSET Name, Regrown(h, h2, k, K), NEW P \in [Nat -> Seq(Name)],
         NEW R \in SUBSET Nat, Region(h, R, P)
  PROVE  \E Q \in [Nat -> Seq(Name)], T \in SUBSET Nat :
           Region(h2, T, Q) /\ R \subseteq T /\ \A x \in R : Q[x] = P[x]
<1> DEFINE Q == PathsOn(h, h2, k, P)
           T == IF k \in R THEN R \cup Grown(h, h2, k) ELSE R
<1>1. /\ Q \in [Nat -> Seq(Name)]
      /\ \A x \in DOMAIN h.ents : x \in Nat /\ Q[x] = P[x]
      /\ \A n \in Name : \A x : x \notin DOMAIN h.ents /\ Link(h2, k, n, x)
           => x \in Nat /\ Q[x] = Sub(P[k], n)
  <2> HIDE DEF Q
  <2>1. /\ Q \in [Nat -> Seq(Name)]
        /\ \A x \in DOMAIN h.ents : x \in Nat /\ Q[x] = P[x]
        /\ \A n \in Name : \A x : x \notin DOMAIN h.ents /\ Link(h2, k, n, x)
             => x \in Nat /\ Q[x] = Sub(P[k], n) /\ n \in K
    BY PathsOnType, Zenon DEF Q
  <2> QED
    BY <2>1, Zenon
<1> HIDE DEF Q
<1>2. /\ R \subseteq DOMAIN h.ents /\ DOMAIN h.ents \subseteq DOMAIN h2.ents
      /\ \A e \in R, n \in Name : \A x : Link(h, e, n, x) => x \in R /\ P[x] = Sub(P[e], n)
  BY Zenon DEF Region, Grows
<1>3. Grown(h, h2, k) \subseteq DOMAIN h2.ents \ DOMAIN h.ents
  BY DEF Grown
<1>4. R \subseteq T /\ T \subseteq DOMAIN h2.ents
  BY <1>2, <1>3, Zenon
<1>5. DOMAIN h2.ents \subseteq Nat
  <2>1. DOMAIN h2.ents = 1..Len(h2.ents) /\ Len(h2.ents) \in Nat
    BY Sized
  <2> QED
    BY <2>1
<1>6. T \in SUBSET Nat
  BY <1>4, <1>5
<1>7. ASSUME NEW e \in T, NEW n \in Name, NEW x, Link(h2, e, n, x)
      PROVE  x \in T /\ Q[x] = Sub(Q[e], n)
  <2>0. e \in DOMAIN h2.ents
    BY <1>4
  <2>1. CASE e \in DOMAIN h.ents /\ Link(h, e, n, x)
    <3>1. e \in R
      BY <1>3, <2>1
    <3>2. x \in R /\ P[x] = Sub(P[e], n)
      BY <1>2, <2>1, <3>1, Zenon
    <3>3. Q[x] = P[x] /\ Q[e] = P[e]
      BY <1>1, <1>2, <3>1, <3>2
    <3> QED
      BY <1>4, <3>2, <3>3
  <2>2. CASE e = k /\ x \in DOMAIN h2.ents \ DOMAIN h.ents
    BY <1>1, <1>3, <1>7, <2>2 DEF Grown
  <2> QED
    BY <1>7, <2>0, <2>1, <2>2 DEF Regrown
<1>8. Region(h2, T, Q)
  BY <1>4, <1>7 DEF Region
<1>9. \A x \in R : Q[x] = P[x]
  BY <1>1, <1>2
<1> QED
  BY <1>1, <1>4, <1>6, <1>8, <1>9, Zenon

\* A step that gives an entry new ones leaves a move on its course.
LEMMA StaysOnCourse ==
  ASSUME NEW h, HeapOK(h), NEW h2, HeapOK(h2), Grows(h, h2), NEW k \in DOMAIN h.ents,
         NEW K \in SUBSET Name, Regrown(h, h2, k, K), NEW q, OnCourse(h, q)
  PROVE  OnCourse(h2, q)
<1> SUFFICES ASSUME q.op = "move" PROVE OnCourse(h2, q)
  BY Zenon DEF OnCourse
<1>1. PICK P \in [Nat -> Seq(Name)], R \in SUBSET Nat :
        /\ 1 \in R /\ P[1] = <<>> /\ Region(h, R, P)
        /\ q.stage = "source" => q.cur \in R /\ P[q.cur] \o q.rest = Front(q.path)
        /\ q.stage # "source" => q.src \in R /\ P[q.src] = q.path
        /\ q.stage = "target" => q.cur \in R /\ P[q.cur] \o q.rest = Front(q.dst)
  BY Zenon DEF OnCourse
<1>2. PICK Q \in [Nat -> Seq(Name)], T \in SUBSET Nat :
        Region(h2, T, Q) /\ R \subseteq T /\ \A x \in R : Q[x] = P[x]
  BY <1>1, RegionGrows, Zenon
<1>3. 1 \in T /\ Q[1] = <<>>
  BY <1>1, <1>2
<1>4. q.stage = "source" => q.cur \in T /\ Q[q.cur] \o q.rest = Front(q.path)
  BY <1>1, <1>2, Zenon
<1>5. q.stage # "source" => q.src \in T /\ Q[q.src] = q.path
  BY <1>1, <1>2, Zenon
<1>6. q.stage = "target" => q.cur \in T /\ Q[q.cur] \o q.rest = Front(q.dst)
  BY <1>1, <1>2, Zenon
<1> QED
  BY <1>2, <1>3, <1>4, <1>5, <1>6, Zenon DEF OnCourse

\* New entries hold nothing, so they close no circle.
LEMMA StaysSourced ==
  ASSUME NEW h, HeapOK(h), NEW h2, Grows(h, h2), NEW k \in DOMAIN h.ents,
         NEW K, Regrown(h, h2, k, K), NEW X, Sourced(h, X)
  PROVE  Sourced(h2, X \cup (DOMAIN h2.ents \ DOMAIN h.ents))
<1> DEFINE G == DOMAIN h2.ents \ DOMAIN h.ents
           Y == X \cup G
<1>1. /\ X \subseteq DOMAIN h.ents /\ DOMAIN h.ents \subseteq DOMAIN h2.ents
      /\ \A e \in X, n \in Name : \A x : Link(h, e, n, x) => x \in X
      /\ \A S \in SUBSET X : S # {} => \E e \in S : \A f \in S, n \in Name : ~Link(h, f, n, e)
  BY Zenon DEF Sourced, Grows
<1>2. ASSUME NEW e \in Y, NEW n \in Name, NEW x, Link(h2, e, n, x)
      PROVE  e \in DOMAIN h.ents /\ (x \in G \/ Link(h, e, n, x))
  <2>1. e \in DOMAIN h2.ents
    BY <1>1
  <2> QED
    BY <1>2, <2>1 DEF Regrown
<1>3. \A e \in Y, n \in Name : \A x : Link(h2, e, n, x) => x \in Y
  BY <1>1, <1>2
<1>4. ASSUME NEW S \in SUBSET Y, S # {}
      PROVE  \E e \in S : \A f \in S, n \in Name : ~Link(h2, f, n, e)
  <2>1. CASE S \cap X # {}
    <3>1. PICK e \in S \cap X : \A f \in S \cap X, n \in Name : ~Link(h, f, n, e)
      BY <1>1, <2>1, Zenon
    <3>2. ASSUME NEW f \in S, NEW n \in Name, Link(h2, f, n, e) PROVE FALSE
      BY <1>1, <1>2, <3>1, <3>2
    <3> QED
      BY <3>1, <3>2
  <2>2. CASE S \cap X = {}
    <3>1. PICK e \in S : TRUE
      BY <1>4
    <3>2. \A f \in S : f \in Y /\ f \notin DOMAIN h.ents
      BY <2>2
    <3>3. \A f \in S, n \in Name : ~Link(h2, f, n, e)
      BY <1>2, <3>2
    <3> QED
      BY <3>1, <3>3
  <2> QED
    BY <2>1, <2>2
<1>5. Y \subseteq DOMAIN h2.ents
  BY <1>1
<1> QED
  BY <1>3, <1>4, <1>5 DEF Sourced

\* Frames are of a larger set of maps if they are of one.
LEMMA FramesInMore ==
  ASSUME NEW fs, NEW M, NEW N, M \subseteq N, FramesIn(fs, M)
  PROVE  FramesIn(fs, N)
<1>1. PICK S : fs \in Seq(S) /\ \A f \in S : FrameFields(f) /\ f.map \in M
  BY DEF FramesIn
<1>2. \A f \in S : FrameFields(f) /\ f.map \in N
  BY <1>1
<1> QED
  BY <1>1, <1>2 DEF FramesIn

\* A step that gives an entry new ones leaves every build safe.
LEMMA StaysSafe ==
  ASSUME NEW h, HeapOK(h), NEW h2, HeapOK(h2), Grows(h, h2), NEW k \in DOMAIN h.ents,
         NEW K, Regrown(h, h2, k, K), Refilled(h, h2), NEW q, BuildSafe(h, q)
  PROVE  BuildSafe(h2, q)
<1> SUFFICES ASSUME q.op = "build" PROVE BuildSafe(h2, q)
  BY DEF BuildSafe, NoCircle
<1>1. PICK X : Sourced(h, X) /\ FramesIn(q.frames, FilledMaps(h, X))
  BY DEF BuildSafe, NoCircle
<1> DEFINE Y == X \cup (DOMAIN h2.ents \ DOMAIN h.ents)
<1>2. Sourced(h2, Y)
  BY <1>1, StaysSourced
<1>3. ASSUME NEW m \in FilledMaps(h, X) PROVE m \in FilledMaps(h2, Y)
  <2>1. m \in DOMAIN h.maps /\ m \in DOMAIN h2.maps
    BY DEF FilledMaps, Grows
  <2>2. ASSUME NEW n \in Name, NEW x, In(h2, m, n, x) PROVE x \in Y
    BY <2>1, <2>2, Held DEF Refilled, FilledMaps
  <2> QED
    BY <2>1, <2>2 DEF FilledMaps
<1>4. FramesIn(q.frames, FilledMaps(h2, Y))
  BY <1>1, <1>3, FramesInMore
<1> QED
  BY <1>2, <1>4 DEF BuildSafe, NoCircle

\* A path is a prefix of what is below it.
LEMMA BelowIsPrefix ==
  ASSUME NEW p \in Seq(Name), NEW q \in Seq(Name), Below(p, q)
  PROVE  IsPrefix(p, q)
<1>1. PICK r \in Seq(Name) : q = p \o r
  BY Zenon DEF Below
<1>2. Len(p) \in Nat /\ Len(r) \in Nat
  BY LenProperties
<1>3. Len(q) = Len(p) + Len(r) /\ \A i \in 1..Len(p) : q[i] = p[i]
  BY <1>1, <1>2, ConcatProperties
<1>4. SubSeq(p, 1, Len(p)) = SubSeq(q, 1, Len(p))
  BY <1>3
<1> QED
  BY <1>2, <1>3, <1>4 DEF IsPrefix

\* A move whose target is not below its source does not put it below itself: what
\* a build is inside of, and what is below the source, is still without a circle.
LEMMA MoveStaysSafe ==
  ASSUME NEW h, HeapOK(h), NEW h2, HeapOK(h2), h2.ents = h.ents, Grows(h, h2),
         NEW r, OnCourse(h, r), r.op = "move", r.stage = "target", r.rest = <<>>,
         r.path \in Seq(Name), r.dst \in Seq(Name), r.dst # <<>>, ~IsPrefix(r.path, r.dst),
         NEW n \in Name, NEW from, NEW j, Relinked(h, h2, r.cur, n, r.src, from, j),
         \A m \in DOMAIN h.maps : \A i \in Name : \A x :
           In(h2, m, i, x) => In(h, m, i, x) \/ x = r.src,
         NEW q, BuildSafe(h, q)
  PROVE  BuildSafe(h2, q)
<1> SUFFICES ASSUME q.op = "build" PROVE BuildSafe(h2, q)
  BY DEF BuildSafe, NoCircle
<1>1. PICK X : Sourced(h, X) /\ FramesIn(q.frames, FilledMaps(h, X))
  BY DEF BuildSafe, NoCircle
<1>2. PICK P \in [Nat -> Seq(Name)], R \in SUBSET Nat :
        /\ Region(h, R, P)
        /\ r.src \in R /\ P[r.src] = r.path
        /\ r.cur \in R /\ P[r.cur] \o r.rest = Front(r.dst)
  BY Zenon DEF OnCourse
<1> DEFINE s == r.src
           k == r.cur
           D == {x \in R : Below(r.path, P[x])}
           Y == X \cup D
<1>3. /\ R \subseteq DOMAIN h.ents /\ X \subseteq DOMAIN h.ents
      /\ \A e \in R, i \in Name : \A x : Link(h, e, i, x) => x \in R /\ P[x] = Sub(P[e], i)
      /\ \A e \in R : P[e] \in Seq(Name)
      /\ \A e \in X, i \in Name : \A x : Link(h, e, i, x) => x \in X
      /\ \A S \in SUBSET X : S # {} => \E e \in S : \A f \in S, i \in Name : ~Link(h, f, i, e)
  BY <1>1, <1>2, Zenon DEF Region, Sourced
<1>4. s \in D
  BY <1>2, BelowItself, Zenon
<1>5. k \notin D
  <2>1. SUFFICES ASSUME Below(r.path, P[k]) PROVE FALSE
    OBVIOUS
  <2>2. PICK u \in Seq(Name) : u = P[k]
    BY <1>2, <1>3, Zenon
  <2>3. u = Front(r.dst)
    <3>1. u \o <<>> = u
      BY ConcatEmptySeq
    <3> QED
      BY <1>2, <2>2, <3>1
  <2>4. Last(r.dst) \in Name /\ r.dst = Sub(u, Last(r.dst))
    BY <2>3, PathSplit
  <2>5. PICK p \in Seq(Name), l \in Name : p = r.path /\ l = Last(r.dst)
    BY <2>4
  <2>6. Below(p, u)
    BY <2>1, <2>2, <2>5
  <2>7. Below(p, Sub(u, l))
    BY <2>6, BelowSub
  <2>8. Below(r.path, r.dst)
    BY <2>4, <2>5, <2>7
  <2> QED
    BY <2>8, BelowIsPrefix, Zenon
<1>6. ASSUME NEW e \in D, NEW i \in Name, NEW x, Link(h, e, i, x) PROVE x \in D
  BY <1>3, <1>6, BelowSub
<1>7. ASSUME NEW e \in Y, NEW i \in Name, NEW x, Link(h2, e, i, x)
      PROVE  (e = k /\ x = s) \/ Link(h, e, i, x)
  <2>1. e \in DOMAIN h.ents
    BY <1>3
  <2> QED
    BY <1>7, <2>1, Zenon DEF Relinked
<1> HIDE DEF D
<1>8. \A e \in Y, i \in Name : \A x : Link(h2, e, i, x) => x \in Y
  BY <1>3, <1>4, <1>6, <1>7
<1>9. ASSUME NEW S \in SUBSET Y, S # {}
      PROVE  \E e \in S : \A f \in S, i \in Name : ~Link(h2, f, i, e)
  <2>1. CASE S \ D # {}
    <3>1. PICK e \in S \ D : \A f \in S \ D, i \in Name : ~Link(h, f, i, e)
      <4>1. S \ D \in SUBSET X
        OBVIOUS
      <4> QED
        BY <1>3, <2>1, <4>1, Zenon
    <3>2. ASSUME NEW f \in S, NEW i \in Name, Link(h2, f, i, e) PROVE FALSE
      BY <1>4, <1>6, <1>7, <3>1, <3>2
    <3> QED
      BY <3>1, <3>2
  <2>2. CASE S \ D = {}
    <3>1. S \in SUBSET R
      BY <2>2 DEF D
    <3>2. PICK e \in S : \A f \in S, i \in Name : ~Link(h, f, i, e)
      BY <1>2, <1>9, <3>1, RegionSourced, Zenon
    <3>3. \A f \in S, i \in Name : ~Link(h2, f, i, e)
      BY <1>5, <1>7, <2>2, <3>2
    <3> QED
      BY <3>2, <3>3
  <2> QED
    BY <2>1, <2>2
<1>10. Y \subseteq DOMAIN h2.ents
  BY <1>3, Zenon DEF D
<1>11. Sourced(h2, Y)
  BY <1>8, <1>9, <1>10, Zenon DEF Sourced
<1>12. ASSUME NEW m \in FilledMaps(h, X) PROVE m \in FilledMaps(h2, Y)
  <2>1. m \in DOMAIN h.maps /\ m \in DOMAIN h2.maps
    BY DEF FilledMaps, Grows
  <2>2. ASSUME NEW i \in Name, NEW x, In(h2, m, i, x) PROVE x \in Y
    BY <1>4, <2>1, <2>2 DEF FilledMaps
  <2> QED
    BY <2>1, <2>2 DEF FilledMaps
<1>13. FramesIn(q.frames, FilledMaps(h2, Y))
  BY <1>1, <1>12, FramesInMore, Zenon
<1> QED
  BY <1>11, <1>13 DEF BuildSafe, NoCircle

\* A move that goes on by one segment stays on its course.
LEMMA CourseOn ==
  ASSUME NEW h, HeapOK(h), NEW r, r.rest \in Seq(Name), r.rest # <<>>, NEW x, NEW q,
         q.op = r.op, q.stage = r.stage, q.cur = x, q.rest = Tail(r.rest), q.src = r.src,
         q.path = r.path, q.dst = r.dst,
         r.op = "move" => Link(h, r.cur, Head(r.rest), x),
         OnCourse(h, r)
  PROVE  OnCourse(h, q)
<1> SUFFICES ASSUME r.op = "move" PROVE OnCourse(h, q)
  BY Zenon DEF OnCourse
<1>1. PICK P \in [Nat -> Seq(Name)], R \in SUBSET Nat :
        /\ 1 \in R /\ P[1] = <<>> /\ Region(h, R, P)
        /\ r.stage = "source" => r.cur \in R /\ P[r.cur] \o r.rest = Front(r.path)
        /\ r.stage # "source" => r.src \in R /\ P[r.src] = r.path
        /\ r.stage = "target" => r.cur \in R /\ P[r.cur] \o r.rest = Front(r.dst)
  BY Zenon DEF OnCourse
<1>2. PICK z \in Seq(Name) : z = r.rest
  OBVIOUS
<1>3. Head(z) \in Name /\ Tail(z) \in Seq(Name) /\ Link(h, r.cur, Head(z), x)
  BY <1>2, HeadFirst
<1>4. r.cur \in R => x \in R /\ P[x] \o Tail(z) = P[r.cur] \o z
  <2>1. SUFFICES ASSUME r.cur \in R PROVE x \in R /\ P[x] \o Tail(z) = P[r.cur] \o z
    BY Zenon
  <2>2. x \in R /\ P[x] = Sub(P[r.cur], Head(z))
    BY <1>1, <1>3, <2>1, Zenon DEF Region
  <2>3. PICK u \in Seq(Name) : u = P[r.cur]
    BY <2>1, Zenon
  <2>4. Sub(u, Head(z)) \o Tail(z) = u \o z
    BY <1>2, HeadFirst, Zenon
  <2> QED
    BY <2>2, <2>3, <2>4, Zenon
<1>5. q.stage = "source" => q.cur \in R /\ P[q.cur] \o q.rest = Front(q.path)
  BY <1>1, <1>2, <1>4, Zenon
<1>6. q.stage # "source" => q.src \in R /\ P[q.src] = q.path
  BY <1>1
<1>7. q.stage = "target" => q.cur \in R /\ P[q.cur] \o q.rest = Front(q.dst)
  BY <1>1, <1>2, <1>4, Zenon
<1> QED
  BY <1>1, <1>5, <1>6, <1>7, Zenon DEF OnCourse

\* A move that has found its source has found it where its path says.
LEMMA CourseFromSource ==
  ASSUME NEW h, HeapOK(h), NEW r, r.op = "move", r.stage = "source", r.rest = <<>>,
         r.path \in Seq(Name), r.path # <<>>,
         NEW x, Link(h, r.cur, Last(r.path), x), NEW q,
         q.op = r.op, q.stage = "origin", q.src = x, q.path = r.path, OnCourse(h, r)
  PROVE  OnCourse(h, q)
<1>1. PICK P \in [Nat -> Seq(Name)], R \in SUBSET Nat :
        /\ 1 \in R /\ P[1] = <<>> /\ Region(h, R, P)
        /\ r.cur \in R /\ P[r.cur] \o r.rest = Front(r.path)
  BY Zenon DEF OnCourse
<1>2. PICK p \in Seq(Name) : p = r.path /\ p # <<>>
  OBVIOUS
<1>3. Front(p) \in Seq(Name) /\ Last(p) \in Name /\ p = Sub(Front(p), Last(p))
  BY <1>2, PathSplit
<1>4. PICK u \in Seq(Name) : u = P[r.cur]
  BY <1>1, Zenon
<1>5. u = Front(p)
  <2>1. u \o <<>> = u
    BY ConcatEmptySeq
  <2> QED
    BY <1>1, <1>2, <1>4, <2>1
<1>6. x \in R /\ P[x] = Sub(P[r.cur], Last(p))
  <2>1. PICK l \in Name : l = Last(p)
    BY <1>3
  <2>2. Link(h, r.cur, l, x)
    BY <1>2, <2>1
  <2>3. x \in R /\ P[x] = Sub(P[r.cur], l)
    BY <1>1, <2>2, Zenon DEF Region
  <2> QED
    BY <2>1, <2>3
<1>7. P[x] = q.path
  BY <1>2, <1>3, <1>4, <1>5, <1>6, Zenon
<1> QED
  BY <1>1, <1>6, <1>7, Zenon DEF OnCourse

\* A move that starts towards its target starts at the root.
LEMMA CourseFromOrigin ==
  ASSUME NEW h, NEW r, r.op = "move", r.stage = "origin", NEW q,
         q.op = r.op, q.stage = "target", q.src = r.src, q.path = r.path, q.cur = 1,
         q.rest = Front(q.dst), q.rest \in Seq(Name), OnCourse(h, r)
  PROVE  OnCourse(h, q)
<1>1. PICK P \in [Nat -> Seq(Name)], R \in SUBSET Nat :
        /\ 1 \in R /\ P[1] = <<>> /\ Region(h, R, P)
        /\ r.src \in R /\ P[r.src] = r.path
  BY Zenon DEF OnCourse
<1>2. <<>> \o q.rest = q.rest
  BY ConcatEmptySeq
<1> QED
  BY <1>1, <1>2, Zenon DEF OnCourse

\* A move starts in the tree.
LEMMA CourseStarts ==
  ASSUME NEW h, NEW r, Planted(h, r), NEW q, q.stage = "source", q.cur = 1,
         q.rest = Front(q.path), q.rest \in Seq(Name)
  PROVE  OnCourse(h, q)
<1>1. PICK P \in [Nat -> Seq(Name)], A \in SUBSET Nat : 1 \in A /\ P[1] = <<>> /\ Tree(h, A, P)
  BY Zenon DEF Planted
<1>2. Region(h, A, P)
  BY <1>1 DEF Tree, Region
<1>3. <<>> \o q.rest = q.rest
  BY ConcatEmptySeq
<1> QED
  BY <1>1, <1>2, <1>3, Zenon DEF OnCourse

\* A sequence of one.
LEMMA OneIn ==
  ASSUME NEW S, NEW f \in S
  PROVE  <<f>> \in Seq(S) /\ <<f>> # <<>>
<1>1. <<f>> \in Seq(S)
  OBVIOUS
<1>2. Len(<<f>>) = 1 /\ Len(<<>>) = 0
  BY EmptySeq
<1> QED
  BY <1>1, <1>2

\* A sequence and two more.
LEMMA TwoMore ==
  ASSUME NEW S, NEW fs \in Seq(S), NEW f \in S, NEW g \in S
  PROVE  fs \o <<f, g>> \in Seq(S) /\ fs \o <<f, g>> # <<>>
<1>1. <<f, g>> \in Seq(S) /\ Len(<<f, g>>) = 2
  OBVIOUS
<1>2. fs \o <<f, g>> \in Seq(S) /\ Len(fs \o <<f, g>>) = Len(fs) + 2
  BY <1>1, ConcatProperties
<1>3. Len(fs \o <<f, g>>) # 0
  BY <1>2, LenProperties
<1> QED
  BY <1>2, <1>3, EmptySeq

\* A build starts in the tree.
LEMMA BuildStarts ==
  ASSUME NEW h, HeapOK(h), NEW r, Planted(h, r), h.ents[1].map # 0, NEW q,
         NEW fs, fs = <<Frame(h.ents[1].map, "")>>, q.frames = fs
  PROVE  BuildSafe(h, q)
<1>1. PICK P \in [Nat -> Seq(Name)], A \in SUBSET Nat : 1 \in A /\ Tree(h, A, P)
  BY Zenon DEF Planted
<1>2. Region(h, A, P)
  BY <1>1, Zenon DEF Tree, Region
<1>3. Sourced(h, A)
  <2>1. /\ A \subseteq DOMAIN h.ents
        /\ \A e \in A, n \in Name : \A x : Link(h, e, n, x) => x \in A
    BY <1>2, Zenon DEF Region
  <2>2. \A S \in SUBSET A : S # {} => \E e \in S : \A f \in S, n \in Name : ~Link(h, f, n, e)
    BY <1>2, RegionSourced, Zenon
  <2> QED
    BY <2>1, <2>2, Zenon DEF Sourced
<1>4. h.ents[1].map \in FilledMaps(h, A)
  <2>1. h.ents[1].map \in DOMAIN h.maps
    BY MapOf, Zenon DEF HeapOK
  <2>2. \A n \in Name : \A x : In(h, h.ents[1].map, n, x) => Link(h, 1, n, x)
    BY Zenon DEF Link
  <2>3. \A n \in Name : \A x : Link(h, 1, n, x) => x \in A
    BY <1>1, <1>3, Zenon DEF Sourced
  <2> QED
    BY <2>1, <2>2, <2>3, Zenon DEF FilledMaps
<1>5. PICK f : f = Frame(h.ents[1].map, "")
  BY Zenon
<1>6. FrameFields(f) /\ f.map = h.ents[1].map
  BY <1>5, Zenon DEF Frame, FrameFields
<1>7. fs \in Seq({f}) /\ fs # <<>>
  <2>1. f \in {f} /\ fs = <<f>>
    BY <1>5, Zenon
  <2> QED
    BY <2>1, OneIn, Zenon
<1>8. FramesIn(fs, FilledMaps(h, A))
  <2>1. PICK S : S = {f}
    BY Zenon
  <2>2. fs \in Seq(S) /\ \A g \in S : FrameFields(g) /\ g.map \in FilledMaps(h, A)
    BY <1>4, <1>6, <1>7, <2>1, Zenon
  <2> QED
    BY <2>2, Zenon DEF FramesIn
<1> QED
  BY <1>3, <1>7, <1>8, Zenon DEF BuildSafe, NoCircle

\* A frame stays one when it goes on.
LEMMA FrameGoesOn ==
  ASSUME NEW f, FrameFields(f), NEW i, NEW g, g = [f EXCEPT !.pos = i]
  PROVE  FrameFields(g) /\ g.map = f.map
BY DEF FrameFields

\* A frame stays one when it gets another entry.
LEMMA FrameAdds ==
  ASSUME NEW f, FrameFields(f), NEW n, NEW key, NEW g, g = Added(f, n, key)
  PROVE  FrameFields(g) /\ g.map = f.map
<1>1. PICK es : es = Append(f.entries, [name |-> n, key |-> key])
  BY Zenon
<1>2. g = [f EXCEPT !.entries = es]
  BY <1>1 DEF Added
<1> QED
  BY <1>2 DEF FrameFields

\* What lies above the last frame, and that frame.
LEMMA FramesSplit ==
  ASSUME NEW fs, fs # <<>>, NEW M, FramesIn(fs, M)
  PROVE  /\ FramesIn(Front(fs), M)
         /\ FrameFields(Last(fs)) /\ Last(fs).map \in M
<1>1. PICK S : fs \in Seq(S) /\ \A f \in S : FrameFields(f) /\ f.map \in M
  BY DEF FramesIn
<1>2. Front(fs) \in Seq(S) /\ Last(fs) \in S
  BY <1>1, FrontAndLast
<1> QED
  BY <1>1, <1>2 DEF FramesIn

\* One frame more, and two.
LEMMA FramesMore ==
  ASSUME NEW fs, NEW M, FramesIn(fs, M), NEW f, FrameFields(f), f.map \in M,
         NEW g, FrameFields(g), g.map \in M
  PROVE  /\ FramesIn(Append(fs, f), M) /\ Append(fs, f) # <<>>
         /\ FramesIn(fs \o <<f, g>>, M) /\ fs \o <<f, g>> # <<>>
<1>1. PICK S : fs \in Seq(S) /\ \A x \in S : FrameFields(x) /\ x.map \in M
  BY DEF FramesIn
<1>2. PICK T : T = S \cup {f, g}
  BY Zenon
<1>3. f \in T /\ g \in T /\ \A x \in T : FrameFields(x) /\ x.map \in M
  BY <1>1, <1>2
<1>4. fs \in Seq(T)
  BY <1>1, <1>2, SeqMonotonic
<1>5. Append(fs, f) \in Seq(T) /\ Append(fs, f) # <<>>
  BY <1>3, <1>4, AppendProperties
<1>6. fs \o <<f, g>> \in Seq(T) /\ fs \o <<f, g>> # <<>>
  BY <1>3, <1>4, TwoMore
<1> QED
  BY <1>3, <1>5, <1>6 DEF FramesIn

\* The last frame gets another entry.
LEMMA OneAdded ==
  ASSUME NEW fs, NEW M, FramesIn(fs, M), NEW f, FrameFields(f), f.map \in M, NEW n, NEW key
  PROVE  FramesIn(Append(fs, Added(f, n, key)), M) /\ Append(fs, Added(f, n, key)) # <<>>
<1>1. PICK g : g = Added(f, n, key)
  OBVIOUS
<1>2. FrameFields(g) /\ g.map = f.map
  BY <1>1, FrameAdds
<1>3. FramesIn(Append(fs, g), M) /\ Append(fs, g) # <<>>
  BY <1>2, FramesMore, Zenon
<1> QED
  BY <1>1, <1>3

\* A build that goes on to the next child, and into it if it is a directory.
LEMMA ChildFrames ==
  ASSUME HeapOK(heap), NEW fs, NoCircle(heap, fs), NEW f, f = Last(fs), Pending(f) # {},
         NEW i, i = CHOOSE x \in Pending(f) : \A y \in Pending(f) : x <= y,
         NEW slot, slot = heap.maps[f.map][i], NEW entry, entry = heap.ents[slot.ent],
         NEW g, g = [f EXCEPT !.pos = i]
  PROVE  /\ \A key : NoCircle(heap, Append(Front(fs), Added(g, slot.name, key)))
         /\ entry.map # 0 => NoCircle(heap, Front(fs) \o <<g, Frame(entry.map, slot.name)>>)
<1>1. PICK X : Sourced(heap, X) /\ FramesIn(fs, FilledMaps(heap, X)) /\ fs # <<>>
  BY DEF NoCircle
<1> DEFINE M == FilledMaps(heap, X)
<1> HIDE DEF M
<1>2. FramesIn(Front(fs), M) /\ FrameFields(f) /\ f.map \in M
  BY <1>1, FramesSplit DEF M
<1>3. f.map \in DOMAIN heap.maps
  BY <1>2 DEF M, FilledMaps
<1>4. i \in DOMAIN heap.maps[f.map] /\ slot.ent # 0 /\ slot.name \in Name
  <2>1. DOMAIN heap.maps[f.map] \subseteq Nat
    BY <1>3, Sized
  <2>2. Pending(f) \in SUBSET Nat
    BY <2>1, Zenon DEF Pending
  <2>3. \E x \in Pending(f) : \A y \in Pending(f) : x <= y
    BY <2>2, LeastOne
  <2>4. i \in Pending(f)
    BY <2>3
  <2>5. i \in DOMAIN heap.maps[f.map] /\ heap.maps[f.map][i].ent # 0
    BY <2>4, Zenon DEF Pending
  <2>6. slot \in Slot
    BY <1>3, <2>5, Sized
  <2> QED
    BY <2>5, <2>6 DEF Slot
<1>5. In(heap, f.map, slot.name, slot.ent)
  BY <1>4, Zenon DEF In
<1>6. slot.ent \in X /\ slot.ent \in DOMAIN heap.ents
  BY <1>1, <1>2, <1>4, <1>5 DEF M, FilledMaps, Sourced
<1>7. entry.map # 0 => entry.map \in M
  <2>1. SUFFICES ASSUME entry.map # 0 PROVE entry.map \in M
    OBVIOUS
  <2>2. entry.map \in DOMAIN heap.maps
    BY <1>6, <2>1, MapOf
  <2>3. ASSUME NEW n \in Name, NEW x, In(heap, entry.map, n, x) PROVE x \in X
    <3>1. Link(heap, slot.ent, n, x)
      BY <2>1, <2>3, Zenon DEF Link
    <3> QED
      BY <1>1, <1>6, <3>1 DEF Sourced
  <2> QED
    BY <2>2, <2>3, Zenon DEF M, FilledMaps
<1>8. FrameFields(g) /\ g.map = f.map
  BY <1>2, FrameGoesOn
<1>9. ASSUME NEW key PROVE NoCircle(heap, Append(Front(fs), Added(g, slot.name, key)))
  <2>1. g.map \in M
    BY <1>2, <1>8
  <2>2. PICK fr : fr = Front(fs) /\ FramesIn(fr, M)
    BY <1>2
  <2>3. FramesIn(Append(fr, Added(g, slot.name, key)), M) /\ Append(fr, Added(g, slot.name, key)) # <<>>
    BY <1>8, <2>1, <2>2, OneAdded, Zenon
  <2> QED
    BY <1>1, <2>2, <2>3, Zenon DEF NoCircle, M
<1>10. ASSUME entry.map # 0 PROVE NoCircle(heap, Front(fs) \o <<g, Frame(entry.map, slot.name)>>)
  <2>1. PICK y : y = Frame(entry.map, slot.name)
    BY Zenon
  <2>2. FrameFields(y) /\ y.map = entry.map
    BY <2>1 DEF Frame, FrameFields
  <2>3. PICK fr : fr = Front(fs)
    OBVIOUS
  <2>4. FramesIn(fr, M) /\ g.map \in M /\ y.map \in M
    BY <1>2, <1>7, <1>8, <1>10, <2>2, <2>3
  <2>5. FramesIn(fr \o <<g, y>>, M) /\ fr \o <<g, y>> # <<>>
    BY <1>8, <2>2, <2>4, FramesMore, Zenon
  <2> QED
    BY <1>1, <2>1, <2>3, <2>5, Zenon DEF NoCircle, M
<1> QED
  BY <1>9, <1>10, Zenon

\* A build that leaves a directory.
LEMMA DictFrames ==
  ASSUME NEW h, NEW fs, NoCircle(h, fs), NEW up, up = Front(fs), up # <<>>, NEW n, NEW key
  PROVE  NoCircle(h, Append(Front(up), Added(Last(up), n, key)))
<1>1. PICK X : Sourced(h, X) /\ FramesIn(fs, FilledMaps(h, X)) /\ fs # <<>>
  BY DEF NoCircle
<1>2. FramesIn(up, FilledMaps(h, X))
  BY <1>1, FramesSplit
<1>3. /\ FramesIn(Front(up), FilledMaps(h, X))
      /\ FrameFields(Last(up)) /\ Last(up).map \in FilledMaps(h, X)
  BY <1>2, FramesSplit
<1>4. PICK f : f = Last(up)
  OBVIOUS
<1>5. /\ FramesIn(Append(Front(up), Added(f, n, key)), FilledMaps(h, X))
      /\ Append(Front(up), Added(f, n, key)) # <<>>
  BY <1>3, <1>4, OneAdded
<1> QED
  BY <1>1, <1>4, <1>5 DEF NoCircle

\* Frames without a circle do not go round.
LEMMA GoesRound ==
  ASSUME HeapOK(heap), NEW q, NoCircle(heap, q.frames)
  PROVE  ~Circles(q)
<1> SUFFICES ASSUME Circles(q) PROVE FALSE
  OBVIOUS
<1> DEFINE fs == q.frames
<1>1. PICK X : Sourced(heap, X) /\ FramesIn(fs, FilledMaps(heap, X))
  BY DEF NoCircle
<1>2. PICK i \in DOMAIN fs, j \in DOMAIN fs :
        i < j /\ fs[i].map = fs[j].map /\ \A k \in i..(j - 1) : Holds(fs[k].map, fs[k + 1].map)
  BY DEF Circles
<1>3. i \in Nat /\ j \in Nat /\ \A k \in i..j : fs[k].map \in FilledMaps(heap, X)
  <2>1. PICK S : fs \in Seq(S) /\ \A f \in S : f.map \in FilledMaps(heap, X)
    BY <1>1 DEF FramesIn
  <2> HIDE DEF fs
  <2>2. DOMAIN fs = 1..Len(fs) /\ Len(fs) \in Nat
    BY <2>1, LenProperties
  <2>3. i \in Nat /\ j \in Nat /\ \A k \in i..j : k \in 1..Len(fs)
    BY <2>2
  <2>4. \A k \in 1..Len(fs) : fs[k] \in S
    BY <2>1, ElementOfSeq
  <2> QED
    BY <2>1, <2>3, <2>4
<1> HIDE DEF fs
\* The entry that holds, in the directory of one frame, that of the next.
<1> DEFINE Steps(k, x) == /\ x \in X /\ heap.ents[x].map = fs[k + 1].map /\ heap.ents[x].map # 0
                          /\ \E n \in Name : In(heap, fs[k].map, n, x)
           S == {x \in X : \E k \in i..(j - 1) : Steps(k, x)}
<1>4. ASSUME NEW k \in i..(j - 1) PROVE \E x : Steps(k, x)
  <2>1. k \in i..j /\ k + 1 \in i..j
    BY <1>3
  <2>2. fs[k].map \in FilledMaps(heap, X) /\ fs[k + 1].map \in FilledMaps(heap, X)
    BY <1>3, <2>1
  <2>3. fs[k].map \in DOMAIN heap.maps /\ fs[k + 1].map \in DOMAIN heap.maps
    BY <2>2 DEF FilledMaps
  <2>4. Holds(fs[k].map, fs[k + 1].map)
    BY <1>2
  <2>5. PICK p \in DOMAIN heap.maps[fs[k].map] :
          /\ heap.maps[fs[k].map][p].ent # 0
          /\ heap.ents[heap.maps[fs[k].map][p].ent].map = fs[k + 1].map
    BY <2>4, Zenon DEF Holds
  <2>6. PICK n \in Name : heap.maps[fs[k].map][p].name = n
    BY <2>3, <2>5, Sized DEF Slot
  <2>7. PICK x : x = heap.maps[fs[k].map][p].ent
    OBVIOUS
  <2>8. In(heap, fs[k].map, n, x)
    BY <2>5, <2>6, <2>7, Zenon DEF In
  <2>9. x \in X
    BY <2>2, <2>8 DEF FilledMaps
  <2>10. fs[k + 1].map # 0
    BY <2>3, Sized
  <2> QED
    BY <2>5, <2>7, <2>8, <2>9, <2>10
<1>5. ASSUME NEW k \in i..(j - 1), NEW l \in i..(j - 1), fs[l + 1].map = fs[k].map,
             NEW x, Steps(k, x)
      PROVE  \E y \in S, n \in Name : Link(heap, y, n, x)
  <2>1. PICK y : Steps(l, y)
    BY <1>4
  <2>2. y \in S
    BY <2>1
  <2>3. PICK n \in Name : In(heap, fs[k].map, n, x)
    BY <1>5
  <2>4. Link(heap, y, n, x)
    BY <1>5, <2>1, <2>3 DEF Link
  <2> QED
    BY <2>2, <2>4
<1>6. ASSUME NEW x \in S PROVE \E y \in S, n \in Name : Link(heap, y, n, x)
  <2>1. PICK k \in i..(j - 1) : Steps(k, x)
    OBVIOUS
  <2>2. CASE k = i
    <3>1. j - 1 \in i..(j - 1) /\ (j - 1) + 1 = j
      BY <1>2, <1>3
    <3>2. fs[(j - 1) + 1].map = fs[k].map
      BY <1>2, <2>2, <3>1
    <3> HIDE DEF Steps, S
    <3> QED
      BY <1>5, <2>1, <3>1, <3>2
  <2>3. CASE k # i
    <3>1. k - 1 \in i..(j - 1) /\ (k - 1) + 1 = k
      BY <1>3, <2>3
    <3>2. fs[(k - 1) + 1].map = fs[k].map
      BY <3>1
    <3> HIDE DEF Steps, S
    <3> QED
      BY <1>5, <2>1, <3>1, <3>2
  <2> QED
    BY <2>2, <2>3
<1>7. S # {} /\ S \in SUBSET X
  <2>1. i \in i..(j - 1)
    BY <1>2, <1>3
  <2>2. PICK x : Steps(i, x)
    BY <1>4, <2>1
  <2> QED
    BY <2>1, <2>2
<1> HIDE DEF S
<1>8. PICK e \in S : \A f \in S, n \in Name : ~Link(heap, f, n, e)
  BY <1>1, <1>7 DEF Sourced
<1> QED
  BY <1>6, <1>8

-----------------------------------------------------------------------------
(* Calls. *)

\* A heap that stays as it is grows, and keeps its trees.
LEMMA GrowsItself ==
  ASSUME NEW h, HeapOK(h)
  PROVE  Grows(h, h) /\ KeepsTrees(h, h)
<1>1. Len(h.ents) \in Nat /\ Len(h.maps) \in Nat
  BY Sized
<1> QED
  BY <1>1 DEF Grows, KeepsTrees, KeepsBuilds

\* Two changes that keep trees, one after the other, keep them.
LEMMA KeepsOn ==
  ASSUME NEW h, NEW h1, NEW h2, KeepsTrees(h, h1), KeepsTrees(h1, h2)
  PROVE  KeepsTrees(h, h2)
BY DEF KeepsTrees, KeepsBuilds

\* New entries below one entry keep trees, moves and builds.
LEMMA RegrownKeeps ==
  ASSUME NEW h, HeapOK(h), NEW h2, HeapOK(h2), Grows(h, h2), NEW k \in DOMAIN h.ents,
         NEW K \in SUBSET Name, Regrown(h, h2, k, K), Refilled(h, h2)
  PROVE  KeepsTrees(h, h2)
<1>1. ASSUME NEW q, Planted(h, q),
             q.op = "move" => q.path \in Seq(Name) /\ q.path # <<>> /\ q.rest \in Seq(Name)
      PROVE  Planted(h2, q)
  BY <1>1, StillPlanted
<1>2. ASSUME NEW q, OnCourse(h, q) PROVE OnCourse(h2, q)
  BY <1>2, StaysOnCourse
<1>3. ASSUME NEW q, BuildSafe(h, q) PROVE BuildSafe(h2, q)
  BY <1>3, StaysSafe
<1> QED
  BY <1>1, <1>2, <1>3 DEF KeepsTrees, KeepsBuilds

\* Of a call that is no move, or no build, there is nothing to keep.
LEMMA NothingToKeep ==
  ASSUME NEW h, NEW q
  PROVE  /\ q.op # "move" => OnCourse(h, q)
         /\ q.op # "build" => BuildSafe(h, q)
BY Zenon DEF OnCourse, BuildSafe

\* A slot without a call has no operation.
LEMMA NoCallIs ==
  NoCall.op = "none"
BY DEF NoCall

\* What a call holds stays in range while the heap grows.
LEMMA CallGrows ==
  ASSUME NEW h, HeapOK(h), NEW h2, HeapOK(h2), Grows(h, h2), NEW q, CallOK(q, h)
  PROVE  /\ CallOK(q, h2)
         /\ \A w : Waits(w, q, h) => Waits(w, q, h2)
<1>1. /\ Len(h.ents) \in Nat /\ Len(h2.ents) \in Nat /\ Len(h.maps) \in Nat /\ Len(h2.maps) \in Nat
  BY Sized
<1>2. CallOK(q, h2)
  <2>1. /\ q.cur \in DOMAIN h2.ents /\ q.src \in 0..Len(h2.ents) /\ q.from \in 0..Len(h2.maps)
        /\ q.src \in DOMAIN h.ents \ {1} => q.src \in DOMAIN h2.ents \ {1}
        /\ q.from \in DOMAIN h.maps => q.from \in DOMAIN h2.maps
    BY <1>1 DEF CallOK, Grows
  <2> QED
    BY <2>1 DEF CallOK
<1>3. \A w : Waits(w, q, h) => Waits(w, q, h2)
  BY Zenon DEF Waits, Grows, CallOK
<1> QED
  BY <1>2, <1>3

\* A slot without a call.
LEMMA NoCallOK ==
  ASSUME NEW h, HeapOK(h)
  PROVE  CallOK(NoCall, h) /\ Waits("idle", NoCall, h)
<1>1. Len(h.ents) \in Nat /\ Len(h.maps) \in Nat /\ 1 \in DOMAIN h.ents
  BY Sized DEF HeapOK
<1>2. <<>> \in Seq(Name)
  BY EmptySeq
<1> QED
  BY <1>1, <1>2 DEF CallOK, NoCall, Waits, Ops, Walks

\* Of what follows no move it is enough to know the tree of the root.
LEMMA PlantedAlike ==
  ASSUME NEW h, NEW q, Planted(h, q), NEW r, r.op # "move"
  PROVE  Planted(h, r)
<1>1. PICK P \in [Nat -> Seq(Name)], A \in SUBSET Nat, B \in SUBSET Nat :
        /\ 1 \in A /\ P[1] = <<>> /\ A \cap B = {}
        /\ Tree(h, A, P) /\ Tree(h, B, P)
  BY DEF Planted
<1>2. Follows(h, r, A, B, P)
  BY DEF Follows
<1> QED
  BY <1>1, <1>2, Zenon DEF Planted

\* A call that ends makes a turn to idle.
LEMMA EndTurns ==
  ASSUME NEW c \in Call, NEW how \in {"ok", "error"}, NEW v, End(c, how, v), HeapOK(heap')
  PROVE  Turn(c, "idle", NoCall)
<1>1. CallOK(NoCall, heap') /\ Waits("idle", NoCall, heap')
  BY NoCallOK
<1>2. how \in {"none", "ok", "error"}
  OBVIOUS
<1> QED
  BY <1>1, <1>2, Zenon DEF End, Turn

\* A call that goes on makes a turn to the next segment.
LEMMA ContinueTurns ==
  ASSUME NEW c \in Call, NEW q, Continue(c, q), CallOK(q, heap'), q.op \in Walks
  PROVE  Turn(c, "walk", q)
<1>1. Waits("walk", q, heap')
  BY DEF Waits
<1> QED
  BY <1>1 DEF Continue, Turn

\* A call that ends, with a heap that keeps its trees.
LEMMA EndsWell ==
  ASSUME NEW c \in Call, HeapOK(heap'), Grows(heap, heap'), KeepsTrees(heap, heap'),
         NEW how \in {"ok", "error"}, NEW v, End(c, how, v), CallOK(loc[c], heap)
  PROVE  Turn(c, "idle", NoCall) /\ Outcome(c, NoCall)
<1>1. Turn(c, "idle", NoCall)
  BY EndTurns
<1>2. ASSUME Planted(heap, loc[c]) PROVE Planted(heap', NoCall)
  BY <1>2, PlantedAlike DEF NoCall, KeepsTrees
<1>3. OnCourse(heap', NoCall) /\ BuildSafe(heap', NoCall)
  BY NoCallIs, NothingToKeep
<1> QED
  BY <1>1, <1>2, <1>3 DEF Outcome

\* The same with the two ways of ending that the actions name.
LEMMA DoneWell ==
  ASSUME NEW c \in Call, HeapOK(heap'), Grows(heap, heap'), KeepsTrees(heap, heap'), Done(c),
         CallOK(loc[c], heap)
  PROVE  Turn(c, "idle", NoCall) /\ Outcome(c, NoCall)
BY EndsWell DEF Done

\* A call that throws.
LEMMA ThrowWell ==
  ASSUME NEW c \in Call, NEW h, HeapOK(h), Grows(heap, h), KeepsTrees(heap, h), Throw(c, h),
         CallOK(loc[c], heap)
  PROVE  Turn(c, "idle", NoCall) /\ Outcome(c, NoCall)
<1>1. heap' = h /\ End(c, "error", NoValue)
  BY DEF Throw
<1> QED
  BY <1>1, EndsWell

-----------------------------------------------------------------------------
(* The steps of a walk. *)

\* Map.delete keeps trees.
LEMMA DelGrows ==
  ASSUME NEW h, HeapOK(h), NEW k \in DOMAIN h.ents, h.ents[k].map # 0, NEW n \in Name,
         NEW h2, h2 = Del(h, h.ents[k].map, n)
  PROVE  HeapOK(h2) /\ Grows(h, h2) /\ KeepsTrees(h, h2)
<1> DEFINE m == h.ents[k].map
<1>1. m \in DOMAIN h.maps
  BY Sized DEF HeapOK
<1> HIDE DEF m
<1>2. h2 = Del(h, m, n)
  BY DEF m
<1>3. /\ HeapOK(h2) /\ Grows(h, h2) /\ h2.ents = h.ents
      /\ \A l \in DOMAIN h.maps : l # m => h2.maps[l] = h.maps[l]
      /\ \A i \in Name : \A y : In(h2, m, i, y) => i # n /\ In(h, m, i, y)
  BY <1>1, <1>2, DelClears
<1>4. Regrown(h, h2, k, {})
  <2>1. ASSUME NEW e \in DOMAIN h.ents, NEW i \in Name, NEW x, Link(h2, e, i, x)
        PROVE  Link(h, e, i, x)
    <3>1. PICK l : l = h.ents[e].map
      OBVIOUS
    <3>2. l # 0 /\ In(h2, l, i, x)
      BY <1>3, <2>1, <3>1, Zenon DEF Link
    <3>3. l \in DOMAIN h.maps
      BY <3>1, <3>2, MapOf, Zenon
    <3>4. l = m => In(h, l, i, x)
      BY <1>3, <3>2, Zenon
    <3>5. l # m => In(h, l, i, x)
      BY <1>3, <3>2, <3>3, SameIn, Zenon
    <3>6. In(h, l, i, x)
      BY <3>4, <3>5, Zenon
    <3> QED
      BY <3>1, <3>2, <3>6, Zenon DEF Link
  <2>2. \A i, l \in Name : \A x : x \notin DOMAIN h.ents => ~Link(h2, k, i, x)
    BY <2>1, Linked
  <2> QED
    BY <1>3, <2>1, <2>2 DEF Regrown
<1>5. Refilled(h, h2)
  <2>1. ASSUME NEW l \in DOMAIN h.maps, NEW i \in Name, NEW x, In(h2, l, i, x) PROVE In(h, l, i, x)
    BY <1>3, <2>1, SameIn
  <2> QED
    BY <2>1 DEF Refilled
<1> QED
  BY <1>3, <1>4, <1>5, RegrownKeeps

\* What is known of a call that has reached a directory.
LEMMA EnteredFacts ==
  ASSUME NEW c \in Call, NEW h, NEW m, Entered(c, h, m)
  PROVE  /\ CallOK(loc[c], heap) /\ CallOK(loc[c], h) /\ loc[c].op \in Walks
         /\ Front(loc[c].path) \in Seq(Name) /\ Last(loc[c].path) \in Name
         /\ Front(loc[c].dst) \in Seq(Name) /\ Last(loc[c].dst) \in Name
         /\ loc[c].cur \in DOMAIN h.ents
         /\ m \in DOMAIN h.maps
<1>1. CallOK(loc[c], heap) /\ loc[c].op \in Walks
  BY DEF Entered, CallsOK, Waits
<1>2. CallOK(loc[c], h)
  BY <1>1, CallGrows DEF Entered
<1>3. /\ Front(loc[c].path) \in Seq(Name) /\ Last(loc[c].path) \in Name
      /\ Front(loc[c].dst) \in Seq(Name) /\ Last(loc[c].dst) \in Name
  BY <1>1, FrontAndLast, Zenon DEF CallOK
<1>4. loc[c].cur \in DOMAIN h.ents
  BY <1>2 DEF CallOK
<1>5. m \in DOMAIN h.maps
  BY <1>4, Sized DEF Entered, HeapOK
<1> QED
  BY <1>1, <1>2, <1>3, <1>4, <1>5

\* The last step of a walk, of a call other than move.
LEMMA SetTargetStep ==
  ASSUME NEW c \in Call, NEW h, NEW m, Entered(c, h, m), SetTarget(c, h, m)
  PROVE  Turn(c, "idle", NoCall) /\ Outcome(c, NoCall)
<1> DEFINE q == loc[c]
           n == Last(q.dst)
           k == q.cur
<1>1. /\ CallOK(q, heap) /\ n \in Name /\ k \in DOMAIN h.ents
      /\ HeapOK(heap) /\ HeapOK(h) /\ Grows(heap, h) /\ KeepsTrees(heap, h)
      /\ h.ents[k].map = m /\ m # 0
      /\ q.op = "mount" => q.arg \in Mounted
      /\ q.op = "write" => q.arg \in Written
  BY EnteredFacts DEF Entered, CallOK
<1>2. CASE q.op = "write" /\ heap' = PutNew(h, m, n, PendingEntry(q.arg)) /\ Done(c)
  <2> DEFINE entry == PendingEntry(q.arg)
  <2>1. entry \in Entry /\ entry.map = 0 /\ entry.type = "pending"
    BY <1>1, <1>2, TreeAssumption DEF PendingEntry, Entry, Value, Form
  <2> HIDE DEF entry
  <2>2. entry.map \in 0..Len(h.maps)
    BY <1>1, <2>1, Sized
  <2>3. heap' = PutNew(h, h.ents[k].map, n, entry)
    BY <1>1, <1>2 DEF entry
  <2>4. HeapOK(heap') /\ Grows(h, heap') /\ Regrown(h, heap', k, {n}) /\ Refilled(h, heap')
    BY <1>1, <2>1, <2>2, <2>3, PutNewGrows, Zenon
  <2>5. Grows(heap, heap') /\ KeepsTrees(heap, heap')
    BY <1>1, <2>4, GrowsOn, KeepsOn, RegrownKeeps
  <2> QED
    BY <1>1, <1>2, <2>4, <2>5, DoneWell
<1>3. CASE q.op = "mount" /\ heap' = PutNew(h, m, n, NodeEntry(q.arg)) /\ Done(c)
  <2> DEFINE entry == NodeEntry(q.arg)
  <2>1. entry \in Entry /\ entry.map = 0 /\ entry.val \in Node
    BY <1>1, <1>3, TreeAssumption DEF NodeEntry, Entry, Value, Form
  <2> HIDE DEF entry
  <2>2. entry.map \in 0..Len(h.maps)
    BY <1>1, <2>1, Sized
  <2>3. heap' = PutNew(h, h.ents[k].map, n, entry)
    BY <1>1, <1>3 DEF entry
  <2>4. HeapOK(heap') /\ Grows(h, heap') /\ Regrown(h, heap', k, {n}) /\ Refilled(h, heap')
    BY <1>1, <2>1, <2>2, <2>3, PutNewGrows, Zenon
  <2>5. Grows(heap, heap') /\ KeepsTrees(heap, heap')
    BY <1>1, <2>4, GrowsOn, KeepsOn, RegrownKeeps
  <2> QED
    BY <1>1, <1>3, <2>4, <2>5, DoneWell
<1>4. CASE heap' = PutDir(h, m, n) /\ Done(c)
  <2>1. HeapOK(heap') /\ Grows(h, heap') /\ Regrown(h, heap', k, {n}) /\ Refilled(h, heap')
    BY <1>1, <1>4, PutDirGrows, Zenon
  <2>2. Grows(heap, heap') /\ KeepsTrees(heap, heap')
    BY <1>1, <2>1, GrowsOn, KeepsOn, RegrownKeeps
  <2> QED
    BY <1>1, <1>4, <2>1, <2>2, DoneWell
<1>5. CASE heap' = Del(h, m, n) /\ Done(c)
  BY <1>1, <1>5, DelGrows, GrowsOn, KeepsOn, DoneWell
<1>6. CASE heap' = h /\ Done(c)
  BY <1>1, <1>6, DoneWell
<1>7. CASE Throw(c, h)
  BY <1>1, <1>7, ThrowWell
<1> QED
  BY <1>2, <1>3, <1>4, <1>5, <1>6, <1>7 DEF SetTarget

\* A move that goes on by one segment knows where it has come to.
LEMMA FollowsOn ==
  ASSUME NEW h, HeapOK(h), NEW r, CallOK(r, h), r.rest # <<>>, NEW x, NEW q,
         q.op = r.op, q.stage = r.stage, q.cur = x, q.rest = Tail(r.rest), q.src = r.src,
         q.path = r.path, q.from = r.from,
         r.op = "move" /\ r.stage # "target" => Link(h, r.cur, Head(r.rest), x),
         Planted(h, r)
  PROVE  Planted(h, q)
<1>1. PICK P \in [Nat -> Seq(Name)], A \in SUBSET Nat, B \in SUBSET Nat :
        /\ 1 \in A /\ P[1] = <<>> /\ A \cap B = {}
        /\ Tree(h, A, P) /\ Tree(h, B, P)
        /\ Follows(h, r, A, B, P)
  BY Zenon DEF Planted
<1>2. PICK z \in Seq(Name) : z = r.rest
  BY DEF CallOK
<1>3. Head(z) \in Name /\ Tail(z) \in Seq(Name)
  BY <1>2, HeadFirst, EmptySeq
<1>4. Follows(h, q, A, B, P)
  <2>1. CASE r.op # "move" \/ r.stage = "target"
    BY <1>1, <2>1, Zenon DEF Follows
  <2>2. CASE r.op = "move" /\ r.stage # "target"
    <3>1. Link(h, r.cur, Head(z), x)
      BY <1>2, <2>2
    <3>2. r.cur \in B => x \in B
      BY <1>1, <1>3, <3>1, Zenon DEF Tree
    <3>3. r.cur \in A => x \in A /\ P[x] = Sub(P[r.cur], Head(z))
      BY <1>1, <1>3, <3>1, ZenonT(30) DEF Tree
    <3>4. r.cur \in A => P[x] \o Tail(z) = P[r.cur] \o z
      <4>1. SUFFICES ASSUME r.cur \in A PROVE P[x] \o Tail(z) = P[r.cur] \o z
        BY Zenon
      <4>2. PICK u \in Seq(Name) : u = P[r.cur]
        BY <1>1, <4>1, Zenon
      <4>3. Sub(u, Head(z)) \o Tail(z) = u \o z
        BY <1>2, HeadFirst, Zenon
      <4> QED
        BY <3>3, <4>1, <4>2, <4>3, Zenon
    <3> QED
      BY <1>1, <1>2, <2>2, <3>2, <3>3, <3>4, Zenon DEF Follows
  <2> QED
    BY <2>1, <2>2
<1> QED
  BY <1>1, <1>4, Zenon DEF Planted

\* The call goes on from x, with one segment less.
LEMMA WalkedOn ==
  ASSUME NEW c \in Call, NEW h, NEW m, Entered(c, h, m), loc[c].rest # <<>>,
         HeapOK(heap'), Grows(heap, heap'), KeepsTrees(heap, heap'),
         NEW x \in DOMAIN heap'.ents, StepsOn(loc[c], x),
         NEW q, q = [loc[c] EXCEPT !.cur = x, !.rest = Tail(loc[c].rest)], Continue(c, q)
  PROVE  Turn(c, "walk", q) /\ Outcome(c, q)
<1> DEFINE r == loc[c]
<1>1. CallOK(r, heap) /\ r.op \in Walks
  BY EnteredFacts
<1>2. CallOK(r, heap')
  BY <1>1, CallGrows DEF Entered
<1>3. Head(r.rest) \in Name /\ Tail(r.rest) \in Seq(Name)
  BY <1>1, HeadTailProperties DEF CallOK
<1>4. /\ q = [op |-> r.op, path |-> r.path, dst |-> r.dst, arg |-> r.arg, stage |-> r.stage,
              cur |-> x, rest |-> Tail(r.rest), src |-> r.src, from |-> r.from, frames |-> r.frames]
      /\ CallOK(q, heap')
  BY <1>2, <1>3, Zenon DEF CallOK
<1>5. Turn(c, "walk", q)
  BY <1>1, <1>4, ContinueTurns, Zenon
<1>6. ASSUME Planted(heap, r) PROVE Planted(heap', q)
  <2>1. Planted(heap', r)
    BY <1>1, <1>6 DEF KeepsTrees, CallOK, Walks
  <2>2. r.op = "move" => Link(heap', r.cur, Head(r.rest), x)
    BY DEF StepsOn
  <2>3. /\ q.op = r.op /\ q.stage = r.stage /\ q.cur = x /\ q.rest = Tail(r.rest)
        /\ q.src = r.src /\ q.path = r.path /\ q.from = r.from
    BY <1>4
  <2> HIDE DEF r
  <2> QED
    BY <1>2, <2>1, <2>2, <2>3, FollowsOn, Zenon DEF r
<1>7. ASSUME OnCourse(heap, r) PROVE OnCourse(heap', q)
  <2>1. OnCourse(heap', r)
    BY <1>7 DEF KeepsTrees
  <2>2. r.op = "move" => Link(heap', r.cur, Head(r.rest), x)
    BY DEF StepsOn
  <2>3. /\ q.op = r.op /\ q.stage = r.stage /\ q.cur = x /\ q.rest = Tail(r.rest)
        /\ q.src = r.src /\ q.path = r.path /\ q.dst = r.dst
    BY <1>4
  <2>4. r.rest \in Seq(Name) /\ r.rest # <<>>
    BY <1>1 DEF CallOK
  <2> HIDE DEF r
  <2> QED
    BY <2>1, <2>2, <2>3, <2>4, CourseOn, Zenon
<1>8. BuildSafe(heap', q)
  <2>1. q.op # "build"
    BY <1>1, <1>4 DEF Walks
  <2> QED
    BY <2>1, NothingToKeep, Zenon
<1> QED
  BY <1>5, <1>6, <1>7, <1>8 DEF Outcome

\* One segment of a walk, with the directory made if need be.
LEMMA NextSegmentStep ==
  ASSUME NEW c \in Call, NEW h, NEW m, Entered(c, h, m), loc[c].rest # <<>>,
         NextSegment(c, h, m)
  PROVE  \E w, q : Turn(c, w, q) /\ Outcome(c, q)
<1> DEFINE r == loc[c]
           n == Head(r.rest)
           k == r.cur
           on(x) == [r EXCEPT !.cur = x, !.rest = Tail(r.rest)]
<1>1. /\ CallOK(r, heap) /\ k \in DOMAIN h.ents /\ m \in DOMAIN h.maps
      /\ HeapOK(heap) /\ HeapOK(h) /\ Grows(heap, h) /\ KeepsTrees(heap, h)
      /\ h.ents[k].map = m /\ m # 0
  BY EnteredFacts DEF Entered
<1>2. n \in Name
  BY <1>1, HeadTailProperties DEF CallOK
<1>3. CASE Throw(c, h)
  BY <1>1, <1>3, ThrowWell
<1>4. CASE Makes(r) /\ heap' = PutDir(h, m, n) /\ Continue(c, on(Len(h.ents) + 1))
  <2>1. /\ HeapOK(heap') /\ Grows(h, heap') /\ Regrown(h, heap', k, {n}) /\ Refilled(h, heap')
        /\ Len(h.ents) + 1 \in DOMAIN heap'.ents /\ Link(heap', k, n, Len(h.ents) + 1)
    BY <1>1, <1>2, <1>4, PutDirGrows, Zenon
  <2>2. Grows(heap, heap') /\ KeepsTrees(heap, heap')
    BY <1>1, <1>2, <2>1, GrowsOn, KeepsOn, RegrownKeeps
  <2>3. StepsOn(r, Len(h.ents) + 1)
    BY <2>1 DEF StepsOn
  <2> QED
    BY <1>4, <2>1, <2>2, <2>3, WalkedOn, Zenon
<1>5. CASE ~Missing(h, m, n) /\ heap' = h /\ Continue(c, on(Get(h, m, n)))
  <2>1. Get(h, m, n) \in DOMAIN h.ents /\ In(h, m, n, Get(h, m, n))
    BY <1>1, <1>2, <1>5, Placed DEF Missing
  <2>2. StepsOn(r, Get(h, m, n))
    BY <1>1, <1>5, <2>1 DEF StepsOn, Link
  <2> QED
    BY <1>1, <1>5, <2>1, <2>2, WalkedOn, Zenon
<1> QED
  BY <1>3, <1>4, <1>5 DEF NextSegment

\* The walk to the source is at its end: the next one starts at the root.
LEMMA SourceFound ==
  ASSUME NEW h, HeapOK(h), NEW r, CallOK(r, h), r.op = "move", r.stage = "source", r.rest = <<>>,
         NEW x, Link(h, r.cur, Last(r.path), x), NEW q,
         q.op = r.op, q.stage = "origin", q.cur = 1, q.rest = Front(r.path), q.src = x,
         q.path = r.path, Planted(h, r)
  PROVE  Planted(h, q)
<1>1. PICK P \in [Nat -> Seq(Name)], A \in SUBSET Nat, B \in SUBSET Nat :
        /\ 1 \in A /\ P[1] = <<>> /\ A \cap B = {}
        /\ Tree(h, A, P) /\ Tree(h, B, P)
        /\ Follows(h, r, A, B, P)
  BY Zenon DEF Planted
<1>2. PICK p \in Seq(Name) : p = r.path /\ p # <<>>
  BY DEF CallOK, Walks
<1>3. Front(p) \in Seq(Name) /\ Last(p) \in Name /\ p = Sub(Front(p), Last(p))
  BY <1>2, PathSplit
<1>4. PICK f \in Seq(Name) : f = Front(p)
  BY <1>3
<1>5. Link(h, r.cur, Last(p), x)
  BY <1>2
<1>6. x \in B \/ (x \in A /\ P[x] = p)
  <2>1. CASE r.cur \in B
    BY <1>1, <1>3, <1>5, <2>1, Zenon DEF Tree
  <2>2. CASE r.cur \in A /\ P[r.cur] \o r.rest = f
    <3>1. PICK u \in Seq(Name) : u = P[r.cur]
      BY <1>1, <2>2, Zenon
    <3>2. u = f
      BY <2>2, <3>1, ConcatEmptySeq
    <3>3. x \in A /\ P[x] = Sub(P[r.cur], Last(p))
      <4>1. PICK l \in Name : l = Last(p)
        BY <1>3
      <4>2. Link(h, r.cur, l, x)
        BY <1>5, <4>1
      <4>3. r.cur \in A /\ Tree(h, A, P)
        BY <1>1, <2>2
      <4>4. x \in A /\ P[x] = Sub(P[r.cur], l)
        BY <4>2, <4>3, Zenon DEF Tree
      <4> QED
        BY <4>1, <4>4
    <3> QED
      BY <1>3, <1>4, <3>1, <3>2, <3>3, Zenon
  <2> QED
    BY <1>1, <1>2, <1>4, <2>1, <2>2 DEF Follows
<1>7. <<>> \o f = f
  BY ConcatEmptySeq
<1>8. Follows(h, q, A, B, P)
  BY <1>1, <1>2, <1>4, <1>6, <1>7 DEF Follows
<1> QED
  BY <1>1, <1>8, Zenon DEF Planted

\* The walk to the directory of the source is at its end.
LEMMA OriginFound ==
  ASSUME NEW h, HeapOK(h), NEW r, CallOK(r, h), r.op = "move", r.stage = "origin", r.rest = <<>>,
         NEW q, q.op = r.op, q.stage = "target", q.from = h.ents[r.cur].map, q.src = r.src,
         q.path = r.path, Planted(h, r)
  PROVE  Planted(h, q)
<1>1. PICK P \in [Nat -> Seq(Name)], A \in SUBSET Nat, B \in SUBSET Nat :
        /\ 1 \in A /\ P[1] = <<>> /\ A \cap B = {}
        /\ Tree(h, A, P) /\ Tree(h, B, P)
        /\ Follows(h, r, A, B, P)
  BY Zenon DEF Planted
<1>2. r.cur \in A /\ P[r.cur] \o r.rest = Front(r.path) => P[r.cur] = Front(r.path)
  <2>1. SUFFICES ASSUME r.cur \in A, P[r.cur] \o r.rest = Front(r.path)
                 PROVE  P[r.cur] = Front(r.path)
    OBVIOUS
  <2>2. PICK u \in Seq(Name) : u = P[r.cur]
    BY <1>1, <2>1, Zenon
  <2>3. u \o <<>> = u
    BY ConcatEmptySeq
  <2> QED
    BY <2>1, <2>2, <2>3
<1>3. Follows(h, q, A, B, P)
  BY <1>1, <1>2, Zenon DEF Follows
<1> QED
  BY <1>1, <1>3, Zenon DEF Planted

\* What a move does to the links, in the two maps that it changes.
LEMMA MoveRelinks ==
  ASSUME NEW h, HeapOK(h), NEW k \in DOMAIN h.ents, h.ents[k].map # 0, NEW n \in Name,
         NEW s \in DOMAIN h.ents \ {1}, NEW from \in DOMAIN h.maps, NEW j \in Name,
         NEW h2, h2 = Del(Put(h, h.ents[k].map, n, s), from, j)
  PROVE  /\ HeapOK(h2) /\ Grows(h, h2) /\ h2.ents = h.ents
         /\ Relinked(h, h2, k, n, s, from, j)
         /\ \A l \in DOMAIN h.maps : \A i \in Name : \A x :
              In(h2, l, i, x) => In(h, l, i, x) \/ x = s
<1> DEFINE m == h.ents[k].map
<1>1. m \in DOMAIN h.maps
  BY Sized DEF HeapOK
<1>2. PICK h1 : h1 = Put(h, m, n, s) /\ h2 = Del(h1, from, j)
  OBVIOUS
<1> HIDE DEF m
<1>3. /\ HeapOK(h1) /\ Grows(h, h1) /\ h1.ents = h.ents /\ DOMAIN h1.maps = DOMAIN h.maps
      /\ \A l \in DOMAIN h.maps : l # m => h1.maps[l] = h.maps[l]
      /\ \A i \in Name : \A y : In(h1, m, i, y) => IF i = n THEN y = s ELSE In(h, m, i, y)
  BY <1>1, <1>2, PutSets
<1>4. /\ HeapOK(h2) /\ Grows(h1, h2) /\ h2.ents = h1.ents
      /\ \A l \in DOMAIN h.maps : l # from => h2.maps[l] = h1.maps[l]
      /\ \A i \in Name : \A y : In(h2, from, i, y) => i # j /\ In(h1, from, i, y)
  BY <1>2, <1>3, DelClears
<1>5. ASSUME NEW e \in DOMAIN h.ents, NEW i \in Name, NEW x, Link(h2, e, i, x)
      PROVE  /\ ~(h.ents[e].map = from /\ i = j)
             /\ IF e = k /\ i = n THEN x = s ELSE Link(h, e, i, x)
  <2>1. PICK l : l = h.ents[e].map /\ l # 0 /\ In(h2, l, i, x) /\ l \in DOMAIN h.maps
    BY <1>3, <1>4, <1>5, MapOf DEF Link
  <2>2. In(h1, l, i, x) /\ ~(l = from /\ i = j)
    <3>1. l = from => In(h1, l, i, x) /\ i # j
      BY <1>4, <2>1, Zenon
    <3>2. l # from => h2.maps[l] = h1.maps[l]
      BY <1>4, <2>1, Zenon
    <3>3. In(h2, l, i, x)
      BY <2>1
    <3>4. ASSUME l # from PROVE In(h1, l, i, x)
      BY <3>2, <3>3, <3>4, SameIn
    <3> QED
      BY <3>1, <3>4
  <2>3. IF l = m /\ i = n THEN x = s ELSE In(h, l, i, x)
    BY <1>3, <2>1, <2>2, SameIn
  <2>4. l = m => e = k
    BY <2>1, Zenon DEF HeapOK, m
  <2>5. e = k => l = m
    BY <2>1 DEF m
  <2> QED
    BY <2>1, <2>2, <2>3, <2>4, <2>5 DEF Link
<1>6. ASSUME NEW l \in DOMAIN h.maps, NEW i \in Name, NEW x, In(h2, l, i, x)
      PROVE  In(h, l, i, x) \/ x = s
  <2>1. In(h1, l, i, x)
    BY <1>4, <1>6, SameIn
  <2>2. l = m => In(h, l, i, x) \/ x = s
    BY <1>3, <2>1, Zenon
  <2>3. l # m => In(h, l, i, x)
    BY <1>3, <2>1, SameIn, Zenon
  <2> QED
    BY <2>2, <2>3
<1> QED
  BY <1>3, <1>4, <1>5, <1>6, GrowsOn DEF Relinked

\* The record of a call when a walk starts.
LEMMA WalkFields ==
  ASSUME NEW r, Fields(r), NEW stage, NEW rest
  PROVE  Walk(r, stage, rest)
           = [op |-> r.op, path |-> r.path, dst |-> r.dst, arg |-> r.arg, stage |-> stage, cur |-> 1,
              rest |-> rest, src |-> r.src, from |-> r.from, frames |-> r.frames]
<1>1. DOMAIN r = {"op", "path", "dst", "arg", "stage", "cur", "rest", "src", "from", "frames"}
  BY DEF Fields
<1>2. PICK y : y = Walk(r, stage, rest)
  OBVIOUS
<1>3. DOMAIN y = DOMAIN r
  BY <1>2 DEF Walk
<1>4. y = [x \in DOMAIN r |-> y[x]]
  BY <1>2, Zenon DEF Walk
<1>5. y.stage = stage /\ y.cur = 1 /\ y.rest = rest
  BY <1>1, <1>2 DEF Walk
<1>6. /\ y.op = r.op /\ y.path = r.path /\ y.dst = r.dst /\ y.arg = r.arg /\ y.src = r.src
      /\ y.from = r.from /\ y.frames = r.frames
  BY <1>1, <1>2 DEF Walk
<1> QED
  BY <1>1, <1>2, <1>3, <1>4, <1>5, <1>6

\* The record of a move that has found its source.
LEMMA SrcFields ==
  ASSUME NEW r, Fields(r), NEW x
  PROVE  [r EXCEPT !.src = x]
           = [op |-> r.op, path |-> r.path, dst |-> r.dst, arg |-> r.arg, stage |-> r.stage,
              cur |-> r.cur, rest |-> r.rest, src |-> x, from |-> r.from, frames |-> r.frames]
BY DEF Fields

\* The record of a move that has found the directory of its source.
LEMMA FromFields ==
  ASSUME NEW r, Fields(r), NEW x
  PROVE  [r EXCEPT !.from = x]
           = [op |-> r.op, path |-> r.path, dst |-> r.dst, arg |-> r.arg, stage |-> r.stage,
              cur |-> r.cur, rest |-> r.rest, src |-> r.src, from |-> x, frames |-> r.frames]
BY DEF Fields

\* A move at the end of one of its walks.
LEMMA MoveStepWell ==
  ASSUME NEW c \in Call, NEW h, NEW m, Entered(c, h, m), loc[c].op = "move",
         loc[c].rest = <<>>, MoveStep(c, h, m)
  PROVE  \E w, q : Turn(c, w, q) /\ Outcome(c, q)
<1> DEFINE r == loc[c]
           k == r.cur
           j == Last(r.path)
           n == Last(r.dst)
<1>1. /\ CallOK(r, heap) /\ CallOK(r, h) /\ k \in DOMAIN h.ents /\ m \in DOMAIN h.maps
      /\ HeapOK(heap) /\ HeapOK(h) /\ Grows(heap, h) /\ KeepsTrees(heap, h)
      /\ h.ents[k].map = m /\ m # 0 /\ j \in Name /\ n \in Name
      /\ Front(r.path) \in Seq(Name) /\ Front(r.dst) \in Seq(Name)
  BY EnteredFacts DEF Entered
<1>2. 1 \in DOMAIN h.ents
  BY <1>1 DEF HeapOK
<1>3. Planted(heap, r) => Planted(h, r)
  BY <1>1, Zenon DEF KeepsTrees, CallOK, Walks
<1>4. CASE Throw(c, h)
  BY <1>1, <1>4, ThrowWell
<1>5. CASE /\ r.stage = "source" /\ Has(h, m, j) /\ heap' = h
           /\ Continue(c, Walk([r EXCEPT !.src = Get(h, m, j)], "origin", Front(r.path)))
  <2> DEFINE x == Get(h, m, j)
             q == Walk([r EXCEPT !.src = x], "origin", Front(r.path))
  <2>1. x \in DOMAIN h.ents \ {1} /\ Link(h, k, j, x)
    BY <1>1, <1>5, Placed DEF Link
  <2>2. q = [op |-> r.op, path |-> r.path, dst |-> r.dst, arg |-> r.arg, stage |-> "origin",
             cur |-> 1, rest |-> Front(r.path), src |-> x, from |-> r.from, frames |-> r.frames]
    <3>1. PICK y : y = [r EXCEPT !.src = x]
      BY Zenon
    <3>2. Fields(r)
      BY <1>1 DEF CallOK, Fields
    <3>3. y = [op |-> r.op, path |-> r.path, dst |-> r.dst, arg |-> r.arg, stage |-> r.stage,
              cur |-> r.cur, rest |-> r.rest, src |-> x, from |-> r.from, frames |-> r.frames]
      BY <3>1, <3>2, SrcFields
    <3>4. Fields(y)
      BY <3>3 DEF Fields
    <3>5. q = Walk(y, "origin", Front(r.path))
      BY <3>1
    <3> HIDE DEF q, r, x
    <3> QED
      BY <3>3, <3>4, <3>5, WalkFields
  <2> HIDE DEF x, q
  <2>3. CallOK(q, h)
    <3>1. /\ q.op = r.op /\ q.path = r.path /\ q.dst = r.dst /\ q.arg = r.arg /\ q.stage = "origin"
          /\ q.cur = 1 /\ q.rest = Front(r.path) /\ q.src = x /\ q.from = r.from
          /\ q.frames = r.frames /\ Fields(q)
      BY <2>2 DEF Fields
    <3>2. x \in 0..Len(h.ents)
      BY <1>1, <2>1, Sized
    <3> HIDE DEF r
    <3> QED
      BY <1>1, <1>2, <2>1, <3>1, <3>2 DEF CallOK, Fields
  <2>4. Continue(c, q)
    BY <1>5 DEF q, x
  <2>5. Turn(c, "walk", q)
    BY <1>5, <2>2, <2>3, <2>4, ContinueTurns DEF Walks
  <2>6. Planted(heap, r) => Planted(h, q)
    <3>1. /\ q.op = r.op /\ q.stage = "origin" /\ q.cur = 1 /\ q.rest = Front(r.path)
          /\ q.src = x /\ q.path = r.path
      BY <2>2
    <3>2. Link(h, r.cur, Last(r.path), x) /\ CallOK(r, h) /\ r.stage = "source" /\ r.op = "move"
      BY <1>1, <1>5, <2>1
    <3>3. r.rest = <<>>
      OBVIOUS
    <3> HIDE DEF r
    <3> QED
      BY <1>1, <1>3, <3>1, <3>2, <3>3, SourceFound, Zenon
  <2>7. ASSUME OnCourse(heap, r) PROVE OnCourse(h, q)
    <3>1. q.op = r.op /\ q.stage = "origin" /\ q.src = x /\ q.path = r.path
      BY <2>2
    <3>2. /\ Link(h, r.cur, Last(r.path), x) /\ r.stage = "source" /\ r.op = "move"
          /\ r.path \in Seq(Name) /\ r.path # <<>> /\ r.rest = <<>>
      BY <1>1, <1>5, <2>1 DEF CallOK, Walks
    <3>3. OnCourse(h, r)
      BY <1>1, <2>7 DEF KeepsTrees
    <3> HIDE DEF r
    <3> QED
      BY <1>1, <3>1, <3>2, <3>3, CourseFromSource, Zenon
  <2>8. BuildSafe(h, q)
    BY <2>2, NothingToKeep
  <2> QED
    BY <1>1, <1>5, <2>5, <2>6, <2>7, <2>8 DEF Outcome
<1>6. CASE /\ r.stage = "origin" /\ heap' = h
           /\ Continue(c, Walk([r EXCEPT !.from = m], "target", Front(r.dst)))
  <2> DEFINE q == Walk([r EXCEPT !.from = m], "target", Front(r.dst))
  <2>1. q = [op |-> r.op, path |-> r.path, dst |-> r.dst, arg |-> r.arg, stage |-> "target",
             cur |-> 1, rest |-> Front(r.dst), src |-> r.src, from |-> m, frames |-> r.frames]
    <3>1. PICK y : y = [r EXCEPT !.from = m]
      BY Zenon
    <3>2. Fields(r)
      BY <1>1 DEF CallOK, Fields
    <3>3. y = [op |-> r.op, path |-> r.path, dst |-> r.dst, arg |-> r.arg, stage |-> r.stage,
              cur |-> r.cur, rest |-> r.rest, src |-> r.src, from |-> m, frames |-> r.frames]
      BY <3>1, <3>2, FromFields
    <3>4. Fields(y)
      BY <3>3 DEF Fields
    <3>5. q = Walk(y, "target", Front(r.dst))
      BY <3>1
    <3> HIDE DEF q, r
    <3> QED
      BY <3>3, <3>4, <3>5, WalkFields
  <2> HIDE DEF q
  <2>2. CallOK(q, h)
    <3>1. /\ q.op = r.op /\ q.path = r.path /\ q.dst = r.dst /\ q.arg = r.arg /\ q.stage = "target"
          /\ q.cur = 1 /\ q.rest = Front(r.dst) /\ q.src = r.src /\ q.from = m
          /\ q.frames = r.frames /\ Fields(q)
      BY <2>1 DEF Fields
    <3>2. m \in 0..Len(h.maps)
      BY <1>1, Sized
    <3>3. r.stage = "origin"
      BY <1>6
    <3> HIDE DEF r
    <3> QED
      BY <1>1, <1>2, <3>1, <3>2, <3>3 DEF CallOK, Fields
  <2>3. Continue(c, q)
    BY <1>6 DEF q
  <2>4. Turn(c, "walk", q)
    BY <1>6, <2>1, <2>2, <2>3, ContinueTurns DEF Walks
  <2>5. Planted(heap, r) => Planted(h, q)
    BY <1>1, <1>3, <1>6, <2>1, OriginFound, SMTT(30)
  <2>6. ASSUME OnCourse(heap, r) PROVE OnCourse(h, q)
    <3>1. /\ q.op = r.op /\ q.stage = "target" /\ q.src = r.src /\ q.path = r.path /\ q.cur = 1
          /\ q.rest = Front(q.dst) /\ q.rest \in Seq(Name)
      BY <1>1, <2>1
    <3>2. OnCourse(h, r)
      BY <1>1, <2>6 DEF KeepsTrees
    <3>3. r.op = "move" /\ r.stage = "origin"
      BY <1>6
    <3> HIDE DEF r
    <3> QED
      BY <3>1, <3>2, <3>3, CourseFromOrigin
  <2>7. BuildSafe(h, q)
    BY <2>1, NothingToKeep
  <2> QED
    BY <1>1, <1>6, <2>4, <2>5, <2>6, <2>7 DEF Outcome
<1>7. CASE /\ r.stage = "target" /\ heap' = Del(Put(h, m, n, r.src), r.from, j)
           /\ Done(c)
  <2>1. r.src \in DOMAIN h.ents \ {1} /\ r.from \in DOMAIN h.maps
    BY <1>1, <1>7 DEF CallOK
  <2>2. /\ HeapOK(heap') /\ Grows(h, heap') /\ heap'.ents = h.ents
        /\ Relinked(h, heap', k, n, r.src, r.from, j)
        /\ \A l \in DOMAIN h.maps : \A i \in Name : \A x :
             In(heap', l, i, x) => In(h, l, i, x) \/ x = r.src
    BY <1>1, <1>7, <2>1, MoveRelinks
  <2>3. Planted(heap, r) => Planted(heap', NoCall)
    BY <1>1, <1>3, <1>7, <2>1, <2>2, MoveKeepsTree, Zenon DEF CallOK, Walks
  <2>4. Turn(c, "idle", NoCall)
    BY <1>7, <2>2, EndTurns DEF Done
  <2>5. Grows(heap, heap')
    BY <1>1, <2>2, GrowsOn
  <2>6. ASSUME OnCourse(heap, r), ~IsPrefix(r.path, r.dst), NEW q, BuildSafe(heap, q)
        PROVE  BuildSafe(heap', q)
    <3>1. OnCourse(h, r) /\ BuildSafe(h, q)
      BY <1>1, <2>6 DEF KeepsTrees, KeepsBuilds
    <3>2. /\ r.op = "move" /\ r.stage = "target" /\ r.rest = <<>>
          /\ r.path \in Seq(Name) /\ r.dst \in Seq(Name) /\ r.dst # <<>>
      BY <1>1, <1>7 DEF CallOK, Walks
    <3> HIDE DEF r, j, n
    <3> QED
      BY <1>1, <2>2, <2>6, <3>1, <3>2, MoveStaysSafe, Zenon DEF k
  <2>7. OnCourse(heap', NoCall) /\ BuildSafe(heap', NoCall)
    BY NoCallIs, NothingToKeep
  <2>8. OnCourse(heap, r) /\ ~IsPrefix(r.path, r.dst) => KeepsBuilds(heap, heap')
    BY <2>6 DEF KeepsBuilds
  <2> QED
    BY <2>2, <2>3, <2>4, <2>5, <2>7, <2>8 DEF Outcome
<1> QED
  BY <1>4, <1>5, <1>6, <1>7 DEF MoveStep

\* A step that reaches a directory.
LEMMA EnterWell ==
  ASSUME NEW c \in Call, NEW h, NEW m, Entered(c, h, m), Enter(c, h, m)
  PROVE  \E w, q : Turn(c, w, q) /\ Outcome(c, q)
BY NextSegmentStep, MoveStepWell, SetTargetStep DEF Enter

\* A step that leaves the heap and the call as they are.
LEMMA SameCallWell ==
  ASSUME HeapOK(heap), CallsOK, NEW c \in Call, NEW w, heap' = heap, loc' = loc,
         pc' = [pc EXCEPT ![c] = w], Waits(w, loc[c], heap),
         \/ answer' = answer
         \/ \E how \in {"none", "ok", "error"} : \E v :
              answer' = [answer EXCEPT ![c] = [how |-> how, val |-> v]],
         begun' = begun \/ (begun < MaxCalls /\ begun' = begun + 1)
  PROVE  Turn(c, w, loc[c]) /\ Outcome(c, loc[c])
<1>1. loc' = [loc EXCEPT ![c] = loc[c]]
  BY DEF CallsOK
<1>2. CallOK(loc[c], heap)
  BY DEF CallsOK
<1>3. Grows(heap, heap') /\ KeepsTrees(heap, heap')
  BY GrowsItself
<1>4. HeapOK(heap')
  OBVIOUS
<1>5. Turn(c, w, loc[c])
  BY <1>1, <1>2, Zenon DEF Turn
<1> QED
  BY <1>3, <1>4, <1>5 DEF Outcome

\* A step of a walk that needs no request.
LEMMA StepInMemoryWell ==
  ASSUME HeapOK(heap), CallsOK, NEW c \in Call, StepInMemory(c)
  PROVE  \E w, q : Turn(c, w, q) /\ Outcome(c, q)
<1> DEFINE cur == heap.ents[loc[c].cur]
<1>1. /\ CallOK(loc[c], heap) /\ loc[c].op \in Walks /\ loc[c].cur \in DOMAIN heap.ents
      /\ pc[c] = "walk"
  BY DEF CallsOK, CallOK, Waits, StepInMemory
<1>2. Grows(heap, heap) /\ KeepsTrees(heap, heap)
  BY GrowsItself
<1>3. CASE cur.map # 0 /\ Enter(c, heap, cur.map)
  <2>1. Entered(c, heap, cur.map)
    BY <1>1, <1>2, <1>3 DEF Entered
  <2> QED
    BY <1>3, <2>1, EnterWell
<1>4. CASE Throw(c, heap)
  BY <1>1, <1>2, <1>4, ThrowWell
<1>5. CASE /\ cur.type = "node" /\ pc' = [pc EXCEPT ![c] = "fetch"]
           /\ UNCHANGED <<heap, loc, answer, begun>>
  <2>1. Waits("fetch", loc[c], heap)
    BY <1>1, <1>5 DEF Waits
  <2> QED
    BY <1>5, <2>1, SameCallWell, Zenon
<1> QED
  BY <1>3, <1>4, <1>5 DEF StepInMemory

\* A step of a walk after the answer of getNode.
LEMMA StepFetchedWell ==
  ASSUME HeapOK(heap), CallsOK, NEW c \in Call, StepFetched(c)
  PROVE  \E w, q : Turn(c, w, q) /\ Outcome(c, q)
<1> DEFINE e == loc[c].cur
           h == LoadChildren(heap, e)
<1>1. /\ CallOK(loc[c], heap) /\ e \in DOMAIN heap.ents /\ heap.ents[e].type = "node"
      /\ pc[c] = "fetch"
  BY DEF CallsOK, CallOK, Waits, StepFetched
<1>2. CASE IsDict(heap.ents[e].val) /\ Enter(c, h, Len(h.maps))
  <2> HIDE DEF h
  <2>1. /\ HeapOK(h) /\ Grows(heap, h) /\ Regrown(heap, h, e, Name) /\ Refilled(heap, h)
        /\ h.ents[e].map = Len(h.maps) /\ h.ents[e].map # 0
    BY <1>1, <1>2, LoadGrows DEF h
  <2>2. KeepsTrees(heap, h)
    BY <1>1, <2>1, RegrownKeeps
  <2>3. Entered(c, h, Len(h.maps))
    BY <1>1, <2>1, <2>2 DEF Entered
  <2> QED
    BY <1>2, <2>3, EnterWell
<1>3. CASE Throw(c, heap)
  BY <1>1, <1>3, GrowsItself, ThrowWell
<1> QED
  BY <1>2, <1>3 DEF StepFetched

-----------------------------------------------------------------------------
(* The calls, and the steps of a build. *)

\* The record of a call at its start.
LEMMA AskFields ==
  ASSUME NEW op, NEW p, NEW t, NEW a, NEW stage, NEW rest
  PROVE  Walk(Asked(op, p, t, a), stage, rest)
           = [op |-> op, path |-> p, dst |-> t, arg |-> a, stage |-> stage, cur |-> 1,
              rest |-> rest, src |-> 0, from |-> 0, frames |-> <<>>]
<1>1. PICK y : y = Asked(op, p, t, a)
  OBVIOUS
<1>2. DOMAIN y = {"op", "path", "dst", "arg", "stage", "cur", "rest", "src", "from", "frames"}
  BY <1>1 DEF NoCall, Asked
<1>3. y = [x \in DOMAIN y |-> y[x]]
  BY <1>1, Zenon DEF NoCall, Asked
<1>4. /\ y.op = op /\ y.path = p /\ y.dst = t /\ y.arg = a
      /\ y.src = 0 /\ y.from = 0 /\ y.frames = <<>>
  BY <1>1 DEF NoCall, Asked
<1>5. Fields(y)
  BY <1>2, <1>3 DEF Fields
<1>6. Walk(y, stage, rest)
        = [op |-> y.op, path |-> y.path, dst |-> y.dst, arg |-> y.arg, stage |-> stage, cur |-> 1,
           rest |-> rest, src |-> y.src, from |-> y.from, frames |-> y.frames]
  BY <1>5, WalkFields
<1> HIDE DEF NoCall
<1> QED
  BY <1>1, <1>4, <1>6

\* A call that starts with a walk, from the root.
LEMMA WalkBegins ==
  ASSUME HeapOK(heap), CallsOK, NEW c \in Call, pc' = [pc EXCEPT ![c] = "walk"],
         NEW op \in Walks, NEW p \in Path, NEW t \in Path, NEW a, NEW stage, NEW rest \in Seq(Name),
         op = "mount" => a \in Mounted, op = "write" => a \in Written,
         op = "move" => stage = "source" /\ rest = Front(p),
         Begin(c, Walk(Asked(op, p, t, a), stage, rest))
  PROVE  \E w, q : Turn(c, w, q) /\ Outcome(c, q)
<1> DEFINE q == [op |-> op, path |-> p, dst |-> t, arg |-> a, stage |-> stage, cur |-> 1,
                 rest |-> rest, src |-> 0, from |-> 0, frames |-> <<>>]
<1>1. Begin(c, q)
  <2>1. PICK z : z = Walk(Asked(op, p, t, a), stage, rest)
    OBVIOUS
  <2>2. Begin(c, z)
    BY <2>1
  <2>3. z = q
    BY <2>1, AskFields
  <2> HIDE DEF q
  <2> QED
    BY <2>2, <2>3
<1>2. /\ q.op = op /\ q.path = p /\ q.dst = t /\ q.arg = a /\ q.stage = stage /\ q.cur = 1
      /\ q.rest = rest /\ q.src = 0 /\ q.from = 0 /\ q.frames = <<>>
      /\ q = [op |-> q.op, path |-> q.path, dst |-> q.dst, arg |-> q.arg, stage |-> q.stage,
              cur |-> q.cur, rest |-> q.rest, src |-> q.src, from |-> q.from, frames |-> q.frames]
  OBVIOUS
<1> HIDE DEF q
<1>3. /\ heap' = heap /\ loc' = [loc EXCEPT ![c] = q] /\ answer' = [answer EXCEPT ![c] = NoAnswer]
      /\ begun < MaxCalls /\ begun' = begun + 1
  BY <1>1, Zenon DEF Begin
<1>4. p \in Seq(Name) /\ t \in Seq(Name) /\ p # <<>> /\ t # <<>>
  BY TreeAssumption
<1>5. 1 \in DOMAIN heap.ents /\ Len(heap.ents) \in Nat /\ Len(heap.maps) \in Nat
  BY Sized DEF HeapOK
<1>6. CallOK(q, heap)
  BY <1>2, <1>4, <1>5 DEF Walks, Ops, CallOK
<1>7. Waits("walk", q, heap)
  BY <1>2 DEF Waits
<1>8. Turn(c, "walk", q)
  BY <1>3, <1>6, <1>7 DEF NoAnswer, Turn
<1>9. ASSUME Planted(heap, loc[c]) PROVE Planted(heap, q)
  <2>1. PICK P \in [Nat -> Seq(Name)], A \in SUBSET Nat, B \in SUBSET Nat :
          /\ 1 \in A /\ P[1] = <<>> /\ A \cap B = {}
          /\ Tree(heap, A, P) /\ Tree(heap, B, P)
    BY <1>9, Zenon DEF Planted
  <2>2. <<>> \o rest = rest
    BY ConcatEmptySeq
  <2>3. Follows(heap, q, A, B, P)
    BY <1>2, <2>1, <2>2 DEF Follows
  <2> QED
    BY <2>1, <2>3, Zenon DEF Planted
<1>10. Planted(heap, loc[c]) => OnCourse(heap, q)
  BY <1>2, CourseStarts, NothingToKeep
<1>11. BuildSafe(heap, q)
  BY <1>2, NothingToKeep DEF Walks
<1>12. Outcome(c, q)
  BY <1>3, <1>9, <1>10, <1>11, GrowsItself DEF Outcome
<1> QED
  BY <1>8, <1>12

\* The calls that walk.
LEMMA CallWalkWell ==
  ASSUME HeapOK(heap), CallsOK, NEW c \in Call, CallWalk(c)
  PROVE  \E w, q : Turn(c, w, q) /\ Outcome(c, q)
<1>1. pc' = [pc EXCEPT ![c] = "walk"]
  BY Zenon DEF CallWalk
<1>2. PICK p \in Path :
        \/ \E d \in Written : Begin(c, Walk(Asked("write", p, p, d), "target", Front(p)))
        \/ \E k \in Mounted : Begin(c, Walk(Asked("mount", p, p, k), "target", Front(p)))
        \/ \E op \in {"mkdir", "delete"} : Begin(c, Walk(Asked(op, p, p, NoValue), "target", Front(p)))
        \/ \E t \in Path : Begin(c, Walk(Asked("move", p, t, NoValue), "source", Front(p)))
        \/ Begin(c, Walk(Asked("list", p, p, NoValue), "target", p))
  BY Zenon DEF CallWalk, Asked
<1>3. p \in Seq(Name) /\ Front(p) \in Seq(Name)
  BY TreeAssumption, FrontAndLast
<1>4. {"write", "mount", "mkdir", "delete", "move", "list"} \subseteq Walks
  BY DEF Walks
<1>5. ASSUME NEW d \in Written, Begin(c, Walk(Asked("write", p, p, d), "target", Front(p)))
      PROVE  \E w, q : Turn(c, w, q) /\ Outcome(c, q)
  BY <1>1, <1>3, <1>4, <1>5, WalkBegins, Zenon
<1>6. ASSUME NEW k \in Mounted, Begin(c, Walk(Asked("mount", p, p, k), "target", Front(p)))
      PROVE  \E w, q : Turn(c, w, q) /\ Outcome(c, q)
  BY <1>1, <1>3, <1>4, <1>6, WalkBegins, Zenon
<1>7. ASSUME NEW op \in {"mkdir", "delete"},
             Begin(c, Walk(Asked(op, p, p, NoValue), "target", Front(p)))
      PROVE  \E w, q : Turn(c, w, q) /\ Outcome(c, q)
  BY <1>1, <1>3, <1>4, <1>7, WalkBegins, Zenon
<1>8. ASSUME NEW t \in Path, Begin(c, Walk(Asked("move", p, t, NoValue), "source", Front(p)))
      PROVE  \E w, q : Turn(c, w, q) /\ Outcome(c, q)
  BY <1>1, <1>3, <1>4, <1>8, WalkBegins, Zenon
<1>9. CASE Begin(c, Walk(Asked("list", p, p, NoValue), "target", p))
  BY <1>1, <1>3, <1>4, <1>9, WalkBegins, Zenon
<1> QED
  BY <1>2, <1>5, <1>6, <1>7, <1>8, <1>9

\* The call of build.
LEMMA CallBuildWell ==
  ASSUME HeapOK(heap), CallsOK, NEW c \in Call, CallBuild(c)
  PROVE  \E w, q : Turn(c, w, q) /\ Outcome(c, q)
<1> DEFINE root == heap.ents[1]
           fs == <<Frame(root.map, "")>>
           b == [NoCall EXCEPT !.op = "build"]
           q == [b EXCEPT !.frames = fs]
<1>1. CASE root.map # 0 /\ pc' = [pc EXCEPT ![c] = "build"] /\ Begin(c, q)
  <2>1. q = [op |-> "build", path |-> <<>>, dst |-> <<>>, arg |-> NoValue, stage |-> "target",
             cur |-> 1, rest |-> <<>>, src |-> 0, from |-> 0, frames |-> fs]
    <3>1. PICK y : y = b
      BY Zenon
    <3>2. y = [op |-> "build", path |-> <<>>, dst |-> <<>>, arg |-> NoValue, stage |-> "target",
               cur |-> 1, rest |-> <<>>, src |-> 0, from |-> 0, frames |-> <<>>]
      BY <3>1 DEF NoCall
    <3>3. q = [y EXCEPT !.frames = fs]
      BY <3>1
    <3> HIDE DEF q, fs
    <3> QED
      BY <3>2, <3>3
  <2> HIDE DEF q, fs
  <2>2. CallOK(q, heap)
    BY <2>1, Sized, EmptySeq DEF HeapOK, CallOK, Ops, Walks
  <2>3. Waits("build", q, heap)
    BY <2>1 DEF Waits
  <2>4. Turn(c, "build", q)
    BY <1>1, <2>2, <2>3, Zenon DEF Turn, Begin, NoAnswer
  <2>5. heap' = heap
    BY <1>1 DEF Begin
  <2>6. Planted(heap, loc[c]) => Planted(heap, q)
    BY <2>1, PlantedAlike
  <2>7. OnCourse(heap, q)
    BY <2>1, NothingToKeep
  <2>8. Planted(heap, loc[c]) => BuildSafe(heap, q)
    <3>1. fs = <<Frame(heap.ents[1].map, "")>> /\ q.frames = fs
      BY <2>1, Zenon DEF fs
    <3> QED
      BY <1>1, <3>1, BuildStarts, Zenon
  <2> QED
    BY <2>4, <2>5, <2>6, <2>7, <2>8, GrowsItself DEF Outcome
<1>2. CASE /\ ~InFlight(c) /\ begun < MaxCalls /\ begun' = begun + 1
           /\ answer' = [answer EXCEPT ![c] = [how |-> "ok", val |-> root.val]]
           /\ UNCHANGED <<heap, pc, loc>>
  BY <1>2, SameCallWell DEF CallsOK
<1> QED
  BY <1>1, <1>2 DEF CallBuild

\* A build goes on with other frames.
LEMMA BuildsOn ==
  ASSUME HeapOK(heap), CallsOK, NEW c \in Call, pc[c] = "build", NEW fs,
         NoCircle(heap, loc[c].frames) => NoCircle(heap, fs),
         loc' = [loc EXCEPT ![c].frames = fs], UNCHANGED <<heap, pc, answer, begun>>
  PROVE  \E w, q : Turn(c, w, q) /\ Outcome(c, q)
<1> DEFINE r == loc[c]
           q == [r EXCEPT !.frames = fs]
<1>1. CallOK(r, heap) /\ Waits("build", r, heap)
  BY DEF CallsOK
<1>2. q = [op |-> r.op, path |-> r.path, dst |-> r.dst, arg |-> r.arg, stage |-> r.stage,
           cur |-> r.cur, rest |-> r.rest, src |-> r.src, from |-> r.from, frames |-> fs]
  BY <1>1 DEF CallOK
<1>3. loc' = [loc EXCEPT ![c] = q]
  OBVIOUS
<1> HIDE DEF q
<1>4. CallOK(q, heap) /\ Waits("build", q, heap)
  BY <1>1, <1>2 DEF CallOK, Waits
<1>5. pc' = [pc EXCEPT ![c] = "build"]
  BY Zenon DEF CallsOK
<1>6. Turn(c, "build", q)
  BY <1>3, <1>4, <1>5, Zenon DEF Turn
<1>7. Planted(heap, r) => Planted(heap, q)
  BY <1>4, PlantedAlike DEF Waits
<1>8. BuildSafe(heap, r) => BuildSafe(heap, q)
  BY <1>1, <1>2 DEF BuildSafe, Waits
<1>9. OnCourse(heap, q)
  BY <1>4, NothingToKeep DEF Waits
<1> QED
  BY <1>6, <1>7, <1>8, <1>9, GrowsItself DEF Outcome

\* The steps of a build, and a request that fails.
LEMMA BuildWell ==
  ASSUME HeapOK(heap), CallsOK, NEW c \in Call,
         BuildChild(c) \/ BuildDict(c) \/ RequestFails(c)
  PROVE  \E w, q : Turn(c, w, q) /\ Outcome(c, q)
<1>1. CallOK(loc[c], heap) /\ Grows(heap, heap) /\ KeepsTrees(heap, heap)
  BY GrowsItself DEF CallsOK
<1>2. CASE BuildChild(c)
  <2> DEFINE old == loc[c].frames
  <2> DEFINE f == Last(old)
             i == CHOOSE x \in Pending(f) : \A y \in Pending(f) : x <= y
             slot == heap.maps[f.map][i]
             entry == heap.ents[slot.ent]
             g == [f EXCEPT !.pos = i]
             key == [form |-> entry.form, val |-> entry.val]
             added == Append(Front(old), Added(g, slot.name, key))
             into == Front(old) \o <<g, Frame(entry.map, slot.name)>>
             fs == IF Unchanged(entry) THEN added ELSE into
  <2>1. /\ pc[c] = "build" /\ Pending(f) # {} /\ loc' = [loc EXCEPT ![c].frames = fs]
        /\ UNCHANGED <<heap, pc, answer, begun>>
    BY <1>2, Zenon DEF BuildChild
  <2>2. /\ f = Last(old) /\ i = CHOOSE x \in Pending(f) : \A y \in Pending(f) : x <= y
        /\ slot = heap.maps[f.map][i] /\ entry = heap.ents[slot.ent] /\ g = [f EXCEPT !.pos = i]
        /\ added = Append(Front(old), Added(g, slot.name, key))
        /\ into = Front(old) \o <<g, Frame(entry.map, slot.name)>>
        /\ fs = IF Unchanged(entry) THEN added ELSE into
    OBVIOUS
  <2> HIDE DEF f, i, slot, entry, g, key, added, into, fs
  <2>3. ASSUME NoCircle(heap, old)
        PROVE  NoCircle(heap, added) /\ (entry.map # 0 => NoCircle(heap, into))
    <3>1. /\ \A k : NoCircle(heap, Append(Front(old), Added(g, slot.name, k)))
          /\ entry.map # 0 => NoCircle(heap, Front(old) \o <<g, Frame(entry.map, slot.name)>>)
      <4> HIDE DEF old
      <4> QED
        BY <2>1, <2>2, <2>3, ChildFrames, Zenon
    <3> QED
      BY <2>2, <3>1, Zenon
  <2>4. NoCircle(heap, old) => NoCircle(heap, fs)
    BY <2>2, <2>3, Zenon DEF Unchanged
  <2> QED
    BY <2>1, <2>4, BuildsOn, Zenon
<1>3. CASE BuildDict(c)
  <2>1. CASE Throw(c, heap)
    BY <1>1, <2>1, ThrowWell
  <2>2. ASSUME NEW v, UNCHANGED heap, End(c, "ok", v)
        PROVE  \E w, q : Turn(c, w, q) /\ Outcome(c, q)
    BY <1>1, <2>2, EndsWell
  <2>3. ASSUME NEW up, up = Front(loc[c].frames), up # <<>>, NEW n, NEW key, pc[c] = "build",
               loc' = [loc EXCEPT ![c].frames = Append(Front(up), Added(Last(up), n, key))],
               UNCHANGED <<heap, pc, answer, begun>>
        PROVE  \E w, q : Turn(c, w, q) /\ Outcome(c, q)
    <3>1. PICK fs : fs = Append(Front(up), Added(Last(up), n, key))
      BY Zenon
    <3>2. NoCircle(heap, loc[c].frames) => NoCircle(heap, fs)
      BY <2>3, <3>1, DictFrames
    <3>3. loc' = [loc EXCEPT ![c].frames = fs]
      BY <2>3, <3>1
    <3> QED
      BY <2>3, <3>2, <3>3, BuildsOn, Zenon
  <2> QED
    BY <1>3, <2>1, <2>2, <2>3 DEF BuildDict
<1>4. CASE RequestFails(c)
  BY <1>1, <1>4, ThrowWell DEF RequestFails
<1> QED
  BY <1>2, <1>3, <1>4

\* Every step of a call is a turn of it, with one of the outcomes.
LEMMA StepWell ==
  ASSUME HeapOK(heap), CallsOK, NEW c \in Call, Step(c)
  PROVE  \E w, q : Turn(c, w, q) /\ Outcome(c, q)
BY CallWalkWell, CallBuildWell, StepInMemoryWell, StepFetchedWell, BuildWell DEF Step

-----------------------------------------------------------------------------
(* The inductive invariant. *)

\* The invariant holds at the start.
LEMMA VfsInit ==
  ASSUME Init
  PROVE  VfsInv
<1>1. /\ pc = [c \in Call |-> "idle"] /\ loc = [c \in Call |-> NoCall]
      /\ answer = [c \in Call |-> NoAnswer] /\ begun = 0
  BY DEF Init
<1>2. NoValue \in Value /\ Node \subseteq Value
  BY DEF Value
<1>3. HeapOK(heap) /\ heap.ents \in Seq(Entry) /\ Len(heap.ents) = 1
      /\ \A n \in Name : \A x : ~Link(heap, 1, n, x)
  <2>1. CASE heap = [ents |-> <<DirEntry(1)>>, maps |-> << <<>> >>]
    <3> DEFINE entry == DirEntry(1)
    <3>1. entry \in Entry /\ entry.map = 1 /\ entry.type = "dir"
      BY <1>2 DEF DirEntry, Entry, Form
    <3> HIDE DEF entry
    <3>2. heap.ents = <<entry>> /\ heap.maps = << <<>> >>
      BY <2>1 DEF entry
    <3>3. heap.ents \in Seq(Entry) /\ Len(heap.ents) = 1 /\ DOMAIN heap.ents = {1} /\ heap.ents[1] = entry
      BY <3>1, <3>2
    <3>4. <<>> \in Seq(Slot)
      BY EmptySeq
    <3>5. /\ heap.maps \in Seq(Seq(Slot)) /\ Len(heap.maps) = 1 /\ DOMAIN heap.maps = {1}
          /\ heap.maps[1] = <<>> /\ DOMAIN heap.maps[1] = {}
      BY <3>2, <3>4
    <3>6. heap \in Heap
      BY <2>1, <3>3, <3>5 DEF Heap
    <3>7. HeapOK(heap)
      BY <3>1, <3>3, <3>5, <3>6 DEF HeapOK
    <3>8. \A n \in Name : \A x : ~Link(heap, 1, n, x)
      BY <3>1, <3>3, <3>5 DEF Link, In
    <3> QED
      BY <3>3, <3>7, <3>8
  <2>2. ASSUME NEW v \in Root,
               heap = [ents |-> <<NodeEntry([form |-> "node", val |-> v])>>, maps |-> <<>>]
        PROVE  HeapOK(heap) /\ heap.ents \in Seq(Entry) /\ Len(heap.ents) = 1
               /\ \A n \in Name : \A x : ~Link(heap, 1, n, x)
    <3> DEFINE entry == NodeEntry([form |-> "node", val |-> v])
    <3>1. entry \in Entry /\ entry.map = 0 /\ entry.val \in Node
      BY <1>2, TreeAssumption DEF NodeEntry, Entry, Form
    <3> HIDE DEF entry
    <3>2. heap.ents = <<entry>> /\ heap.maps = <<>>
      BY <2>2 DEF entry
    <3>3. heap.ents \in Seq(Entry) /\ Len(heap.ents) = 1 /\ DOMAIN heap.ents = {1} /\ heap.ents[1] = entry
      BY <3>1, <3>2
    <3>4. heap.maps \in Seq(Seq(Slot)) /\ Len(heap.maps) = 0 /\ DOMAIN heap.maps = {}
      BY <3>2, EmptySeq
    <3>5. heap \in Heap
      BY <2>2, <3>3, <3>4 DEF Heap
    <3>6. HeapOK(heap)
      BY <3>1, <3>3, <3>4, <3>5 DEF HeapOK
    <3>7. \A n \in Name : \A x : ~Link(heap, 1, n, x)
      BY <3>1, <3>3 DEF Link
    <3> QED
      BY <3>3, <3>6, <3>7
  <2> QED
    BY <2>1, <2>2, Zenon DEF Init
<1>4. CallsOK
  BY <1>1, <1>3, NoCallOK, TreeAssumption DEF NoAnswer, CallsOK
<1>5. Planted(heap, NoCall)
  <2> DEFINE P == [x \in Nat |-> <<>>]
  <2>1. <<>> \in Seq(Name)
    BY EmptySeq
  <2>2. P \in [Nat -> Seq(Name)] /\ P[1] = <<>>
    BY <2>1
  <2> HIDE DEF P
  <2>3. {1} \in SUBSET Nat /\ {} \in SUBSET Nat /\ 1 \in {1} /\ {1} \cap {} = {}
    OBVIOUS
  <2>4. Tree(heap, {1}, P)
    BY <1>3 DEF Tree, HeapOK
  <2>5. Tree(heap, {}, P)
    BY DEF Tree
  <2>6. Follows(heap, NoCall, {1}, {}, P)
    BY NoCallIs DEF Follows
  <2> QED
    BY <2>2, <2>3, <2>4, <2>5, <2>6, Zenon DEF Planted
<1>6. \A c \in Call : loc[c] = NoCall
  BY <1>1
<1>7. Forest
  BY <1>5, <1>6, NoCallIs DEF Forest
<1>8. Course
  BY <1>6, NoCallIs, NothingToKeep DEF Course
<1>9. Builds
  BY <1>6, NoCallIs, NothingToKeep DEF Builds
<1> QED
  BY <1>3, <1>4, <1>7, <1>8, <1>9 DEF VfsInv

\* Other calls go on as they were.
LEMMA CallsStep ==
  ASSUME HeapOK(heap), CallsOK, NEW c \in Call, NEW w, NEW q, Turn(c, w, q),
         HeapOK(heap'), Grows(heap, heap')
  PROVE  CallsOK'
<1>1. ASSUME NEW o \in Call
      PROVE  CallOK(loc'[o], heap') /\ Waits(pc'[o], loc'[o], heap')
             /\ answer'[o].how \in {"none", "ok", "error"}
  <2>1. CASE o = c
    BY <2>1 DEF Turn, CallsOK
  <2>2. CASE o # c
    BY <2>2, CallGrows DEF Turn, CallsOK
  <2> QED
    BY <2>1, <2>2
<1>2. /\ pc' = [o \in Call |-> pc'[o]] /\ loc' = [o \in Call |-> loc'[o]]
      /\ answer' = [o \in Call |-> answer'[o]]
  BY Zenon DEF Turn, CallsOK
<1>3. begun' \in 0..MaxCalls
  BY TreeAssumption DEF Turn, CallsOK
<1> QED
  BY <1>1, <1>2, <1>3 DEF CallsOK

\* A step leaves the root in a tree, and the move that is in flight in its place.
LEMMA ForestStep ==
  ASSUME VfsInv, NEW c \in Call, NEW w, NEW q, Turn(c, w, q), Outcome(c, q), CallsOK', Track
  PROVE  Forest'
<1> SUFFICES ASSUME ~movesMet'
             PROVE  /\ \A d, o \in Call : loc'[d].op = "move" /\ loc'[o].op = "move" => d = o
                    /\ Planted(heap', NoCall)
                    /\ \A o \in Call : Planted(heap', loc'[o])
  BY DEF Forest
<1>1. /\ ~movesMet
      /\ \A d \in Call : \A o \in {x \in Call \ {d} : pc'[x] # "idle"} :
           ~(pc'[d] # "idle" /\ loc'[d].op = "move" /\ loc'[o].op = "move")
  BY Zenon DEF Track
<1>2. ASSUME NEW o \in Call, loc'[o].op = "move" PROVE pc'[o] # "idle"
  BY <1>2 DEF CallsOK, Waits
<1>3. \A d, o \in Call : loc'[d].op = "move" /\ loc'[o].op = "move" => d = o
  BY <1>1, <1>2
<1>4. /\ \A d, o \in Call : loc[d].op = "move" /\ loc[o].op = "move" => d = o
      /\ \A o \in Call : Planted(heap, loc[o])
  BY <1>1 DEF VfsInv, Forest
<1>5. Planted(heap', q)
  BY <1>4 DEF Outcome
<1>6. Planted(heap', NoCall)
  BY <1>5, PlantedAlike, NoCallIs
<1>7. ASSUME NEW o \in Call PROVE Planted(heap', loc'[o])
  <2>1. CASE o = c
    <3>1. loc'[o] = q
      BY <2>1 DEF Turn, VfsInv, CallsOK
    <3> QED
      BY <1>5, <3>1
  <2>2. CASE o # c
    <3>1. loc'[o] = loc[o]
      BY <2>2 DEF Turn, VfsInv, CallsOK
    <3>2. CASE KeepsTrees(heap, heap')
      BY <1>4, <3>1, <3>2 DEF VfsInv, CallsOK, CallOK, Walks, KeepsTrees
    <3>3. CASE loc[c].op = "move" /\ q = NoCall
      <4>1. loc[o].op # "move"
        BY <1>4, <2>2, <3>3
      <4> QED
        BY <1>6, <3>1, <4>1, PlantedAlike
    <3> QED
      BY <3>2, <3>3 DEF Outcome
  <2> QED
    BY <2>1, <2>2
<1> QED
  BY <1>3, <1>6, <1>7

\* A step leaves a move on its course.
LEMMA CourseStep ==
  ASSUME VfsInv, NEW c \in Call, NEW w, NEW q, Turn(c, w, q), Outcome(c, q), Track
  PROVE  Course'
<1> SUFFICES ASSUME ~movesMet', NEW o \in Call PROVE OnCourse(heap', loc'[o])
  BY DEF Course
<1>1. /\ \A d, e \in Call : loc[d].op = "move" /\ loc[e].op = "move" => d = e
      /\ \A d \in Call : Planted(heap, loc[d]) /\ OnCourse(heap, loc[d])
  BY Zenon DEF VfsInv, Forest, Course, Track
<1>2. CASE o = c
  <2>1. loc'[o] = q
    BY <1>2 DEF Turn, VfsInv, CallsOK
  <2> QED
    BY <1>1, <2>1 DEF Outcome
<1>3. CASE o # c
  <2>1. loc'[o] = loc[o]
    BY <1>3 DEF Turn, VfsInv, CallsOK
  <2>2. CASE KeepsTrees(heap, heap')
    BY <1>1, <2>1, <2>2 DEF KeepsTrees
  <2>3. CASE loc[c].op = "move"
    <3>1. loc[o].op # "move"
      BY <1>1, <1>3, <2>3
    <3> QED
      BY <2>1, <3>1, NothingToKeep
  <2> QED
    BY <2>2, <2>3 DEF Outcome
<1> QED
  BY <1>2, <1>3

\* A step leaves what a build is inside of without a circle.
LEMMA BuildsStep ==
  ASSUME VfsInv, NEW c \in Call, NEW w, NEW q, Turn(c, w, q), Outcome(c, q), CallsOK', Track
  PROVE  Builds'
<1> SUFFICES ASSUME ~movesMet', ~inside'
             PROVE  /\ \A d, o \in Call :
                         loc'[d].op = "move" /\ IsPrefix(loc'[d].path, loc'[d].dst)
                           => loc'[o].op # "build"
                    /\ \A o \in Call : BuildSafe(heap', loc'[o])
  BY DEF Builds
<1>1. /\ ~movesMet /\ ~inside
      /\ \A d \in Call : \A o \in {x \in Call \ {d} : pc'[x] # "idle"} :
           ~(/\ loc'[d].op = "move" /\ IsPrefix(loc'[d].path, loc'[d].dst)
             /\ loc'[o].op = "build")
  BY Zenon DEF Track
<1>2. ASSUME NEW d \in Call, NEW o \in Call, loc'[d].op = "move",
             IsPrefix(loc'[d].path, loc'[d].dst), loc'[o].op = "build"
      PROVE  FALSE
  <2>1. o # d
    BY <1>2
  <2>2. pc'[o] # "idle"
    BY <1>2 DEF CallsOK, Waits
  <2> QED
    BY <1>1, <1>2, <2>1, <2>2
<1>3. /\ \A d, o \in Call :
           loc[d].op = "move" /\ IsPrefix(loc[d].path, loc[d].dst) => loc[o].op # "build"
      /\ \A d \in Call :
           Planted(heap, loc[d]) /\ OnCourse(heap, loc[d]) /\ BuildSafe(heap, loc[d])
  BY <1>1 DEF VfsInv, Forest, Course, Builds
<1>4. ASSUME NEW o \in Call PROVE BuildSafe(heap', loc'[o])
  <2>1. CASE o = c
    <3>1. loc'[o] = q
      BY <2>1 DEF Turn, VfsInv, CallsOK
    <3> QED
      BY <1>3, <3>1 DEF Outcome
  <2>2. CASE o # c
    <3>1. loc'[o] = loc[o]
      BY <2>2 DEF Turn, VfsInv, CallsOK
    <3>2. CASE KeepsTrees(heap, heap')
      BY <1>3, <3>1, <3>2 DEF KeepsTrees, KeepsBuilds
    <3>3. CASE loc[c].op = "move" /\ IsPrefix(loc[c].path, loc[c].dst)
      <4>1. loc[o].op # "build"
        BY <1>3, <3>3
      <4> QED
        BY <3>1, <4>1, NothingToKeep
    <3>4. CASE ~IsPrefix(loc[c].path, loc[c].dst) /\ ~KeepsTrees(heap, heap')
      <4>1. KeepsBuilds(heap, heap')
        BY <1>3, <3>4 DEF Outcome
      <4> QED
        BY <1>3, <3>1, <4>1 DEF KeepsBuilds
    <3> QED
      BY <3>2, <3>3, <3>4 DEF Outcome
  <2> QED
    BY <2>1, <2>2
<1> QED
  BY <1>2, <1>4

\* Every step keeps the invariant.
LEMMA VfsNext ==
  ASSUME VfsInv, [Next]_vars
  PROVE  VfsInv'
<1>1. CASE Next
  <2>1. PICK c \in Call : Step(c) /\ Track
    BY <1>1 DEF Next
  <2>2. PICK w, q : Turn(c, w, q) /\ Outcome(c, q)
    BY <2>1, StepWell DEF VfsInv
  <2>3. HeapOK(heap') /\ Grows(heap, heap')
    BY <2>2 DEF Outcome
  <2>4. CallsOK'
    BY <2>2, <2>3, CallsStep DEF VfsInv
  <2>5. Forest'
    BY <2>1, <2>2, <2>4, ForestStep
  <2>6. HeapOK(heap)'
    BY <2>3 DEF HeapOK
  <2>7. Course' /\ Builds'
    BY <2>1, <2>2, <2>4, CourseStep, BuildsStep
  <2> QED
    BY <2>4, <2>5, <2>6, <2>7 DEF VfsInv
<1>2. CASE UNCHANGED vars
  <2>1. UNCHANGED <<heap, pc, loc, answer, begun, movesMet, inside>>
    BY <1>2 DEF vars, ghosts
  <2>2. HeapOK(heap)' /\ CallsOK'
    BY <2>1 DEF VfsInv, CallsOK
  <2>3. Forest' /\ Course' /\ Builds'
    BY <2>1 DEF VfsInv, Forest, Course, Builds
  <2> QED
    BY <2>2, <2>3 DEF VfsInv
<1> QED
  BY <1>1, <1>2

\* The inductive invariant.
THEOREM VfsInductive == Spec => []VfsInv
<1>1. Init => VfsInv
  BY VfsInit
<1>2. VfsInv /\ [Next]_vars => VfsInv'
  BY VfsNext
<1> QED
  BY <1>1, <1>2, PTL DEF Spec

\* What calls hold stays in range: TypeOK.
THEOREM VfsTypes == Spec => []TypeOK
<1>1. ASSUME VfsInv PROVE TypeOK
  <2>1. HeapOK(heap) /\ CallsOK
    BY <1>1 DEF VfsInv
  <2>2. ASSUME NEW m \in DOMAIN heap.maps, NEW i \in DOMAIN heap.maps[m]
        PROVE  heap.maps[m][i].name \in Name /\ heap.maps[m][i].ent \in 0..Len(heap.ents)
    BY <2>1, Sized DEF HeapOK, Slot
  <2>3. ASSUME NEW e \in DOMAIN heap.ents
        PROVE  /\ heap.ents[e].type \in {"node", "pending", "dir"} /\ heap.ents[e].form \in Form
               /\ heap.ents[e].map \in 0..Len(heap.maps)
    BY <2>1, Sized DEF HeapOK, Entry
  <2>4. ASSUME NEW c \in Call
        PROVE  /\ pc[c] \in {"idle", "walk", "fetch", "build"}
               /\ loc[c].op \in Ops \cup {"none"}
               /\ loc[c].cur \in DOMAIN heap.ents /\ loc[c].src \in 0..Len(heap.ents)
               /\ loc[c].from \in 0..Len(heap.maps)
               /\ answer[c].how \in {"none", "ok", "error"}
    BY <2>1 DEF CallsOK, CallOK, Waits
  <2>5. begun \in 0..MaxCalls
    BY <2>1 DEF CallsOK
  <2> QED
    BY <2>2, <2>3, <2>4, <2>5 DEF TypeOK
<1> QED
  BY <1>1, VfsInductive, PTL

\* A build returns: as long as no two moves were in flight together and no
\* directory was moved into itself beside it, what it is inside of never goes
\* round in a circle (processEntry of vfs.ts recurses into each directory).
THEOREM BuildsReturnAlways == Spec => []BuildsReturn
<1>1. ASSUME VfsInv PROVE BuildsReturn
  <2> SUFFICES ASSUME ~movesMet, ~inside, NEW c \in Call PROVE ~Circles(loc[c])
    BY DEF BuildsReturn
  <2>1. HeapOK(heap) /\ CallOK(loc[c], heap) /\ BuildSafe(heap, loc[c])
    BY <1>1 DEF VfsInv, CallsOK, Builds
  <2>2. CASE loc[c].op = "build"
    BY <2>1, <2>2, GoesRound DEF BuildSafe
  <2>3. CASE loc[c].op # "build"
    <3>1. loc[c].frames = <<>>
      BY <2>1, <2>3 DEF CallOK
    <3> QED
      BY <3>1 DEF Circles
  <2> QED
    BY <2>2, <2>3
<1> QED
  BY <1>1, VfsInductive, PTL

-----------------------------------------------------------------------------
(* The maps of the tree. *)

\* Induction over the naturals, for a property given as the set of those that
\* have it.
LEMMA NatInductionOn ==
  ASSUME NEW C, 0 \in C, \A n \in Nat : n \in C => n + 1 \in C
  PROVE  Nat \subseteq C
<1> DEFINE R == OpToRel(<, Nat)
           Left == Nat \ C
<1> SUFFICES ASSUME Left # {} PROVE FALSE
  OBVIOUS
<1>1. PICK n \in Left : \A m \in Left : ~(<<m, n>> \in R)
  <2>1. Left \subseteq Nat /\ Left # {}
    OBVIOUS
  <2>2. IsWellFoundedOn(R, Nat)
    BY NatLessThanWellFounded, Zenon
  <2> HIDE DEF R, Left
  <2> QED
    BY <2>1, <2>2, WFMin, Zenon
<1>2. n - 1 \in Left
  OBVIOUS
<1>3. <<n - 1, n>> \in R
  BY <1>2 DEF OpToRel
<1> QED
  BY <1>1, <1>2, <1>3, Zenon

\* Its recursion has a solution.
LEMMA WithinExists ==
  ASSUME NEW d \in Nat
  PROVE  \E within : IsWithin(within, d)
<1> DEFINE below(S) == S \cup UNION {MapsBelow(m) : m \in S \ {0}}
           C == {k \in Nat : \E within : IsWithin(within, k)}
<1>1. 0 \in C
  <2> DEFINE w == [n \in 0..0 |-> {heap.ents[1].map}]
  <2>1. IsWithin(w, 0)
    BY DEF IsWithin
  <2> QED
    BY <2>1
<1>2. ASSUME NEW k \in Nat, k \in C PROVE k + 1 \in C
  <2>1. PICK w : IsWithin(w, k)
    BY <1>2
  <2> DEFINE top == below(w[k])
             g == [n \in 0..(k + 1) |-> IF n = k + 1 THEN top ELSE w[n]]
  <2>2. \A n \in 0..k : w[n] = IF n = 0 THEN {heap.ents[1].map} ELSE below(w[n - 1])
    BY <2>1, Zenon DEF IsWithin
  <2>3. g[k + 1] = top /\ (\A n \in 0..k : g[n] = w[n]) /\ g = [n \in 0..(k + 1) |-> g[n]]
    OBVIOUS
  <2> HIDE DEF g
  <2>4. ASSUME NEW n \in 0..(k + 1)
        PROVE  g[n] = IF n = 0 THEN {heap.ents[1].map} ELSE below(g[n - 1])
    <3>1. CASE n = k + 1
      <4>1. n - 1 = k /\ k \in 0..k /\ n # 0
        BY <3>1
      <4>2. g[n - 1] = w[k]
        BY <2>3, <4>1
      <4> QED
        BY <2>3, <3>1, <4>1, <4>2
    <3>2. CASE n \in 0..k
      <4>1. n # 0 => n - 1 \in 0..k
        BY <3>2
      <4> QED
        BY <2>2, <2>3, <3>2, <4>1, Zenon
    <3> QED
      BY <3>1, <3>2
  <2>5. IsWithin(g, k + 1)
    BY <2>3, <2>4, Zenon DEF IsWithin
  <2> QED
    BY <2>5
<1> HIDE DEF C
<1>3. Nat \subseteq C
  BY <1>1, <1>2, NatInductionOn
<1> QED
  BY <1>3 DEF C

\* The maps of the tree are owned by what is in the tree of the root.
LEMMA TreeMapsOwned ==
  ASSUME HeapOK(heap), NEW A, NEW P, 1 \in A, Tree(heap, A, P)
  PROVE  \A m \in TreeMaps : \E e \in A : m = heap.ents[e].map /\ m \in DOMAIN heap.maps
<1> DEFINE w == CHOOSE f : IsWithin(f, Depth)
           Owned == {heap.ents[e].map : e \in A}
<1>1. Depth \in Nat
  BY TreeAssumption
<1>2. IsWithin(w, Depth)
  BY <1>1, WithinExists
<1>3. TreeMaps = w[Depth] \ {0}
  BY DEF TreeMaps, IsWithin, MapsBelow
<1> HIDE DEF w
<1>4. \A n \in 0..Depth :
        w[n] = IF n = 0 THEN {heap.ents[1].map}
                        ELSE w[n - 1] \cup UNION {MapsBelow(m) : m \in w[n - 1] \ {0}}
  BY <1>2, Zenon DEF IsWithin
<1>5. A \subseteq DOMAIN heap.ents
  BY DEF Tree
<1>6. ASSUME NEW m \in Owned \ {0} PROVE MapsBelow(m) \subseteq Owned /\ m \in DOMAIN heap.maps
  <2>1. PICK e \in A : m = heap.ents[e].map
    BY <1>6
  <2>2. m \in DOMAIN heap.maps
    BY <1>5, <1>6, <2>1, Sized DEF HeapOK
  <2>3. ASSUME NEW i \in DOMAIN heap.maps[m], heap.maps[m][i].ent # 0
        PROVE  heap.maps[m][i].ent \in A
    <3>1. heap.maps[m][i] \in Slot
      BY <2>2, Sized
    <3>2. heap.maps[m][i].name \in Name
      BY <3>1 DEF Slot
    <3>3. Link(heap, e, heap.maps[m][i].name, heap.maps[m][i].ent)
      BY <1>6, <2>1, <2>3 DEF Link, In
    <3> QED
      BY <2>1, <3>2, <3>3 DEF Tree
  <2> QED
    BY <2>2, <2>3 DEF MapsBelow
<1> DEFINE C == {n \in Nat : n <= Depth => w[n] \subseteq Owned}
<1>7. 0 \in C
  <2>1. 0 \in 0..Depth
    BY <1>1
  <2>2. w[0] = {heap.ents[1].map}
    BY <1>4, <2>1, Zenon
  <2> QED
    BY <2>2
<1>8. ASSUME NEW n \in Nat, n \in C PROVE n + 1 \in C
  <2>1. SUFFICES ASSUME n + 1 <= Depth PROVE w[n + 1] \subseteq Owned
    OBVIOUS
  <2>2. n + 1 \in 0..Depth /\ n + 1 # 0 /\ (n + 1) - 1 = n /\ n <= Depth
    BY <1>1, <2>1
  <2>3. w[n] \subseteq Owned
    BY <1>8, <2>2
  <2> HIDE DEF Owned, C
  <2>4. w[n + 1] = w[n] \cup UNION {MapsBelow(m) : m \in w[n] \ {0}}
    BY <1>4, <2>2, Zenon
  <2> QED
    BY <1>6, <2>3, <2>4
<1> HIDE DEF C
<1>9. Nat \subseteq C
  BY <1>7, <1>8, NatInductionOn
<1>10. w[Depth] \subseteq Owned
  BY <1>1, <1>9 DEF C
<1> QED
  BY <1>3, <1>6, <1>10

\* No entry is in two places of the tree: OneTree.
THEOREM OneTreeOnly == Spec => []OneTree
<1>1. ASSUME VfsInv PROVE OneTree
  <2> SUFFICES ASSUME ~movesMet, NEW m \in TreeMaps, NEW n \in TreeMaps,
                      NEW i \in DOMAIN heap.maps[m], NEW j \in DOMAIN heap.maps[n],
                      heap.maps[m][i].ent # 0, heap.maps[m][i].ent = heap.maps[n][j].ent
               PROVE  <<m, i>> = <<n, j>>
    BY DEF OneTree
  <2>1. HeapOK(heap) /\ Planted(heap, NoCall)
    BY <1>1 DEF VfsInv, Forest
  <2>2. PICK P \in [Nat -> Seq(Name)], A \in SUBSET Nat : 1 \in A /\ Tree(heap, A, P)
    BY <2>1, Zenon DEF Planted
  <2>3. PICK e \in A, f \in A :
          /\ m = heap.ents[e].map /\ m \in DOMAIN heap.maps
          /\ n = heap.ents[f].map /\ n \in DOMAIN heap.maps
    BY <2>1, <2>2, TreeMapsOwned, Zenon
  <2> DEFINE x == heap.maps[m][i].ent
  <2>4. PICK a \in Name, b \in Name : heap.maps[m][i].name = a /\ heap.maps[n][j].name = b
    <3>1. heap.maps[m][i] \in Slot /\ heap.maps[n][j] \in Slot
      BY <2>1, <2>3, Sized, Zenon
    <3> QED
      BY <3>1, Zenon DEF Slot
  <2>5. m # 0 /\ n # 0
    <3>1. PICK k \in Nat : DOMAIN heap.maps = 1..k
      BY <2>1, Sized
    <3>2. \A l \in 1..k : l # 0
      OBVIOUS
    <3> QED
      BY <2>3, <3>1, <3>2, Zenon
  <2>6. Link(heap, e, a, x) /\ Link(heap, f, b, x)
    BY <2>3, <2>4, <2>5, Zenon DEF Link, In
  <2>7. P[x] = Sub(P[e], a) /\ P[x] = Sub(P[f], b)
    BY <2>2, <2>3, <2>6, ZenonT(30) DEF Tree
  <2>8. PICK u \in Seq(Name), v \in Seq(Name) : u = P[e] /\ v = P[f]
    <3>1. e \in Nat /\ f \in Nat
      BY <2>2, <2>3
    <3> QED
      BY <2>2, <3>1
  <2>9. P[e] = P[f] /\ a = b
    <3>1. Sub(u, a) = Sub(v, b)
      BY <2>7, <2>8, Zenon
    <3> QED
      BY <2>8, <3>1, SameSub
  <2>10. e = f
    BY <2>2, <2>3, <2>9 DEF Tree
  <2>11. m = n
    BY <2>3, <2>10
  <2>12. i = j
    <3>1. \A y, z \in DOMAIN heap.maps[m] :
            /\ heap.maps[m][y].ent # 0 /\ heap.maps[m][z].ent # 0
            /\ heap.maps[m][y].name = heap.maps[m][z].name
            => y = z
      BY <2>1, <2>3, Zenon DEF HeapOK
    <3>2. j \in DOMAIN heap.maps[m] /\ heap.maps[m][j].name = heap.maps[m][i].name
      BY <2>4, <2>9, <2>11, Zenon
    <3>3. heap.maps[m][j].ent # 0
      BY <2>11, Zenon
    <3> QED
      BY <3>1, <3>2, <3>3, Zenon
  <2> QED
    BY <2>11, <2>12
<1> QED
  BY <1>1, VfsInductive, PTL

-----------------------------------------------------------------------------
(* Where paths lead. *)

\* What can be reached is an entry.
LEMMA LeadsType ==
  ASSUME NEW h, HeapOK(h), NEW p, NEW e, Leads(h, p, e)
  PROVE  p \in Seq(Name) /\ e \in DOMAIN h.ents
<1> DEFINE S == Seq(Name) \X DOMAIN h.ents
<1>1. <<>> \in Seq(Name) /\ 1 \in DOMAIN h.ents
  BY EmptySeq DEF HeapOK
<1>2. ASSUME NEW u \in Seq(Name), NEW a \in DOMAIN h.ents, NEW n \in Name, NEW x, Link(h, a, n, x)
      PROVE  Sub(u, n) \in Seq(Name) /\ x \in DOMAIN h.ents
  BY <1>2, Linked, SubType, Zenon
<1>3. ClosedIn(h, S)
  BY <1>1, <1>2, Zenon DEF ClosedIn
<1> QED
  BY <1>3 DEF Leads

\* The empty path leads to the root.
LEMMA LeadsRoot ==
  ASSUME NEW h
  PROVE  Leads(h, <<>>, 1)
BY DEF Leads, ClosedIn

\* A path leads on by a link.
LEMMA LeadsOn ==
  ASSUME NEW h, HeapOK(h), NEW p, NEW e, Leads(h, p, e), NEW n \in Name, NEW x, Link(h, e, n, x)
  PROVE  Leads(h, Sub(p, n), x)
<1>1. p \in Seq(Name) /\ e \in DOMAIN h.ents
  BY LeadsType
<1> QED
  BY <1>1, Zenon DEF Leads, ClosedIn

\* In a tree that has the root, a path leads to the entry whose path it is.
LEMMA LeadsIn ==
  ASSUME NEW h, HeapOK(h), NEW A, NEW P, RootTree(h, A, P), NEW p, NEW e, Leads(h, p, e)
  PROVE  e \in A /\ P[e] = p
<1>0. P \in [Nat -> Seq(Name)] /\ Tree(h, A, P) /\ 1 \in A /\ P[1] = <<>>
  BY DEF RootTree
<1> DEFINE S == {z \in Seq(Name) \X DOMAIN h.ents : z[2] \in A /\ P[z[2]] = z[1]}
<1>1. S \in SUBSET (Seq(Name) \X DOMAIN h.ents)
  OBVIOUS
<1>2. \A u, a : <<u, a>> \in S <=> u \in Seq(Name) /\ a \in DOMAIN h.ents /\ a \in A /\ P[a] = u
  OBVIOUS
<1> HIDE DEF S
<1>3. <<>> \in Seq(Name) /\ 1 \in DOMAIN h.ents
  BY EmptySeq DEF HeapOK
<1>4. <<<<>>, 1>> \in S
  BY <1>0, <1>2, <1>3, Zenon
<1>5. ASSUME NEW u \in Seq(Name), NEW a \in DOMAIN h.ents, NEW n \in Name, NEW x,
             <<u, a>> \in S, Link(h, a, n, x)
      PROVE  <<Sub(u, n), x>> \in S
  <2>1. a \in A /\ P[a] = u
    BY <1>2, <1>5
  <2>2. x \in A /\ P[x] = Sub(u, n)
    BY <1>0, <1>5, <2>1, Zenon DEF Tree
  <2>3. Sub(u, n) \in Seq(Name) /\ x \in DOMAIN h.ents
    BY <1>5, Linked, SubType, Zenon
  <2> QED
    BY <1>2, <2>2, <2>3
<1>6. ClosedIn(h, S)
  BY <1>4, <1>5 DEF ClosedIn
<1>7. <<p, e>> \in S
  BY <1>1, <1>6 DEF Leads
<1> QED
  BY <1>2, <1>7

\* Links that go away are those of the paths of S.
LEMMA KeepsPaths ==
  ASSUME NEW h, HeapOK(h), NEW h2, HeapOK(h2), NEW A, NEW P, RootTree(h, A, P), NEW T,
         Spares(h, h2, T), NEW S \in SUBSET Seq(Name), PlacesOf(h, T, S)
  PROVE  KeepsBut(h, h2, S)
<1> SUFFICES ASSUME NEW p, NEW e, Leads(h, p, e), \A s \in S : ~Below(s, p)
             PROVE  Leads(h2, p, e)
  BY DEF KeepsBut
<1> DEFINE Spared(u) == \A s \in S : ~Below(s, u)
           Z == {z \in Seq(Name) \X DOMAIN h.ents :
                   Leads(h, z[1], z[2]) /\ (Spared(z[1]) => Leads(h2, z[1], z[2]))}
<1>1. Z \in SUBSET (Seq(Name) \X DOMAIN h.ents)
  OBVIOUS
<1>2. \A u, a : <<u, a>> \in Z <=> /\ u \in Seq(Name) /\ a \in DOMAIN h.ents
                                   /\ Leads(h, u, a) /\ (Spared(u) => Leads(h2, u, a))
  BY Zenon
<1> HIDE DEF Z
<1>3. <<>> \in Seq(Name) /\ 1 \in DOMAIN h.ents
  BY EmptySeq DEF HeapOK
<1>4. <<<<>>, 1>> \in Z
  BY <1>2, <1>3, LeadsRoot, Zenon
<1>5. ASSUME NEW u \in Seq(Name), NEW a \in DOMAIN h.ents, NEW n \in Name, NEW x,
             <<u, a>> \in Z, Link(h, a, n, x)
      PROVE  <<Sub(u, n), x>> \in Z
  <2>1. Leads(h, u, a) /\ (Spared(u) => Leads(h2, u, a))
    BY <1>2, <1>5, Zenon
  <2>2. Leads(h, Sub(u, n), x)
    BY <1>5, <2>1, LeadsOn
  <2>3. Sub(u, n) \in Seq(Name) /\ x \in DOMAIN h.ents
    BY <2>2, LeadsType
  <2>4. ASSUME Spared(Sub(u, n)) PROVE Leads(h2, Sub(u, n), x)
    <3>1. Spared(u)
      BY <2>4, BelowSub
    <3>2. Leads(h2, u, a)
      BY <2>1, <3>1
    <3>3. PICK m : m = h.ents[a].map
      OBVIOUS
    <3>4. m \in DOMAIN h.maps /\ m # 0 /\ In(h, m, n, x)
      BY <1>5, <3>3, Linked, Zenon DEF Link
    <3>5. h2.ents[a].map = m
      BY <3>3, <3>4 DEF Spares, KeepsEntries
    <3>6. CASE In(h2, m, n, x)
      <4>1. Link(h2, a, n, x)
        BY <3>4, <3>5, <3>6 DEF Link
      <4> QED
        BY <3>2, <4>1, LeadsOn
    <3>7. CASE <<m, n>> \in T
      <4>1. PICK v, b : Leads(h, v, b) /\ h.ents[b].map = m /\ Sub(v, n) \in S
        BY <3>4, <3>7, Zenon DEF PlacesOf
      <4>2. b \in DOMAIN h.ents
        BY <4>1, LeadsType
      <4>3. b = a
        BY <3>3, <3>4, <4>1, <4>2 DEF HeapOK
      <4>4. P[a] = u /\ P[b] = v
        BY <2>1, <4>1, LeadsIn
      <4>5. Sub(u, n) \in S
        BY <4>1, <4>3, <4>4
      <4> QED
        BY <2>3, <2>4, <4>5, BelowItself
    <3> QED
      BY <3>4, <3>6, <3>7, Zenon DEF Spares, KeepsEntries
  <2> QED
    BY <1>2, <2>2, <2>3, <2>4, Zenon
<1>6. ClosedIn(h, Z)
  BY <1>4, <1>5 DEF ClosedIn
<1>7. <<p, e>> \in Z
  BY <1>1, <1>6 DEF Leads
<1> QED
  BY <1>2, <1>7, Zenon

\* Two changes, one after the other.
LEMMA KeepsButOn ==
  ASSUME NEW h, NEW h1, NEW h2, NEW S, KeepsBut(h, h1, {}), KeepsBut(h1, h2, S)
  PROVE  KeepsBut(h, h2, S)
BY DEF KeepsBut

LEMMA SparesOn ==
  ASSUME NEW h, NEW h1, NEW h2, NEW T, NEW U, Spares(h, h1, T), Spares(h1, h2, U),
         DOMAIN h.maps \subseteq DOMAIN h1.maps
  PROVE  Spares(h, h2, T \cup U)
BY DEF Spares, KeepsEntries

\* Map.set spares all but the name that is set.
LEMMA PutSpares ==
  ASSUME NEW h, HeapOK(h), NEW m \in DOMAIN h.maps, NEW n \in Name, NEW x \in DOMAIN h.ents \ {1},
         NEW h2, h2 = Put(h, m, n, x)
  PROVE  Spares(h, h2, {<<m, n>>})
<1>1. /\ h.maps[m] \in Seq(Slot) /\ Len(h.maps[m]) \in Nat /\ DOMAIN h.maps[m] = 1..Len(h.maps[m])
      /\ h.maps \in Seq(Seq(Slot)) /\ h \in Heap
  BY Sized DEF HeapOK, Heap
<1>2. /\ h2.ents = h.ents /\ DOMAIN h2.maps = DOMAIN h.maps
      /\ \A k \in DOMAIN h.maps : k # m => h2.maps[k] = h.maps[k]
  BY PutSets
<1>3. ASSUME NEW k \in Name, k # n, NEW y, In(h, m, k, y) PROVE In(h2, m, k, y)
  <2>1. PICK i \in DOMAIN h.maps[m] : h.maps[m][i].name = k /\ h.maps[m][i].ent = y /\ y # 0
    BY <1>3 DEF In
  <2>2. i \in DOMAIN h2.maps[m] /\ h2.maps[m][i] = h.maps[m][i]
    <3>1. CASE Has(h, m, n)
      <4>1. PICK p : p = Place(h, m, n)
        OBVIOUS
      <4>2. p # i
        BY <1>3, <2>1, <3>1, <4>1, Placed
      <4>3. h2 = [h EXCEPT !.maps[m][p].ent = x]
        BY <3>1, <4>1 DEF Put
      <4>4. h2.maps[m] = [h.maps[m] EXCEPT ![p].ent = x]
        BY <1>1, <4>3 DEF Heap
      <4> QED
        BY <2>1, <4>2, <4>4
    <3>2. CASE ~Has(h, m, n)
      <4>1. PICK slot : slot = [name |-> n, ent |-> x]
        BY Zenon
      <4>2. h2 = [h EXCEPT !.maps[m] = Append(@, slot)]
        BY <3>2, <4>1 DEF Put
      <4>3. h2.maps[m] = Append(h.maps[m], slot)
        BY <1>1, <4>2 DEF Heap
      <4>4. slot \in Slot
        <5>1. x \in Nat
          BY Sized
        <5> QED
          BY <4>1, <5>1 DEF Slot
      <4> QED
        BY <1>1, <2>1, <4>3, <4>4, AppendProperties
    <3> QED
      BY <3>1, <3>2
  <2> QED
    BY <2>1, <2>2 DEF In
<1>4. ASSUME NEW l \in DOMAIN h.maps, NEW k \in Name, NEW y, In(h, l, k, y),
             <<l, k>> \notin {<<m, n>>}
      PROVE  In(h2, l, k, y)
  <2>1. CASE l = m
    BY <1>3, <1>4, <2>1
  <2>2. CASE l # m
    BY <1>2, <1>4, <2>2, SameIn
  <2> QED
    BY <2>1, <2>2
<1> QED
  BY <1>2, <1>4 DEF Spares, KeepsEntries

\* Map.delete spares all but the name.
LEMMA DelSpares ==
  ASSUME NEW h, HeapOK(h), NEW m \in DOMAIN h.maps, NEW n \in Name, NEW h2, h2 = Del(h, m, n)
  PROVE  Spares(h, h2, {<<m, n>>})
<1>1. /\ h.maps[m] \in Seq(Slot) /\ h.maps \in Seq(Seq(Slot)) /\ h \in Heap
  BY Sized DEF HeapOK, Heap
<1>2. /\ h2.ents = h.ents /\ DOMAIN h2.maps = DOMAIN h.maps
      /\ \A k \in DOMAIN h.maps : k # m => h2.maps[k] = h.maps[k]
  BY DelClears
<1>3. ASSUME NEW k \in Name, k # n, NEW y, In(h, m, k, y) PROVE In(h2, m, k, y)
  <2>1. PICK i \in DOMAIN h.maps[m] : h.maps[m][i].name = k /\ h.maps[m][i].ent = y /\ y # 0
    BY <1>3 DEF In
  <2>2. i \in DOMAIN h2.maps[m] /\ h2.maps[m][i] = h.maps[m][i]
    <3>1. CASE Has(h, m, n)
      <4>1. PICK p : p = Place(h, m, n)
        OBVIOUS
      <4>2. p # i
        BY <1>3, <2>1, <3>1, <4>1, Placed
      <4>3. h2 = [h EXCEPT !.maps[m][p].ent = 0]
        BY <3>1, <4>1 DEF Del
      <4>4. h2.maps[m] = [h.maps[m] EXCEPT ![p].ent = 0]
        BY <1>1, <4>3 DEF Heap
      <4> QED
        BY <2>1, <4>2, <4>4
    <3>2. CASE ~Has(h, m, n)
      BY <2>1, <3>2 DEF Del
    <3> QED
      BY <3>1, <3>2
  <2> QED
    BY <2>1, <2>2 DEF In
<1>4. ASSUME NEW l \in DOMAIN h.maps, NEW k \in Name, NEW y, In(h, l, k, y),
             <<l, k>> \notin {<<m, n>>}
      PROVE  In(h2, l, k, y)
  <2>1. CASE l = m
    BY <1>3, <1>4, <2>1
  <2>2. CASE l # m
    BY <1>2, <1>4, <2>2, SameIn
  <2> QED
    BY <2>1, <2>2
<1> QED
  BY <1>2, <1>4 DEF Spares, KeepsEntries

\* Where the new entry is.
LEMMA PutNewEnts ==
  ASSUME NEW h, HeapOK(h), NEW m, NEW n, NEW entry
  PROVE  PutNew(h, m, n, entry).ents = Append(h.ents, entry)
<1>1. h = [ents |-> h.ents, maps |-> h.maps]
  BY DEF HeapOK, Heap
<1>2. PICK h1 : h1 = [h EXCEPT !.ents = Append(@, entry)]
  BY Zenon
<1>3. h1 = [ents |-> Append(h.ents, entry), maps |-> h.maps]
  BY <1>1, <1>2, Zenon
<1>4. PutNew(h, m, n, entry) = Put(h1, m, n, Len(h.ents) + 1)
  BY <1>2 DEF PutNew
<1> QED
  BY <1>3, <1>4 DEF Put

LEMMA PutDirEnts ==
  ASSUME NEW h, HeapOK(h), NEW m, NEW n
  PROVE  PutDir(h, m, n).ents = Append(h.ents, DirEntry(Len(h.maps) + 1))
<1>1. h = [ents |-> h.ents, maps |-> h.maps] /\ h.maps \in Seq(Seq(Slot)) /\ <<>> \in Seq(Slot)
  BY EmptySeq DEF HeapOK, Heap
<1>2. PICK h1 : h1 = [h EXCEPT !.maps = Append(@, <<>>)]
  BY Zenon
<1>3. h1 = [ents |-> h.ents, maps |-> Append(h.maps, <<>>)]
  BY <1>1, <1>2, Zenon
<1>4. Len(h1.maps) = Len(h.maps) + 1
  BY <1>1, <1>3, AppendProperties
<1>5. PICK d : d = DirEntry(Len(h.maps) + 1)
  OBVIOUS
<1>6. PutDir(h, m, n) = PutNew(h1, m, n, d)
  BY <1>2, <1>4, <1>5 DEF PutDir
<1>7. PICK h2 : h2 = [h1 EXCEPT !.ents = Append(@, d)]
  BY Zenon
<1>8. h2 = [ents |-> Append(h.ents, d), maps |-> Append(h.maps, <<>>)]
  BY <1>3, <1>7, Zenon
<1>9. PutDir(h, m, n) = Put(h2, m, n, Len(h1.ents) + 1)
  BY <1>6, <1>7 DEF PutNew
<1> QED
  BY <1>5, <1>8, <1>9, Zenon DEF Put

\* A new entry under a name spares all but that name.
LEMMA PutNewSpares ==
  ASSUME NEW h, HeapOK(h), NEW m \in DOMAIN h.maps, NEW n \in Name,
         NEW entry \in Entry, entry.map \in 0..Len(h.maps),
         entry.map # 0 => \A e \in DOMAIN h.ents : h.ents[e].map # entry.map,
         entry.type = "node" => entry.val \in Node,
         NEW h2, h2 = PutNew(h, m, n, entry)
  PROVE  Spares(h, h2, {<<m, n>>})
<1> DEFINE x == Len(h.ents) + 1
           h1 == [h EXCEPT !.ents = Append(@, entry)]
<1>1. /\ HeapOK(h1) /\ h1.maps = h.maps
      /\ DOMAIN h1.ents = 1..(Len(h.ents) + 1) /\ h1.ents[x] = entry
      /\ \A e \in DOMAIN h.ents : h1.ents[e] = h.ents[e]
  <2>1. h1 \in Heap /\ h1.ents = Append(h.ents, entry) /\ h1.maps = h.maps
    BY AppendProperties, Zenon DEF HeapOK, Heap
  <2> HIDE DEF h1
  <2> QED
    BY <2>1, NewEntry
<1>2. h2 = Put(h1, m, n, x)
  BY DEF PutNew
<1>3. Len(h.ents) \in Nat /\ DOMAIN h.ents = 1..Len(h.ents) /\ 1 \in DOMAIN h.ents
  BY Sized DEF HeapOK
<1>4. x \in DOMAIN h1.ents \ {1} /\ m \in DOMAIN h1.maps
  BY <1>1, <1>3
<1> HIDE DEF h1, x
<1>5. Spares(h1, h2, {<<m, n>>}) /\ h2.ents = h1.ents
  BY <1>1, <1>2, <1>4, PutSpares, PutSets
<1>6. Spares(h, h1, {})
  <2>1. DOMAIN h.ents \subseteq DOMAIN h1.ents
    BY <1>1, <1>3
  <2> QED
    BY <1>1, <2>1, SameIn, Zenon DEF Spares, KeepsEntries
<1>7. Spares(h, h2, {} \cup {<<m, n>>})
  BY <1>1, <1>5, <1>6, SparesOn
<1>8. {} \cup {<<m, n>>} = {<<m, n>>}
  OBVIOUS
<1> QED
  BY <1>1, <1>5, <1>7, <1>8 DEF x

\* A name that a map does not have need not be spared.
LEMMA SparesFree ==
  ASSUME NEW h, HeapOK(h), NEW m \in DOMAIN h.maps, NEW n \in Name, ~Has(h, m, n), NEW h2,
         Spares(h, h2, {<<m, n>>})
  PROVE  Spares(h, h2, {})
<1>1. \A y : ~In(h, m, n, y)
  BY OnePlace
<1> QED
  BY <1>1 DEF Spares, KeepsEntries

\* A new directory under a name.
LEMMA PutDirSpares ==
  ASSUME NEW h, HeapOK(h), NEW m \in DOMAIN h.maps, NEW n \in Name, NEW h2, h2 = PutDir(h, m, n)
  PROVE  /\ Spares(h, h2, {<<m, n>>})
         /\ ~Has(h, m, n) => Spares(h, h2, {})
<1> DEFINE h1 == [h EXCEPT !.maps = Append(@, <<>>)]
           entry == DirEntry(Len(h1.maps))
<1>1. Len(h.maps) \in Nat /\ DOMAIN h.maps = 1..Len(h.maps)
  BY Sized
<1>2. /\ HeapOK(h1) /\ h1.ents = h.ents
      /\ Len(h1.maps) = Len(h.maps) + 1 /\ DOMAIN h1.maps = 1..(Len(h.maps) + 1)
      /\ \A l \in DOMAIN h.maps : h1.maps[l] = h.maps[l]
      /\ \A e \in DOMAIN h1.ents : h1.ents[e].map # Len(h.maps) + 1
  <2>1. h1 \in Heap /\ h1.maps = Append(h.maps, <<>>) /\ h1.ents = h.ents
    <3>1. <<>> \in Seq(Slot)
      BY EmptySeq
    <3> QED
      BY <3>1, AppendProperties, Zenon DEF HeapOK, Heap
  <2>2. <<>> \in Seq(Slot) /\ DOMAIN <<>> = {}
    BY EmptySeq
  <2> HIDE DEF h1
  <2> QED
    BY <2>1, <2>2, NewMap, ZenonT(30)
<1>3. h2 = PutNew(h1, m, n, entry)
  BY DEF PutDir
<1>4. Spares(h, h1, {}) /\ DOMAIN h.maps \subseteq DOMAIN h1.maps
  <2>1. DOMAIN h.maps \subseteq DOMAIN h1.maps
    BY <1>1, <1>2
  <2> HIDE DEF h1
  <2> QED
    BY <1>2, <2>1, SameIn, Zenon DEF Spares, KeepsEntries
<1> HIDE DEF h1
<1>5. entry \in Entry /\ entry.map = Len(h.maps) + 1 /\ entry.type # "node"
  BY <1>1, <1>2 DEF DirEntry, Entry, Value, Form
<1> HIDE DEF entry
<1>7. Spares(h1, h2, {<<m, n>>})
  BY <1>1, <1>2, <1>3, <1>4, <1>5, PutNewSpares
<1>8. Spares(h, h2, {} \cup {<<m, n>>})
  BY <1>4, <1>7, SparesOn
<1>9. {} \cup {<<m, n>>} = {<<m, n>>}
  OBVIOUS
<1>10. Spares(h, h2, {<<m, n>>})
  BY <1>8, <1>9
<1> QED
  BY <1>10, SparesFree

\* A node that is loaded for the first time: nothing is lost.
LEMMA LoadSpares ==
  ASSUME NEW h, HeapOK(h), NEW k \in DOMAIN h.ents, h.ents[k].type = "node", h.ents[k].map = 0,
         NEW h2, h2 = LoadChildren(h, k), IsDict(h.ents[k].val)
  PROVE  Spares(h, h2, {})
<1> DEFINE v == h.ents[k].val
           names == SetToSeq(DOMAIN v)
           load == [i \in DOMAIN names |-> NodeEntry([form |-> "node", val |-> v[names[i]]])]
           slots == <<>> \o [i \in DOMAIN names |-> [name |-> names[i], ent |-> Len(h.ents) + i]]
           own == [h.ents EXCEPT ![k].map = Len(h.maps) + 1]
<1>1. /\ Len(h.ents) \in Nat /\ DOMAIN h.ents = 1..Len(h.ents)
      /\ Len(h.maps) \in Nat /\ DOMAIN h.maps = 1..Len(h.maps)
      /\ h.ents \in Seq(Entry) /\ h.maps \in Seq(Seq(Slot))
      /\ \A e \in DOMAIN h.ents : h.ents[e] \in Entry
  BY Sized DEF HeapOK, Heap
<1>2. h2.ents = own \o load /\ h2.maps = Append(h.maps, slots)
  BY DEF LoadChildren
<1>3. \A m \in DOMAIN h.maps : h2.maps[m] = h.maps[m]
  <2> HIDE DEF slots
  <2>1. \A i \in 1..Len(h.maps) : Append(h.maps, slots)[i] = h.maps[i]
    BY <1>1
  <2> QED
    BY <1>1, <1>2, <2>1
<1>4. Len(own) = Len(h.ents) /\ DOMAIN own = DOMAIN h.ents
  BY <1>1
<1>5. ASSUME NEW e \in DOMAIN h.ents PROVE h2.ents[e] = own[e] /\ e \in DOMAIN h2.ents
  <2>1. Grows(h, h2)
    BY LoadGrows
  <2>2. \A i \in 1..Len(own) : (own \o load)[i] = own[i]
    <3>1. Len(load) \in Nat
      <4>1. DOMAIN v \in SUBSET Name /\ IsFiniteSet(DOMAIN v)
        BY TreeAssumption DEF HeapOK, IsDict
      <4>2. names \in Seq(DOMAIN v)
        BY <4>1, InOrder
      <4>3. Len(names) \in Nat /\ DOMAIN names = 1..Len(names)
        BY <4>2, LenProperties
      <4> HIDE DEF names
      <4>4. load \in Seq({load[i] : i \in 1..Len(names)})
        BY <4>3
      <4> HIDE DEF load
      <4> QED
        BY <4>4, LenProperties
    <3> HIDE DEF load, own
    <3> QED
      BY <1>1, <1>4, <3>1
  <2> HIDE DEF load, own
  <2> QED
    BY <1>1, <1>2, <1>4, <2>1, <2>2 DEF Grows
<1>6. ASSUME NEW e \in DOMAIN h.ents
      PROVE  /\ own[e].type = h.ents[e].type /\ own[e].val = h.ents[e].val
             /\ own[e].form = h.ents[e].form
             /\ own[e].map = h.ents[e].map \/ e = k
  BY <1>1, Zenon DEF Entry
<1> HIDE DEF own, load, slots
<1>7. \A m \in DOMAIN h.maps, n \in Name : \A x : In(h, m, n, x) => In(h2, m, n, x)
  BY <1>3, SameIn, Zenon
<1> QED
  BY <1>5, <1>6, <1>7 DEF Spares, KeepsEntries

\* The last step of a move spares all but the two names.
LEMMA MoveSpares ==
  ASSUME NEW h, HeapOK(h), NEW m \in DOMAIN h.maps, NEW n \in Name, NEW s \in DOMAIN h.ents \ {1},
         NEW from \in DOMAIN h.maps, NEW j \in Name, NEW h2, h2 = Del(Put(h, m, n, s), from, j)
  PROVE  Spares(h, h2, {<<m, n>>} \cup {<<from, j>>})
<1>1. PICK h1 : h1 = Put(h, m, n, s) /\ h2 = Del(h1, from, j)
  OBVIOUS
<1>2. HeapOK(h1) /\ DOMAIN h1.maps = DOMAIN h.maps
  BY <1>1, PutSets
<1>3. Spares(h, h1, {<<m, n>>})
  BY <1>1, PutSpares
<1>4. Spares(h1, h2, {<<from, j>>})
  BY <1>1, <1>2, DelSpares
<1> QED
  BY <1>2, <1>3, <1>4, SparesOn

\* It goes on with one more name.
LEMMA AtOn ==
  ASSUME NEW h, NEW x, NEW p \in Seq(Name), NEW n \in Name, NEW f, IsFrom(h, x, p, f), NEW g,
         g = [i \in 0..(Len(p) + 1) |-> IF i = Len(p) + 1 THEN Child(h, f[Len(p)], n) ELSE f[i]]
  PROVE  /\ IsFrom(h, x, Sub(p, n), g) /\ Len(Sub(p, n)) = Len(p) + 1
         /\ g[Len(p) + 1] = Child(h, f[Len(p)], n)
<1>1. /\ Len(p) \in Nat /\ Len(Sub(p, n)) = Len(p) + 1 /\ Sub(p, n)[Len(p) + 1] = n
      /\ \A i \in 1..Len(p) : Sub(p, n)[i] = p[i]
  BY AppendProperties, LenProperties DEF Sub
<1>2. \A i \in 0..Len(p) : f[i] = IF i = 0 THEN x ELSE Child(h, f[i - 1], p[i])
  BY DEF IsFrom
<1>3. g = [i \in 0..Len(Sub(p, n)) |-> g[i]]
  BY <1>1
<1>4. ASSUME NEW i \in 0..Len(Sub(p, n))
      PROVE  g[i] = IF i = 0 THEN x ELSE Child(h, g[i - 1], Sub(p, n)[i])
  <2>1. CASE i = Len(p) + 1
    BY <1>1, <2>1
  <2>2. CASE i \in 0..Len(p)
    BY <1>1, <1>2, <2>2
  <2> QED
    BY <1>1, <2>1, <2>2
<1>5. IsFrom(h, x, Sub(p, n), g)
  BY <1>3, <1>4, Zenon DEF IsFrom
<1>6. g[Len(p) + 1] = Child(h, f[Len(p)], n)
  BY <1>1
<1> QED
  BY <1>1, <1>5, <1>6

\* Every path has such a function, and one only.
LEMMA AtOnly ==
  ASSUME NEW h, NEW x, NEW p \in Seq(Name)
  PROVE  /\ \E f : IsFrom(h, x, p, f)
         /\ \A f, g : IsFrom(h, x, p, f) /\ IsFrom(h, x, p, g) => f = g
<1>1. \E f : IsFrom(h, x, p, f)
  <2> DEFINE C == {k \in Nat : \A r \in Seq(Name) : Len(r) = k => \E f : IsFrom(h, x, r, f)}
  <2>1. 0 \in C
    <3>1. ASSUME NEW r \in Seq(Name), Len(r) = 0 PROVE \E f : IsFrom(h, x, r, f)
      <4> DEFINE f == [i \in 0..0 |-> x]
      <4>1. IsFrom(h, x, r, f)
        BY <3>1 DEF IsFrom
      <4> QED
        BY <4>1
    <3> QED
      BY <3>1
  <2>2. ASSUME NEW k \in Nat, k \in C PROVE k + 1 \in C
    <3>1. ASSUME NEW r \in Seq(Name), Len(r) = k + 1 PROVE \E f : IsFrom(h, x, r, f)
      <4>1. r # <<>>
        BY <3>1, EmptySeq
      <4>2. Front(r) \in Seq(Name) /\ Last(r) \in Name /\ r = Sub(Front(r), Last(r))
        BY <4>1, PathSplit
      <4>3. Len(Front(r)) = k
        BY <3>1, <4>2, AppendProperties, LenProperties DEF Sub
      <4>4. PICK f : IsFrom(h, x, Front(r), f)
        BY <2>2, <4>2, <4>3
      <4>5. PICK g : g = [i \in 0..(Len(Front(r)) + 1) |->
                            IF i = Len(Front(r)) + 1 THEN Child(h, f[Len(Front(r))], Last(r)) ELSE f[i]]
        BY Zenon
      <4>6. IsFrom(h, x, Sub(Front(r), Last(r)), g)
        BY <4>2, <4>4, <4>5, AtOn
      <4> QED
        BY <4>2, <4>6, Zenon
    <3> QED
      BY <3>1
  <2> HIDE DEF C
  <2>3. Nat \subseteq C
    BY <2>1, <2>2, NatInductionOn
  <2>4. Len(p) \in C
    BY <2>3, LenProperties
  <2> QED
    BY <2>4 DEF C
<1>2. ASSUME NEW f, NEW g, IsFrom(h, x, p, f), IsFrom(h, x, p, g) PROVE f = g
  <2>1. Len(p) \in Nat
    BY LenProperties
  <2>2. /\ f = [i \in 0..Len(p) |-> f[i]] /\ g = [i \in 0..Len(p) |-> g[i]]
        /\ \A i \in 0..Len(p) : f[i] = IF i = 0 THEN x ELSE Child(h, f[i - 1], p[i])
        /\ \A i \in 0..Len(p) : g[i] = IF i = 0 THEN x ELSE Child(h, g[i - 1], p[i])
    BY <1>2 DEF IsFrom
  <2> DEFINE C == {k \in Nat : k <= Len(p) => f[k] = g[k]}
  <2>3. 0 \in C
    <3>1. 0 \in 0..Len(p)
      BY <2>1
    <3> QED
      BY <2>2, <3>1
  <2>4. ASSUME NEW k \in Nat, k \in C PROVE k + 1 \in C
    <3>1. SUFFICES ASSUME k + 1 <= Len(p) PROVE f[k + 1] = g[k + 1]
      OBVIOUS
    <3>2. k + 1 \in 0..Len(p) /\ k + 1 # 0 /\ (k + 1) - 1 = k /\ k <= Len(p)
      BY <2>1, <3>1
    <3>3. f[k] = g[k]
      BY <2>4, <3>2
    <3>4. f[k + 1] = Child(h, f[k], p[k + 1]) /\ g[k + 1] = Child(h, g[k], p[k + 1])
      BY <2>2, <3>2, Zenon
    <3> QED
      BY <3>3, <3>4
  <2> HIDE DEF C
  <2>5. Nat \subseteq C
    BY <2>3, <2>4, NatInductionOn
  <2>6. ASSUME NEW i \in 0..Len(p) PROVE f[i] = g[i]
    <3>1. i \in Nat /\ i <= Len(p)
      BY <2>1
    <3> QED
      BY <2>5, <3>1 DEF C
  <2> QED
    BY <2>2, <2>6
<1> QED
  BY <1>1, <1>2

\* What a path leads to from an entry is the end of what satisfies the recursion.
LEMMA FromIs ==
  ASSUME NEW h, NEW x, NEW p \in Seq(Name), NEW f, IsFrom(h, x, p, f)
  PROVE  EntryFrom(h, x, p) = f[Len(p)]
<1>1. EntryFrom(h, x, p) = (CHOOSE at : IsFrom(h, x, p, at))[Len(p)]
  BY DEF EntryFrom, IsFrom
<1>2. IsFrom(h, x, p, CHOOSE at : IsFrom(h, x, p, at))
  OBVIOUS
<1>3. f = CHOOSE at : IsFrom(h, x, p, at)
  BY <1>2, AtOnly
<1> QED
  BY <1>1, <1>3

\* The entry itself,
LEMMA FromRoot ==
  ASSUME NEW h, NEW x
  PROVE  EntryFrom(h, x, <<>>) = x
<1>1. <<>> \in Seq(Name) /\ Len(<<>>) = 0
  BY EmptySeq
<1>2. PICK f : IsFrom(h, x, <<>>, f)
  BY <1>1, AtOnly, Zenon
<1>3. f[0] = x
  BY <1>1, <1>2 DEF IsFrom
<1> QED
  BY <1>1, <1>2, <1>3, FromIs, Zenon

\* and from there what is under a name.
LEMMA FromSub ==
  ASSUME NEW h, NEW x, NEW p \in Seq(Name), NEW n \in Name
  PROVE  EntryFrom(h, x, Sub(p, n)) = Child(h, EntryFrom(h, x, p), n)
<1>1. PICK f : IsFrom(h, x, p, f)
  BY AtOnly
<1>2. PICK g : g = [i \in 0..(Len(p) + 1) |->
                      IF i = Len(p) + 1 THEN Child(h, f[Len(p)], n) ELSE f[i]]
  BY Zenon
<1>3. /\ IsFrom(h, x, Sub(p, n), g) /\ Len(Sub(p, n)) = Len(p) + 1
      /\ g[Len(p) + 1] = Child(h, f[Len(p)], n)
  BY <1>1, <1>2, AtOn
<1>4. Sub(p, n) \in Seq(Name)
  BY SubType
<1>5. EntryFrom(h, x, Sub(p, n)) = g[Len(p) + 1]
  BY <1>3, <1>4, FromIs
<1>6. EntryFrom(h, x, p) = f[Len(p)]
  BY <1>1, FromIs
<1> QED
  BY <1>3, <1>5, <1>6

\* Both, of every path.
LEMMA EntryFromOn ==
  ASSUME NEW h, NEW x
  PROVE  /\ EntryFrom(h, x, <<>>) = x
         /\ \A p \in Seq(Name), n \in Name : EntryFrom(h, x, Sub(p, n)) = Child(h, EntryFrom(h, x, p), n)
<1>1. ASSUME NEW p \in Seq(Name), NEW n \in Name
      PROVE  EntryFrom(h, x, Sub(p, n)) = Child(h, EntryFrom(h, x, p), n)
  BY FromSub
<1> QED
  BY <1>1, FromRoot

\* The entry at the root, and under a name in the entry at a path.
LEMMA EntryAtOn ==
  ASSUME NEW h
  PROVE  /\ EntryAt(h, <<>>) = h.ents[1]
         /\ \A p \in Seq(Name), n \in Name : EntryAt(h, Sub(p, n)) = Child(h, EntryAt(h, p), n)
<1>1. EntryAt(h, <<>>) = h.ents[1]
  BY FromRoot DEF EntryAt
<1>2. ASSUME NEW p \in Seq(Name), NEW n \in Name
      PROVE  EntryAt(h, Sub(p, n)) = Child(h, EntryAt(h, p), n)
  BY FromSub DEF EntryAt
<1> QED
  BY <1>1, <1>2

\* What is seen at a path is the entry it leads to.
LEMMA LeadsEntry ==
  ASSUME NEW h, HeapOK(h), NEW p, NEW e, Leads(h, p, e)
  PROVE  EntryAt(h, p) = h.ents[e]
<1> DEFINE S == {z \in Seq(Name) \X DOMAIN h.ents : EntryAt(h, z[1]) = h.ents[z[2]]}
<1>1. S \in SUBSET (Seq(Name) \X DOMAIN h.ents)
  OBVIOUS
<1>2. \A u, a : <<u, a>> \in S <=> /\ u \in Seq(Name) /\ a \in DOMAIN h.ents
                                   /\ EntryAt(h, u) = h.ents[a]
  OBVIOUS
<1> HIDE DEF S
<1>3. <<<<>>, 1>> \in S
  BY <1>2, EntryAtOn, EmptySeq, Zenon DEF HeapOK
<1>4. ASSUME NEW u \in Seq(Name), NEW a \in DOMAIN h.ents, NEW n \in Name, NEW x,
             <<u, a>> \in S, Link(h, a, n, x)
      PROVE  <<Sub(u, n), x>> \in S
  <2>1. EntryAt(h, Sub(u, n)) = Child(h, h.ents[a], n)
    BY <1>2, <1>4, EntryAtOn
  <2>2. PICK m : m = h.ents[a].map
    OBVIOUS
  <2>3. m \in DOMAIN h.maps /\ m # 0 /\ In(h, m, n, x)
    BY <1>4, <2>2, Linked, Zenon DEF Link
  <2>4. Has(h, m, n) /\ x = Get(h, m, n)
    BY <2>3, OnePlace
  <2>5. Child(h, h.ents[a], n) = h.ents[x]
    BY <2>2, <2>3, <2>4 DEF Child
  <2>6. Sub(u, n) \in Seq(Name) /\ x \in DOMAIN h.ents
    BY <1>4, Linked, SubType, Zenon
  <2> QED
    BY <1>2, <2>1, <2>5, <2>6
<1>5. ClosedIn(h, S)
  BY <1>3, <1>4 DEF ClosedIn
<1>6. <<p, e>> \in S
  BY <1>1, <1>5 DEF Leads
<1> QED
  BY <1>2, <1>6

LEMMA EndsIs ==
  ASSUME CallsOK, NEW c \in Call, NEW how, NEW v, End(c, how, v)
  PROVE  Ends(c, how) /\ answer'[c].val = v
BY NoCallIs DEF CallsOK, End, Ends

LEMMA GoesIs ==
  ASSUME CallsOK, NEW c \in Call, NEW q, Continue(c, q)
  PROVE  Goes(c, q)
BY DEF CallsOK, Continue, Goes

\* A heap that has not changed.
LEMMA SparesItself ==
  ASSUME NEW h
  PROVE  Spares(h, h, {}) /\ KeepsBut(h, h, {}) /\ KeepsEntries(h, h)
BY DEF Spares, KeepsEntries, KeepsBut

LEMMA RootPlanted ==
  ASSUME NEW h, NEW q, Planted(h, q)
  PROVE  \E A, P : RootTree(h, A, P)
BY Zenon DEF Planted, RootTree

\* One segment of a walk loses nothing.
LEMMA NextSegmentSpares ==
  ASSUME NEW c \in Call, NEW h, NEW m, Entered(c, h, m), loc[c].rest # <<>>,
         NextSegment(c, h, m)
  PROVE  /\ EnterSpares(c, h) /\ Losses(c) = {}
         /\ \/ Ends(c, "error") /\ heap' = h
            \/ \E x : /\ Link(heap', loc[c].cur, Head(loc[c].rest), x)
                      /\ Goes(c, [loc[c] EXCEPT !.cur = x, !.rest = Tail(loc[c].rest)])
<1> DEFINE r == loc[c]
           n == Head(r.rest)
           k == r.cur
           on(x) == [r EXCEPT !.cur = x, !.rest = Tail(r.rest)]
<1>1. /\ CallOK(r, heap) /\ k \in DOMAIN h.ents /\ m \in DOMAIN h.maps /\ CallsOK
      /\ HeapOK(h) /\ h.ents[k].map = m /\ m # 0
  BY EnteredFacts DEF Entered
<1>2. n \in Name
  BY <1>1, HeadTailProperties DEF CallOK
<1>3. CASE Throw(c, h)
  <2>1. Ends(c, "error") /\ heap' = h
    BY <1>1, <1>3, EndsIs DEF Throw
  <2>2. Losses(c) = {} /\ Lost(c, h) = {}
    BY <2>1 DEF Losses, Lost, Ends
  <2> QED
    BY <2>1, <2>2, SparesItself, Zenon DEF EnterSpares
<1>4. CASE Missing(h, m, n) /\ heap' = PutDir(h, m, n) /\ Continue(c, on(Len(h.ents) + 1))
  <2>1. Goes(c, on(Len(h.ents) + 1))
    BY <1>1, <1>4, GoesIs
  <2>2. Losses(c) = {} /\ Lost(c, h) = {}
    BY <2>1 DEF Losses, Lost, Ends, Goes
  <2>3. Link(heap', k, n, Len(h.ents) + 1)
    BY <1>1, <1>2, <1>4, PutDirGrows, Zenon
  <2>4. Spares(h, heap', {})
    BY <1>1, <1>2, <1>4, PutDirSpares, Zenon DEF Missing
  <2> QED
    BY <2>1, <2>2, <2>3, <2>4, Zenon DEF EnterSpares
<1>5. CASE ~Missing(h, m, n) /\ heap' = h /\ Continue(c, on(Get(h, m, n)))
  <2>1. Goes(c, on(Get(h, m, n)))
    BY <1>1, <1>5, GoesIs
  <2>2. Losses(c) = {} /\ Lost(c, h) = {}
    BY <2>1 DEF Losses, Lost, Ends, Goes
  <2>3. Link(heap', k, n, Get(h, m, n))
    BY <1>1, <1>2, <1>5, Placed DEF Missing, Link
  <2> QED
    BY <1>5, <2>1, <2>2, <2>3, SparesItself, Zenon DEF EnterSpares
<1> QED
  BY <1>3, <1>4, <1>5, Zenon DEF NextSegment

\* The last step of a walk loses what the call changes.
LEMMA SetTargetSpares ==
  ASSUME NEW c \in Call, NEW h, NEW m, Entered(c, h, m), loc[c].rest = <<>>, loc[c].op # "move",
         SetTarget(c, h, m)
  PROVE  /\ EnterSpares(c, h) /\ (Ends(c, "ok") \/ (Ends(c, "error") /\ heap' = h))
         /\ loc[c].op = "write" /\ Ends(c, "ok") =>
              \E x : /\ Link(heap', loc[c].cur, Last(loc[c].dst), x)
                     /\ heap'.ents[x] = PendingEntry(loc[c].arg)
<1> DEFINE r == loc[c]
           n == Last(r.dst)
           k == r.cur
<1>1. /\ CallOK(r, heap) /\ k \in DOMAIN h.ents /\ m \in DOMAIN h.maps /\ CallsOK /\ InFlight(c)
      /\ HeapOK(h) /\ h.ents[k].map = m /\ m # 0 /\ n \in Name
      /\ r.op = "mount" => r.arg \in Mounted
      /\ r.op = "write" => r.arg \in Written
  BY EnteredFacts, Zenon DEF Entered, CallOK, InFlight
<1>2. r.op \in {"write", "mount", "delete"} /\ Ends(c, "ok") => Lost(c, h) = {<<m, n>>}
  <2>1. SUFFICES ASSUME r.op \in {"write", "mount", "delete"}, Ends(c, "ok")
                 PROVE  Lost(c, h) = {<<m, n>>}
    OBVIOUS
  <2>2. Losses(c) = {r.path} /\ r.op # "move"
    BY <1>1, <2>1 DEF Losses, Changes
  <2> QED
    BY <1>1, <2>2, Zenon DEF Lost
<1>0. ASSUME Spares(h, heap', Lost(c, h)) PROVE EnterSpares(c, h)
  BY <1>0 DEF EnterSpares
<1>3. Ends(c, "error") => Lost(c, h) = {}
  BY DEF Lost, Losses, Ends
<1>4. CASE r.op = "write" /\ heap' = PutNew(h, m, n, PendingEntry(r.arg)) /\ Done(c)
  <2> DEFINE entry == PendingEntry(r.arg)
  <2>1. entry \in Entry /\ entry.map = 0 /\ entry.type = "pending"
    BY <1>1, <1>4, TreeAssumption DEF PendingEntry, Entry, Value, Form
  <2>2. Ends(c, "ok")
    BY <1>1, <1>4, EndsIs DEF Done
  <2> HIDE DEF entry
  <2>3. entry.map \in 0..Len(h.maps)
    BY <1>1, <2>1, Sized
  <2>4. heap' = PutNew(h, h.ents[k].map, n, entry) /\ heap' = PutNew(h, m, n, entry)
    BY <1>1, <1>4 DEF entry
  <2>5. Spares(h, heap', {<<m, n>>})
    BY <1>1, <2>1, <2>3, <2>4, PutNewSpares
  <2>6. Link(heap', k, n, Len(h.ents) + 1)
    BY <1>1, <2>1, <2>3, <2>4, PutNewGrows, Zenon
  <2>7. Lost(c, h) = {<<m, n>>}
    BY <1>2, <1>4, <2>2
  <2>8. EnterSpares(c, h)
    BY <1>0, <2>5, <2>7
  <2>9. heap'.ents[Len(h.ents) + 1] = PendingEntry(r.arg)
    <3>1. h.ents \in Seq(Entry)
      BY <1>1 DEF HeapOK, Heap
    <3>2. heap'.ents = Append(h.ents, entry)
      BY <1>1, <2>4, PutNewEnts
    <3>3. heap'.ents[Len(h.ents) + 1] = entry
      BY <2>1, <3>1, <3>2, AppendProperties
    <3> QED
      BY <3>3 DEF entry
  <2> QED
    BY <2>2, <2>6, <2>8, <2>9
<1>5. CASE r.op = "mount" /\ heap' = PutNew(h, m, n, NodeEntry(r.arg)) /\ Done(c)
  <2> DEFINE entry == NodeEntry(r.arg)
  <2>1. entry \in Entry /\ entry.map = 0 /\ entry.val \in Node
    BY <1>1, <1>5, TreeAssumption DEF NodeEntry, Entry, Value, Form
  <2>2. Ends(c, "ok")
    BY <1>1, <1>5, EndsIs DEF Done
  <2> HIDE DEF entry
  <2>3. entry.map \in 0..Len(h.maps)
    BY <1>1, <2>1, Sized
  <2>4. heap' = PutNew(h, m, n, entry)
    BY <1>5 DEF entry
  <2>5. Spares(h, heap', {<<m, n>>})
    BY <1>1, <2>1, <2>3, <2>4, PutNewSpares
  <2>6. Lost(c, h) = {<<m, n>>}
    BY <1>2, <1>5, <2>2
  <2>7. EnterSpares(c, h)
    BY <1>0, <2>5, <2>6
  <2> QED
    BY <1>5, <2>2, <2>7
<1>6. CASE r.op = "mkdir" /\ ~Has(h, m, n) /\ heap' = PutDir(h, m, n) /\ Done(c)
  BY <1>0, <1>1, <1>6, EndsIs, PutDirSpares DEF Done, Lost, Losses, Changes
<1>7. CASE r.op = "delete" /\ heap' = Del(h, m, n) /\ Done(c)
  BY <1>0, <1>1, <1>2, <1>7, EndsIs, DelSpares DEF Done
<1>8. CASE r.op \in {"mkdir", "list"} /\ heap' = h /\ Done(c)
  BY <1>1, <1>8, EndsIs, SparesItself DEF Done, Lost, Losses, Changes, EnterSpares
<1>9. CASE Throw(c, h)
  <2>1. Ends(c, "error") /\ heap' = h
    BY <1>1, <1>9, EndsIs DEF Throw
  <2>2. Losses(c) = {} /\ ~Ends(c, "ok")
    BY <2>1 DEF Losses, Ends
  <2> QED
    BY <1>3, <2>1, <2>2, SparesItself, Zenon DEF EnterSpares
<1> QED
  BY <1>4, <1>5, <1>6, <1>7, <1>8, <1>9 DEF SetTarget

\* The end of a walk of a move.
LEMMA MoveStepSpares ==
  ASSUME NEW c \in Call, NEW h, NEW m, Entered(c, h, m), loc[c].rest = <<>>, loc[c].op = "move",
         MoveStep(c, h, m)
  PROVE  /\ EnterSpares(c, h)
         /\ \/ Ends(c, "error") /\ heap' = h
            \/ Ends(c, "ok") /\ loc[c].stage = "target"
            \/ /\ heap' = h /\ Losses(c) = {}
               /\ \/ /\ loc[c].stage = "source"
                     /\ \E x : /\ Link(h, loc[c].cur, Last(loc[c].path), x)
                               /\ Goes(c, Walk([loc[c] EXCEPT !.src = x], "origin", Front(loc[c].path)))
                  \/ /\ loc[c].stage = "origin"
                     /\ Goes(c, Walk([loc[c] EXCEPT !.from = m], "target", Front(loc[c].dst)))
<1> DEFINE r == loc[c]
           k == r.cur
           j == Last(r.path)
           n == Last(r.dst)
<1>1. /\ CallOK(r, heap) /\ CallOK(r, h) /\ k \in DOMAIN h.ents /\ m \in DOMAIN h.maps /\ CallsOK
      /\ HeapOK(h) /\ h.ents[k].map = m /\ m # 0 /\ j \in Name /\ n \in Name /\ InFlight(c)
  BY EnteredFacts DEF Entered, InFlight
<1>2. CASE Throw(c, h)
  BY <1>1, <1>2, EndsIs, SparesItself DEF Throw, Losses, Lost, Ends, EnterSpares
<1>3. ASSUME NEW q, heap' = h, Continue(c, q)
      PROVE  Goes(c, q) /\ EnterSpares(c, h) /\ Losses(c) = {}
  BY <1>1, <1>3, GoesIs, SparesItself DEF Losses, Lost, Ends, Goes, EnterSpares
<1>4. CASE /\ r.stage = "source" /\ Has(h, m, j) /\ heap' = h
           /\ Continue(c, Walk([r EXCEPT !.src = Get(h, m, j)], "origin", Front(r.path)))
  <2>1. Link(h, k, j, Get(h, m, j))
    BY <1>1, <1>4, Placed DEF Link
  <2> QED
    BY <1>3, <1>4, <2>1
<1>5. CASE /\ r.stage = "origin" /\ heap' = h
           /\ Continue(c, Walk([r EXCEPT !.from = m], "target", Front(r.dst)))
  BY <1>3, <1>5
<1>6. CASE /\ r.stage = "target" /\ heap' = Del(Put(h, m, n, r.src), r.from, j)
           /\ Done(c)
  BY <1>1, <1>6, MoveSpares, EndsIs DEF CallOK, Done, Losses, Changes, Lost, EnterSpares
<1> QED
  BY <1>2, <1>4, <1>5, <1>6 DEF MoveStep

\* What is not above a target of a call is not above a place on its way there.
LEMMA NotAbove ==
  ASSUME NEW s \in Seq(Name), NEW t \in Seq(Name), t # <<>>, NEW u \in Seq(Name),
         NEW rest \in Seq(Name), u \o rest = Front(t), ~IsStrictPrefix(s, t)
  PROVE  ~Below(s, u)
<1> SUFFICES ASSUME Below(s, u) PROVE FALSE
  OBVIOUS
<1>1. Below(s, t)
  BY AboveCut, Zenon
<1>2. Below(s, Front(t)) /\ Front(t) \in Seq(Name) /\ Last(t) \in Name
      /\ t = Sub(Front(t), Last(t))
  <2>1. Front(t) \in Seq(Name) /\ Last(t) \in Name /\ t = Sub(Front(t), Last(t))
    BY PathSplit
  <2>2. Below(s, u \o rest)
    BY BelowFurther, Zenon
  <2> QED
    BY <2>1, <2>2
<1>3. s # t
  BY <1>2, BelowSub
<1> QED
  BY <1>1, <1>3, BelowIsPrefix DEF IsStrictPrefix

\* A call is found again as long as no link above its targets goes away.
LEMMA FoundStays ==
  ASSUME NEW h, HeapOK(h), NEW h2, KeepsEntries(h, h2), NEW S \in SUBSET Seq(Name),
         KeepsBut(h, h2, S), NEW q, CallOK(q, h), Found(h, q),
         \A s \in S, t \in Targets(q) : ~IsStrictPrefix(s, t)
  PROVE  Found(h2, q)
<1> SUFFICES ASSUME q.op \in Walks \ {"list"} PROVE Found(h2, q)
  BY DEF Found
<1>1. /\ \E u : Leads(h, u, q.cur) /\ u \o q.rest = Goal(q)
      /\ q.op = "move" /\ q.stage = "target" =>
           \E f : Leads(h, Front(q.path), f) /\ h.ents[f].map = q.from
      /\ q.op # "move" => q.dst = q.path
  BY DEF Found
<1>2. q.path \in Targets(q) /\ q.dst \in Targets(q)
  BY <1>1 DEF Targets, Changes, Walks
<1>3. /\ q.path \in Seq(Name) /\ q.dst \in Seq(Name) /\ q.rest \in Seq(Name)
      /\ q.path # <<>> /\ q.dst # <<>>
      /\ q.op = "move" /\ q.stage = "target" => q.from # 0
  <2>1. \A m \in DOMAIN h.maps : m # 0
    BY Sized
  <2> QED
    BY <2>1 DEF CallOK, Walks
<1>4. \E u : Leads(h2, u, q.cur) /\ u \o q.rest = Goal(q)
  <2>1. PICK u : Leads(h, u, q.cur) /\ u \o q.rest = Goal(q)
    BY <1>1
  <2>2. u \in Seq(Name)
    BY <2>1, LeadsType
  <2>3. \E t \in {q.path, q.dst} : u \o q.rest = Front(t)
    BY <2>1 DEF Goal
  <2>4. \A s \in S : ~Below(s, u)
    BY <1>2, <1>3, <2>2, <2>3, NotAbove, Zenon
  <2> QED
    BY <2>1, <2>4 DEF KeepsBut
<1>5. ASSUME q.op = "move", q.stage = "target"
      PROVE  \E f : Leads(h2, Front(q.path), f) /\ h2.ents[f].map = q.from
  <2>1. PICK f : Leads(h, Front(q.path), f) /\ h.ents[f].map = q.from
    BY <1>1, <1>5
  <2>2. Front(q.path) \in Seq(Name) /\ <<>> \in Seq(Name) /\ Front(q.path) \o <<>> = Front(q.path)
    BY <1>3, PathSplit, ConcatEmptySeq, EmptySeq
  <2>3. \A s \in S : ~Below(s, Front(q.path))
    BY <1>2, <1>3, <2>2, NotAbove, Zenon
  <2>4. f \in DOMAIN h.ents /\ h.ents[f].map # 0
    BY <1>3, <1>5, <2>1, LeadsType
  <2>5. h2.ents[f].map = q.from
    BY <2>1, <2>4 DEF KeepsEntries
  <2> QED
    BY <2>1, <2>3, <2>5 DEF KeepsBut
<1> QED
  BY <1>1, <1>4, <1>5 DEF Found

\* The places that call c has lost of h are those of the paths that it changes.
LEMMA LostPlaces ==
  ASSUME NEW c \in Call, NEW h, NEW m, Entered(c, h, m), Found(h, loc[c]),
         Losses(c) # {} => /\ loc[c].rest = <<>>
                           /\ loc[c].op = "move" => loc[c].stage = "target"
  PROVE  PlacesOf(h, Lost(c, h), Losses(c)) /\ Losses(c) \in SUBSET Seq(Name)
<1> DEFINE r == loc[c]
<1>1. CASE Losses(c) = {}
  BY <1>1 DEF Lost, PlacesOf
<1>2. CASE Losses(c) # {}
  <2>1. /\ Losses(c) = Changes(r) /\ Changes(r) # {} /\ r.rest = <<>>
        /\ r.op = "move" => r.stage = "target"
    BY <1>2 DEF Losses
  <2>2. r.op \in {"write", "mount", "delete", "move"}
    BY <2>1 DEF Changes
  <2>3. /\ CallOK(r, h) /\ HeapOK(h) /\ h.ents[r.cur].map = m /\ m # 0
        /\ r.path \in Seq(Name) /\ r.path # <<>> /\ r.dst \in Seq(Name) /\ r.dst # <<>>
    BY EnteredFacts DEF Entered, CallOK
  <2>4. Sub(Front(r.dst), Last(r.dst)) = r.dst /\ Sub(Front(r.path), Last(r.path)) = r.path
    BY <2>3, PathSplit
  <2>5. PICK u : Leads(h, u, r.cur) /\ u \o r.rest = Goal(r)
    BY <2>2 DEF Found, Walks
  <2>6. u = Front(r.dst)
    <3>1. u \in Seq(Name)
      BY <2>3, <2>5, LeadsType
    <3>2. u \o <<>> = u
      BY <3>1, ConcatEmptySeq
    <3> QED
      BY <2>1, <2>5, <3>2 DEF Goal
  <2>7. r.dst \in Changes(r) /\ Changes(r) \in SUBSET Seq(Name)
    <3>1. r.op # "move" => r.dst = r.path
      BY <2>2 DEF Found, Walks
    <3> QED
      BY <2>2, <2>3, <3>1 DEF Changes
  <2>8. CASE r.op # "move"
    <3>1. Lost(c, h) = {<<m, Last(r.dst)>>}
      BY <1>2, <2>3, <2>8 DEF Lost
    <3> QED
      BY <2>1, <2>3, <2>4, <2>5, <2>6, <2>7, <3>1, Zenon DEF PlacesOf
  <2>9. CASE r.op = "move"
    <3>1. Lost(c, h) = {<<m, Last(r.dst)>>} \cup {<<r.from, Last(r.path)>>}
      BY <1>2, <2>3, <2>9 DEF Lost
    <3>2. PICK f : Leads(h, Front(r.path), f) /\ h.ents[f].map = r.from
      BY <2>1, <2>9 DEF Found, Walks
    <3>3. r.path \in Changes(r)
      BY <2>9 DEF Changes
    <3>4. ASSUME NEW l \in DOMAIN h.maps, NEW n \in Name, <<l, n>> \in Lost(c, h)
          PROVE  \E v, e : Leads(h, v, e) /\ h.ents[e].map = l /\ l # 0 /\ Sub(v, n) \in Losses(c)
      <4>1. l # 0
        BY <2>3, Sized
      <4>2. (l = m /\ n = Last(r.dst)) \/ (l = r.from /\ n = Last(r.path))
        BY <3>1, <3>4
      <4> HIDE DEF r
      <4> QED
        BY <2>1, <2>3, <2>4, <2>5, <2>6, <2>7, <3>2, <3>3, <4>1, <4>2
    <3> QED
      BY <2>1, <2>7, <3>4 DEF PlacesOf
  <2> QED
    BY <2>8, <2>9
<1> QED
  BY <1>1, <1>2

\* The record of a call that has gone on by a segment.
LEMMA OnFields ==
  ASSUME NEW r, Fields(r), NEW x, NEW rest
  PROVE  [r EXCEPT !.cur = x, !.rest = rest]
           = [op |-> r.op, path |-> r.path, dst |-> r.dst, arg |-> r.arg, stage |-> r.stage,
              cur |-> x, rest |-> rest, src |-> r.src, from |-> r.from, frames |-> r.frames]
<1>1. DOMAIN r = {"op", "path", "dst", "arg", "stage", "cur", "rest", "src", "from", "frames"}
  BY DEF Fields
<1>2. PICK y : y = [r EXCEPT !.cur = x, !.rest = rest]
  OBVIOUS
<1>3. DOMAIN y = DOMAIN r
  BY <1>2
<1>4. y = [z \in DOMAIN r |-> y[z]]
  BY <1>2, Zenon
<1>5. y.cur = x /\ y.rest = rest
  BY <1>1, <1>2
<1>6. /\ y.op = r.op /\ y.path = r.path /\ y.dst = r.dst /\ y.arg = r.arg /\ y.src = r.src
      /\ y.stage = r.stage /\ y.from = r.from /\ y.frames = r.frames
  BY <1>1, <1>2
<1> QED
  BY <1>1, <1>2, <1>3, <1>4, <1>5, <1>6, Zenon

\* A call that goes on by one segment is found there.
LEMMA FoundOn ==
  ASSUME NEW h, HeapOK(h), NEW r, CallOK(r, h), Found(h, r), r.rest # <<>>,
         NEW x, Link(h, r.cur, Head(r.rest), x), NEW q,
         q = [r EXCEPT !.cur = x, !.rest = Tail(r.rest)]
  PROVE  Found(h, q)
<1> SUFFICES ASSUME q.op \in Walks \ {"list"} PROVE Found(h, q)
  BY DEF Found
<1>1. /\ q.op = r.op /\ q.path = r.path /\ q.dst = r.dst /\ q.stage = r.stage /\ q.from = r.from
      /\ q.cur = x /\ q.rest = Tail(r.rest)
  <2>1. Fields(r)
    BY DEF CallOK, Fields
  <2>2. q = [op |-> r.op, path |-> r.path, dst |-> r.dst, arg |-> r.arg, stage |-> r.stage,
             cur |-> x, rest |-> Tail(r.rest), src |-> r.src, from |-> r.from, frames |-> r.frames]
    BY <2>1, OnFields, Zenon
  <2> QED
    BY <2>2
<1>2. PICK u : Leads(h, u, r.cur) /\ u \o r.rest = Goal(r)
  BY <1>1 DEF Found
<1>3. PICK z \in Seq(Name) : z = r.rest
  BY DEF CallOK
<1>4. /\ Head(z) \in Name /\ Tail(z) \in Seq(Name) /\ u \in Seq(Name)
      /\ Sub(u, Head(z)) \o Tail(z) = u \o z
  BY <1>2, <1>3, LeadsType, HeadFirst, Zenon
<1>5. Leads(h, Sub(u, Head(z)), x)
  BY <1>2, <1>3, <1>4, LeadsOn
<1>6. Goal(q) = Goal(r)
  BY <1>1 DEF Goal
<1>7. \E v : Leads(h, v, q.cur) /\ v \o q.rest = Goal(q)
  BY <1>1, <1>2, <1>3, <1>4, <1>5, <1>6, Zenon
<1>8. Found(h, r) => /\ q.op = "move" /\ q.stage = "target" =>
                          \E f : Leads(h, Front(q.path), f) /\ h.ents[f].map = q.from
                     /\ q.op # "move" => q.dst = q.path
  BY <1>1 DEF Found
<1> QED
  BY <1>7, <1>8 DEF Found

\* What starts at the root is found there.
LEMMA FoundAtRoot ==
  ASSUME NEW h, NEW q, q.cur = 1, q.rest = Goal(q), q.rest \in Seq(Name),
         q.op = "move" /\ q.stage = "target" =>
           \E f : Leads(h, Front(q.path), f) /\ h.ents[f].map = q.from,
         q.op # "move" => q.op = "list" \/ q.dst = q.path
  PROVE  Found(h, q)
<1>1. <<>> \o q.rest = q.rest
  BY ConcatEmptySeq
<1>2. Leads(h, <<>>, q.cur)
  BY LeadsRoot
<1> QED
  BY <1>1, <1>2 DEF Found

\* A step that reaches a directory takes no links away but those of the paths it
\* changes, and knows where it goes.
LEMMA EnterFinds ==
  ASSUME NEW c \in Call, NEW h, NEW m, Entered(c, h, m), HeapOK(heap'), Grows(heap, heap'),
         NEW A, NEW P, RootTree(h, A, P), Found(h, loc[c]), Enter(c, h, m)
  PROVE  /\ KeepsEntries(h, heap') /\ KeepsBut(h, heap', Losses(c))
         /\ Found(heap', loc'[c])
         /\ loc[c].op = "write" /\ Ends(c, "ok") =>
              \E e : Leads(heap', loc[c].path, e) /\ heap'.ents[e] = PendingEntry(loc[c].arg)
<1> DEFINE r == loc[c]
<1>1. /\ CallOK(r, h) /\ HeapOK(h) /\ h.ents[r.cur].map = m /\ m # 0 /\ CallOK(r, heap')
      /\ Front(r.path) \in Seq(Name) /\ Last(r.path) \in Name
      /\ Front(r.dst) \in Seq(Name) /\ Last(r.dst) \in Name
      /\ r.op \in Walks /\ r.dst # <<>> /\ r.dst \in Seq(Name) /\ r.path # <<>> /\ r.path \in Seq(Name)
      /\ Fields(r)
  <2>1. /\ CallOK(r, heap) /\ CallOK(r, h) /\ r.op \in Walks
        /\ Front(r.path) \in Seq(Name) /\ Last(r.path) \in Name
        /\ Front(r.dst) \in Seq(Name) /\ Last(r.dst) \in Name
    BY EnteredFacts
  <2>2. HeapOK(heap) /\ HeapOK(h) /\ h.ents[r.cur].map = m /\ m # 0
    BY DEF Entered
  <2>3. CallOK(r, heap')
    BY <2>1, <2>2, CallGrows
  <2>4. /\ r.dst # <<>> /\ r.dst \in Seq(Name) /\ r.path # <<>> /\ r.path \in Seq(Name)
        /\ Fields(r)
    BY <2>1 DEF CallOK, Fields
  <2> QED
    BY <2>1, <2>2, <2>3, <2>4
<1>2. EnterSpares(c, h)
  BY NextSegmentSpares, MoveStepSpares, SetTargetSpares, Zenon DEF Enter
<1>3. KeepsEntries(h, heap') /\ Spares(h, heap', Lost(c, h))
  BY <1>2 DEF EnterSpares, Spares
<1>4. PlacesOf(h, Lost(c, h), Losses(c)) /\ Losses(c) \in SUBSET Seq(Name)
  BY <1>2, LostPlaces DEF EnterSpares
<1>5. KeepsBut(h, heap', Losses(c))
  BY <1>1, <1>3, <1>4, KeepsPaths
<1>6. ASSUME NEW how, Ends(c, how) PROVE Found(heap', loc'[c])
  BY <1>6, NoCallIs DEF Ends, Found, Walks
<1>7. CASE r.rest # <<>>
  <2>1. /\ Losses(c) = {}
        /\ \/ Ends(c, "error")
           \/ \E x : /\ Link(heap', r.cur, Head(r.rest), x)
                     /\ Goes(c, [r EXCEPT !.cur = x, !.rest = Tail(r.rest)])
    BY <1>7, NextSegmentSpares, Zenon DEF Enter
  <2>2. ASSUME NEW x, Link(heap', r.cur, Head(r.rest), x),
               Goes(c, [r EXCEPT !.cur = x, !.rest = Tail(r.rest)])
        PROVE  Found(heap', loc'[c])
    <3>1. Found(heap', r)
      BY <1>1, <1>3, <1>4, <1>5, <2>1, FoundStays, Zenon
    <3>2. loc'[c] = [r EXCEPT !.cur = x, !.rest = Tail(r.rest)]
      BY <2>2 DEF Goes
    <3> QED
      BY <1>1, <1>7, <2>2, <3>1, <3>2, FoundOn, Zenon
  <2>3. Found(heap', loc'[c])
    BY <1>6, <2>1, <2>2, Zenon
  <2>4. Ends(c, "ok") => Ends(c, "error") \/ \E q : Goes(c, q)
    BY <2>1, Zenon
  <2>5. ~Ends(c, "ok")
    BY <2>4 DEF Ends, Goes
  <2> QED
    BY <1>3, <1>5, <2>3, <2>5
<1>8. CASE r.rest = <<>> /\ r.op # "move"
  <2>1. /\ Ends(c, "ok") \/ Ends(c, "error")
        /\ r.op = "write" /\ Ends(c, "ok") =>
             \E x : Link(heap', r.cur, Last(r.dst), x) /\ heap'.ents[x] = PendingEntry(r.arg)
    BY <1>8, SetTargetSpares DEF Enter
  <2>2. ASSUME r.op = "write", Ends(c, "ok")
        PROVE  \E e : Leads(heap', r.path, e) /\ heap'.ents[e] = PendingEntry(r.arg)
    <3>1. PICK x : Link(heap', r.cur, Last(r.dst), x) /\ heap'.ents[x] = PendingEntry(r.arg)
      BY <2>1, <2>2
    <3>2. r.dst = r.path /\ Goal(r) = Front(r.dst)
      BY <1>1, <2>2 DEF Found, Goal, Walks
    <3>3. PICK u : Leads(h, u, r.cur) /\ u \o r.rest = Front(r.dst)
      BY <2>2, <3>2 DEF Found, Walks
    <3>4. u \in Seq(Name) /\ u \o <<>> = u
      BY <1>1, <3>3, LeadsType, ConcatEmptySeq
    <3>5. u = Front(r.dst) /\ r.dst = Sub(u, Last(r.dst))
      BY <1>1, <1>8, <3>3, <3>4, PathSplit
    <3>6. \A s \in Losses(c) : s = r.dst
      BY <2>2, <3>2 DEF Losses, Changes
    <3>7. ~Below(r.dst, u)
      BY <1>1, <3>4, <3>5, BelowSub
    <3>8. Leads(heap', u, r.cur)
      BY <1>5, <3>3, <3>6, <3>7 DEF KeepsBut
    <3>9. Leads(heap', r.dst, x)
      BY <1>1, <3>1, <3>5, <3>8, LeadsOn
    <3> QED
      BY <3>1, <3>2, <3>9
  <2> QED
    BY <1>3, <1>5, <1>6, <2>1, <2>2
<1>9. CASE r.rest = <<>> /\ r.op = "move"
  <2>1. \/ Ends(c, "error") \/ Ends(c, "ok")
        \/ /\ heap' = h /\ Losses(c) = {}
           /\ \/ /\ r.stage = "source"
                 /\ \E x : Goes(c, Walk([r EXCEPT !.src = x], "origin", Front(r.path)))
              \/ r.stage = "origin" /\ Goes(c, Walk([r EXCEPT !.from = m], "target", Front(r.dst)))
    <3>1. MoveStep(c, h, m)
      BY <1>9 DEF Enter
    <3> QED
      BY <1>9, <3>1, MoveStepSpares, Zenon
  <2>2. ASSUME NEW x, Goes(c, Walk([r EXCEPT !.src = x], "origin", Front(r.path)))
        PROVE  Found(heap', loc'[c])
    <3>1. PICK y : y = [r EXCEPT !.src = x]
      BY Zenon
    <3>2. y = [op |-> r.op, path |-> r.path, dst |-> r.dst, arg |-> r.arg, stage |-> r.stage,
               cur |-> r.cur, rest |-> r.rest, src |-> x, from |-> r.from, frames |-> r.frames]
      BY <1>1, <3>1, SrcFields
    <3>3. Fields(y)
      BY <3>2 DEF Fields
    <3>4. PICK q : q = Walk(y, "origin", Front(r.path)) /\ q = loc'[c]
      BY <2>2, <3>1 DEF Goes
    <3>5. /\ q.op = "move" /\ q.path = r.path /\ q.stage = "origin" /\ q.cur = 1
          /\ q.rest = Front(r.path)
      BY <1>9, <3>2, <3>3, <3>4, WalkFields
    <3>6. Found(heap', q)
      BY <1>1, <3>5, FoundAtRoot DEF Goal
    <3> QED
      BY <3>4, <3>6
  <2>3. ASSUME r.stage = "origin", heap' = h,
               Goes(c, Walk([r EXCEPT !.from = m], "target", Front(r.dst)))
        PROVE  Found(heap', loc'[c])
    <3>1. PICK y : y = [r EXCEPT !.from = m]
      BY Zenon
    <3>2. y = [op |-> r.op, path |-> r.path, dst |-> r.dst, arg |-> r.arg, stage |-> r.stage,
               cur |-> r.cur, rest |-> r.rest, src |-> r.src, from |-> m, frames |-> r.frames]
      BY <1>1, <3>1, FromFields
    <3>3. Fields(y)
      BY <3>2 DEF Fields
    <3>4. PICK q : q = Walk(y, "target", Front(r.dst)) /\ q = loc'[c]
      BY <2>3, <3>1 DEF Goes
    <3>5. /\ q.op = "move" /\ q.path = r.path /\ q.dst = r.dst /\ q.stage = "target" /\ q.cur = 1
          /\ q.rest = Front(r.dst) /\ q.from = m
      BY <1>9, <3>2, <3>3, <3>4, WalkFields
    <3>6. PICK u : Leads(h, u, r.cur) /\ u \o r.rest = Front(r.path)
      BY <1>9, <2>3 DEF Found, Walks, Goal
    <3>7. u = Front(r.path)
      BY <1>1, <1>9, <3>6, LeadsType, ConcatEmptySeq
    <3>8. Leads(heap', Front(q.path), r.cur) /\ heap'.ents[r.cur].map = q.from
      BY <1>1, <2>3, <3>5, <3>6, <3>7
    <3>9. Found(heap', q)
      BY <1>1, <3>5, <3>8, FoundAtRoot DEF Goal
    <3> QED
      BY <3>4, <3>9
  <2>4. Found(heap', loc'[c])
    BY <1>6, <2>1, <2>2, <2>3, Zenon
  <2> QED
    BY <1>3, <1>5, <1>9, <2>4
<1> QED
  BY <1>7, <1>8, <1>9

\* A step that leaves the heap as it is.
LEMMA SameHeapKeeps ==
  ASSUME NEW c \in Call, heap' = heap, Found(heap, loc'[c]), loc[c].op = "write" => ~Ends(c, "ok")
  PROVE  Keeps(c)
<1>1. KeepsEntries(heap, heap) /\ KeepsBut(heap, heap, {})
  BY SparesItself
<1>2. KeepsBut(heap, heap, Losses(c))
  BY <1>1 DEF KeepsBut
<1> QED
  BY <1>1, <1>2 DEF Keeps

\* A call that throws.
LEMMA ThrowKeeps ==
  ASSUME CallsOK, NEW c \in Call, Throw(c, heap)
  PROVE  Keeps(c)
<1>1. heap' = heap /\ Ends(c, "error")
  BY EndsIs DEF Throw
<1>2. Found(heap, loc'[c]) /\ ~Ends(c, "ok")
  BY <1>1, NoCallIs DEF Ends, Found, Walks
<1> QED
  BY <1>1, <1>2, SameHeapKeeps

\* A step in memory.
LEMMA StepInMemoryKeeps ==
  ASSUME HeapOK(heap), CallsOK, HeapOK(heap'), Grows(heap, heap'), NEW c \in Call,
         NEW A, NEW P, RootTree(heap, A, P), Found(heap, loc[c]), StepInMemory(c)
  PROVE  Keeps(c)
<1> DEFINE cur == heap.ents[loc[c].cur]
<1>1. pc[c] = "walk" /\ Grows(heap, heap) /\ KeepsTrees(heap, heap)
  BY GrowsItself DEF StepInMemory
<1>2. CASE cur.map # 0 /\ Enter(c, heap, cur.map)
  <2>1. Entered(c, heap, cur.map)
    BY <1>1, <1>2 DEF Entered
  <2> HIDE DEF cur
  <2> QED
    BY <1>2, <2>1, EnterFinds DEF Keeps
<1>3. CASE Throw(c, heap)
  BY <1>3, ThrowKeeps
<1>4. CASE pc' = [pc EXCEPT ![c] = "fetch"] /\ UNCHANGED <<heap, loc, answer, begun>>
  <2>1. ~Ends(c, "ok")
    BY <1>4 DEF CallsOK, Ends
  <2> QED
    BY <1>4, <2>1, SameHeapKeeps
<1> QED
  BY <1>2, <1>3, <1>4 DEF StepInMemory

\* The map of a directory that is loaded is a new one.
LEMMA LoadsNew ==
  ASSUME HeapOK(heap), NEW e \in DOMAIN heap.ents, NEW h, h = LoadChildren(heap, e)
  PROVE  heap.ents[e].map # Len(h.maps)
<1> DEFINE v == heap.ents[e].val
           names == SetToSeq(DOMAIN v)
           map == <<>> \o [i \in DOMAIN names |-> [name |-> names[i], ent |-> Len(heap.ents) + i]]
<1>1. h.maps = Append(heap.maps, map)
  BY DEF LoadChildren
<1>2. Len(h.maps) = Len(heap.maps) + 1
  <2>1. heap.maps \in Seq(Seq(Slot))
    BY DEF HeapOK, Heap
  <2> HIDE DEF map
  <2> QED
    BY <1>1, <2>1
<1>3. heap.ents[e].map \in 0..Len(heap.maps) /\ Len(heap.maps) \in Nat
  BY Sized DEF HeapOK
<1> QED
  BY <1>2, <1>3

\* If no directory is loaded a second time, this one is not.
LEMMA LoadsFirst ==
  ASSUME HeapOK(heap), CallsOK, NoReload, NEW c \in Call, StepFetched(c)
  PROVE  FirstLoad(c)
<1> DEFINE e == loc[c].cur
<1>1. /\ e \in DOMAIN heap.ents /\ heap.ents[e].type = "node" /\ pc[c] = "fetch"
  BY DEF CallsOK, CallOK, Waits, StepFetched
<1> SUFFICES ASSUME IsDict(heap.ents[e].val) PROVE heap.ents[e].map = 0
  BY DEF FirstLoad
<1>2. PICK h : h = LoadChildren(heap, e)
  OBVIOUS
<1>3. Enter(c, h, Len(h.maps))
  BY <1>2 DEF StepFetched
<1>4. /\ HeapOK(h) /\ Grows(heap, h) /\ Regrown(heap, h, e, Name) /\ Refilled(heap, h)
      /\ h.ents[e].map = Len(h.maps) /\ h.ents[e].map # 0
  BY <1>1, <1>2, LoadGrows
<1>5. KeepsTrees(heap, h)
  BY <1>1, <1>4, RegrownKeeps
<1>6. Entered(c, h, Len(h.maps))
  BY <1>1, <1>4, <1>5 DEF Entered
<1>7. KeepsEntries(h, heap')
  BY <1>3, <1>6, NextSegmentSpares, MoveStepSpares, SetTargetSpares, Zenon DEF Enter, EnterSpares, Spares
<1>8. heap'.ents[e].map = Len(h.maps)
  BY <1>1, <1>4, <1>7 DEF KeepsEntries, Grows
<1> QED
  BY <1>1, <1>2, <1>8, LoadsNew DEF NoReload

\* A directory that is loaded for the first time is entered without a loss.
LEMMA LoadEnters ==
  ASSUME HeapOK(heap), CallsOK, NEW c \in Call, Planted(heap, NoCall), pc[c] = "fetch",
         IsDict(heap.ents[loc[c].cur].val), heap.ents[loc[c].cur].map = 0,
         NEW h, h = LoadChildren(heap, loc[c].cur)
  PROVE  /\ Entered(c, h, Len(h.maps)) /\ KeepsEntries(heap, h) /\ KeepsBut(heap, h, {})
         /\ \E A, P : RootTree(h, A, P)
<1> DEFINE e == loc[c].cur
<1>1. e \in DOMAIN heap.ents /\ heap.ents[e].type = "node"
  BY DEF CallsOK, CallOK, Waits
<1>2. /\ HeapOK(h) /\ Grows(heap, h) /\ Regrown(heap, h, e, Name) /\ Refilled(heap, h)
      /\ h.ents[e].map = Len(h.maps) /\ h.ents[e].map # 0
  BY <1>1, LoadGrows
<1>3. KeepsTrees(heap, h)
  BY <1>1, <1>2, RegrownKeeps
<1>4. Spares(heap, h, {})
  BY <1>1, LoadSpares
<1>5. PICK A, P : RootTree(heap, A, P)
  BY RootPlanted
<1>6. PlacesOf(heap, {}, {})
  BY DEF PlacesOf
<1>7. KeepsBut(heap, h, {})
  BY <1>2, <1>4, <1>5, <1>6, KeepsPaths
<1>8. \E B, Q : RootTree(h, B, Q)
  BY <1>3, NoCallIs, RootPlanted DEF KeepsTrees
<1> QED
  BY <1>2, <1>3, <1>4, <1>7, <1>8 DEF Entered, Spares

\* A step that has loaded a directory.
LEMMA StepFetchedKeeps ==
  ASSUME HeapOK(heap), CallsOK, HeapOK(heap'), Grows(heap, heap'), NEW c \in Call, FirstLoad(c),
         Planted(heap, NoCall), Found(heap, loc[c]), StepFetched(c)
  PROVE  Keeps(c)
<1> DEFINE e == loc[c].cur
<1>1. pc[c] = "fetch" /\ CallOK(loc[c], heap)
  BY DEF CallsOK, StepFetched
<1>2. CASE ~IsDict(heap.ents[e].val)
  BY <1>2, ThrowKeeps DEF StepFetched
<1>3. CASE IsDict(heap.ents[e].val)
  <2>1. PICK h : h = LoadChildren(heap, e)
    OBVIOUS
  <2>2. Enter(c, h, Len(h.maps))
    BY <1>3, <2>1 DEF StepFetched
  <2>3. heap.ents[e].map = 0
    BY <1>3 DEF FirstLoad
  <2>4. /\ Entered(c, h, Len(h.maps)) /\ KeepsEntries(heap, h) /\ KeepsBut(heap, h, {})
        /\ \E A, P : RootTree(h, A, P)
    BY <1>1, <1>3, <2>1, <2>3, LoadEnters
  <2>5. Found(h, loc[c])
    BY <1>1, <2>4, FoundStays
  <2>6. PICK B, Q : RootTree(h, B, Q)
    BY <2>4
  <2>7. /\ KeepsEntries(h, heap') /\ KeepsBut(h, heap', Losses(c)) /\ Found(heap', loc'[c])
        /\ loc[c].op = "write" /\ Ends(c, "ok") =>
             \E x : Leads(heap', loc[c].path, x) /\ heap'.ents[x] = PendingEntry(loc[c].arg)
    BY <2>2, <2>4, <2>5, <2>6, EnterFinds
  <2>8. KeepsEntries(heap, heap')
    BY <2>4, <2>7 DEF KeepsEntries
  <2>9. KeepsBut(heap, heap', Losses(c))
    BY <2>4, <2>7, KeepsButOn
  <2> QED
    BY <2>7, <2>8, <2>9 DEF Keeps
<1> QED
  BY <1>2, <1>3

\* The calls.
LEMMA CallKeeps ==
  ASSUME HeapOK(heap), CallsOK, NEW c \in Call, CallWalk(c) \/ CallBuild(c)
  PROVE  Keeps(c)
<1>1. CASE CallWalk(c)
  <2>1. pc' = [pc EXCEPT ![c] = "walk"] /\ ~Ends(c, "ok")
    BY <1>1, Zenon DEF CallWalk, CallsOK, Ends
  <2>2. PICK p \in Path :
          \/ \E d \in Written : Begin(c, Walk(Asked("write", p, p, d), "target", Front(p)))
          \/ \E k \in Mounted : Begin(c, Walk(Asked("mount", p, p, k), "target", Front(p)))
          \/ \E op \in {"mkdir", "delete"} : Begin(c, Walk(Asked(op, p, p, NoValue), "target", Front(p)))
          \/ \E t \in Path : Begin(c, Walk(Asked("move", p, t, NoValue), "source", Front(p)))
          \/ Begin(c, Walk(Asked("list", p, p, NoValue), "target", p))
    BY <1>1, Zenon DEF CallWalk, Asked
  <2>3. Front(p) \in Seq(Name)
    BY TreeAssumption, PathSplit
  <2>4. ASSUME NEW op, NEW t, NEW a, NEW stage, NEW rest,
               Begin(c, Walk(Asked(op, p, t, a), stage, rest)),
               op = "move" => stage = "source",
               op # "list" => rest = Front(p),
               op \notin {"move", "list"} => t = p
        PROVE  Keeps(c)
    <3>1. PICK q : q = Walk(Asked(op, p, t, a), stage, rest)
      OBVIOUS
    <3>2. /\ q.op = op /\ q.path = p /\ q.dst = t /\ q.stage = stage /\ q.cur = 1 /\ q.rest = rest
      BY <3>1, AskFields
    <3>3. heap' = heap /\ loc'[c] = q
      BY <2>4, <3>1 DEF Begin, CallsOK
    <3>4. CASE op = "list"
      <4>1. Found(heap, q)
        BY <3>2, <3>4 DEF Found
      <4> QED
        BY <2>1, <3>3, <4>1, SameHeapKeeps
    <3>5. CASE op # "list"
      BY <2>1, <2>3, <2>4, <3>2, <3>3, <3>5, FoundAtRoot, SameHeapKeeps DEF Goal
    <3> QED
      BY <3>4, <3>5
  <2>5. ASSUME NEW d \in Written, Begin(c, Walk(Asked("write", p, p, d), "target", Front(p)))
        PROVE  Keeps(c)
    BY <2>4, <2>5
  <2>6. ASSUME NEW k \in Mounted, Begin(c, Walk(Asked("mount", p, p, k), "target", Front(p)))
        PROVE  Keeps(c)
    BY <2>4, <2>6
  <2>7. ASSUME NEW op \in {"mkdir", "delete"},
               Begin(c, Walk(Asked(op, p, p, NoValue), "target", Front(p)))
        PROVE  Keeps(c)
    BY <2>4, <2>7
  <2>8. ASSUME NEW t \in Path, Begin(c, Walk(Asked("move", p, t, NoValue), "source", Front(p)))
        PROVE  Keeps(c)
    BY <2>4, <2>8
  <2>9. CASE Begin(c, Walk(Asked("list", p, p, NoValue), "target", p))
    BY <2>4, <2>9
  <2> QED
    BY <2>2, <2>5, <2>6, <2>7, <2>8, <2>9
<1>2. CASE CallBuild(c)
  <2>1. heap' = heap /\ pc[c] = "idle"
    BY <1>2 DEF CallBuild, Begin, InFlight
  <2>2. loc[c].op = "none"
    BY <2>1 DEF CallsOK, Waits
  <2>3. loc'[c].op \notin Walks
    <3>1. CASE loc' = loc
      BY <2>2, <3>1 DEF Walks
    <3>2. ASSUME NEW q, q.op = "build", loc' = [loc EXCEPT ![c] = q] PROVE loc'[c].op \notin Walks
      BY <3>2 DEF CallsOK, Walks
    <3>3. PICK y : y = [NoCall EXCEPT !.op = "build"]
      BY Zenon
    <3>4. \A fs : [y EXCEPT !.frames = fs].op = "build"
      BY <3>3 DEF NoCall
    <3> QED
      BY <1>2, <3>1, <3>2, <3>3, <3>4, Zenon DEF CallBuild, Begin
  <2>4. Found(heap, loc'[c])
    BY <2>3 DEF Found
  <2> QED
    BY <2>1, <2>2, <2>4, SameHeapKeeps
<1> QED
  BY <1>1, <1>2

\* A step of a build, and a request that fails.
LEMMA BuildKeeps ==
  ASSUME HeapOK(heap), CallsOK, NEW c \in Call, BuildChild(c) \/ BuildDict(c) \/ RequestFails(c)
  PROVE  Keeps(c)
<1>1. CASE RequestFails(c)
  BY <1>1, ThrowKeeps DEF RequestFails
<1>2. CASE BuildChild(c) \/ BuildDict(c)
  <2>1. pc[c] = "build" /\ heap' = heap
    BY <1>2, Zenon DEF BuildChild, BuildDict, Throw
  <2>2. loc[c].op = "build" /\ Fields(loc[c])
    BY <2>1 DEF CallsOK, Waits, CallOK, Fields
  <2>3. loc'[c].op \notin Walks
    <3>1. ASSUME NEW fs, loc' = [loc EXCEPT ![c].frames = fs] PROVE loc'[c].op = "build"
      <4>1. loc'[c] = [loc[c] EXCEPT !.frames = fs]
        BY <3>1 DEF CallsOK
      <4> QED
        BY <2>2, <4>1 DEF Fields
    <3>2. ASSUME NEW how, NEW v, End(c, how, v) PROVE loc'[c].op = "none"
      BY <3>2, EndsIs, NoCallIs DEF Ends
    <3> QED
      BY <1>2, <3>1, <3>2, Zenon DEF BuildChild, BuildDict, Throw, Walks
  <2> QED
    BY <2>1, <2>2, <2>3, SameHeapKeeps DEF Found
<1> QED
  BY <1>1, <1>2

\* Every step keeps the entries, the paths that it does not change, and the places
\* that calls have come to.
LEMMA StepKeeps ==
  ASSUME HeapOK(heap), CallsOK, HeapOK(heap'), Grows(heap, heap'), NEW c \in Call,
         StepFetched(c) => FirstLoad(c), Planted(heap, NoCall), Found(heap, loc[c]), Step(c)
  PROVE  Keeps(c)
<1>1. PICK A, P : RootTree(heap, A, P)
  BY RootPlanted
<1> QED
  BY <1>1, CallKeeps, StepInMemoryKeeps, StepFetchedKeeps, BuildKeeps DEF Step

\* What a call changes are paths.
LEMMA LossesType ==
  ASSUME CallsOK, NEW c \in Call
  PROVE  /\ Losses(c) \in SUBSET Seq(Name) /\ Losses(c) \subseteq Changes(loc[c])
         /\ Losses(c) # {} => InFlight(c)
<1>1. Changes(loc[c]) \in SUBSET Seq(Name)
  BY DEF CallsOK, CallOK, Changes, Walks
<1> QED
  BY <1>1 DEF Losses

\* A slot without a call has nothing to change.
LEMMA IdleIs ==
  ASSUME CallsOK, NEW c \in Call, ~InFlight(c)
  PROVE  Changes(loc[c]) = {} /\ Targets(loc[c]) = {}
BY DEF CallsOK, Waits, InFlight, Changes, Targets

\* What history says of the calls in flight.
LEMMA ApartStep ==
  ASSUME Track, CallsOK'
  PROVE  Apart' /\ Untouched'
<1>1. Apart'
  BY Zenon DEF Track, Apart, InFlight
<1>2. Untouched'
  BY DEF Track, Untouched, InFlight
<1> QED
  BY <1>1, <1>2

\* A file that was written stays a file with that content.
LEMMA PendingStays ==
  ASSUME NEW h, HeapOK(h), NEW h2, HeapOK(h2), KeepsEntries(h, h2), NEW e \in DOMAIN h.ents, NEW d,
         h.ents[e] = PendingEntry(d)
  PROVE  h2.ents[e] = PendingEntry(d)
<1>1. /\ h.ents[e].type = "pending" /\ h.ents[e].val = d /\ h.ents[e].form = "hex"
      /\ h.ents[e].map = 0
  BY DEF PendingEntry
<1>2. /\ e \in DOMAIN h2.ents
      /\ h2.ents[e].type = "pending" /\ h2.ents[e].val = d /\ h2.ents[e].form = "hex"
      /\ h2.ents[e].map = 0
  BY <1>1 DEF KeepsEntries
<1>3. PICK x : x = h2.ents[e]
  OBVIOUS
<1>4. x \in Entry
  BY <1>2, <1>3, Sized
<1>5. x = [type |-> x.type, val |-> x.val, form |-> x.form, map |-> x.map]
  BY <1>4 DEF Entry
<1> QED
  BY <1>2, <1>3, <1>5 DEF PendingEntry

\* A write that is kept stays where it is.
LEMMA KeptStays ==
  ASSUME HeapOK(heap), HeapOK(heap'), CallsOK, NEW c \in Call, Keeps(c), Untouched,
         NEW k \in kept, NEW e, Leads(heap, k.path, e), heap.ents[e] = PendingEntry(k.data)
  PROVE  Leads(heap', k.path, e) /\ heap'.ents[e] = PendingEntry(k.data)
<1>1. k.path \in Seq(Name) /\ e \in DOMAIN heap.ents
  BY LeadsType
<1>2. heap'.ents[e] = PendingEntry(k.data)
  BY <1>1, PendingStays DEF Keeps
<1>3. ASSUME NEW s \in Losses(c) PROVE ~Below(s, k.path)
  BY <1>1, LossesType, BelowIsPrefix DEF Untouched, Comparable
<1> QED
  BY <1>2, <1>3 DEF Keeps, KeepsBut

\* A call other than the one that steps is found again.
LEMMA OthersFound ==
  ASSUME HeapOK(heap), CallsOK, NEW c \in Call, Keeps(c), Apart, ~displaced,
         NEW o \in Call \ {c}, Found(heap, loc[o])
  PROVE  Found(heap', loc[o])
<1>1. CallOK(loc[o], heap) /\ KeepsEntries(heap, heap') /\ KeepsBut(heap, heap', Losses(c))
  BY DEF CallsOK, Keeps
<1>2. ASSUME NEW s \in Losses(c), NEW t \in Targets(loc[o]) PROVE ~IsStrictPrefix(s, t)
  <2>1. InFlight(c) /\ InFlight(o) /\ s \in Changes(loc[c])
    BY LossesType, IdleIs
  <2> QED
    BY <2>1 DEF Apart
<1>3. Losses(c) \in SUBSET Seq(Name)
  BY LossesType
<1> QED
  BY <1>1, <1>2, <1>3, FoundStays

\* What is kept after a step of call c was kept before, or is the write that c
\* has ended with.
LEMMA KeptIs ==
  ASSUME VfsInv, NEW c \in Call, NEW w, NEW q, Turn(c, w, q), Track, NEW k \in kept'
  PROVE  \/ k \in kept
         \/ /\ k = [path |-> loc[c].path, data |-> loc[c].arg]
            /\ loc[c].op = "write" /\ InFlight(c) /\ pc'[c] = "idle" /\ answer'[c].how = "ok"
<1>1. ASSUME NEW x \in Call, InFlight(x), pc'[x] = "idle" PROVE x = c
  BY <1>1 DEF Turn, VfsInv, CallsOK, InFlight
<1> QED
  BY <1>1 DEF Track

\* Every step leaves the calls and the writes that are kept standing.
LEMMA StandingStep ==
  ASSUME VfsInv, KeptInv, NEW c \in Call, Step(c), Track
  PROVE  Standing'
<1> SUFFICES ASSUME ~reloaded', ~movesMet', ~displaced'
             PROVE  /\ \A o \in Call : Found(heap', loc'[o])
                    /\ \A k \in kept' :
                         \E e : Leads(heap', k.path, e) /\ heap'.ents[e] = PendingEntry(k.data)
  BY DEF Standing
<1>1. PICK w, q : Turn(c, w, q) /\ Outcome(c, q)
  BY StepWell DEF VfsInv
<1>2. ~reloaded /\ ~movesMet /\ ~displaced /\ NoReload
  BY Zenon DEF Track, NoReload
<1>3. /\ HeapOK(heap) /\ CallsOK /\ HeapOK(heap') /\ Grows(heap, heap') /\ Planted(heap, NoCall)
      /\ Apart /\ Untouched
      /\ \A o \in Call : Found(heap, loc[o])
      /\ \A k \in kept : \E e : Leads(heap, k.path, e) /\ heap.ents[e] = PendingEntry(k.data)
  BY <1>1, <1>2 DEF VfsInv, Forest, Outcome, KeptInv, Standing
<1>4. Keeps(c)
  BY <1>2, <1>3, LoadsFirst, StepKeeps
<1>5. ASSUME NEW o \in Call PROVE Found(heap', loc'[o])
  <2>1. CASE o = c
    BY <1>4, <2>1 DEF Keeps
  <2>2. CASE o # c
    <3>1. loc'[o] = loc[o]
      BY <1>1, <1>3, <2>2 DEF Turn, CallsOK
    <3> QED
      BY <1>2, <1>3, <1>4, <2>2, <3>1, OthersFound
  <2> QED
    BY <2>1, <2>2
<1>6. ASSUME NEW k \in kept'
      PROVE  \E e : Leads(heap', k.path, e) /\ heap'.ents[e] = PendingEntry(k.data)
  <2>1. CASE k \in kept
    <3>1. PICK e : Leads(heap, k.path, e) /\ heap.ents[e] = PendingEntry(k.data)
      BY <1>3, <2>1
    <3> QED
      BY <1>3, <1>4, <2>1, <3>1, KeptStays
  <2>2. CASE /\ k = [path |-> loc[c].path, data |-> loc[c].arg]
             /\ loc[c].op = "write" /\ InFlight(c) /\ pc'[c] = "idle" /\ answer'[c].how = "ok"
    <3>1. k.path = loc[c].path /\ k.data = loc[c].arg
      BY <2>2
    <3>2. loc'[c].op = "none"
      <4>1. pc'[c] = w /\ loc'[c] = q /\ Waits(w, q, heap')
        BY <1>1, <1>3 DEF Turn, CallsOK
      <4> QED
        BY <2>2, <4>1 DEF Waits
    <3>3. Ends(c, "ok")
      BY <2>2, <3>2 DEF Ends
    <3> QED
      BY <1>4, <2>2, <3>1, <3>3 DEF Keeps
  <2> QED
    BY <1>1, <2>1, <2>2, KeptIs
<1> QED
  BY <1>5, <1>6

\* Every step keeps the invariant.
LEMMA KeptNext ==
  ASSUME VfsInv, VfsInv', KeptInv, [Next]_vars
  PROVE  KeptInv'
<1>1. CASE Next
  <2>1. PICK c \in Call : Step(c) /\ Track
    BY <1>1 DEF Next
  <2>2. Apart' /\ Untouched'
    BY <2>1, ApartStep DEF VfsInv
  <2>3. Standing'
    BY <2>1, StandingStep
  <2> QED
    BY <2>2, <2>3 DEF KeptInv
<1>2. CASE UNCHANGED vars
  <2>1. UNCHANGED <<heap, pc, loc, kept, reloaded, movesMet, displaced>>
    BY <1>2 DEF vars, ghosts
  <2> QED
    BY <2>1 DEF KeptInv, Apart, Untouched, Standing, InFlight
<1> QED
  BY <1>1, <1>2

\* An answered write is in the tree until a call changes that part of it, unless a
\* directory was loaded twice, two moves have met or a directory was displaced
\* beside a call below it (writeFile of vfs.ts and the calls beside it).
THEOREM WritesStay == Spec => []AnsweredWritesKept
<1>1. ASSUME Init PROVE KeptInv
  <2>1. \A c \in Call : Found(heap, loc[c])
    BY <1>1, NoCallIs DEF Init, Found, Walks
  <2> QED
    BY <1>1, <2>1 DEF Init, KeptInv, Apart, Untouched, Standing, InFlight
<1>2. VfsInv /\ VfsInv' /\ KeptInv /\ [Next]_vars => KeptInv'
  BY KeptNext
<1>3. ASSUME VfsInv, KeptInv PROVE AnsweredWritesKept
  <2> SUFFICES ASSUME ~reloaded, ~movesMet, ~displaced, NEW k \in kept PROVE View(k.path) = k.data
    BY DEF AnsweredWritesKept
  <2>1. PICK e : Leads(heap, k.path, e) /\ heap.ents[e] = PendingEntry(k.data)
    BY <1>3 DEF KeptInv, Standing
  <2>2. EntryAt(heap, k.path) = PendingEntry(k.data)
    BY <1>3, <2>1, LeadsEntry DEF VfsInv
  <2> QED
    BY <2>2 DEF View, ViewOf, Shown, PendingEntry
<1> QED
  BY <1>1, <1>2, <1>3, VfsInductive, PTL DEF Spec

-----------------------------------------------------------------------------
(* What is seen at a path. *)

\* Every path is reached from the empty one, a name at a time.
LEMMA AllPaths ==
  ASSUME NEW S, <<>> \in S, \A p \in Seq(Name), n \in Name : p \in S => Sub(p, n) \in S
  PROVE  Seq(Name) \subseteq S
<1> DEFINE C == {k \in Nat : \A p \in Seq(Name) : Len(p) = k => p \in S}
<1>1. 0 \in C
  <2>1. \A p \in Seq(Name) : Len(p) = 0 => p = <<>>
    BY EmptySeq
  <2> QED
    BY <2>1
<1>2. ASSUME NEW k \in Nat, k \in C PROVE k + 1 \in C
  <2>1. ASSUME NEW p \in Seq(Name), Len(p) = k + 1 PROVE p \in S
    <3>1. p # <<>>
      BY <2>1, EmptySeq
    <3>2. Front(p) \in Seq(Name) /\ Last(p) \in Name /\ p = Sub(Front(p), Last(p))
      BY <3>1, PathSplit
    <3>3. \A u \in Seq(Name), n \in Name : Len(Sub(u, n)) = Len(u) + 1 /\ Len(u) \in Nat
      BY AppendProperties, LenProperties DEF Sub
    <3>4. Len(Front(p)) = k
      BY <2>1, <3>2, <3>3
    <3> QED
      BY <1>2, <3>2, <3>4
  <2> QED
    BY <2>1
<1> HIDE DEF C
<1>3. Nat \subseteq C
  BY <1>1, <1>2, NatInductionOn
<1> QED
  BY <1>3, LenProperties DEF C

\* A path after another, with one more name.
LEMMA ConcatSub ==
  ASSUME NEW p \in Seq(Name), NEW r \in Seq(Name), NEW n \in Name
  PROVE  p \o Sub(r, n) = Sub(p \o r, n) /\ p \o r \in Seq(Name)
<1>1. <<n>> \in Seq(Name) /\ p \o r \in Seq(Name)
  BY ConcatProperties
<1>2. Sub(r, n) = r \o <<n>> /\ Sub(p \o r, n) = (p \o r) \o <<n>>
  BY <1>1, AppendIsConcat DEF Sub
<1> QED
  BY <1>1, <1>2, ConcatAssociative

\* A prefix of a path, and what comes after it.
LEMMA PrefixIsBelow ==
  ASSUME NEW p \in Seq(Name), NEW q \in Seq(Name)
  PROVE  /\ IsPrefix(p, q) <=> Below(p, q)
         /\ Below(p, q) => SubSeq(q, Len(p) + 1, Len(q)) = Beyond(p, q)
<1>1. Len(p) \in Nat /\ Len(q) \in Nat
  BY LenProperties
<1>2. ASSUME IsPrefix(p, q) PROVE Below(p, q)
  <2> DEFINE r == SubSeq(q, Len(p) + 1, Len(q))
  <2>1. Len(p) <= Len(q) /\ SubSeq(p, 1, Len(p)) = SubSeq(q, 1, Len(p))
    BY <1>2 DEF IsPrefix
  <2>2. \A i \in 1..Len(p) : p[i] = q[i]
    BY <1>1, <2>1
  <2>3. r \in Seq(Name) /\ Len(r) = Len(q) - Len(p) /\ \A i \in 1..Len(r) : r[i] = q[Len(p) + i]
    BY <1>1, <2>1
  <2> HIDE DEF r
  <2>4. q = p \o r
    <3>1. /\ p \o r \in Seq(Name) /\ Len(p \o r) = Len(p) + Len(r)
          /\ \A i \in 1..(Len(p) + Len(r)) : (p \o r)[i] = IF i <= Len(p) THEN p[i] ELSE r[i - Len(p)]
      BY <2>3, ConcatProperties
    <3>2. Len(p \o r) = Len(q)
      BY <1>1, <2>3, <3>1
    <3>3. \A i \in 1..Len(q) : (p \o r)[i] = q[i]
      <4> TAKE i \in 1..Len(q)
      <4>1. CASE i <= Len(p)
        BY <1>1, <2>2, <2>3, <3>1, <4>1
      <4>2. CASE ~(i <= Len(p))
        BY <1>1, <2>3, <3>1, <3>2, <4>2
      <4> QED
        BY <4>1, <4>2, Zenon
    <3> QED
      BY <3>1, <3>2, <3>3, SeqEqual, Zenon
  <2> QED
    BY <2>3, <2>4, Zenon DEF Below
<1>3. ASSUME Below(p, q) PROVE SubSeq(q, Len(p) + 1, Len(q)) = Beyond(p, q)
  <2>1. Beyond(p, q) \in Seq(Name) /\ q = p \o Beyond(p, q)
    BY <1>3, BeyondIs
  <2>2. PICK r \in Seq(Name) : r = Beyond(p, q)
    BY <2>1
  <2>3. /\ Len(r) \in Nat /\ Len(q) = Len(p) + Len(r)
        /\ \A i \in 1..(Len(p) + Len(r)) : q[i] = IF i <= Len(p) THEN p[i] ELSE r[i - Len(p)]
    BY <2>1, <2>2, ConcatProperties, LenProperties
  <2>4. PICK s : s = SubSeq(q, Len(p) + 1, Len(q))
    BY Zenon
  <2>5. s \in Seq(Name) /\ Len(s) = Len(r) /\ \A i \in 1..Len(r) : s[i] = q[Len(p) + i]
    BY <1>1, <2>3, <2>4
  <2>6. ASSUME NEW i \in 1..Len(r) PROVE s[i] = r[i]
    <3>1. /\ Len(p) + i \in 1..(Len(p) + Len(r)) /\ ~(Len(p) + i <= Len(p))
          /\ (Len(p) + i) - Len(p) = i
      BY <1>1, <2>3
    <3> QED
      BY <2>3, <2>5, <3>1, Zenon
  <2>7. s = r
    BY <2>5, <2>6, SeqEqual, Zenon
  <2> QED
    BY <2>2, <2>4, <2>7
<1> QED
  BY <1>2, <1>3, BelowIsPrefix

\* What follows in two steps.
LEMMA FromConcat ==
  ASSUME NEW h, NEW x, NEW p \in Seq(Name)
  PROVE  \A r \in Seq(Name) : EntryFrom(h, x, p \o r) = EntryFrom(h, EntryFrom(h, x, p), r)
<1> DEFINE S == {r \in Seq(Name) : EntryFrom(h, x, p \o r) = EntryFrom(h, EntryFrom(h, x, p), r)}
<1>1. <<>> \in S
  BY EntryFromOn, ConcatEmptySeq, EmptySeq
<1>2. ASSUME NEW r \in Seq(Name), NEW n \in Name, r \in S PROVE Sub(r, n) \in S
  <2>1. p \o Sub(r, n) = Sub(p \o r, n) /\ p \o r \in Seq(Name) /\ Sub(r, n) \in Seq(Name)
    BY ConcatSub, SubType, Zenon
  <2>2. EntryFrom(h, x, Sub(p \o r, n)) = Child(h, EntryFrom(h, x, p \o r), n)
    BY <2>1, FromSub, Zenon
  <2>3. EntryFrom(h, EntryFrom(h, x, p), Sub(r, n)) = Child(h, EntryFrom(h, EntryFrom(h, x, p), r), n)
    BY FromSub, Zenon
  <2> QED
    BY <1>2, <2>1, <2>2, <2>3, Zenon
<1> HIDE DEF S
<1>3. Seq(Name) \subseteq S
  BY <1>1, <1>2, AllPaths
<1> QED
  BY <1>3 DEF S

\* What follows a path from the root.
LEMMA AtConcat ==
  ASSUME NEW h, NEW p \in Seq(Name), NEW r \in Seq(Name)
  PROVE  EntryAt(h, p \o r) = EntryFrom(h, EntryAt(h, p), r)
BY FromConcat DEF EntryAt

\* They show the same, in any two heaps.
LEMMA TwinsShow ==
  ASSUME NEW h, NEW h2, NEW x, NEW y, Twins(x, y)
  PROVE  /\ \A r \in Seq(Name) : /\ Twins(EntryFrom(h, x, r), EntryFrom(h2, y, r))
                                 /\ Shown(EntryFrom(h, x, r)) = Shown(EntryFrom(h2, y, r))
         /\ Shown(x) = Shown(y)
<1> DEFINE S == {r \in Seq(Name) : Twins(EntryFrom(h, x, r), EntryFrom(h2, y, r))}
<1>0. ASSUME NEW a, NEW b, Twins(a, b) PROVE Shown(a) = Shown(b)
  BY <1>0 DEF Twins, Shown
<1>1. <<>> \in S
  BY EntryFromOn, EmptySeq
<1>2. ASSUME NEW r \in Seq(Name), NEW n \in Name, r \in S PROVE Sub(r, n) \in S
  <2>1. PICK a, b : a = EntryFrom(h, x, r) /\ b = EntryFrom(h2, y, r)
    OBVIOUS
  <2>2. Twins(a, b)
    BY <1>2, <2>1
  <2>3. Child(h, a, n) = Child(h2, b, n) /\ Child(h, a, n).map = 0
    BY <2>2 DEF Twins, Child, NodeEntry, NoEntry
  <2>4. Twins(Child(h, a, n), Child(h2, b, n))
    BY <2>3 DEF Twins
  <2>5. EntryFrom(h, x, Sub(r, n)) = Child(h, a, n) /\ EntryFrom(h2, y, Sub(r, n)) = Child(h2, b, n)
    BY <2>1, FromSub, Zenon
  <2> QED
    BY <2>4, <2>5, SubType
<1> HIDE DEF S
<1>3. Seq(Name) \subseteq S
  BY <1>1, <1>2, AllPaths
<1>4. \A r \in Seq(Name) : Twins(EntryFrom(h, x, r), EntryFrom(h2, y, r))
  BY <1>3 DEF S
<1> QED
  BY <1>0, <1>4

\* Where there is no entry, there is none below.
LEMMA NothingBelow ==
  ASSUME NEW h, NEW r \in Seq(Name)
  PROVE  EntryFrom(h, NoEntry, r) = NoEntry
<1> DEFINE S == {u \in Seq(Name) : EntryFrom(h, NoEntry, u) = NoEntry}
<1>1. <<>> \in S
  BY EntryFromOn, EmptySeq
<1>2. ASSUME NEW u \in Seq(Name), NEW n \in Name, u \in S PROVE Sub(u, n) \in S
  <2>1. Child(h, NoEntry, n) = NoEntry
    BY DEF Child, NoEntry
  <2>2. EntryFrom(h, NoEntry, Sub(u, n)) = Child(h, EntryFrom(h, NoEntry, u), n)
    BY FromSub
  <2> QED
    BY <1>2, <2>1, <2>2, SubType
<1> HIDE DEF S
<1>3. Seq(Name) \subseteq S
  BY <1>1, <1>2, AllPaths
<1> QED
  BY <1>3 DEF S

\* An entry that holds nothing has none below.
LEMMA NoneUnder ==
  ASSUME NEW h, NEW x, \A n \in Name : Child(h, x, n) = NoEntry, NEW r \in Seq(Name), r # <<>>
  PROVE  EntryFrom(h, x, r) = NoEntry
<1>1. Head(r) \in Name /\ Tail(r) \in Seq(Name) /\ Sub(<<>>, Head(r)) \o Tail(r) = <<>> \o r
      /\ <<>> \in Seq(Name)
  BY HeadFirst, EmptySeq, Zenon
<1>2. r = Sub(<<>>, Head(r)) \o Tail(r) /\ Sub(<<>>, Head(r)) \in Seq(Name)
  BY <1>1, ConcatEmptySeq, SubType, Zenon
<1>3. EntryFrom(h, x, Sub(<<>>, Head(r))) = NoEntry
  <2>1. EntryFrom(h, x, Sub(<<>>, Head(r))) = Child(h, EntryFrom(h, x, <<>>), Head(r))
    BY <1>1, FromSub, Zenon
  <2>2. EntryFrom(h, x, <<>>) = x
    BY EntryFromOn
  <2> QED
    BY <1>1, <2>1, <2>2
<1>4. EntryFrom(h, x, r) = EntryFrom(h, NoEntry, Tail(r))
  <2>1. \A u, v \in Seq(Name) : EntryFrom(h, x, u \o v) = EntryFrom(h, EntryFrom(h, x, u), v)
    BY FromConcat
  <2> QED
    BY <1>1, <1>2, <1>3, <2>1, Zenon
<1> QED
  BY <1>1, <1>4, NothingBelow, Zenon

\* What is seen with a map is an entry of the heap that the path leads to.
LEMMA AtLeads ==
  ASSUME NEW h, HeapOK(h)
  PROVE  \A p \in Seq(Name) : EntryAt(h, p).map # 0 =>
           \E e \in DOMAIN h.ents : Leads(h, p, e) /\ EntryAt(h, p) = h.ents[e]
<1> DEFINE Good(p) == EntryAt(h, p).map # 0 =>
             \E e \in DOMAIN h.ents : Leads(h, p, e) /\ EntryAt(h, p) = h.ents[e]
           S == {p \in Seq(Name) : Good(p)}
<1>1. <<>> \in S
  BY EntryAtOn, LeadsRoot, EmptySeq DEF HeapOK
<1>2. ASSUME NEW p \in Seq(Name), NEW n \in Name, p \in S PROVE Sub(p, n) \in S
  <2> SUFFICES ASSUME EntryAt(h, Sub(p, n)).map # 0
               PROVE  \E e \in DOMAIN h.ents : /\ Leads(h, Sub(p, n), e)
                                               /\ EntryAt(h, Sub(p, n)) = h.ents[e]
    BY SubType
  <2>1. PICK y : y = EntryAt(h, p)
    OBVIOUS
  <2>2. EntryAt(h, Sub(p, n)) = Child(h, y, n)
    BY <2>1, EntryAtOn, Zenon
  <2>3. y.map # 0 /\ Has(h, y.map, n) /\ Child(h, y, n) = h.ents[Get(h, y.map, n)]
    BY <2>2 DEF Child, NodeEntry, NoEntry
  <2>4. PICK e \in DOMAIN h.ents : Leads(h, p, e) /\ y = h.ents[e]
    BY <1>2, <2>1, <2>3
  <2>5. y.map \in DOMAIN h.maps
    BY <2>3, <2>4, MapOf
  <2>6. Get(h, y.map, n) \in DOMAIN h.ents /\ Link(h, e, n, Get(h, y.map, n))
    BY <2>3, <2>4, <2>5, Placed DEF Link
  <2>7. Leads(h, Sub(p, n), Get(h, y.map, n))
    BY <2>4, <2>6, LeadsOn
  <2> QED
    BY <2>2, <2>3, <2>6, <2>7
<1> HIDE DEF S
<1>3. Seq(Name) \subseteq S
  BY <1>1, <1>2, AllPaths
<1> QED
  BY <1>3 DEF S

-----------------------------------------------------------------------------
(* What a change of the heap leaves to be seen. *)

\* What a name leads to in an entry with a map.
LEMMA ChildIs ==
  ASSUME NEW h, HeapOK(h), NEW e \in DOMAIN h.ents, h.ents[e].map # 0, NEW n \in Name
  PROVE  /\ \A x : Link(h, e, n, x) => Child(h, h.ents[e], n) = h.ents[x]
         /\ (\A x : ~Link(h, e, n, x)) => Child(h, h.ents[e], n) = NoEntry
<1>1. PICK m : m = h.ents[e].map
  OBVIOUS
<1>2. m \in DOMAIN h.maps /\ m # 0
  BY <1>1, MapOf
<1>3. ASSUME NEW x, Link(h, e, n, x) PROVE Child(h, h.ents[e], n) = h.ents[x]
  <2>1. Has(h, m, n) /\ x = Get(h, m, n)
    BY <1>1, <1>2, <1>3, OnePlace DEF Link
  <2> QED
    BY <1>1, <1>2, <2>1 DEF Child
<1>4. ASSUME \A x : ~Link(h, e, n, x) PROVE Child(h, h.ents[e], n) = NoEntry
  <2>1. ~Has(h, m, n)
    <3> SUFFICES ASSUME Has(h, m, n) PROVE FALSE
      OBVIOUS
    <3>1. In(h, m, n, Get(h, m, n))
      BY <1>2, Placed
    <3> QED
      BY <1>1, <1>2, <1>4, <3>1 DEF Link
  <2> QED
    BY <1>1, <1>2, <2>1 DEF Child
<1> QED
  BY <1>3, <1>4

\* An entry that a path leads to shows the same, but below the paths of S that lead
\* further.
LEMMA MatchFrom ==
  ASSUME NEW h, HeapOK(h), NEW h2, HeapOK(h2), NEW A, NEW P, RootTree(h, A, P), NEW T,
         Matches(h, h2, T), NEW S \in SUBSET Seq(Name), LinksOf(h, T, S),
         NEW l, NEW e, Leads(h, l, e)
  PROVE  \A r \in Seq(Name) : (\A s \in S : Below(s, l \o r) => Below(s, l)) =>
           EntryFrom(h2, h.ents[e], r) = EntryFrom(h, h.ents[e], r)
<1> DEFINE Free(r) == \A s \in S : Below(s, l \o r) => Below(s, l)
           Same(r) == EntryFrom(h2, h.ents[e], r) = EntryFrom(h, h.ents[e], r)
           R == {r \in Seq(Name) : Free(r) => Same(r)}
<1>1. l \in Seq(Name) /\ e \in DOMAIN h.ents /\ EntryAt(h, l) = h.ents[e]
  BY LeadsType, LeadsEntry
<1>2. <<>> \in R
  <2>1. Same(<<>>)
    BY EntryFromOn
  <2> QED
    BY <2>1, EmptySeq
<1>3. ASSUME NEW r \in Seq(Name), NEW n \in Name, r \in R PROVE Sub(r, n) \in R
  <2> SUFFICES ASSUME Free(Sub(r, n)) PROVE Same(Sub(r, n))
    BY SubType
  <2>1. l \o Sub(r, n) = Sub(l \o r, n) /\ l \o r \in Seq(Name) /\ Sub(l \o r, n) \in Seq(Name)
    BY <1>1, ConcatSub, SubType, Zenon
  <2>2. Free(r)
    <3>1. ASSUME NEW s \in S, Below(s, l \o r) PROVE Below(s, l)
      <4>1. s \in Seq(Name)
        OBVIOUS
      <4>2. Below(s, Sub(l \o r, n))
        BY <2>1, <3>1, <4>1, BelowSub, Zenon
      <4> QED
        BY <2>1, <4>2
    <3> QED
      BY <3>1
  <2>3. PICK y : y = EntryFrom(h, h.ents[e], r) /\ y = EntryFrom(h2, h.ents[e], r)
    BY <1>3, <2>2
  <2>4. y = EntryAt(h, l \o r)
    BY <1>1, <2>3, AtConcat
  <2>5. /\ EntryFrom(h, h.ents[e], Sub(r, n)) = Child(h, y, n)
        /\ EntryFrom(h2, h.ents[e], Sub(r, n)) = Child(h2, y, n)
    BY <2>3, FromSub, Zenon
  <2>6. Child(h2, y, n) = Child(h, y, n)
    <3>1. CASE y.map = 0
      BY <3>1 DEF Child
    <3>2. CASE y.map # 0
      <4>1. PICK d \in DOMAIN h.ents : Leads(h, l \o r, d) /\ y = h.ents[d]
        BY <2>1, <2>4, <3>2, AtLeads, Zenon
      <4>2. d \in DOMAIN h2.ents /\ h2.ents[d] = y /\ h2.ents[d].map # 0
        BY <3>2, <4>1 DEF Matches
      <4>3. <<d, n>> \notin T
        <5> SUFFICES ASSUME <<d, n>> \in T PROVE FALSE
          OBVIOUS
        <5>1. PICK u : Leads(h, u, d) /\ Sub(u, n) \in S
          BY <4>1 DEF LinksOf
        <5>2. u = l \o r
          <6>1. P[d] = u /\ P[d] = l \o r
            BY <4>1, <5>1, LeadsIn, Zenon
          <6> QED
            BY <6>1
        <5>3. Below(Sub(l \o r, n), l)
          BY <2>1, <5>1, <5>2, BelowItself
        <5>4. Below(Sub(l \o r, n), l \o r)
          BY <1>1, <2>1, <5>3, BelowFurther
        <5> QED
          BY <2>1, <5>4, BelowSub, Zenon
      <4>4. \A x : Link(h2, d, n, x) <=> Link(h, d, n, x)
        BY <4>1, <4>3 DEF Matches
      <4>5. CASE \E x : Link(h, d, n, x)
        <5>1. PICK x : Link(h, d, n, x)
          BY <4>5
        <5>2. Link(h2, d, n, x)
          BY <4>4, <5>1
        <5>3. Child(h, y, n) = h.ents[x]
          BY <3>2, <4>1, <5>1, ChildIs
        <5>4. Child(h2, y, n) = h2.ents[x]
          BY <4>2, <5>2, ChildIs
        <5>5. x \in DOMAIN h.ents
          BY <4>1, <5>1, Linked
        <5> QED
          BY <5>3, <5>4, <5>5 DEF Matches
      <4>6. CASE ~\E x : Link(h, d, n, x)
        BY <3>2, <4>1, <4>2, <4>4, <4>6, ChildIs
      <4> QED
        BY <4>5, <4>6
    <3> QED
      BY <3>1, <3>2
  <2> QED
    BY <2>5, <2>6
<1> HIDE DEF R
<1>4. Seq(Name) \subseteq R
  BY <1>2, <1>3, AllPaths
<1> QED
  BY <1>4 DEF R

\* What is not below a path of S is seen as before.
LEMMA MatchSees ==
  ASSUME NEW h, HeapOK(h), NEW h2, HeapOK(h2), NEW A, NEW P, RootTree(h, A, P), NEW T,
         Matches(h, h2, T), NEW S \in SUBSET Seq(Name), LinksOf(h, T, S),
         NEW p \in Seq(Name), \A s \in S : ~Below(s, p)
  PROVE  EntryAt(h2, p) = EntryAt(h, p)
<1>1. 1 \in DOMAIN h.ents /\ h2.ents[1] = h.ents[1]
  BY DEF HeapOK, Matches
<1>2. PICK l : l = <<>>
  OBVIOUS
<1>3. l \o p = p /\ Leads(h, l, 1)
  BY <1>2, ConcatEmptySeq, LeadsRoot
<1>4. \A r \in Seq(Name) : (\A s \in S : Below(s, l \o r) => Below(s, l)) =>
        EntryFrom(h2, h.ents[1], r) = EntryFrom(h, h.ents[1], r)
  BY <1>3, MatchFrom
<1>5. EntryFrom(h2, h.ents[1], p) = EntryFrom(h, h.ents[1], p)
  BY <1>3, <1>4, Zenon
<1> QED
  BY <1>1, <1>5 DEF EntryAt

\* The first time a node is loaded is not seen.
LEMMA LoadSees ==
  ASSUME NEW h, HeapOK(h), NEW k \in DOMAIN h.ents, h.ents[k].type = "node", h.ents[k].map = 0,
         IsDict(h.ents[k].val), NEW h2, h2 = LoadChildren(h, k)
  PROVE  \A p \in Seq(Name) : ViewOf(h2, p) = ViewOf(h, p)
<1>1. /\ HeapOK(h2) /\ Loaded(h, h2, k) /\ h2.ents[k].map # 0 /\ k \in DOMAIN h2.ents
      /\ \A e \in DOMAIN h.ents : e \in DOMAIN h2.ents
  BY LoadGrows DEF Grows
<1>2. h2.ents[k].type = h.ents[k].type /\ h2.ents[k].val = h.ents[k].val
  BY LoadSpares DEF Spares, KeepsEntries
<1> DEFINE Like(x, y) == \/ x = y /\ (x.map # 0 => \E e \in DOMAIN h.ents \ {k} : x = h.ents[e])
                         \/ x = h.ents[k] /\ y = h2.ents[k]
           S == {p \in Seq(Name) : Like(EntryAt(h, p), EntryAt(h2, p))}
<1>3. \A e \in DOMAIN h.ents : Like(h.ents[e], h2.ents[e])
  BY <1>1 DEF Loaded
<1>4. <<>> \in S
  <2>1. Like(h.ents[1], h2.ents[1])
    BY <1>3 DEF HeapOK
  <2> QED
    BY <2>1, EntryAtOn, EmptySeq
<1>5. ASSUME NEW x, NEW y, Like(x, y), NEW n \in Name PROVE Like(Child(h, x, n), Child(h2, y, n))
  <2>1. CASE x = y /\ x.map = 0
    <3>1. Child(h, x, n) = Child(h2, y, n) /\ Child(h, x, n).map = 0
      BY <2>1 DEF Child, NodeEntry, NoEntry
    <3> QED
      BY <3>1
  <2>2. CASE x = y /\ x.map # 0
    <3>1. PICK e \in DOMAIN h.ents \ {k} : x = h.ents[e]
      BY <1>5, <2>2
    <3>2. h2.ents[e] = x /\ e \in DOMAIN h2.ents
      BY <1>1, <3>1 DEF Loaded
    <3>3. h.ents[e].map \in DOMAIN h.maps
      BY <2>2, <3>1, MapOf
    <3>4. \A z : Link(h2, e, n, z) <=> Link(h, e, n, z)
      <4>1. h2.maps[h.ents[e].map] = h.maps[h.ents[e].map]
        BY <1>1, <3>3 DEF Loaded
      <4> QED
        BY <3>1, <3>2, <4>1, SameIn DEF Link
    <3>5. CASE \E z : Link(h, e, n, z)
      <4>1. PICK z : Link(h, e, n, z)
        BY <3>5
      <4>2. Link(h2, e, n, z) /\ z \in DOMAIN h.ents
        BY <3>1, <3>4, <4>1, Linked
      <4>3. Child(h, x, n) = h.ents[z]
        BY <2>2, <3>1, <4>1, ChildIs
      <4>4. Child(h2, y, n) = h2.ents[z]
        BY <1>1, <2>2, <3>2, <4>2, ChildIs
      <4> QED
        BY <1>3, <4>2, <4>3, <4>4
    <3>6. CASE ~\E z : Link(h, e, n, z)
      BY <1>1, <2>2, <3>1, <3>2, <3>4, <3>6, ChildIs DEF NoEntry
    <3> QED
      BY <3>5, <3>6
  <2>3. CASE x = h.ents[k] /\ y = h2.ents[k]
    <3> DEFINE v == h.ents[k].val
               stored == NodeEntry([form |-> "node", val |-> v[n]])
    <3>1. Child(h, x, n) = IF n \in DOMAIN v THEN stored ELSE NoEntry
      BY <2>3 DEF Child
    <3>2. Child(h2, y, n) = IF n \in DOMAIN v THEN stored ELSE NoEntry
      <4>1. CASE n \in DOMAIN v
        <5>1. PICK z : Link(h2, k, n, z)
          BY <1>1, <4>1 DEF Loaded
        <5>2. h2.ents[z] = stored
          BY <1>1, <5>1 DEF Loaded
        <5>3. Child(h2, y, n) = h2.ents[z]
          BY <1>1, <2>3, <5>1, ChildIs
        <5> QED
          BY <4>1, <5>2, <5>3
      <4>2. CASE n \notin DOMAIN v
        BY <1>1, <2>3, <4>2, ChildIs DEF Loaded
      <4> QED
        BY <4>1, <4>2
    <3>3. stored.map = 0 /\ NoEntry.map = 0
      BY DEF NodeEntry, NoEntry
    <3> HIDE DEF stored, v
    <3> QED
      BY <3>1, <3>2, <3>3
  <2> QED
    BY <1>5, <2>1, <2>2, <2>3
<1> HIDE DEF Like
<1>6. ASSUME NEW p \in Seq(Name), NEW n \in Name, p \in S PROVE Sub(p, n) \in S
  <2>1. Like(EntryAt(h, p), EntryAt(h2, p))
    BY <1>6
  <2>2. EntryAt(h, Sub(p, n)) = Child(h, EntryAt(h, p), n)
    BY EntryAtOn
  <2>3. EntryAt(h2, Sub(p, n)) = Child(h2, EntryAt(h2, p), n)
    BY EntryAtOn, Zenon
  <2> QED
    BY <1>5, <2>1, <2>2, <2>3, SubType
<1> HIDE DEF S
<1>7. Seq(Name) \subseteq S
  BY <1>4, <1>6, AllPaths
<1>8. ASSUME NEW x, NEW y, Like(x, y) PROVE Shown(x) = Shown(y)
  <2>1. CASE x = y
    BY <2>1
  <2>2. CASE x = h.ents[k] /\ y = h2.ents[k]
    BY <1>1, <1>2, <2>2 DEF Shown
  <2> QED
    BY <1>8, <2>1, <2>2 DEF Like
<1>9. \A p \in Seq(Name) : Like(EntryAt(h, p), EntryAt(h2, p))
  BY <1>7 DEF S
<1> QED
  BY <1>8, <1>9 DEF ViewOf

-----------------------------------------------------------------------------
(* What the changes of a directory do to be seen. *)

\* The links that were spared are still there.
LEMMA SparedLinks ==
  ASSUME NEW h, HeapOK(h), NEW h2, \A e \in DOMAIN h.ents : h2.ents[e] = h.ents[e],
         NEW T, Spares(h, h2, T), NEW e \in DOMAIN h.ents, NEW n \in Name, NEW x, Link(h, e, n, x),
         <<h.ents[e].map, n>> \notin T
  PROVE  Link(h2, e, n, x)
<1>1. h.ents[e].map \in DOMAIN h.maps
  BY MapOf DEF Link
<1> QED
  BY <1>1 DEF Link, Spares

\* Map.set with a new entry.
LEMMA PutNewMatches ==
  ASSUME NEW h, HeapOK(h), NEW k \in DOMAIN h.ents, h.ents[k].map # 0, NEW n \in Name,
         NEW entry \in Entry, entry.map \in 0..Len(h.maps),
         entry.map # 0 => /\ \A e \in DOMAIN h.ents : h.ents[e].map # entry.map
                          /\ h.maps[entry.map] = <<>>,
         entry.type = "node" => entry.val \in Node,
         NEW h2, h2 = PutNew(h, h.ents[k].map, n, entry)
  PROVE  /\ Matches(h, h2, {<<k, n>>})
         /\ Link(h2, k, n, Len(h.ents) + 1) /\ h2.ents[Len(h.ents) + 1] = entry
<1>1. PICK m : m = h.ents[k].map
  OBVIOUS
<1>2. m \in DOMAIN h.maps /\ h2 = PutNew(h, m, n, entry)
  BY <1>1, MapOf
<1>3. /\ Grows(h, h2) /\ Regrown(h, h2, k, {n}) /\ Link(h2, k, n, Len(h.ents) + 1)
      /\ HeapOK(h2)
  BY PutNewGrows, Zenon
<1>4. Spares(h, h2, {<<m, n>>})
  BY <1>2, PutNewSpares
<1>5. h2.ents = Append(h.ents, entry)
  BY <1>2, PutNewEnts
<1>6. /\ \A e \in DOMAIN h.ents : e \in DOMAIN h2.ents /\ h2.ents[e] = h.ents[e]
      /\ h2.ents[Len(h.ents) + 1] = entry
  <2>1. Len(h.ents) \in Nat /\ DOMAIN h.ents = 1..Len(h.ents) /\ h.ents \in Seq(Entry)
    BY Sized DEF HeapOK, Heap
  <2>2. /\ \A i \in 1..Len(h.ents) : Append(h.ents, entry)[i] = h.ents[i]
        /\ Append(h.ents, entry)[Len(h.ents) + 1] = entry
    BY <2>1, AppendProperties
  <2> QED
    BY <1>3, <1>5, <2>1, <2>2 DEF Grows
<1>7. ASSUME NEW e \in DOMAIN h.ents, NEW i \in Name, NEW x, <<e, i>> \notin {<<k, n>>}
      PROVE  Link(h2, e, i, x) <=> Link(h, e, i, x)
  <2>1. ~(e = k /\ i = n)
    BY <1>7
  <2>2. Link(h2, e, i, x) => Link(h, e, i, x)
    BY <1>3, <2>1 DEF Regrown, Grows
  <2>3. ASSUME Link(h, e, i, x) PROVE Link(h2, e, i, x)
    <3>1. ~(h.ents[e].map = m /\ i = n)
      BY <1>1, <2>1, <2>3 DEF Link, HeapOK
    <3>2. <<h.ents[e].map, i>> \notin {<<m, n>>}
      BY <3>1
    <3> QED
      BY <1>4, <1>6, <2>3, <3>2, SparedLinks, Zenon
  <2> QED
    BY <2>2, <2>3
<1>8. Matches(h, h2, {<<k, n>>})
  BY <1>6, <1>7, Zenon DEF Matches
<1> QED
  BY <1>3, <1>6, <1>8

\* Map.delete.
LEMMA DelMatches ==
  ASSUME NEW h, HeapOK(h), NEW k \in DOMAIN h.ents, h.ents[k].map # 0, NEW n \in Name,
         NEW h2, h2 = Del(h, h.ents[k].map, n)
  PROVE  Matches(h, h2, {<<k, n>>}) /\ \A x : ~Link(h2, k, n, x)
<1>1. PICK m : m = h.ents[k].map
  OBVIOUS
<1>2. m \in DOMAIN h.maps /\ h2 = Del(h, m, n)
  BY <1>1, MapOf
<1>3. /\ h2.ents = h.ents
      /\ \A l \in DOMAIN h.maps : l # m => h2.maps[l] = h.maps[l]
      /\ \A i \in Name : \A y : In(h2, m, i, y) => i # n /\ In(h, m, i, y)
  BY <1>2, DelClears
<1>4. Spares(h, h2, {<<m, n>>})
  BY <1>2, DelSpares
<1>5. ASSUME NEW e \in DOMAIN h.ents, NEW i \in Name, NEW x, <<e, i>> \notin {<<k, n>>}
      PROVE  Link(h2, e, i, x) <=> Link(h, e, i, x)
  <2>1. ~(e = k /\ i = n)
    BY <1>5
  <2>2. ASSUME Link(h2, e, i, x) PROVE Link(h, e, i, x)
    <3>1. h.ents[e].map # 0 /\ In(h2, h.ents[e].map, i, x)
      BY <1>3, <2>2 DEF Link
    <3>2. CASE h.ents[e].map = m
      BY <1>3, <3>1, <3>2 DEF Link
    <3>3. CASE h.ents[e].map # m
      BY <1>3, <3>1, <3>3, MapOf, SameIn DEF Link
    <3> QED
      BY <3>2, <3>3
  <2>3. ASSUME Link(h, e, i, x) PROVE Link(h2, e, i, x)
    <3>1. ~(h.ents[e].map = m /\ i = n)
      BY <1>1, <2>1, <2>3 DEF Link, HeapOK
    <3>2. <<h.ents[e].map, i>> \notin {<<m, n>>}
      BY <3>1
    <3> QED
      BY <1>3, <1>4, <2>3, <3>2, SparedLinks, Zenon
  <2> QED
    BY <2>2, <2>3
<1>6. Matches(h, h2, {<<k, n>>})
  BY <1>3, <1>5, Zenon DEF Matches
<1>7. \A x : ~Link(h2, k, n, x)
  BY <1>1, <1>3 DEF Link
<1> QED
  BY <1>6, <1>7

\* The two names of a move.
LEMMA MoveMatches ==
  ASSUME NEW h, HeapOK(h), NEW k \in DOMAIN h.ents, NEW m, m = h.ents[k].map, m # 0,
         NEW n \in Name, NEW f \in DOMAIN h.ents, NEW from, from = h.ents[f].map, from # 0,
         NEW j \in Name, NEW s \in DOMAIN h.ents \ {1},
         NEW h2, h2 = Del(Put(h, m, n, s), from, j)
  PROVE  Matches(h, h2, {<<k, n>>, <<f, j>>})
<1>1. m = h.ents[k].map /\ from = h.ents[f].map
  OBVIOUS
<1>2. m \in DOMAIN h.maps /\ from \in DOMAIN h.maps /\ h2 = Del(Put(h, m, n, s), from, j)
  BY <1>1, MapOf
<1>3. HeapOK(h2) /\ h2.ents = h.ents /\ Relinked(h, h2, k, n, s, from, j)
  <2>1. h2 = Del(Put(h, h.ents[k].map, n, s), from, j)
    BY <1>1
  <2> QED
    BY <1>2, <2>1, MoveRelinks
<1>4. Spares(h, h2, {<<m, n>>} \cup {<<from, j>>})
  BY <1>2, MoveSpares
<1>5. ASSUME NEW e \in DOMAIN h.ents, NEW i \in Name, NEW x, <<e, i>> \notin {<<k, n>>, <<f, j>>}
      PROVE  Link(h2, e, i, x) <=> Link(h, e, i, x)
  <2>1. ~(e = k /\ i = n) /\ ~(e = f /\ i = j)
    BY <1>5
  <2>2. Link(h2, e, i, x) => Link(h, e, i, x)
    BY <1>3, <2>1 DEF Relinked
  <2>3. ASSUME Link(h, e, i, x) PROVE Link(h2, e, i, x)
    <3>1. ~(h.ents[e].map = m /\ i = n) /\ ~(h.ents[e].map = from /\ i = j)
      BY <1>1, <2>1, <2>3 DEF Link, HeapOK
    <3>2. <<h.ents[e].map, i>> \notin {<<m, n>>} \cup {<<from, j>>}
      BY <3>1
    <3> QED
      <4>1. /\ \A y \in DOMAIN h.ents : h2.ents[y] = h.ents[y]
            /\ Spares(h, h2, {<<m, n>>} \cup {<<from, j>>})
        BY <1>3, <1>4
      <4>2. \A T : Spares(h, h2, T) /\ <<h.ents[e].map, i>> \notin T => Link(h2, e, i, x)
        BY <1>5, <2>3, <4>1, SparedLinks
      <4> QED
        BY <3>2, <4>1, <4>2, Zenon
  <2> QED
    BY <2>2, <2>3
<1>6. Matches(h, h2, {<<k, n>>, <<f, j>>})
  BY <1>3, <1>5, Zenon DEF Matches
<1> QED
  BY <1>3, <1>6

\* The name of the source is empty.
LEMMA MoveClears ==
  ASSUME NEW h, HeapOK(h), NEW k \in DOMAIN h.ents, NEW m, m = h.ents[k].map, m # 0,
         NEW n \in Name, NEW f \in DOMAIN h.ents, NEW from, from = h.ents[f].map, from # 0,
         NEW j \in Name, NEW s \in DOMAIN h.ents \ {1},
         NEW h2, h2 = Del(Put(h, m, n, s), from, j)
  PROVE  \A x : ~Link(h2, f, j, x)
<1>1. m = h.ents[k].map /\ from = h.ents[f].map
  OBVIOUS
<1>2. m \in DOMAIN h.maps /\ from \in DOMAIN h.maps /\ h2 = Del(Put(h, m, n, s), from, j)
  BY <1>1, MapOf
<1>3. HeapOK(h2) /\ h2.ents = h.ents /\ Relinked(h, h2, k, n, s, from, j)
  <2>1. h2 = Del(Put(h, h.ents[k].map, n, s), from, j)
    BY <1>1
  <2> QED
    BY <1>2, <2>1, MoveRelinks
<1> QED
  BY <1>1, <1>3 DEF Relinked

\* That of the target, if it is another, has what was moved.
LEMMA MoveSets ==
  ASSUME NEW h, HeapOK(h), NEW k \in DOMAIN h.ents, NEW m, m = h.ents[k].map, m # 0,
         NEW n \in Name, NEW f \in DOMAIN h.ents, NEW from, from = h.ents[f].map, from # 0,
         NEW j \in Name, NEW s \in DOMAIN h.ents \ {1},
         NEW h2, h2 = Del(Put(h, m, n, s), from, j)
  PROVE  ~(k = f /\ n = j) => Link(h2, k, n, s)
<1>1. m = h.ents[k].map /\ from = h.ents[f].map
  OBVIOUS
<1>2. m \in DOMAIN h.maps /\ from \in DOMAIN h.maps /\ h2 = Del(Put(h, m, n, s), from, j)
  BY <1>1, MapOf
<1>3. HeapOK(h2) /\ h2.ents = h.ents /\ Relinked(h, h2, k, n, s, from, j)
  <2>1. h2 = Del(Put(h, h.ents[k].map, n, s), from, j)
    BY <1>1
  <2> QED
    BY <1>2, <2>1, MoveRelinks
<1>4. ASSUME ~(k = f /\ n = j) PROVE Link(h2, k, n, s)
  <2>1. PICK h1 : h1 = Put(h, m, n, s) /\ h2 = Del(h1, from, j)
    BY <1>2
  <2>2. HeapOK(h1) /\ h1.ents = h.ents /\ DOMAIN h1.maps = DOMAIN h.maps /\ In(h1, m, n, s)
    BY <1>2, <2>1, PutSets
  <2>3. Spares(h1, h2, {<<from, j>>})
    BY <1>2, <2>1, <2>2, DelSpares
  <2>4. ~(m = from /\ n = j)
    BY <1>1, <1>4 DEF HeapOK
  <2>5. <<m, n>> \notin {<<from, j>>}
    BY <2>4
  <2>6. In(h2, m, n, s)
    BY <1>2, <2>2, <2>3, <2>5 DEF Spares
  <2> QED
    BY <1>1, <1>3, <2>6 DEF Link
<1> QED
  BY <1>4

\* Map.set with a new directory, that is empty.
LEMMA PutDirMatches ==
  ASSUME NEW h, HeapOK(h), NEW k \in DOMAIN h.ents, h.ents[k].map # 0, NEW n \in Name,
         NEW h2, h2 = PutDir(h, h.ents[k].map, n)
  PROVE  /\ Matches(h, h2, {<<k, n>>})
         /\ Link(h2, k, n, Len(h.ents) + 1) /\ Len(h.ents) + 1 \in DOMAIN h2.ents
         /\ h2.ents[Len(h.ents) + 1].type = "dir" /\ h2.ents[Len(h.ents) + 1].map # 0
         /\ h2.maps[h2.ents[Len(h.ents) + 1].map] = <<>>
<1>1. PICK m : m = h.ents[k].map
  OBVIOUS
<1>2. m \in DOMAIN h.maps /\ h2 = PutDir(h, m, n)
  BY <1>1, MapOf
<1>3. /\ Grows(h, h2) /\ Regrown(h, h2, k, {n}) /\ Link(h2, k, n, Len(h.ents) + 1)
      /\ HeapOK(h2) /\ Len(h.ents) + 1 \in DOMAIN h2.ents
  BY PutDirGrows, Zenon
<1>4. Spares(h, h2, {<<m, n>>})
  BY <1>2, PutDirSpares
<1>5. h2.ents = Append(h.ents, DirEntry(Len(h.maps) + 1))
  BY <1>2, PutDirEnts
<1>6. /\ \A e \in DOMAIN h.ents : e \in DOMAIN h2.ents /\ h2.ents[e] = h.ents[e]
      /\ h2.ents[Len(h.ents) + 1] = DirEntry(Len(h.maps) + 1)
  <2>1. Len(h.ents) \in Nat /\ DOMAIN h.ents = 1..Len(h.ents) /\ h.ents \in Seq(Entry)
    BY Sized DEF HeapOK, Heap
  <2>2. PICK d : d = DirEntry(Len(h.maps) + 1)
    OBVIOUS
  <2>3. /\ \A i \in 1..Len(h.ents) : Append(h.ents, d)[i] = h.ents[i]
        /\ Append(h.ents, d)[Len(h.ents) + 1] = d
    BY <2>1, AppendProperties
  <2> QED
    BY <1>3, <1>5, <2>1, <2>2, <2>3 DEF Grows
<1>7. ASSUME NEW e \in DOMAIN h.ents, NEW i \in Name, NEW x, <<e, i>> \notin {<<k, n>>}
      PROVE  Link(h2, e, i, x) <=> Link(h, e, i, x)
  <2>1. ~(e = k /\ i = n)
    BY <1>7
  <2>2. Link(h2, e, i, x) => Link(h, e, i, x)
    BY <1>3, <2>1 DEF Regrown, Grows
  <2>3. ASSUME Link(h, e, i, x) PROVE Link(h2, e, i, x)
    <3>1. ~(h.ents[e].map = m /\ i = n)
      BY <1>1, <2>1, <2>3 DEF Link, HeapOK
    <3>2. <<h.ents[e].map, i>> \notin {<<m, n>>}
      BY <3>1
    <3> QED
      BY <1>4, <1>6, <2>3, <3>2, SparedLinks, Zenon
  <2> QED
    BY <2>2, <2>3
<1>8. Matches(h, h2, {<<k, n>>})
  BY <1>6, <1>7, Zenon DEF Matches
<1>9. h2.maps[Len(h.maps) + 1] = <<>>
  <2>1. Len(h.maps) \in Nat /\ DOMAIN h.maps = 1..Len(h.maps) /\ h.maps \in Seq(Seq(Slot))
    BY Sized DEF HeapOK, Heap
  <2>2. PICK h1 : h1 = [h EXCEPT !.maps = Append(@, <<>>)]
    BY Zenon
  <2>3. h1.maps = Append(h.maps, <<>>) /\ Len(h1.maps) = Len(h.maps) + 1
    BY <2>1, <2>2, EmptySeq, AppendProperties DEF HeapOK, Heap
  <2>4. PICK h3 : h3 = [h1 EXCEPT !.ents = Append(@, DirEntry(Len(h1.maps)))]
    BY Zenon
  <2>5. h2 = Put(h3, m, n, Len(h1.ents) + 1)
    BY <1>2, <2>2, <2>4 DEF PutDir, PutNew
  <2>6. h3.maps = h1.maps
    BY <2>4
  <2>7. Len(h.maps) + 1 # m
    BY <1>2, <2>1
  <2>8. h2.maps[Len(h.maps) + 1] = h3.maps[Len(h.maps) + 1]
    <3>1. PICK M : M = Len(h.maps) + 1
      OBVIOUS
    <3>2. M # m
      BY <2>7, <3>1
    <3>3. \A z : Put(h3, m, n, z).maps[M] = h3.maps[M]
      BY <3>2 DEF Put
    <3> QED
      BY <2>5, <3>1, <3>3
  <2>9. Append(h.maps, <<>>)[Len(h.maps) + 1] = <<>>
    <3>1. <<>> \in Seq(Slot)
      BY EmptySeq
    <3> QED
      BY <2>1, <3>1, AppendProperties
  <2> QED
    BY <2>3, <2>6, <2>8, <2>9
<1>10. DirEntry(Len(h.maps) + 1).type = "dir" /\ DirEntry(Len(h.maps) + 1).map = Len(h.maps) + 1
  BY DEF DirEntry
<1>11. Len(h.maps) + 1 # 0
  BY Sized
<1> QED
  BY <1>3, <1>6, <1>8, <1>9, <1>10, <1>11

-----------------------------------------------------------------------------
(* What the last step of a call does to be seen. *)

\* One name is changed in the directory at u: only what is below it is seen to change.
LEMMA ChangedAt ==
  ASSUME NEW h, HeapOK(h), NEW h2, HeapOK(h2), NEW A, NEW P, RootTree(h, A, P),
         NEW u, NEW k, Leads(h, u, k), NEW n \in Name, Matches(h, h2, {<<k, n>>})
  PROVE  /\ \A p \in Seq(Name) : ~Below(Sub(u, n), p) => EntryAt(h2, p) = EntryAt(h, p)
         /\ \A p \in Seq(Name) : Below(Sub(u, n), p) =>
              EntryAt(h2, p) = EntryFrom(h2, Child(h2, h2.ents[k], n), Beyond(Sub(u, n), p))
<1>1. u \in Seq(Name) /\ k \in DOMAIN h.ents /\ EntryAt(h, u) = h.ents[k]
      /\ Sub(u, n) \in Seq(Name)
  BY LeadsType, LeadsEntry, SubType, Zenon
<1>2. LinksOf(h, {<<k, n>>}, {Sub(u, n)})
  BY Zenon DEF LinksOf
<1>3. ASSUME NEW p \in Seq(Name), ~Below(Sub(u, n), p) PROVE EntryAt(h2, p) = EntryAt(h, p)
  BY <1>1, <1>2, <1>3, MatchSees
<1>4. EntryAt(h2, u) = h2.ents[k]
  BY <1>1, <1>3, BelowSub DEF Matches
<1>5. ASSUME NEW p \in Seq(Name), Below(Sub(u, n), p)
      PROVE  EntryAt(h2, p) = EntryFrom(h2, Child(h2, h2.ents[k], n), Beyond(Sub(u, n), p))
  <2>1. PICK t, r : t = Sub(u, n) /\ r = Beyond(t, p)
    OBVIOUS
  <2>2. t \in Seq(Name) /\ r \in Seq(Name) /\ p = t \o r
    BY <1>1, <1>5, <2>1, BeyondIs, Zenon
  <2>3. EntryAt(h2, t) = Child(h2, EntryAt(h2, u), n)
    BY <1>1, <2>1, EntryAtOn, Zenon
  <2>4. EntryAt(h2, t \o r) = EntryFrom(h2, EntryAt(h2, t), r)
    BY <2>2, AtConcat
  <2> QED
    BY <1>4, <2>1, <2>2, <2>3, <2>4, Zenon
<1> QED
  BY <1>3, <1>5

\* A name that a directory does not have shows nothing, nor does what is below.
LEMMA NothingAt ==
  ASSUME NEW h, HeapOK(h), NEW u, NEW k, Leads(h, u, k), h.ents[k].map # 0, NEW n \in Name,
         \A x : ~Link(h, k, n, x)
  PROVE  \A p \in Seq(Name) : Below(Sub(u, n), p) => EntryAt(h, p) = NoEntry
<1> SUFFICES ASSUME NEW p \in Seq(Name), Below(Sub(u, n), p) PROVE EntryAt(h, p) = NoEntry
  OBVIOUS
<1>1. u \in Seq(Name) /\ k \in DOMAIN h.ents /\ EntryAt(h, u) = h.ents[k]
      /\ Sub(u, n) \in Seq(Name)
  BY LeadsType, LeadsEntry, SubType, Zenon
<1>2. PICK t, r : t = Sub(u, n) /\ r = Beyond(t, p)
  OBVIOUS
<1>3. t \in Seq(Name) /\ r \in Seq(Name) /\ p = t \o r
  BY <1>1, <1>2, BeyondIs, Zenon
<1>4. EntryAt(h, t) = NoEntry
  BY <1>1, <1>2, EntryAtOn, ChildIs
<1>5. EntryAt(h, t \o r) = EntryFrom(h, EntryAt(h, t), r)
  BY <1>3, AtConcat
<1> QED
  BY <1>3, <1>4, <1>5, NothingBelow

\* A new entry is seen below its name.
LEMMA NewSeen ==
  ASSUME NEW h, HeapOK(h), NEW A, NEW P, RootTree(h, A, P),
         NEW u, NEW k, Leads(h, u, k), h.ents[k].map # 0, NEW n \in Name,
         NEW entry \in Entry, entry.map = 0, entry.type = "node" => entry.val \in Node,
         NEW h2, h2 = PutNew(h, h.ents[k].map, n, entry)
  PROVE  /\ \A p \in Seq(Name) : ~Below(Sub(u, n), p) => EntryAt(h2, p) = EntryAt(h, p)
         /\ \A p \in Seq(Name) : Below(Sub(u, n), p) =>
              EntryAt(h2, p) = EntryFrom(h2, entry, Beyond(Sub(u, n), p))
<1>1. k \in DOMAIN h.ents /\ entry.map \in 0..Len(h.maps)
  BY LeadsType, Sized
<1>2. HeapOK(h2) /\ Grows(h, h2)
  BY <1>1, PutNewGrows, Zenon
<1>3. /\ Matches(h, h2, {<<k, n>>})
      /\ \E x : Link(h2, k, n, x) /\ h2.ents[x] = entry
  <2>1. entry.map # 0 => /\ \A e \in DOMAIN h.ents : h.ents[e].map # entry.map
                         /\ h.maps[entry.map] = <<>>
    OBVIOUS
  <2>2. Link(h2, k, n, Len(h.ents) + 1)
    BY <1>1, <2>1, PutNewGrows, Zenon
  <2>4. h2.ents[Len(h.ents) + 1] = entry
    BY PutNewEnts, AppendProperties DEF HeapOK, Heap
  <2>3. Matches(h, h2, {<<k, n>>})
    BY <1>1, <2>1, PutNewMatches, Zenon
  <2> QED
    BY <2>2, <2>3, <2>4
<1>4. PICK x : Link(h2, k, n, x) /\ h2.ents[x] = entry
  BY <1>3
<1>5. k \in DOMAIN h2.ents /\ h2.ents[k].map # 0
  BY <1>1, <1>3 DEF Matches
<1>6. Child(h2, h2.ents[k], n) = entry
  BY <1>2, <1>4, <1>5, ChildIs
<1>7. /\ \A p \in Seq(Name) : ~Below(Sub(u, n), p) => EntryAt(h2, p) = EntryAt(h, p)
      /\ \A p \in Seq(Name) : Below(Sub(u, n), p) =>
           EntryAt(h2, p) = EntryFrom(h2, Child(h2, h2.ents[k], n), Beyond(Sub(u, n), p))
  BY <1>2, <1>3, ChangedAt
<1> QED
  BY <1>6, <1>7

\* A file that is written: itself, and nothing below it.
LEMMA WriteSeen ==
  ASSUME NEW h, HeapOK(h), NEW A, NEW P, RootTree(h, A, P),
         NEW u, NEW k, Leads(h, u, k), h.ents[k].map # 0, NEW n \in Name,
         NEW d \in Data, NEW h2, h2 = PutNew(h, h.ents[k].map, n, PendingEntry(d))
  PROVE  \A p \in Seq(Name) :
           ViewOf(h2, p) = IF p = Sub(u, n) THEN d
                           ELSE IF Below(Sub(u, n), p) THEN "none" ELSE ViewOf(h, p)
<1>1. PICK entry : entry = PendingEntry(d)
  OBVIOUS
<1>2. /\ entry \in Entry /\ entry.map = 0 /\ entry.type = "pending" /\ entry.val = d
  BY <1>1 DEF PendingEntry, Entry, Value, Form
<1>3. /\ \A p \in Seq(Name) : ~Below(Sub(u, n), p) => EntryAt(h2, p) = EntryAt(h, p)
      /\ \A p \in Seq(Name) : Below(Sub(u, n), p) =>
           EntryAt(h2, p) = EntryFrom(h2, entry, Beyond(Sub(u, n), p))
  BY <1>1, <1>2, NewSeen
<1>4. u \in Seq(Name) /\ Sub(u, n) \in Seq(Name)
  BY LeadsType, SubType
<1>5. Shown(entry) = d
  BY <1>2 DEF Shown
<1>6. \A i \in Name : Child(h2, entry, i) = NoEntry
  BY <1>2 DEF Child
<1>7. \A r \in Seq(Name) : EntryFrom(h2, entry, r) = IF r = <<>> THEN entry ELSE NoEntry
  BY <1>6, EntryFromOn, NoneUnder
<1>8. Shown(NoEntry) = "none"
  BY DEF Shown, NoEntry
<1>9. ASSUME NEW p \in Seq(Name)
      PROVE  ViewOf(h2, p) = IF p = Sub(u, n) THEN d
                             ELSE IF Below(Sub(u, n), p) THEN "none" ELSE ViewOf(h, p)
  <2>1. PICK t, r : t = Sub(u, n) /\ r = Beyond(t, p)
    OBVIOUS
  <2>2. CASE Below(t, p)
    <3>1. r \in Seq(Name) /\ p = t \o r
      BY <1>4, <2>1, <2>2, BeyondIs, Zenon
    <3>2. r = <<>> <=> p = t
      BY <1>4, <2>1, <3>1, ConcatEmptySeq, EmptySeq, Cancel
    <3>3. EntryAt(h2, p) = EntryFrom(h2, entry, r)
      BY <1>3, <2>1, <2>2
    <3>4. EntryAt(h2, p) = IF p = t THEN entry ELSE NoEntry
      BY <1>7, <3>1, <3>2, <3>3
    <3> QED
      BY <1>5, <1>8, <2>1, <2>2, <3>4 DEF ViewOf
  <2>3. CASE ~Below(t, p)
    BY <1>3, <1>4, <2>1, <2>3, BelowItself DEF ViewOf
  <2> QED
    BY <2>2, <2>3
<1> QED
  BY <1>9

\* A node that is mounted: what it holds.
LEMMA MountSeen ==
  ASSUME NEW h, HeapOK(h), NEW A, NEW P, RootTree(h, A, P),
         NEW u, NEW k, Leads(h, u, k), h.ents[k].map # 0, NEW n \in Name,
         NEW key \in Mounted, NEW h2, h2 = PutNew(h, h.ents[k].map, n, NodeEntry(key)),
         NEW stored, stored = NodeEntry([form |-> "node", val |-> key.val])
  PROVE  \A p \in Seq(Name) :
           ViewOf(h2, p) =
             IF Below(Sub(u, n), p)
               THEN Shown(EntryFrom(heap, stored, Beyond(Sub(u, n), p)))
               ELSE ViewOf(h, p)
<1>1. PICK entry : entry = NodeEntry(key)
  OBVIOUS
<1>2. /\ entry \in Entry /\ entry.map = 0 /\ entry.type = "node" /\ entry.val = key.val
      /\ key.val \in Node
  BY <1>1, TreeAssumption DEF NodeEntry, Entry, Value, Form
<1>3. /\ \A p \in Seq(Name) : ~Below(Sub(u, n), p) => EntryAt(h2, p) = EntryAt(h, p)
      /\ \A p \in Seq(Name) : Below(Sub(u, n), p) =>
           EntryAt(h2, p) = EntryFrom(h2, entry, Beyond(Sub(u, n), p))
  BY <1>1, <1>2, NewSeen
<1>4. u \in Seq(Name) /\ Sub(u, n) \in Seq(Name)
  BY LeadsType, SubType
<1>5. Twins(entry, stored)
  BY <1>1 DEF Twins, NodeEntry
<1>6. \A r \in Seq(Name) : Shown(EntryFrom(h2, entry, r)) = Shown(EntryFrom(heap, stored, r))
  BY <1>5, TwinsShow
<1>7. ASSUME NEW p \in Seq(Name), Below(Sub(u, n), p)
      PROVE  ViewOf(h2, p) = Shown(EntryFrom(heap, stored, Beyond(Sub(u, n), p)))
  <2>1. Beyond(Sub(u, n), p) \in Seq(Name)
    BY <1>4, <1>7, BeyondIs
  <2> QED
    BY <1>3, <1>6, <1>7, <2>1 DEF ViewOf
<1> QED
  BY <1>3, <1>7 DEF ViewOf

\* What is deleted is gone, with all below it.
LEMMA DeleteSeen ==
  ASSUME NEW h, HeapOK(h), NEW A, NEW P, RootTree(h, A, P),
         NEW u, NEW k, Leads(h, u, k), h.ents[k].map # 0, NEW n \in Name,
         NEW h2, h2 = Del(h, h.ents[k].map, n)
  PROVE  \A p \in Seq(Name) :
           ViewOf(h2, p) = IF Below(Sub(u, n), p) THEN "none" ELSE ViewOf(h, p)
<1>1. k \in DOMAIN h.ents /\ h.ents[k].map \in DOMAIN h.maps /\ u \in Seq(Name)
      /\ Sub(u, n) \in Seq(Name)
  BY LeadsType, MapOf, SubType, Zenon
<1>2. HeapOK(h2) /\ h2.ents = h.ents
  BY <1>1, DelClears
<1>3. Matches(h, h2, {<<k, n>>}) /\ \A x : ~Link(h2, k, n, x)
  BY <1>1, DelMatches, Zenon
<1>4. Child(h2, h2.ents[k], n) = NoEntry
  BY <1>1, <1>2, <1>3, ChildIs
<1>5. /\ \A p \in Seq(Name) : ~Below(Sub(u, n), p) => EntryAt(h2, p) = EntryAt(h, p)
      /\ \A p \in Seq(Name) : Below(Sub(u, n), p) =>
           EntryAt(h2, p) = EntryFrom(h2, Child(h2, h2.ents[k], n), Beyond(Sub(u, n), p))
  BY <1>2, <1>3, ChangedAt
<1>6. ASSUME NEW p \in Seq(Name), Below(Sub(u, n), p) PROVE EntryAt(h2, p) = NoEntry
  BY <1>1, <1>4, <1>5, <1>6, BeyondIs, NothingBelow
<1>7. Shown(NoEntry) = "none"
  BY DEF Shown, NoEntry
<1> QED
  BY <1>5, <1>6, <1>7 DEF ViewOf

\* A directory that is made where nothing was, and nothing in it.
LEMMA DirSeen ==
  ASSUME NEW h, HeapOK(h), NEW A, NEW P, RootTree(h, A, P),
         NEW u, NEW k, Leads(h, u, k), h.ents[k].map # 0, NEW n \in Name,
         ~Has(h, h.ents[k].map, n), NEW h2, h2 = PutDir(h, h.ents[k].map, n)
  PROVE  /\ ViewOf(h, Sub(u, n)) = "none" /\ ViewOf(h2, Sub(u, n)) = "dir"
         /\ \A p \in Seq(Name) : p # Sub(u, n) => ViewOf(h2, p) = ViewOf(h, p)
<1>1. k \in DOMAIN h.ents /\ h.ents[k].map \in DOMAIN h.maps /\ u \in Seq(Name)
      /\ Sub(u, n) \in Seq(Name)
  BY LeadsType, MapOf, SubType, Zenon
<1>2. HeapOK(h2)
  BY <1>1, PutDirGrows, Zenon
<1>3. PICK x : /\ x \in DOMAIN h2.ents /\ Link(h2, k, n, x) /\ h2.ents[x].type = "dir"
               /\ h2.ents[x].map # 0 /\ h2.maps[h2.ents[x].map] = <<>>
  <2>1. /\ Link(h2, k, n, Len(h.ents) + 1) /\ Len(h.ents) + 1 \in DOMAIN h2.ents
        /\ h2.ents[Len(h.ents) + 1].type = "dir" /\ h2.ents[Len(h.ents) + 1].map # 0
        /\ h2.maps[h2.ents[Len(h.ents) + 1].map] = <<>>
    BY <1>1, PutDirMatches, Zenon
  <2> QED
    BY <2>1
<1>4. Matches(h, h2, {<<k, n>>})
  BY <1>1, PutDirMatches, Zenon
<1>5. \A y : ~Link(h, k, n, y)
  BY <1>1, OnePlace DEF Link
<1>6. PICK entry : entry = h2.ents[x]
  OBVIOUS
<1>7. Child(h2, h2.ents[k], n) = entry
  <2>1. k \in DOMAIN h2.ents /\ h2.ents[k].map # 0
    BY <1>1, <1>4 DEF Matches
  <2> QED
    BY <1>2, <1>3, <1>6, <2>1, ChildIs
<1>8. \A i \in Name : Child(h2, entry, i) = NoEntry
  <2> SUFFICES ASSUME NEW i \in Name PROVE Child(h2, entry, i) = NoEntry
    OBVIOUS
  <2>1. \A y : ~Link(h2, x, i, y)
    <3>1. DOMAIN <<>> = {}
      OBVIOUS
    <3>2. PICK map : map = h2.maps[h2.ents[x].map] /\ DOMAIN map = {}
      BY <1>3, <3>1
    <3> QED
      BY <3>2 DEF Link, In
  <2> QED
    BY <1>2, <1>3, <1>6, <2>1, ChildIs
<1>9. \A r \in Seq(Name) : EntryFrom(h2, entry, r) = IF r = <<>> THEN entry ELSE NoEntry
  BY <1>8, EntryFromOn, NoneUnder
<1>10. Shown(entry) = "dir" /\ Shown(NoEntry) = "none"
  BY <1>3, <1>6 DEF Shown, NoEntry
<1>11. \A p \in Seq(Name) : Below(Sub(u, n), p) => EntryAt(h, p) = NoEntry
  BY <1>5, NothingAt
<1>12. /\ \A p \in Seq(Name) : ~Below(Sub(u, n), p) => EntryAt(h2, p) = EntryAt(h, p)
       /\ \A p \in Seq(Name) : Below(Sub(u, n), p) =>
            EntryAt(h2, p) = EntryFrom(h2, Child(h2, h2.ents[k], n), Beyond(Sub(u, n), p))
  BY <1>2, <1>4, ChangedAt
<1>13. ASSUME NEW p \in Seq(Name), Below(Sub(u, n), p)
       PROVE  EntryAt(h2, p) = IF p = Sub(u, n) THEN entry ELSE NoEntry
  <2>1. PICK t, r : t = Sub(u, n) /\ r = Beyond(t, p)
    OBVIOUS
  <2>2. r \in Seq(Name) /\ p = t \o r /\ t \in Seq(Name)
    BY <1>1, <1>13, <2>1, BeyondIs, Zenon
  <2>3. r = <<>> <=> p = t
    BY <2>2, ConcatEmptySeq, EmptySeq, Cancel
  <2>4. EntryAt(h2, p) = EntryFrom(h2, entry, r)
    BY <1>7, <1>12, <1>13, <2>1
  <2> QED
    BY <1>9, <2>1, <2>2, <2>3, <2>4
<1>14. Below(Sub(u, n), Sub(u, n))
  BY <1>1, BelowItself
<1>15. ASSUME NEW p \in Seq(Name), p # Sub(u, n) PROVE ViewOf(h2, p) = ViewOf(h, p)
  BY <1>11, <1>12, <1>13, <1>15 DEF ViewOf
<1> QED
  BY <1>1, <1>10, <1>11, <1>13, <1>14, <1>15 DEF ViewOf

\* Below what is below.
LEMMA BelowOn ==
  ASSUME NEW p \in Seq(Name), NEW q \in Seq(Name), NEW r \in Seq(Name), Below(p, q), Below(q, r)
  PROVE  Below(p, r)
<1>1. PICK z \in Seq(Name) : r = q \o z
  BY Zenon DEF Below
<1> QED
  BY <1>1, BelowFurther

\* A path that reaches below p, and is not below p itself, is above it.
LEMMA AboveOrBelow ==
  ASSUME NEW t \in Seq(Name), NEW p \in Seq(Name), ~Below(p, t)
  PROVE  \A r \in Seq(Name) : Below(t, p \o r) => Below(t, p)
<1> DEFINE S == {r \in Seq(Name) : Below(t, p \o r) => Below(t, p)}
<1>1. <<>> \in S
  BY ConcatEmptySeq, EmptySeq
<1>2. ASSUME NEW r \in Seq(Name), NEW n \in Name, r \in S PROVE Sub(r, n) \in S
  <2>1. p \o Sub(r, n) = Sub(p \o r, n) /\ p \o r \in Seq(Name) /\ Sub(r, n) \in Seq(Name)
    BY ConcatSub, SubType, Zenon
  <2> SUFFICES ASSUME Below(t, Sub(p \o r, n)) PROVE Below(t, p)
    BY <2>1, Zenon
  <2>2. Below(t, p \o r) \/ t = Sub(p \o r, n)
    BY <2>1, BelowSub, Zenon
  <2>3. t # Sub(p \o r, n)
    <3> SUFFICES ASSUME t = p \o Sub(r, n) PROVE FALSE
      BY <2>1
    <3> QED
      BY <2>1, Zenon DEF Below
  <2> QED
    BY <1>2, <2>2, <2>3
<1> HIDE DEF S
<1>3. Seq(Name) \subseteq S
  BY <1>1, <1>2, AllPaths
<1> QED
  BY <1>3 DEF S

\* A move: what was at the source is at the target.  If the target is at the source
\* or below it, it is gone.
LEMMA MoveSeen ==
  ASSUME NEW h, HeapOK(h), NEW A, NEW P, RootTree(h, A, P),
         NEW u, NEW k, Leads(h, u, k), h.ents[k].map # 0, NEW n \in Name,
         NEW w, NEW f, Leads(h, w, f), h.ents[f].map # 0, NEW j \in Name,
         NEW p0, p0 = Sub(w, j), NEW t, t = Sub(u, n), NEW s, Leads(h, p0, s), s # 1,
         NEW h2, h2 = Del(Put(h, h.ents[k].map, n, s), h.ents[f].map, j)
  PROVE  \A p \in Seq(Name) :
           ViewOf(h2, p) =
             IF Below(p0, t) THEN IF Below(p0, p) THEN "none" ELSE ViewOf(h, p)
             ELSE IF Below(t, p) THEN ViewOf(h, p0 \o Beyond(t, p))
             ELSE IF Below(p0, p) THEN "none" ELSE ViewOf(h, p)
<1>1. /\ k \in DOMAIN h.ents /\ f \in DOMAIN h.ents /\ s \in DOMAIN h.ents \ {1}
      /\ u \in Seq(Name) /\ w \in Seq(Name) /\ t \in Seq(Name) /\ p0 \in Seq(Name)
  BY LeadsType, SubType, Zenon
<1>2. /\ Matches(h, h2, {<<k, n>>, <<f, j>>}) /\ h2.ents = h.ents
      /\ \A x : ~Link(h2, f, j, x)
      /\ ~(k = f /\ n = j) => Link(h2, k, n, s)
  <2>1. PICK m, from : m = h.ents[k].map /\ m # 0 /\ from = h.ents[f].map /\ from # 0
    OBVIOUS
  <2>2. h2 = Del(Put(h, m, n, s), from, j)
    BY <2>1
  <2>3. Matches(h, h2, {<<k, n>>, <<f, j>>})
    BY <1>1, <2>1, <2>2, MoveMatches, Zenon
  <2>6. h2.ents = h.ents
    <3>1. from \in DOMAIN h.maps
      BY <1>1, <2>1, MapOf
    <3> QED
      BY <1>1, <2>1, <2>2, <3>1, MoveRelinks
  <2>4. \A x : ~Link(h2, f, j, x)
    BY <1>1, <2>1, <2>2, MoveClears, Zenon
  <2>5. ~(k = f /\ n = j) => Link(h2, k, n, s)
    BY <1>1, <2>1, <2>2, MoveSets
  <2> QED
    BY <2>3, <2>4, <2>5, <2>6
<1>3. HeapOK(h2)
  <2>1. h.ents[f].map \in DOMAIN h.maps
    BY <1>1, MapOf
  <2> QED
    BY <1>1, <2>1, MoveRelinks
<1>4. PICK S : S = {t, p0}
  BY Zenon
<1>5. S \in SUBSET Seq(Name) /\ LinksOf(h, {<<k, n>>, <<f, j>>}, S)
  <2>1. S \in SUBSET Seq(Name)
    BY <1>1, <1>4
  <2>2. ASSUME NEW e \in DOMAIN h.ents, NEW i \in Name, <<e, i>> \in {<<k, n>>, <<f, j>>}
        PROVE  \E v : Leads(h, v, e) /\ Sub(v, i) \in S
    BY <1>4, <2>2
  <2> QED
    BY <2>1, <2>2, Zenon DEF LinksOf
<1>6. ASSUME NEW p \in Seq(Name), ~Below(p0, p), ~Below(t, p) PROVE EntryAt(h2, p) = EntryAt(h, p)
  <2>1. \A q \in S : ~Below(q, p)
    BY <1>4, <1>6
  <2> QED
    BY <1>2, <1>3, <1>5, <2>1, MatchSees
<1>7. ~Below(p0, w) /\ ~Below(t, u)
  BY <1>1, BelowSub
<1>8. ASSUME ~Below(t, w), NEW p \in Seq(Name), Below(p0, p) PROVE EntryAt(h2, p) = NoEntry
  <2>1. EntryAt(h2, w) = h.ents[f]
    <3>1. EntryAt(h2, w) = EntryAt(h, w)
      BY <1>1, <1>6, <1>7, <1>8
    <3> QED
      BY <3>1, LeadsEntry
  <2>2. Child(h2, h2.ents[f], j) = NoEntry
    BY <1>1, <1>2, <1>3, ChildIs
  <2>3. EntryAt(h2, p0) = NoEntry
    <3>1. EntryAt(h2, Sub(w, j)) = Child(h2, EntryAt(h2, w), j)
      BY <1>1, EntryAtOn, Zenon
    <3> QED
      BY <1>2, <2>1, <2>2, <3>1
  <2>4. PICK r \in Seq(Name) : p = p0 \o r
    BY <1>8, Zenon DEF Below
  <2>5. EntryAt(h2, p0 \o r) = EntryFrom(h2, EntryAt(h2, p0), r)
    BY <1>1, <2>4, AtConcat
  <2> QED
    BY <2>3, <2>4, <2>5, NothingBelow
<1>9. ASSUME ~Below(p0, t), NEW p \in Seq(Name), Below(t, p)
      PROVE  EntryAt(h2, p) = EntryAt(h, p0 \o Beyond(t, p))
  <2>1. ~Below(p0, u)
    BY <1>1, <1>9, BelowSub
  <2>2. EntryAt(h2, u) = h.ents[k]
    <3>1. EntryAt(h2, u) = EntryAt(h, u)
      BY <1>1, <1>6, <1>7, <2>1
    <3> QED
      BY <3>1, LeadsEntry
  <2>3. Link(h2, k, n, s)
    <3>1. P[k] = u /\ P[f] = w
      BY LeadsIn
    <3>2. ~(k = f /\ n = j)
      <4> SUFFICES ASSUME k = f, n = j PROVE FALSE
        OBVIOUS
      <4>1. p0 = t
        BY <3>1
      <4> QED
        BY <1>1, <1>9, <4>1, BelowItself
    <3> QED
      BY <1>2, <3>2
  <2>4. Child(h2, h2.ents[k], n) = h.ents[s]
    BY <1>1, <1>2, <1>3, <2>3, ChildIs
  <2>5. EntryAt(h2, t) = h.ents[s]
    <3>1. EntryAt(h2, Sub(u, n)) = Child(h2, EntryAt(h2, u), n)
      BY <1>1, EntryAtOn, Zenon
    <3> QED
      BY <1>2, <2>2, <2>4, <3>1
  <2>6. PICK r : r = Beyond(t, p)
    OBVIOUS
  <2>7. r \in Seq(Name) /\ p = t \o r
    BY <1>1, <1>9, <2>6, BeyondIs, Zenon
  <2>8. EntryAt(h2, t \o r) = EntryFrom(h2, h.ents[s], r)
    <3>1. EntryAt(h2, t \o r) = EntryFrom(h2, EntryAt(h2, t), r)
      BY <1>1, <2>7, AtConcat
    <3> QED
      BY <2>5, <3>1
  <2>9. EntryAt(h, p0 \o r) = EntryFrom(h, h.ents[s], r)
    BY <1>1, <2>7, AtConcat, LeadsEntry
  <2>10. EntryFrom(h2, h.ents[s], r) = EntryFrom(h, h.ents[s], r)
    <3>1. \A q \in S : Below(q, p0 \o r) => Below(q, p0)
      BY <1>1, <1>4, <1>9, <2>7, AboveOrBelow, BelowItself
    <3>2. \A z \in Seq(Name) : (\A q \in S : Below(q, p0 \o z) => Below(q, p0)) =>
             EntryFrom(h2, h.ents[s], z) = EntryFrom(h, h.ents[s], z)
      BY <1>2, <1>3, <1>5, MatchFrom
    <3> QED
      BY <2>7, <3>1, <3>2
  <2> QED
    BY <2>6, <2>7, <2>8, <2>9, <2>10, Zenon
<1>10. Shown(NoEntry) = "none"
  BY DEF Shown, NoEntry
<1>11. ASSUME NEW p \in Seq(Name), Below(p0, p), Below(p0, t) \/ ~Below(t, p)
       PROVE  ViewOf(h2, p) = "none"
  <2>1. ~Below(t, w)
    <3> SUFFICES ASSUME Below(t, w) PROVE FALSE
      OBVIOUS
    <3>1. ~Below(p0, t)
      BY <1>1, <1>7, BelowOn
    <3>2. Below(t, p0)
      BY <1>1, BelowSub
    <3>3. Below(t, p)
      BY <1>1, <1>11, <3>2, BelowOn
    <3> QED
      BY <1>11, <3>1, <3>3
  <2> QED
    BY <1>8, <1>10, <1>11, <2>1 DEF ViewOf
<1>12. ASSUME NEW p \in Seq(Name), ~Below(p0, p), Below(p0, t) \/ ~Below(t, p)
       PROVE  ViewOf(h2, p) = ViewOf(h, p)
  <2>1. ~Below(t, p)
    <3> SUFFICES ASSUME Below(t, p), Below(p0, t) PROVE FALSE
      BY <1>12
    <3> QED
      BY <1>1, <1>12, BelowOn
  <2> QED
    BY <1>6, <1>12, <2>1 DEF ViewOf
<1>13. ASSUME ~Below(p0, t), NEW p \in Seq(Name), Below(t, p)
       PROVE  ViewOf(h2, p) = ViewOf(h, p0 \o Beyond(t, p))
  BY <1>9, <1>13 DEF ViewOf
<1> QED
  BY <1>11, <1>12, <1>13

-----------------------------------------------------------------------------
(* What a call that runs alone knows. *)

\* Such an entry is added.
LEMMA AppendHolds ==
  ASSUME NEW h, HeapOK(h), EntriesHold(h), NEW entry, entry.type = "dir" => entry.map # 0,
         entry.type = "pending" => entry.val \in Data,
         NEW h2, h2.ents = Append(h.ents, entry)
  PROVE  EntriesHold(h2)
<1>1. h.ents \in Seq(Entry) /\ Len(h.ents) \in Nat
  BY DEF HeapOK, Heap
<1>2. DOMAIN h2.ents = 1..(Len(h.ents) + 1)
  BY <1>1
<1>3. \A e \in 1..Len(h.ents) : h2.ents[e] = h.ents[e]
  BY <1>1
<1>4. h2.ents[Len(h.ents) + 1] = entry
  BY <1>1
<1>5. DOMAIN h.ents = 1..Len(h.ents)
  BY <1>1
<1> QED
  BY <1>1, <1>2, <1>3, <1>4, <1>5 DEF EntriesHold

\* A step that reaches a directory makes no other.
LEMMA EnterHolds ==
  ASSUME NEW c \in Call, NEW h, NEW m, Entered(c, h, m), EntriesHold(h), Enter(c, h, m)
  PROVE  EntriesHold(heap')
<1>1. /\ HeapOK(h) /\ CallOK(loc[c], h) /\ m \in DOMAIN h.maps
      /\ Last(loc[c].path) \in Name /\ Last(loc[c].dst) \in Name
  BY EnteredFacts DEF Entered
<1>2. ASSUME NEW n, heap' = PutDir(h, m, n) PROVE EntriesHold(heap')
  <2>1. Len(h.maps) + 1 # 0
    BY <1>1, Sized
  <2> QED
    BY <1>1, <1>2, <2>1, PutDirEnts, AppendHolds, Zenon DEF DirEntry
<1>3. ASSUME NEW n, NEW entry, entry.type # "dir", entry.type = "pending" => entry.val \in Data,
             heap' = PutNew(h, m, n, entry)
      PROVE  EntriesHold(heap')
  BY <1>1, <1>3, PutNewEnts, AppendHolds
<1>4. ASSUME heap'.ents = h.ents PROVE EntriesHold(heap')
  BY <1>4 DEF EntriesHold
<1>5. CASE loc[c].rest # <<>>
  BY <1>2, <1>4, <1>5 DEF Enter, NextSegment, Throw
<1>6. CASE loc[c].rest = <<>> /\ loc[c].op = "move"
  <2>1. ASSUME loc[c].stage = "target",
               heap' = Del(Put(h, m, Last(loc[c].dst), loc[c].src), loc[c].from, Last(loc[c].path))
        PROVE  heap'.ents = h.ents
    <3>1. loc[c].src \in DOMAIN h.ents \ {1} /\ loc[c].from \in DOMAIN h.maps
      BY <1>1, <1>6, <2>1 DEF CallOK
    <3>2. PICK g : g = Put(h, m, Last(loc[c].dst), loc[c].src)
      OBVIOUS
    <3>3. HeapOK(g) /\ g.ents = h.ents /\ DOMAIN g.maps = DOMAIN h.maps
      BY <1>1, <3>1, <3>2, PutSets
    <3> QED
      BY <1>1, <2>1, <3>1, <3>2, <3>3, DelClears
  <2>2. MoveStep(c, h, m)
    BY <1>6 DEF Enter
  <2> QED
    BY <1>4, <2>1, <2>2 DEF MoveStep, Throw
<1>7. CASE loc[c].rest = <<>> /\ loc[c].op # "move"
  <2>1. SetTarget(c, h, m)
    BY <1>7 DEF Enter
  <2>2. CASE loc[c].op = "write"
    BY <1>1, <1>3, <2>1, <2>2, TreeAssumption DEF SetTarget, PendingEntry, CallOK
  <2>3. CASE loc[c].op = "mount"
    BY <1>3, <2>1, <2>3 DEF SetTarget, NodeEntry
  <2>4. CASE loc[c].op = "mkdir"
    BY <1>2, <1>4, <2>1, <2>4 DEF SetTarget, Throw
  <2>5. CASE loc[c].op = "delete"
    <3>1. heap' = Del(h, m, Last(loc[c].dst)) \/ heap' = h
      BY <2>1, <2>5 DEF SetTarget, Throw
    <3> QED
      BY <1>1, <1>4, <3>1, DelClears
  <2>6. CASE loc[c].op = "list"
    BY <1>4, <2>1, <2>6 DEF SetTarget
  <2> QED
    BY <2>1, <2>2, <2>3, <2>4, <2>5, <2>6 DEF SetTarget
<1> QED
  BY <1>5, <1>6, <1>7

\* Loading a directory makes entries for stored nodes.
LEMMA LoadHolds ==
  ASSUME NEW h, HeapOK(h), EntriesHold(h), NEW k \in DOMAIN h.ents, h.ents[k].type = "node",
         IsDict(h.ents[k].val), NEW h2, h2 = LoadChildren(h, k)
  PROVE  EntriesHold(h2)
<1>1. Loaded(h, h2, k) /\ Grows(h, h2)
  BY LoadGrows
<1>2. \A e \in DOMAIN h.ents \ {k} : h2.ents[e] = h.ents[e]
  BY <1>1 DEF Loaded
<1>3. h2.ents[k].type = "node"
  BY <1>1 DEF Grows
<1>4. \A e \in DOMAIN h2.ents \ DOMAIN h.ents : h2.ents[e].type = "node"
  BY <1>1 DEF Loaded
<1> QED
  BY <1>2, <1>3, <1>4 DEF EntriesHold

\* Nor does any step.
LEMMA StepHolds ==
  ASSUME HeapOK(heap), CallsOK, EntriesHold(heap), NEW c \in Call, Step(c)
  PROVE  EntriesHold(heap')
<1>1. CASE heap' = heap
  BY <1>1
<1>2. CASE StepInMemory(c)
  <2>1. CASE heap.ents[loc[c].cur].map # 0 /\ Enter(c, heap, heap.ents[loc[c].cur].map)
    <3>1. PICK m : m = heap.ents[loc[c].cur].map
      OBVIOUS
    <3>2. Entered(c, heap, m) /\ Enter(c, heap, m)
      BY <1>2, <2>1, <3>1, GrowsItself DEF Entered, StepInMemory
    <3> QED
      BY <3>2, EnterHolds
  <2> QED
    BY <1>1, <1>2, <2>1 DEF StepInMemory, Throw
<1>3. CASE StepFetched(c)
  <2>1. /\ loc[c].cur \in DOMAIN heap.ents /\ heap.ents[loc[c].cur].type = "node"
        /\ pc[c] = "fetch"
    BY <1>3 DEF CallsOK, CallOK, Waits, StepFetched
  <2>2. CASE ~IsDict(heap.ents[loc[c].cur].val)
    BY <1>1, <1>3, <2>2 DEF StepFetched, Throw
  <2>3. CASE IsDict(heap.ents[loc[c].cur].val)
    <3>1. PICK h : h = LoadChildren(heap, loc[c].cur)
      OBVIOUS
    <3>2. Enter(c, h, Len(h.maps))
      BY <1>3, <2>3, <3>1 DEF StepFetched
    <3>3. /\ HeapOK(h) /\ Grows(heap, h) /\ Regrown(heap, h, loc[c].cur, Name) /\ Refilled(heap, h)
          /\ h.ents[loc[c].cur].map = Len(h.maps) /\ h.ents[loc[c].cur].map # 0
      BY <2>1, <2>3, <3>1, LoadGrows
    <3>4. KeepsTrees(heap, h)
      BY <2>1, <3>3, RegrownKeeps
    <3>5. Entered(c, h, Len(h.maps))
      BY <2>1, <3>3, <3>4 DEF Entered
    <3>6. EntriesHold(h)
      BY <2>1, <2>3, <3>1, LoadHolds
    <3> QED
      BY <3>2, <3>5, <3>6, EnterHolds
  <2> QED
    BY <2>2, <2>3
<1>4. CASE CallWalk(c) \/ CallBuild(c)
  BY <1>1, <1>4, Zenon DEF CallWalk, CallBuild, Begin
<1>5. CASE BuildChild(c) \/ BuildDict(c) \/ RequestFails(c)
  BY <1>1, <1>5, Zenon DEF BuildChild, BuildDict, RequestFails, Throw
<1> QED
  BY <1>2, <1>3, <1>4, <1>5 DEF Step

\* It stays there as long as no link goes away.
LEMMA CarriesStays ==
  ASSUME NEW h, NEW h2, KeepsBut(h, h2, {}), NEW q, Carries(h, q)
  PROVE  Carries(h2, q)
BY DEF Carries, KeepsBut

\* A step that reaches a directory leaves the source of its move where it is, until
\* the last.
LEMMA EnterCarries ==
  ASSUME NEW c \in Call, NEW h, NEW m, Entered(c, h, m), HeapOK(heap'), Grows(heap, heap'),
         NEW A, NEW P, RootTree(h, A, P), Found(h, loc[c]), Carries(h, loc[c]), Enter(c, h, m)
  PROVE  Carries(heap', loc'[c])
<1> DEFINE r == loc[c]
<1>1. /\ CallOK(r, h) /\ HeapOK(h) /\ Fields(r)
      /\ Front(r.path) \in Seq(Name) /\ Last(r.path) \in Name
      /\ r.path \in Seq(Name) /\ r.op \in Walks /\ r.path # <<>>
  BY EnteredFacts DEF Entered, CallOK, Fields
<1>2. KeepsBut(h, heap', Losses(c))
  BY EnterFinds
<1>3. ASSUME NEW how, Ends(c, how) PROVE Carries(heap', loc'[c])
  BY <1>3 DEF Ends, Carries
<1>4. CASE r.rest # <<>>
  <2>1. /\ Losses(c) = {}
        /\ \/ Ends(c, "error")
           \/ \E x : Goes(c, [r EXCEPT !.cur = x, !.rest = Tail(r.rest)])
    BY <1>4, NextSegmentSpares, Zenon DEF Enter
  <2>2. ASSUME NEW x, Goes(c, [r EXCEPT !.cur = x, !.rest = Tail(r.rest)])
        PROVE  Carries(heap', loc'[c])
    <3>1. PICK q : q = [r EXCEPT !.cur = x, !.rest = Tail(r.rest)]
      OBVIOUS
    <3>2. q.op = r.op /\ q.stage = r.stage /\ q.path = r.path /\ q.src = r.src
      BY <1>1, <3>1, OnFields, Zenon
    <3>3. Carries(h, q)
      BY <3>2 DEF Carries
    <3>4. loc'[c] = q
      BY <2>2, <3>1 DEF Goes
    <3> QED
      BY <1>2, <2>1, <3>3, <3>4, CarriesStays, Zenon
  <2> QED
    BY <1>3, <2>1, <2>2, Zenon
<1>5. CASE r.rest = <<>> /\ r.op # "move"
  <2>1. Ends(c, "ok") \/ Ends(c, "error")
    BY <1>5, SetTargetSpares DEF Enter
  <2> QED
    BY <1>3, <2>1
<1>6. CASE r.rest = <<>> /\ r.op = "move"
  <2>1. \/ Ends(c, "error") \/ Ends(c, "ok")
        \/ /\ heap' = h
           /\ \/ /\ r.stage = "source"
                 /\ \E x : /\ Link(h, r.cur, Last(r.path), x)
                           /\ Goes(c, Walk([r EXCEPT !.src = x], "origin", Front(r.path)))
              \/ r.stage = "origin" /\ Goes(c, Walk([r EXCEPT !.from = m], "target", Front(r.dst)))
    <3>1. MoveStep(c, h, m)
      BY <1>6 DEF Enter
    <3> QED
      BY <1>6, <3>1, MoveStepSpares
  <2>2. ASSUME heap' = h, r.stage = "source", NEW x, Link(h, r.cur, Last(r.path), x),
               Goes(c, Walk([r EXCEPT !.src = x], "origin", Front(r.path)))
        PROVE  Carries(heap', loc'[c])
    <3>1. PICK y : y = [r EXCEPT !.src = x]
      BY Zenon
    <3>2. y = [op |-> r.op, path |-> r.path, dst |-> r.dst, arg |-> r.arg, stage |-> r.stage,
               cur |-> r.cur, rest |-> r.rest, src |-> x, from |-> r.from, frames |-> r.frames]
      BY <1>1, <3>1, SrcFields
    <3>3. Fields(y)
      BY <3>2 DEF Fields
    <3>4. PICK q : q = Walk(y, "origin", Front(r.path)) /\ q = loc'[c]
      BY <2>2, <3>1 DEF Goes
    <3>5. q.path = r.path /\ q.src = x
      BY <3>2, <3>3, <3>4, WalkFields
    <3>6. PICK u : Leads(h, u, r.cur) /\ u \o r.rest = Front(r.path)
      BY <1>6, <2>2 DEF Found, Walks, Goal
    <3>7. u \in Seq(Name) /\ u \o <<>> = u
      BY <1>1, <3>6, LeadsType, ConcatEmptySeq
    <3>8. u = Front(r.path) /\ r.path = Sub(u, Last(r.path))
      BY <1>1, <1>6, <3>6, <3>7, PathSplit
    <3>9. Leads(h, r.path, x)
      BY <1>1, <2>2, <3>6, <3>8, LeadsOn
    <3> QED
      BY <2>2, <3>4, <3>5, <3>9 DEF Carries
  <2>3. ASSUME r.stage = "origin", heap' = h,
               Goes(c, Walk([r EXCEPT !.from = m], "target", Front(r.dst)))
        PROVE  Carries(heap', loc'[c])
    <3>1. PICK y : y = [r EXCEPT !.from = m]
      BY Zenon
    <3>2. y = [op |-> r.op, path |-> r.path, dst |-> r.dst, arg |-> r.arg, stage |-> r.stage,
               cur |-> r.cur, rest |-> r.rest, src |-> r.src, from |-> m, frames |-> r.frames]
      BY <1>1, <3>1, FromFields
    <3>3. Fields(y)
      BY <3>2 DEF Fields
    <3>4. PICK q : q = Walk(y, "target", Front(r.dst)) /\ q = loc'[c]
      BY <2>3, <3>1 DEF Goes
    <3>5. q.path = r.path /\ q.src = r.src
      BY <3>2, <3>3, <3>4, WalkFields
    <3>6. Leads(h, r.path, r.src)
      BY <1>6, <2>3 DEF Carries
    <3> QED
      BY <2>3, <3>4, <3>5, <3>6 DEF Carries
  <2> QED
    BY <1>3, <2>1, <2>2, <2>3, Zenon
<1> QED
  BY <1>4, <1>5, <1>6

\* One segment of a walk leaves the heap as it is, or makes a directory above the
\* target.
LEMMA NextSegmentSeen ==
  ASSUME NEW c \in Call, NEW h, NEW m, Entered(c, h, m), NEW A, NEW P, RootTree(h, A, P),
         Found(h, loc[c]), loc[c].rest # <<>>, NextSegment(c, h, m)
  PROVE  \/ heap' = h
         \/ /\ Fresh(heap', loc'[c]) /\ loc[c].op # "list" /\ pc'[c] = "walk"
            /\ \E t \in Seq(Name) : IsStrictPrefix(t, loc[c].dst) /\ MakesAt(h, heap', t)
<1> DEFINE r == loc[c]
           n == Head(r.rest)
           e == Len(h.ents) + 1
<1>1. /\ CallOK(r, h) /\ HeapOK(h) /\ Fields(r) /\ h.ents[r.cur].map = m /\ m # 0
      /\ r.op \in Walks /\ r.dst # <<>> /\ r.dst \in Seq(Name) /\ r.rest \in Seq(Name)
      /\ Front(r.dst) \in Seq(Name) /\ Last(r.dst) \in Name /\ r.cur \in DOMAIN h.ents
      /\ CallsOK
  BY EnteredFacts DEF Entered, CallOK, Fields
<1> SUFFICES ASSUME Missing(h, m, n), Makes(r), heap' = PutDir(h, m, n),
                    Continue(c, [r EXCEPT !.cur = e, !.rest = Tail(r.rest)])
             PROVE  /\ Fresh(heap', loc'[c]) /\ r.op # "list" /\ pc'[c] = "walk"
                    /\ \E t \in Seq(Name) : IsStrictPrefix(t, r.dst) /\ MakesAt(h, heap', t)
  BY DEF NextSegment, Throw
<1>2. r.op \in Walks \ {"list"} /\ Goal(r) = Front(r.dst)
  BY <1>1 DEF Makes, Goal
<1>3. PICK u : Leads(h, u, r.cur) /\ u \o r.rest = Front(r.dst)
  BY <1>2 DEF Found
<1>4. u \in Seq(Name) /\ n \in Name /\ Tail(r.rest) \in Seq(Name)
  BY <1>1, <1>3, LeadsType
<1>5. Front(r.dst) = Sub(u, n) \o Tail(r.rest) /\ Sub(u, n) \in Seq(Name)
  <2>1. PICK z \in Seq(Name) : z = r.rest
    BY <1>1
  <2>2. Sub(u, Head(z)) \o Tail(z) = u \o z
    BY <1>4, <2>1, HeadFirst, Zenon
  <2> QED
    BY <1>3, <1>4, <2>1, <2>2, SubType, Zenon
<1>6. PICK t : t = Sub(u, n)
  OBVIOUS
<1>7. IsStrictPrefix(t, r.dst)
  <2>1. Below(t, Front(r.dst))
    BY <1>4, <1>5, <1>6, Zenon DEF Below
  <2>2. r.dst = Sub(Front(r.dst), Last(r.dst))
    BY <1>1, PathSplit
  <2>3. Below(t, r.dst) /\ t # r.dst
    <3>1. PICK f \in Seq(Name), l \in Name : f = Front(r.dst) /\ l = Last(r.dst)
      BY <1>1
    <3>2. t \in Seq(Name) /\ Below(t, f) /\ r.dst = Sub(f, l)
      BY <1>5, <1>6, <2>1, <2>2, <3>1
    <3>3. Below(t, Sub(f, l)) /\ ~Below(Sub(f, l), f)
      BY <3>2, BelowSub
    <3> QED
      BY <3>2, <3>3
  <2>4. IsPrefix(t, r.dst)
    BY <1>1, <1>5, <1>6, <2>3, PrefixIsBelow
  <2> QED
    BY <2>3, <2>4 DEF IsStrictPrefix
<1>8. MakesAt(h, heap', t)
  BY <1>1, <1>3, <1>4, <1>6, DirSeen DEF Missing, MakesAt
<1>9. Fresh(heap', loc'[c]) /\ pc'[c] = "walk"
  <2>1. PICK q : q = [r EXCEPT !.cur = e, !.rest = Tail(r.rest)]
    OBVIOUS
  <2>2. q.op = r.op /\ q.stage = r.stage /\ q.cur = e
    BY <1>1, <2>1, OnFields, Zenon
  <2>3. loc'[c] = q /\ pc'[c] = "walk"
    BY <1>1, <2>1 DEF Continue, CallsOK
  <2>4. /\ heap'.ents[e].type = "dir" /\ heap'.ents[e].map # 0
        /\ heap'.maps[heap'.ents[e].map] = <<>>
    BY <1>1, <1>4, PutDirMatches, Zenon
  <2>5. Makes(q)
    BY <2>2 DEF Makes
  <2> QED
    BY <2>2, <2>3, <2>4, <2>5 DEF Fresh
<1> QED
  BY <1>2, <1>5, <1>6, <1>7, <1>8, <1>9

\* In a directory that it has made a call does not throw.
LEMMA FreshGoesOn ==
  ASSUME NEW c \in Call, NEW h, NEW m, Entered(c, h, m), Fresh(h, loc[c]), Enter(c, h, m)
  PROVE  ~Ends(c, "error")
<1>1. CallsOK /\ h.maps[m] = <<>> /\ Makes(loc[c])
  BY DEF Entered, Fresh
<1>2. \A n : ~Has(h, m, n)
  BY <1>1 DEF Has, Places
<1>3. \A q : Continue(c, q) => ~Ends(c, "error")
  BY <1>1 DEF Continue, CallsOK, Ends
<1>4. Done(c) => ~Ends(c, "error")
  BY <1>1, EndsIs DEF Done, Ends
<1>5. CASE loc[c].rest # <<>>
  BY <1>1, <1>2, <1>3, <1>5 DEF Enter, NextSegment, Missing
<1>6. CASE loc[c].rest = <<>> /\ loc[c].op = "move"
  BY <1>1, <1>4, <1>6 DEF Enter, Makes, MoveStep
<1>7. CASE loc[c].rest = <<>> /\ loc[c].op # "move"
  <2>1. SetTarget(c, h, m)
    BY <1>7 DEF Enter
  <2> QED
    BY <1>1, <1>2, <1>4, <1>7, <2>1 DEF SetTarget, Makes
<1> QED
  BY <1>5, <1>6, <1>7

-----------------------------------------------------------------------------
(* What the steps of a call that runs alone do to be seen. *)

\* What Effect says of each method, with Below for IsPrefix: write,
LEMMA EffectOfWrite ==
  ASSUME NEW q, q.op = "write", q.path \in Seq(Name), NEW p \in Seq(Name)
  PROVE  Effect(q, p) = IF p = q.path THEN q.arg
                        ELSE IF Below(q.path, p) THEN "none" ELSE View(p)
<1>1. IsPrefix(q.path, p) <=> Below(q.path, p)
  BY PrefixIsBelow
<1>2. Below(q.path, q.path)
  BY BelowItself
<1>3. Effect(q, p) = IF IsPrefix(q.path, p) THEN (IF p = q.path THEN q.arg ELSE "none") ELSE View(p)
  BY DEF Effect
<1> QED
  BY <1>1, <1>2, <1>3

\* mount,
LEMMA EffectOfMount ==
  ASSUME NEW q, q.op = "mount", q.path \in Seq(Name), NEW p \in Seq(Name)
  PROVE  Effect(q, p) =
           IF Below(q.path, p)
             THEN Shown(EntryFrom(heap, NodeEntry([form |-> "node", val |-> q.arg.val]), Beyond(q.path, p)))
             ELSE View(p)
<1>1. IsPrefix(q.path, p) <=> Below(q.path, p)
  BY PrefixIsBelow
<1>2. Below(q.path, p) => SubSeq(p, Len(q.path) + 1, Len(p)) = Beyond(q.path, p)
  BY PrefixIsBelow, Zenon
<1>3. Effect(q, p) =
        IF IsPrefix(q.path, p) THEN ViewIn(q.arg.val, SubSeq(p, Len(q.path) + 1, Len(p))) ELSE View(p)
  BY DEF Effect
<1> QED
  BY <1>1, <1>2, <1>3, Zenon DEF ViewIn

\* delete,
LEMMA EffectOfDelete ==
  ASSUME NEW q, q.op = "delete", q.path \in Seq(Name), NEW p \in Seq(Name)
  PROVE  Effect(q, p) = IF Below(q.path, p) THEN "none" ELSE View(p)
<1>1. IsPrefix(q.path, p) <=> Below(q.path, p)
  BY PrefixIsBelow
<1>2. Effect(q, p) = IF IsPrefix(q.path, p) THEN "none" ELSE View(p)
  BY DEF Effect
<1> QED
  BY <1>1, <1>2

\* mkdir,
LEMMA EffectOfMkdir ==
  ASSUME NEW q, q.op = "mkdir", NEW p
  PROVE  Effect(q, p) = IF p = q.path /\ View(p) = "none" THEN "dir" ELSE View(p)
BY DEF Effect

\* list,
LEMMA EffectOfList ==
  ASSUME NEW q, q.op = "list", NEW p
  PROVE  Effect(q, p) = View(p)
BY DEF Effect

\* and move.
LEMMA EffectOfMove ==
  ASSUME NEW q, q.op = "move", q.path \in Seq(Name), q.dst \in Seq(Name), NEW p \in Seq(Name)
  PROVE  Effect(q, p) =
           IF Below(q.path, q.dst) THEN IF Below(q.path, p) THEN "none" ELSE View(p)
           ELSE IF Below(q.dst, p) THEN View(q.path \o Beyond(q.dst, p))
           ELSE IF Below(q.path, p) THEN "none" ELSE View(p)
<1>1. IsPrefix(q.path, p) <=> Below(q.path, p)
  BY PrefixIsBelow
<1>2. IsPrefix(q.path, q.dst) <=> Below(q.path, q.dst)
  BY PrefixIsBelow
<1>3. /\ IsPrefix(q.dst, p) <=> Below(q.dst, p)
      /\ Below(q.dst, p) => SubSeq(p, Len(q.dst) + 1, Len(p)) = Beyond(q.dst, p)
  BY PrefixIsBelow, Zenon
<1>4. Effect(q, p) =
        IF IsPrefix(q.path, q.dst) /\ IsPrefix(q.path, p) THEN "none"
        ELSE IF ~IsPrefix(q.path, q.dst) /\ IsPrefix(q.dst, p)
          THEN View(q.path \o SubSeq(p, Len(q.dst) + 1, Len(p)))
        ELSE IF ~IsPrefix(q.path, q.dst) /\ ~IsPrefix(q.dst, p) /\ IsPrefix(q.path, p) THEN "none"
        ELSE View(p)
  BY DEF Effect
<1> QED
  BY <1>1, <1>2, <1>3, <1>4, Zenon

\* What is in a directory and is no file that was written shows something.
LEMMA TakenShows ==
  ASSUME NEW h, HeapOK(h), EntriesHold(h), NEW u, NEW k, Leads(h, u, k), h.ents[k].map # 0,
         NEW n \in Name, Has(h, h.ents[k].map, n),
         h.ents[Get(h, h.ents[k].map, n)].type # "pending"
  PROVE  ViewOf(h, Sub(u, n)) # "none"
<1>1. k \in DOMAIN h.ents /\ h.ents[k].map \in DOMAIN h.maps
  BY LeadsType, MapOf
<1>2. PICK x : x = Get(h, h.ents[k].map, n)
  OBVIOUS
<1>3. x \in DOMAIN h.ents /\ Link(h, k, n, x)
  BY <1>1, <1>2, Placed DEF Link
<1>4. EntryAt(h, Sub(u, n)) = h.ents[x]
  BY <1>3, LeadsOn, LeadsEntry
<1>5. h.ents[x].type \in {"node", "dir"}
  BY <1>2, <1>3, Sized DEF Entry
<1>6. Shown(h.ents[x]) = "dir" \/ Shown(h.ents[x]) \in Data
  BY <1>3, <1>5 DEF Shown, EntriesHold, IsDict
<1> QED
  BY <1>4, <1>6, TreeAssumption DEF ViewOf

\* The walk of a call other than list has come to the directory of its target.
LEMMA TargetIs ==
  ASSUME NEW c \in Call, NEW h, NEW m, Entered(c, h, m), Found(h, loc[c]), loc[c].rest = <<>>,
         loc[c].op # "list", loc[c].op = "move" => loc[c].stage = "target"
  PROVE  /\ Leads(h, Front(loc[c].dst), loc[c].cur)
         /\ loc[c].dst = Sub(Front(loc[c].dst), Last(loc[c].dst)) /\ Last(loc[c].dst) \in Name
         /\ loc[c].op # "move" => loc[c].dst = loc[c].path
<1> DEFINE r == loc[c]
<1>1. /\ HeapOK(h) /\ r.op \in Walks \ {"list"} /\ r.dst \in Seq(Name) /\ r.dst # <<>>
  BY EnteredFacts, Zenon DEF Entered, CallOK
<1>2. Goal(r) = Front(r.dst)
  BY DEF Goal
<1>3. PICK u : Leads(h, u, r.cur) /\ u \o r.rest = Goal(r)
  BY <1>1 DEF Found
<1>4. u \o <<>> = u
  BY <1>1, <1>3, LeadsType, ConcatEmptySeq
<1>5. r.op # "move" => r.dst = r.path
  BY <1>1 DEF Found
<1> QED
  BY <1>1, <1>2, <1>3, <1>4, <1>5, PathSplit

\* The last step of a call other than move does what Effect says.
LEMMA SetTargetSeen ==
  ASSUME NEW c \in Call, NEW h, NEW m, Entered(c, h, m), NEW A, NEW P, RootTree(h, A, P),
         EntriesHold(h), Found(h, loc[c]), \A p \in Seq(Name) : ViewOf(h, p) = View(p),
         loc[c].rest = <<>>, loc[c].op # "move", SetTarget(c, h, m), Ends(c, "ok")
  PROVE  \A p \in Seq(Name) : ViewOf(heap', p) = Effect(loc[c], p)
<1> DEFINE r == loc[c]
<1>1. /\ CallsOK /\ HeapOK(h) /\ CallOK(r, h) /\ r.path \in Seq(Name) /\ h.ents[r.cur].map = m /\ m # 0
  BY EnteredFacts DEF Entered, CallOK
<1>2. CASE r.op = "list"
  BY <1>2, EffectOfList DEF SetTarget
<1>3. CASE r.op # "list"
  <2>1. PICK n \in Name : n = Last(r.dst)
    BY <1>3, TargetIs
  <2>2. PICK u : Leads(h, u, r.cur) /\ r.path = Sub(u, n)
    BY <1>3, <2>1, TargetIs
  <2>3. CASE r.op = "write"
    <3>1. PICK d \in Data : d = r.arg
      BY <1>1, <2>3, TreeAssumption DEF CallOK
    <3>2. heap' = PutNew(h, h.ents[r.cur].map, n, PendingEntry(d))
      BY <1>1, <2>1, <2>3, <3>1 DEF SetTarget
    <3>3. \A p \in Seq(Name) :
            ViewOf(heap', p) = IF p = Sub(u, n) THEN d
                               ELSE IF Below(Sub(u, n), p) THEN "none" ELSE ViewOf(h, p)
      BY <1>1, <2>2, <3>2, WriteSeen
    <3> QED
      BY <1>1, <2>2, <2>3, <3>1, <3>3, EffectOfWrite
  <2>4. CASE r.op = "mount"
    <3>1. PICK key \in Mounted : key = r.arg
      BY <1>1, <2>4 DEF CallOK
    <3>2. heap' = PutNew(h, h.ents[r.cur].map, n, NodeEntry(key))
      BY <1>1, <2>1, <2>4, <3>1 DEF SetTarget
    <3>3. PICK stored : stored = NodeEntry([form |-> "node", val |-> key.val])
      OBVIOUS
    <3>4. \A p \in Seq(Name) :
            ViewOf(heap', p) =
              IF Below(Sub(u, n), p) THEN Shown(EntryFrom(heap, stored, Beyond(Sub(u, n), p)))
                                     ELSE ViewOf(h, p)
      BY <1>1, <2>2, <3>2, <3>3, MountSeen
    <3> QED
      BY <1>1, <2>2, <2>4, <3>1, <3>3, <3>4, EffectOfMount, Zenon
  <2>5. CASE r.op = "delete"
    <3>1. heap' = Del(h, h.ents[r.cur].map, n)
      <4>1. ~Throw(c, h)
        BY <1>1, EndsIs DEF Throw, Ends
      <4> QED
        BY <1>1, <2>1, <2>5, <4>1 DEF SetTarget
    <3>2. \A p \in Seq(Name) : ViewOf(heap', p) = IF Below(Sub(u, n), p) THEN "none" ELSE ViewOf(h, p)
      BY <1>1, <2>2, <3>1, DeleteSeen
    <3> QED
      BY <1>1, <2>2, <2>5, <3>2, EffectOfDelete
  <2>6. CASE r.op = "mkdir"
    <3>1. CASE ~Has(h, m, n)
      BY <1>1, <2>1, <2>2, <2>6, <3>1, DirSeen, EffectOfMkdir DEF SetTarget
    <3>2. CASE Has(h, m, n)
      BY <1>1, <2>1, <2>2, <2>6, <3>2, EndsIs, TakenShows, EffectOfMkdir DEF Throw, Ends, SetTarget
    <3> QED
      BY <3>1, <3>2
  <2> QED
    BY <1>3, <2>3, <2>4, <2>5, <2>6 DEF SetTarget
<1> QED
  BY <1>2, <1>3

\* So does the last step of a move.
LEMMA MoveStepSeen ==
  ASSUME NEW c \in Call, NEW h, NEW m, Entered(c, h, m), NEW A, NEW P, RootTree(h, A, P),
         Found(h, loc[c]), Carries(h, loc[c]), \A p \in Seq(Name) : ViewOf(h, p) = View(p),
         loc[c].rest = <<>>, loc[c].op = "move", MoveStep(c, h, m), Ends(c, "ok")
  PROVE  \A p \in Seq(Name) : ViewOf(heap', p) = Effect(loc[c], p)
<1> DEFINE r == loc[c]
<1>1. /\ CallsOK /\ HeapOK(h) /\ CallOK(r, h) /\ h.ents[r.cur].map = m /\ m # 0
      /\ r.path \in Seq(Name) /\ r.path # <<>> /\ r.dst \in Seq(Name)
  BY EnteredFacts DEF Entered, CallOK, Walks
<1>2. /\ r.stage = "target"
      /\ heap' = Del(Put(h, m, Last(r.dst), r.src), r.from, Last(r.path))
  BY <1>1, EndsIs DEF Throw, Ends, Continue, CallsOK, MoveStep
<1>3. PICK n \in Name : n = Last(r.dst)
  BY <1>2, TargetIs
<1>4. PICK t : t = r.dst
  OBVIOUS
<1>5. PICK u : Leads(h, u, r.cur) /\ t = Sub(u, n)
  BY <1>2, <1>3, <1>4, TargetIs
<1>6. PICK w, f : w = Front(r.path) /\ Leads(h, w, f) /\ h.ents[f].map = r.from
  BY <1>1, <1>2 DEF Found, Walks
<1>7. PICK j \in Name : j = Last(r.path)
  BY <1>1, PathSplit
<1>8. PICK p0 : p0 = r.path
  OBVIOUS
<1>9. p0 = Sub(w, j)
  BY <1>1, <1>6, <1>7, <1>8, PathSplit
<1>10. PICK s : s = r.src
  OBVIOUS
<1>11. Leads(h, p0, s) /\ s # 1
  BY <1>1, <1>2, <1>8, <1>10 DEF Carries, CallOK
<1>12. h.ents[f].map # 0
  BY <1>1, <1>2, <1>6, Sized DEF CallOK
<1>13. heap' = Del(Put(h, h.ents[r.cur].map, n, s), h.ents[f].map, j)
  BY <1>1, <1>2, <1>3, <1>6, <1>7, <1>10
<1>14. \A p \in Seq(Name) :
         ViewOf(heap', p) =
           IF Below(p0, t) THEN IF Below(p0, p) THEN "none" ELSE ViewOf(h, p)
           ELSE IF Below(t, p) THEN ViewOf(h, p0 \o Beyond(t, p))
           ELSE IF Below(p0, p) THEN "none" ELSE ViewOf(h, p)
  BY <1>1, <1>5, <1>6, <1>7, <1>9, <1>11, <1>12, <1>13, MoveSeen
<1> SUFFICES ASSUME NEW p \in Seq(Name) PROVE ViewOf(heap', p) = Effect(r, p)
  OBVIOUS
<1>15. Effect(r, p) =
         IF Below(p0, t) THEN IF Below(p0, p) THEN "none" ELSE View(p)
         ELSE IF Below(t, p) THEN View(p0 \o Beyond(t, p))
         ELSE IF Below(p0, p) THEN "none" ELSE View(p)
  BY <1>1, <1>4, <1>8, EffectOfMove
<1>16. Below(t, p) => ViewOf(h, p0 \o Beyond(t, p)) = View(p0 \o Beyond(t, p))
  BY <1>1, <1>4, <1>8, BeyondIs, ConcatProperties
<1> QED
  BY <1>14, <1>15, <1>16

\* In a directory that it has made a call goes on by making another, or is done.
LEMMA FreshMakes ==
  ASSUME NEW c \in Call, NEW h, NEW m, Entered(c, h, m), Fresh(h, loc[c]), Enter(c, h, m)
  PROVE  heap' = h => Ends(c, "ok")
<1>1. CallsOK /\ HeapOK(h) /\ h.maps[m] = <<>> /\ Makes(loc[c])
  BY DEF Entered, Fresh
<1>2. \A n : ~Has(h, m, n)
  BY <1>1 DEF Has, Places
<1>3. Done(c) => Ends(c, "ok")
  BY <1>1, EndsIs DEF Done
<1>4. CASE loc[c].rest # <<>>
  <2>1. heap' = PutDir(h, m, Head(loc[c].rest))
    BY <1>1, <1>2, <1>4 DEF Enter, NextSegment, Missing
  <2>2. heap'.ents = Append(h.ents, DirEntry(Len(h.maps) + 1))
    BY <1>1, <2>1, PutDirEnts
  <2>3. h.ents \in Seq(Entry)
    BY <1>1 DEF HeapOK, Heap
  <2>4. Len(heap'.ents) # Len(h.ents)
    BY <2>2, <2>3
  <2> QED
    BY <2>4
<1>5. CASE loc[c].rest = <<>> /\ loc[c].op = "move"
  BY <1>1, <1>3, <1>5 DEF Enter, Makes, MoveStep
<1>6. CASE loc[c].rest = <<>> /\ loc[c].op # "move"
  <2>1. SetTarget(c, h, m)
    BY <1>6 DEF Enter
  <2> QED
    BY <1>1, <1>2, <1>3, <1>6, <2>1 DEF SetTarget, Makes
<1> QED
  BY <1>4, <1>5, <1>6

\* What a step that reaches a directory lets be seen.
LEMMA EnterSeen ==
  ASSUME NEW c \in Call, NEW h, NEW m, Entered(c, h, m), NEW A, NEW P, RootTree(h, A, P),
         EntriesHold(h), Found(h, loc[c]), Carries(h, loc[c]),
         \A p \in Seq(Name) : ViewOf(h, p) = View(p), Enter(c, h, m)
  PROVE  \/ Ends(c, "ok") /\ \A p \in Seq(Name) : ViewOf(heap', p) = Effect(loc[c], p)
         \/ Ends(c, "error") /\ heap' = h
         \/ pc'[c] = "walk" /\ heap' = h
         \/ /\ pc'[c] = "walk" /\ Fresh(heap', loc'[c])
            /\ \E t \in Seq(Name) : IsStrictPrefix(t, loc[c].dst) /\ MakesAt(heap, heap', t)
<1>1. CASE loc[c].rest # <<>>
  <2>1. NextSegment(c, h, m)
    BY <1>1 DEF Enter
  <2>2. \/ Ends(c, "error") /\ heap' = h
        \/ \E x : Goes(c, [loc[c] EXCEPT !.cur = x, !.rest = Tail(loc[c].rest)])
    BY <1>1, <2>1, NextSegmentSpares, Zenon
  <2>3. \/ heap' = h
        \/ /\ Fresh(heap', loc'[c]) /\ loc[c].op # "list" /\ pc'[c] = "walk"
           /\ \E t \in Seq(Name) : IsStrictPrefix(t, loc[c].dst) /\ MakesAt(h, heap', t)
    BY <1>1, <2>1, NextSegmentSeen
  <2>4. \A t \in Seq(Name) : MakesAt(h, heap', t) => MakesAt(heap, heap', t)
    BY DEF MakesAt, View
  <2> QED
    BY <2>2, <2>3, <2>4, Zenon DEF Goes
<1>2. CASE loc[c].rest = <<>> /\ loc[c].op = "move"
  BY <1>2, MoveStepSpares, MoveStepSeen DEF Enter, Goes
<1>3. CASE loc[c].rest = <<>> /\ loc[c].op # "move"
  BY <1>3, SetTargetSpares, SetTargetSeen DEF Enter
<1> QED
  BY <1>1, <1>2, <1>3

\* A step in memory.
LEMMA StepInMemorySeen ==
  ASSUME HeapOK(heap), CallsOK, NEW c \in Call, NEW A, NEW P, RootTree(heap, A, P),
         EntriesHold(heap), Settled(c), StepInMemory(c)
  PROVE  Exact(c)
<1>1. pc[c] = "walk" /\ Found(heap, loc[c]) /\ Carries(heap, loc[c])
  BY DEF StepInMemory, Settled
<1>2. CASE heap.ents[loc[c].cur].map # 0 /\ Enter(c, heap, heap.ents[loc[c].cur].map)
  <2>1. PICK m : m = heap.ents[loc[c].cur].map
    OBVIOUS
  <2>2. Entered(c, heap, m) /\ Enter(c, heap, m)
    BY <1>1, <1>2, <2>1, GrowsItself DEF Entered
  <2>3. \A p \in Seq(Name) : ViewOf(heap, p) = View(p)
    BY DEF View
  <2>4. heap' = heap => Unseen
    BY DEF Unseen, View
  <2>5. made[c] => ~Ends(c, "error") /\ (heap' = heap => Ends(c, "ok"))
    BY <2>2, FreshGoesOn, FreshMakes DEF Settled
  <2>6. \/ Ends(c, "ok") /\ \A p \in Seq(Name) : ViewOf(heap', p) = Effect(loc[c], p)
        \/ Ends(c, "error") /\ heap' = heap
        \/ pc'[c] = "walk" /\ heap' = heap
        \/ /\ pc'[c] = "walk" /\ Fresh(heap', loc'[c])
           /\ \E t \in Seq(Name) : IsStrictPrefix(t, loc[c].dst) /\ MakesAt(heap, heap', t)
    BY <1>1, <2>2, <2>3, EnterSeen
  <2>7. Ends(c, "ok") => pc'[c] # "walk"
    BY DEF Ends
  <2> QED
    BY <2>4, <2>5, <2>6, <2>7 DEF Exact
<1>3. CASE heap.ents[loc[c].cur].type = "pending" /\ Throw(c, heap)
  BY <1>3, EndsIs DEF Throw, Unseen, View, Settled, Fresh, Exact
<1>4. CASE /\ heap.ents[loc[c].cur].type = "node" /\ heap.ents[loc[c].cur].map = 0
           /\ pc' = [pc EXCEPT ![c] = "fetch"] /\ UNCHANGED <<heap, loc, answer, begun>>
  BY <1>4 DEF Unseen, View, CallsOK, Settled, Fresh, Exact
<1> QED
  BY <1>2, <1>3, <1>4 DEF StepInMemory

\* A step that has loaded a directory.
LEMMA StepFetchedSeen ==
  ASSUME HeapOK(heap), CallsOK, NEW c \in Call, Planted(heap, NoCall), EntriesHold(heap), Settled(c),
         StepFetched(c)
  PROVE  Exact(c)
<1> DEFINE e == loc[c].cur
<1>1. /\ pc[c] = "fetch" /\ CallOK(loc[c], heap) /\ heap.ents[e].map = 0 /\ ~made[c]
      /\ e \in DOMAIN heap.ents /\ heap.ents[e].type = "node"
  BY DEF CallsOK, CallOK, Waits, StepFetched, Settled
<1>2. CASE ~IsDict(heap.ents[e].val)
  <2>1. Ends(c, "error") /\ Unseen
    BY <1>2, EndsIs DEF StepFetched, Throw, Unseen, View
  <2> QED
    BY <1>1, <2>1 DEF Exact
<1>3. CASE IsDict(heap.ents[e].val)
  <2>1. PICK h : h = LoadChildren(heap, e)
    OBVIOUS
  <2>2. Enter(c, h, Len(h.maps))
    BY <1>3, <2>1 DEF StepFetched
  <2>3. /\ Entered(c, h, Len(h.maps)) /\ KeepsEntries(heap, h) /\ KeepsBut(heap, h, {})
        /\ \E A, P : RootTree(h, A, P)
    BY <1>1, <1>3, <2>1, LoadEnters
  <2>4. Found(h, loc[c]) /\ Carries(h, loc[c])
    BY <1>1, <2>3, FoundStays, CarriesStays DEF Settled, Entered
  <2>5. PICK A, P : RootTree(h, A, P)
    BY <2>3
  <2>6. EntriesHold(h)
    BY <1>1, <1>3, <2>1, LoadHolds
  <2>7. \A p \in Seq(Name) : ViewOf(h, p) = View(p)
    BY <1>1, <1>3, <2>1, LoadSees DEF View
  <2>8. heap' = h => Unseen
    BY <2>7 DEF Unseen
  <2>9. \/ Ends(c, "ok") /\ \A p \in Seq(Name) : ViewOf(heap', p) = Effect(loc[c], p)
        \/ Ends(c, "error") /\ heap' = h
        \/ pc'[c] = "walk" /\ heap' = h
        \/ /\ pc'[c] = "walk" /\ Fresh(heap', loc'[c])
           /\ \E t \in Seq(Name) : IsStrictPrefix(t, loc[c].dst) /\ MakesAt(heap, heap', t)
    BY <2>2, <2>3, <2>4, <2>5, <2>6, <2>7, EnterSeen
  <2> QED
    BY <1>1, <2>8, <2>9 DEF Exact
<1> QED
  BY <1>2, <1>3

\* Every step of a call other than build that runs alone is exact.
LEMMA StepSeen ==
  ASSUME HeapOK(heap), CallsOK, NEW c \in Call, Planted(heap, NoCall), EntriesHold(heap), Settled(c),
         InFlight(c), loc[c].op # "build", Step(c)
  PROVE  Exact(c)
<1>1. PICK A, P : RootTree(heap, A, P)
  BY RootPlanted
<1>2. pc[c] # "build"
  BY DEF CallsOK, Waits
<1>3. CASE RequestFails(c)
  <2>1. Ends(c, "error") /\ Unseen /\ pc[c] = "fetch"
    BY <1>2, <1>3, EndsIs DEF RequestFails, Throw, Unseen, View
  <2> QED
    BY <2>1 DEF Exact
<1>4. ~CallWalk(c) /\ ~CallBuild(c)
  BY DEF CallWalk, CallBuild, Begin
<1>5. ~BuildChild(c) /\ ~BuildDict(c)
  BY <1>2, Zenon DEF BuildChild, BuildDict
<1> QED
  BY <1>1, <1>3, <1>4, <1>5, StepInMemorySeen, StepFetchedSeen DEF Step

\* What waits for nothing, or builds, is no walk.
LEMMA NoWalk ==
  ASSUME CallsOK', NEW c \in Call, pc'[c] \in {"idle", "build"}
  PROVE  Found(heap', loc'[c]) /\ Carries(heap', loc'[c])
<1>1. loc'[c].op \notin Walks
  BY DEF CallsOK, Waits, Walks
<1> QED
  BY <1>1 DEF Found, Carries, Walks

\* The step of a call leaves its source where it is.
LEMMA StepCarries ==
  ASSUME HeapOK(heap), CallsOK, HeapOK(heap'), CallsOK', Grows(heap, heap'), NEW c \in Call,
         Planted(heap, NoCall), pc[c] = "fetch" => heap.ents[loc[c].cur].map = 0,
         Found(heap, loc[c]), Carries(heap, loc[c]), Step(c)
  PROVE  Carries(heap', loc'[c])
<1>1. PICK A, P : RootTree(heap, A, P)
  BY RootPlanted
<1>2. \A h : Throw(c, h) => pc'[c] = "idle"
  BY EndsIs DEF Throw, Ends
<1>3. CASE StepInMemory(c)
  <2>1. CASE heap.ents[loc[c].cur].map # 0 /\ Enter(c, heap, heap.ents[loc[c].cur].map)
    <3>1. PICK m : m = heap.ents[loc[c].cur].map
      OBVIOUS
    <3>2. Entered(c, heap, m) /\ Enter(c, heap, m)
      BY <1>3, <2>1, <3>1, GrowsItself DEF Entered, StepInMemory
    <3> QED
      BY <1>1, <3>2, EnterCarries
  <2>2. CASE Throw(c, heap)
    BY <1>2, <2>2, NoWalk
  <2>3. CASE UNCHANGED <<heap, loc, answer, begun>>
    BY <2>3
  <2> QED
    BY <1>3, <2>1, <2>2, <2>3 DEF StepInMemory
<1>4. CASE StepFetched(c)
  <2> DEFINE e == loc[c].cur
  <2>1. pc[c] = "fetch" /\ CallOK(loc[c], heap) /\ heap.ents[e].map = 0
    BY <1>4 DEF CallsOK, StepFetched
  <2>2. CASE ~IsDict(heap.ents[e].val)
    BY <1>2, <1>4, <2>2, NoWalk DEF StepFetched
  <2>3. CASE IsDict(heap.ents[e].val)
    <3>1. PICK h : h = LoadChildren(heap, e)
      OBVIOUS
    <3>2. Enter(c, h, Len(h.maps))
      BY <1>4, <2>3, <3>1 DEF StepFetched
    <3>3. /\ Entered(c, h, Len(h.maps)) /\ KeepsEntries(heap, h) /\ KeepsBut(heap, h, {})
          /\ \E B, Q : RootTree(h, B, Q)
      BY <2>1, <2>3, <3>1, LoadEnters
    <3>4. Found(h, loc[c]) /\ Carries(h, loc[c])
      BY <2>1, <3>3, FoundStays, CarriesStays
    <3>5. PICK B, Q : RootTree(h, B, Q)
      BY <3>3
    <3> QED
      BY <3>2, <3>3, <3>4, <3>5, EnterCarries
  <2> QED
    BY <2>2, <2>3
<1>5. CASE CallWalk(c)
  <2>1. ASSUME NEW op, NEW p, NEW t, NEW a, NEW stage, NEW rest,
               Begin(c, Walk(Asked(op, p, t, a), stage, rest)), op = "move" => stage = "source"
        PROVE  Carries(heap', loc'[c])
    <3>1. PICK q : q = Walk(Asked(op, p, t, a), stage, rest)
      OBVIOUS
    <3>2. q.op = op /\ q.stage = stage
      BY <3>1, AskFields
    <3>3. loc'[c] = q
      BY <2>1, <3>1 DEF Begin, CallsOK
    <3> QED
      BY <2>1, <3>2, <3>3 DEF Carries
  <2>2. PICK p \in Path :
          \/ \E d \in Written : Begin(c, Walk(Asked("write", p, p, d), "target", Front(p)))
          \/ \E k \in Mounted : Begin(c, Walk(Asked("mount", p, p, k), "target", Front(p)))
          \/ \E op \in {"mkdir", "delete"} : Begin(c, Walk(Asked(op, p, p, NoValue), "target", Front(p)))
          \/ \E t \in Path : Begin(c, Walk(Asked("move", p, t, NoValue), "source", Front(p)))
          \/ Begin(c, Walk(Asked("list", p, p, NoValue), "target", p))
    BY <1>5, Zenon DEF CallWalk, Asked
  <2>3. ASSUME NEW d \in Written, Begin(c, Walk(Asked("write", p, p, d), "target", Front(p)))
        PROVE  Carries(heap', loc'[c])
    BY <2>1, <2>3
  <2>4. ASSUME NEW k \in Mounted, Begin(c, Walk(Asked("mount", p, p, k), "target", Front(p)))
        PROVE  Carries(heap', loc'[c])
    BY <2>1, <2>4
  <2>5. ASSUME NEW op \in {"mkdir", "delete"},
               Begin(c, Walk(Asked(op, p, p, NoValue), "target", Front(p)))
        PROVE  Carries(heap', loc'[c])
    BY <2>1, <2>5
  <2>6. ASSUME NEW t \in Path, Begin(c, Walk(Asked("move", p, t, NoValue), "source", Front(p)))
        PROVE  Carries(heap', loc'[c])
    BY <2>1, <2>6
  <2>7. CASE Begin(c, Walk(Asked("list", p, p, NoValue), "target", p))
    BY <2>1, <2>7
  <2> QED
    BY <2>2, <2>3, <2>4, <2>5, <2>6, <2>7
<1>6. CASE CallBuild(c)
  <2>1. pc'[c] \in {"idle", "build"}
    BY <1>6 DEF CallBuild, InFlight, CallsOK
  <2> QED
    BY <2>1, NoWalk
<1>7. CASE BuildChild(c) \/ BuildDict(c) \/ RequestFails(c)
  <2>1. \A v : End(c, "ok", v) => pc'[c] = "idle"
    BY EndsIs DEF Ends
  <2>2. pc'[c] \in {"idle", "build"}
    BY <1>2, <1>7, <2>1, Zenon DEF BuildChild, BuildDict, RequestFails
  <2> QED
    BY <2>2, NoWalk
<1> QED
  BY <1>3, <1>4, <1>5, <1>6, <1>7 DEF Step

\* The paths that the properties compare are paths.
LEMMA VisPaths ==
  Vis \subseteq Seq(Name)
<1> SUFFICES ASSUME NEW p \in Vis PROVE p \in Seq(Name)
  OBVIOUS
<1>1. PICK n \in 1..Depth : p \in [1..n -> Name]
  BY DEF Vis
<1>2. n \in Nat
  BY TreeAssumption
<1> QED
  BY <1>1, <1>2, SeqDef

\* A call that has made a directory has done so before, or does so in this step.
LEMMA MadeIs ==
  ASSUME Track, NEW c \in Call, made'[c]
  PROVE  /\ pc'[c] # "idle"
         /\ \/ made[c]
            \/ InFlight(c) /\ heap' # heap /\ \E p \in Vis : ViewOf(heap', p) # View(p)
BY DEF Track

\* A call that is alone has been so, and the others are not in flight.
LEMMA AloneIs ==
  ASSUME Track, NEW c \in Call, alone'[c]
  PROVE  /\ pc'[c] # "idle" /\ \A o \in Call \ {c} : pc'[o] = "idle"
         /\ InFlight(c) => alone[c]
BY Zenon DEF Track

\* A slot that stays without a call changes nothing.
LEMMA IdleStays ==
  ASSUME CallsOK, NEW c \in Call, ~InFlight(c), Step(c), pc'[c] = "idle"
  PROVE  heap' = heap /\ pc' = pc /\ loc' = loc
<1>1. ~CallWalk(c)
  BY Zenon DEF CallWalk, CallsOK
<1>2. CASE CallBuild(c)
  BY <1>2 DEF CallBuild, CallsOK
<1> QED
  BY <1>1, <1>2, Zenon
  DEF Step, StepInMemory, StepFetched, BuildChild, BuildDict, RequestFails, InFlight

\* A call that runs alone stays settled by its own steps.
LEMMA OwnStepSettles ==
  ASSUME VfsInv, VfsInv', SoloInv, NEW c \in Call, Step(c), Track, ~movesMet, alone'[c]
  PROVE  Settled(c)'
<1>1. PICK w, q : Turn(c, w, q) /\ Outcome(c, q)
  BY StepWell DEF VfsInv
<1>2. /\ HeapOK(heap) /\ CallsOK /\ HeapOK(heap') /\ CallsOK' /\ Grows(heap, heap')
      /\ Planted(heap, NoCall) /\ EntriesHold(heap)
  BY <1>1 DEF VfsInv, Forest, Outcome, SoloInv
<1>3. /\ pc'[c] # "idle"
      /\ InFlight(c) => alone[c] /\ Settled(c)
      /\ ~InFlight(c) => ~made[c]
  BY AloneIs DEF SoloInv
<1>4. /\ pc[c] = "fetch" => heap.ents[loc[c].cur].map = 0
      /\ Found(heap, loc[c]) /\ Carries(heap, loc[c])
  <2>1. CASE InFlight(c)
    BY <1>3, <2>1 DEF Settled
  <2>2. CASE ~InFlight(c)
    <3>1. pc[c] = "idle" /\ loc[c].op = "none"
      BY <1>2, <2>2 DEF InFlight, CallsOK, Waits
    <3> QED
      BY <3>1 DEF Found, Carries, Walks
  <2> QED
    BY <2>1, <2>2
<1>5. Found(heap', loc'[c]) /\ Carries(heap', loc'[c])
  BY <1>2, <1>4, StepKeeps, StepCarries DEF StepFetched, FirstLoad, Keeps
<1>6. CASE ~InFlight(c)
  <2>1. ~made'[c]
    BY <1>3, <1>6, MadeIs
  <2>2. pc'[c] # "fetch"
    BY <1>2, <1>6, Zenon DEF Step, CallWalk, CallBuild, StepInMemory, StepFetched, BuildChild, BuildDict,
                      RequestFails, InFlight, CallsOK
  <2> QED
    BY <1>5, <2>1, <2>2 DEF Settled
<1>7. CASE InFlight(c) /\ loc[c].op = "build"
  <2>1. pc[c] = "build"
    BY <1>2, <1>7 DEF CallsOK, Waits, InFlight, Walks
  <2>2. heap' = heap
    BY <1>7, <2>1, Zenon DEF Step, CallWalk, CallBuild, StepInMemory, StepFetched, BuildChild, BuildDict,
                      RequestFails, Throw, Begin
  <2>3. pc'[c] # "fetch"
    <3>1. pc' = pc \/ \E how, v : End(c, how, v)
      BY <1>7, <2>1, Zenon DEF Step, CallWalk, CallBuild, StepInMemory, StepFetched, BuildChild, BuildDict,
                        RequestFails, Throw, Begin
    <3>2. \A how, v : End(c, how, v) => pc'[c] = "idle"
      BY <1>2, EndsIs DEF Ends
    <3> QED
      BY <1>3, <2>1, <3>1, <3>2
  <2>4. ~made'[c]
    BY <1>3, <1>7, <2>1, <2>2, MadeIs DEF Settled
  <2> QED
    BY <1>5, <2>3, <2>4 DEF Settled
<1>8. CASE InFlight(c) /\ loc[c].op # "build"
  <2>1. Exact(c)
    BY <1>2, <1>3, <1>8, StepSeen
  <2>2. \/ /\ Unseen /\ ~made[c]
           /\ pc'[c] = "fetch" => heap'.ents[loc'[c].cur].map = 0
        \/ pc'[c] = "walk" /\ Fresh(heap', loc'[c])
    BY <1>3, <2>1 DEF Exact, Ends
  <2>3. CASE /\ Unseen /\ ~made[c]
             /\ pc'[c] = "fetch" => heap'.ents[loc'[c].cur].map = 0
    <3>1. ~made'[c]
      BY <2>3, MadeIs, VisPaths DEF Unseen
    <3> QED
      BY <1>5, <2>3, <3>1 DEF Settled
  <2>4. CASE pc'[c] = "walk" /\ Fresh(heap', loc'[c])
    BY <1>5, <2>4 DEF Settled
  <2> QED
    BY <2>2, <2>3, <2>4
<1> QED
  BY <1>6, <1>7, <1>8

\* Every step keeps what is known of the call that runs alone.
LEMMA SoloNext ==
  ASSUME VfsInv, VfsInv', SoloInv, [Next]_vars
  PROVE  SoloInv'
<1>1. CASE Next
  <2>1. PICK x \in Call : Step(x) /\ Track
    BY <1>1 DEF Next
  <2>2. EntriesHold(heap')
    BY <2>1, StepHolds DEF VfsInv, SoloInv
  <2>3. \A c \in Call : alone'[c] => pc'[c] # "idle" /\ \A o \in Call \ {c} : pc'[o] = "idle"
    BY <2>1, AloneIs
  <2>4. \A c \in Call : made'[c] => pc'[c] # "idle"
    BY <2>1, MadeIs
  <2>5. ASSUME ~movesMet', NEW c \in Call, alone'[c] PROVE Settled(c)'
    <3>1. ~movesMet
      BY <2>1, <2>5, Zenon DEF Track
    <3>2. CASE x = c
      BY <2>1, <2>5, <3>1, <3>2, OwnStepSettles
    <3>3. CASE x # c
      <4>1. PICK w, q : Turn(x, w, q)
        BY <2>1, StepWell DEF VfsInv
      <4>2. CallsOK /\ pc'[c] = pc[c] /\ pc'[x] = "idle"
        BY <2>3, <2>5, <3>3, <4>1, Zenon DEF Turn, VfsInv, CallsOK
      <4>3. InFlight(c) /\ alone[c] /\ ~InFlight(x)
        BY <2>1, <2>3, <2>5, <3>3, <4>2, AloneIs DEF InFlight, SoloInv
      <4>4. heap' = heap /\ pc' = pc /\ loc' = loc
        BY <2>1, <4>2, <4>3, IdleStays
      <4>5. made'[c] => made[c]
        BY <2>1, <4>4, MadeIs
      <4>6. Settled(c)
        BY <3>1, <4>3 DEF SoloInv
      <4> QED
        BY <4>4, <4>5, <4>6 DEF Settled
    <3> QED
      BY <3>2, <3>3
  <2> QED
    BY <2>2, <2>3, <2>4, <2>5 DEF SoloInv, InFlight
<1>2. CASE UNCHANGED vars
  <2>1. UNCHANGED <<heap, pc, loc, alone, made, movesMet>>
    BY <1>2 DEF vars, ghosts
  <2> QED
    BY <2>1 DEF SoloInv, Settled, InFlight
<1> QED
  BY <1>1, <1>2

\* Every step is exact for the call that runs alone.
LEMMA SoloStep ==
  ASSUME VfsInv, SoloInv, [Next]_vars, NEW c \in Call
  PROVE  ExactStep(c)
<1> SUFFICES ASSUME ~movesMet, alone[c], InFlight(c), <<pc'[c], loc'[c]>> # <<pc[c], loc[c]>>,
                    loc[c].op # "build"
             PROVE  ExactStep(c)
  BY DEF ExactStep
<1>1. PICK x \in Call : Step(x) /\ Track
  BY DEF Next, vars
<1>2. x = c
  <2>1. PICK w, q : Turn(x, w, q)
    BY <1>1, StepWell DEF VfsInv
  <2> QED
    BY <2>1, Zenon DEF Turn, VfsInv, CallsOK
<1>3. Exact(c)
  BY <1>1, <1>2, StepSeen DEF VfsInv, Forest, SoloInv
<1>4. CASE Ends(c, "ok") /\ \A p \in Seq(Name) : ViewOf(heap', p) = Effect(loc[c], p)
  BY <1>4, VisPaths DEF ExactStep, Ends
<1>5. CASE Ends(c, "error") /\ Unseen /\ (pc[c] = "fetch" \/ ~made[c])
  BY <1>5, VisPaths DEF ExactStep, Ends, Unseen
<1>6. CASE pc'[c] # "idle" /\ Unseen
  BY <1>6, VisPaths DEF ExactStep, Unseen
<1>7. ASSUME pc'[c] = "walk", NEW t \in Seq(Name), IsStrictPrefix(t, loc[c].dst),
             MakesAt(heap, heap', t)
      PROVE  ExactStep(c)
  BY <1>7, VisPaths DEF ExactStep, MakesAt, View
<1> QED
  BY <1>3, <1>4, <1>5, <1>6, <1>7 DEF Exact

\* A call that runs alone changes of the tree what it is called for and no more, as
\* long as no two moves have met (the methods of VirtualFS in vfs.ts, each with the
\* awaits of its walk; loading a directory is never seen).
THEOREM SoloExact == Spec => SoloCallsExact
<1>1. ASSUME Init PROVE SoloInv
  <2>1. EntriesHold(heap)
    BY <1>1 DEF Init, EntriesHold, DirEntry, NodeEntry
  <2> QED
    BY <1>1, <2>1 DEF Init, SoloInv
<1>2. VfsInv /\ VfsInv' /\ SoloInv /\ [Next]_vars => SoloInv'
  BY SoloNext
<1>3. VfsInv /\ SoloInv /\ [Next]_vars => \A c \in Call : ExactStep(c)
  BY SoloStep
<1>4. Spec => [][\A c \in Call : ExactStep(c)]_vars
  BY <1>1, <1>2, <1>3, VfsInductive, PTL DEF Spec
<1> QED
  BY <1>4 DEF SoloCallsExact, ExactStep

-----------------------------------------------------------------------------
(* The places of the maps. *)

\* A heap that keeps its maps, or the maps it had.
LEMMA SamePlaces ==
  ASSUME NEW h, NEW h2,
         \A m \in DOMAIN h.maps : m \in DOMAIN h2.maps /\ h2.maps[m] = h.maps[m]
  PROVE  PlacesStay(h, h2)
BY DEF PlacesStay

\* In two steps.
LEMMA PlacesOn ==
  ASSUME NEW h, NEW g, NEW h2, PlacesStay(h, g), PlacesStay(g, h2)
  PROVE  PlacesStay(h, h2)
BY DEF PlacesStay

\* Only the maps count.
LEMMA PlacesOfMaps ==
  ASSUME NEW h, NEW g, NEW h2, g.maps = h.maps
  PROVE  /\ PlacesStay(g, h2) => PlacesStay(h, h2)
         /\ PlacesStay(h2, g) => PlacesStay(h2, h)
BY DEF PlacesStay

\* Map.set.
LEMMA PutPlaces ==
  ASSUME NEW h, h = [ents |-> h.ents, maps |-> h.maps], h.maps \in Seq(Seq(Slot)),
         NEW m \in DOMAIN h.maps, NEW n, NEW x, NEW h2, h2 = Put(h, m, n, x)
  PROVE  PlacesStay(h, h2)
<1>1. h.maps[m] \in Seq(Slot)
  BY ElementOfSeq
<1>2. /\ Len(h.maps[m]) \in Nat /\ DOMAIN h.maps[m] = 1..Len(h.maps[m])
      /\ \A i \in DOMAIN h.maps[m] : h.maps[m][i] \in Slot
  BY <1>1, LenProperties, ElementOfSeq
<1>3. CASE Has(h, m, n)
  <2>1. PICK p : p = Place(h, m, n)
    OBVIOUS
  <2>2. p \in DOMAIN h.maps[m] /\ h.maps[m][p].ent # 0
    <3>1. p \in Places(h, m, n)
      BY <1>3, <2>1 DEF Has, Place
    <3> QED
      BY <3>1 DEF Places
  <2>3. PICK map : map = [h.maps[m] EXCEPT ![p].ent = x]
    BY Zenon
  <2>4. /\ DOMAIN h2.maps = DOMAIN h.maps /\ h2.maps[m] = map
        /\ \A k \in DOMAIN h.maps : k # m => h2.maps[k] = h.maps[k]
    <3>1. h2 = [h EXCEPT !.maps[m][p].ent = x]
      BY <1>3, <2>1 DEF Put
    <3> QED
      BY <2>3, <3>1
  <2>5. ASSUME NEW i \in DOMAIN h.maps[m]
        PROVE  /\ i \in DOMAIN map /\ map[i].name = h.maps[m][i].name
               /\ map[i].ent # 0 => h.maps[m][i].ent # 0
    <3>1. i \in DOMAIN map
      BY <2>3
    <3>2. CASE i = p
      <4>1. PICK s : s = h.maps[m][i] /\ s \in Slot
        BY <1>2
      <4>2. map[i] = [s EXCEPT !.ent = x]
        BY <2>2, <2>3, <3>2, <4>1
      <4>3. map[i].name = s.name
        BY <4>1, <4>2 DEF Slot
      <4> QED
        BY <2>2, <3>1, <3>2, <4>1, <4>3
    <3>3. CASE i # p
      BY <2>3, <3>1, <3>3
    <3> QED
      BY <3>2, <3>3
  <2> QED
    BY <2>4, <2>5 DEF PlacesStay
<1>4. CASE ~Has(h, m, n)
  <2>1. PICK s : s = [name |-> n, ent |-> x]
    BY Zenon
  <2>2. PICK map : map = Append(h.maps[m], s)
    BY Zenon
  <2>3. /\ DOMAIN h2.maps = DOMAIN h.maps /\ h2.maps[m] = map
        /\ \A k \in DOMAIN h.maps : k # m => h2.maps[k] = h.maps[k]
    <3>1. h2 = [h EXCEPT !.maps[m] = Append(@, s)]
      BY <1>4, <2>1 DEF Put
    <3> QED
      BY <2>2, <3>1
  <2>4. \A i \in DOMAIN h.maps[m] : i \in DOMAIN map /\ map[i] = h.maps[m][i]
    <3>1. PICK old : old = h.maps[m]
      OBVIOUS
    <3>2. PICK T : T = Slot \cup {s}
      BY Zenon
    <3>3. old \in Seq(T) /\ s \in T
      BY <1>1, <3>1, <3>2, SeqMonotonic
    <3>4. /\ DOMAIN Append(old, s) = 1..(Len(old) + 1)
          /\ \A i \in 1..Len(old) : Append(old, s)[i] = old[i]
      BY <3>3, AppendProperties, LenProperties
    <3> QED
      BY <1>2, <2>2, <3>1, <3>4
  <2> QED
    BY <2>3, <2>4 DEF PlacesStay
<1> QED
  BY <1>3, <1>4

\* Map.delete.
LEMMA DelPlaces ==
  ASSUME NEW h, HeapOK(h), NEW m \in DOMAIN h.maps, NEW n, NEW h2, h2 = Del(h, m, n)
  PROVE  PlacesStay(h, h2)
<1>1. h = [ents |-> h.ents, maps |-> h.maps]
  BY DEF HeapOK, Heap
<1>2. CASE Has(h, m, n)
  <2>1. PICK p : p = Place(h, m, n)
    OBVIOUS
  <2>2. PICK map : map = [h.maps[m] EXCEPT ![p].ent = 0]
    BY Zenon
  <2>3. /\ DOMAIN h2.maps = DOMAIN h.maps /\ h2.maps[m] = map
        /\ \A k \in DOMAIN h.maps : k # m => h2.maps[k] = h.maps[k]
    <3>1. h2 = [h EXCEPT !.maps[m][p].ent = 0]
      BY <1>2, <2>1 DEF Del
    <3> QED
      BY <1>1, <2>2, <3>1
  <2>4. ASSUME NEW i \in DOMAIN h.maps[m]
        PROVE  /\ i \in DOMAIN map /\ map[i].name = h.maps[m][i].name
               /\ map[i].ent # 0 => h.maps[m][i].ent # 0
    <3>1. i \in DOMAIN map
      BY <2>2
    <3>2. CASE i = p
      <4>1. PICK s : s = h.maps[m][i] /\ s \in Slot
        BY Sized
      <4>2. map[i] = [s EXCEPT !.ent = 0]
        BY <2>2, <3>2, <4>1
      <4>3. map[i].name = s.name /\ map[i].ent = 0
        BY <4>1, <4>2 DEF Slot
      <4> QED
        BY <3>1, <4>1, <4>3
    <3>3. CASE i # p
      BY <2>2, <3>1, <3>3
    <3> QED
      BY <3>2, <3>3
  <2> QED
    BY <2>3, <2>4 DEF PlacesStay
<1>3. CASE ~Has(h, m, n)
  <2>1. h2 = h
    BY <1>3 DEF Del
  <2> QED
    BY <2>1, SamePlaces
<1> QED
  BY <1>2, <1>3

\* Map.set with a new entry, and with a new directory.
LEMMA PutNewPlaces ==
  ASSUME NEW h, h = [ents |-> h.ents, maps |-> h.maps], h.maps \in Seq(Seq(Slot)),
         NEW m \in DOMAIN h.maps, NEW n, NEW entry, NEW h2, h2 = PutNew(h, m, n, entry)
  PROVE  PlacesStay(h, h2)
<1>1. PICK g : g = [h EXCEPT !.ents = Append(@, entry)]
  BY Zenon
<1>2. g = [ents |-> g.ents, maps |-> g.maps] /\ g.maps = h.maps
  <2>1. g = [ents |-> Append(h.ents, entry), maps |-> h.maps]
    BY <1>1, Zenon
  <2> QED
    BY <2>1
<1>3. h2 = Put(g, m, n, Len(h.ents) + 1)
  BY <1>1 DEF PutNew
<1>4. PlacesStay(g, h2)
  BY <1>2, <1>3, PutPlaces, Zenon
<1> QED
  BY <1>2, <1>4, PlacesOfMaps

LEMMA PutDirPlaces ==
  ASSUME NEW h, HeapOK(h), NEW m \in DOMAIN h.maps, NEW n, NEW h2, h2 = PutDir(h, m, n)
  PROVE  PlacesStay(h, h2)
<1>1. h = [ents |-> h.ents, maps |-> h.maps] /\ h.maps \in Seq(Seq(Slot)) /\ <<>> \in Seq(Slot)
  BY EmptySeq DEF HeapOK, Heap
<1>2. PICK g : g = [h EXCEPT !.maps = Append(@, <<>>)]
  BY Zenon
<1>3. g = [ents |-> h.ents, maps |-> Append(h.maps, <<>>)]
  BY <1>1, <1>2, Zenon
<1>4. g = [ents |-> g.ents, maps |-> g.maps] /\ g.maps = Append(h.maps, <<>>)
  BY <1>3
<1>5. /\ g.maps \in Seq(Seq(Slot)) /\ DOMAIN g.maps = 1..(Len(h.maps) + 1)
      /\ \A i \in 1..Len(h.maps) : g.maps[i] = h.maps[i]
      /\ Len(h.maps) \in Nat /\ DOMAIN h.maps = 1..Len(h.maps)
  BY <1>1, <1>4, AppendProperties, LenProperties
<1>6. PlacesStay(h, g) /\ m \in DOMAIN g.maps
  <2>1. \A k \in DOMAIN h.maps : k \in DOMAIN g.maps /\ g.maps[k] = h.maps[k]
    BY <1>5
  <2> QED
    BY <2>1, SamePlaces
<1>7. PICK d : d = DirEntry(Len(g.maps))
  OBVIOUS
<1>8. h2 = PutNew(g, m, n, d)
  BY <1>2, <1>7 DEF PutDir
<1>9. PlacesStay(g, h2)
  BY <1>4, <1>5, <1>6, <1>8, PutNewPlaces, Zenon
<1> QED
  BY <1>6, <1>9, PlacesOn

\* A step that reaches a directory.
LEMMA EnterPlaces ==
  ASSUME NEW c \in Call, NEW h, NEW m, Entered(c, h, m), Enter(c, h, m)
  PROVE  PlacesStay(h, heap')
<1>1. /\ HeapOK(h) /\ CallOK(loc[c], h) /\ m \in DOMAIN h.maps
      /\ Last(loc[c].path) \in Name /\ Last(loc[c].dst) \in Name
      /\ h = [ents |-> h.ents, maps |-> h.maps] /\ h.maps \in Seq(Seq(Slot))
  BY EnteredFacts, Zenon DEF Entered, HeapOK, Heap
<1>2. ASSUME NEW n, heap' = PutDir(h, m, n) PROVE PlacesStay(h, heap')
  BY <1>1, <1>2, PutDirPlaces, Zenon
<1>3. ASSUME NEW n, NEW entry, heap' = PutNew(h, m, n, entry) PROVE PlacesStay(h, heap')
  BY <1>1, <1>3, PutNewPlaces, Zenon
<1>4. ASSUME heap' = h PROVE PlacesStay(h, heap')
  BY <1>4, SamePlaces
<1>5. CASE loc[c].rest # <<>>
  BY <1>2, <1>4, <1>5 DEF Enter, NextSegment, Throw
<1>6. CASE loc[c].rest = <<>> /\ loc[c].op = "move"
  <2>1. ASSUME loc[c].stage = "target",
               heap' = Del(Put(h, m, Last(loc[c].dst), loc[c].src), loc[c].from, Last(loc[c].path))
        PROVE  PlacesStay(h, heap')
    <3>1. loc[c].src \in DOMAIN h.ents \ {1} /\ loc[c].from \in DOMAIN h.maps
      BY <1>1, <1>6, <2>1 DEF CallOK
    <3>2. PICK g : g = Put(h, m, Last(loc[c].dst), loc[c].src)
      OBVIOUS
    <3>3. HeapOK(g) /\ DOMAIN g.maps = DOMAIN h.maps
      <4>1. \A x \in DOMAIN h.ents \ {1}, n \in Name : \A y : y = Put(h, m, n, x) =>
              HeapOK(y) /\ DOMAIN y.maps = DOMAIN h.maps
        BY <1>1, PutSets
      <4> QED
        BY <1>1, <3>1, <3>2, <4>1
    <3>4. PlacesStay(h, g)
      BY <1>1, <3>2, PutPlaces, Zenon
    <3>5. PlacesStay(g, heap')
      <4>1. heap' = Del(g, loc[c].from, Last(loc[c].path))
        BY <2>1, <3>2
      <4> QED
        BY <3>1, <3>3, <4>1, DelPlaces
    <3> QED
      BY <3>4, <3>5, PlacesOn
  <2>2. MoveStep(c, h, m)
    BY <1>6 DEF Enter
  <2> QED
    BY <1>4, <2>1, <2>2 DEF MoveStep, Throw
<1>7. CASE loc[c].rest = <<>> /\ loc[c].op # "move"
  BY <1>1, <1>2, <1>3, <1>4, <1>7, DelPlaces DEF Enter, SetTarget, Throw
<1> QED
  BY <1>5, <1>6, <1>7

\* Every step leaves the places of the maps.
LEMMA StepPlaces ==
  ASSUME HeapOK(heap), CallsOK, NEW c \in Call, Step(c)
  PROVE  PlacesStay(heap, heap')
<1>1. CASE heap' = heap
  BY <1>1, SamePlaces
<1>2. CASE StepInMemory(c)
  <2>1. CASE heap.ents[loc[c].cur].map # 0 /\ Enter(c, heap, heap.ents[loc[c].cur].map)
    <3>1. PICK m : m = heap.ents[loc[c].cur].map
      OBVIOUS
    <3>2. Entered(c, heap, m) /\ Enter(c, heap, m)
      BY <1>2, <2>1, <3>1, GrowsItself DEF Entered, StepInMemory
    <3> QED
      BY <3>2, EnterPlaces
  <2> QED
    BY <1>1, <1>2, <2>1 DEF StepInMemory, Throw
<1>3. CASE StepFetched(c)
  <2>1. /\ loc[c].cur \in DOMAIN heap.ents /\ heap.ents[loc[c].cur].type = "node"
        /\ pc[c] = "fetch"
    BY <1>3 DEF CallsOK, CallOK, Waits, StepFetched
  <2>2. CASE ~IsDict(heap.ents[loc[c].cur].val)
    BY <1>1, <1>3, <2>2 DEF StepFetched, Throw
  <2>3. CASE IsDict(heap.ents[loc[c].cur].val)
    <3>1. PICK h : h = LoadChildren(heap, loc[c].cur)
      OBVIOUS
    <3>2. Enter(c, h, Len(h.maps))
      BY <1>3, <2>3, <3>1 DEF StepFetched
    <3>3. /\ HeapOK(h) /\ Grows(heap, h) /\ Regrown(heap, h, loc[c].cur, Name) /\ Refilled(heap, h)
          /\ h.ents[loc[c].cur].map = Len(h.maps) /\ h.ents[loc[c].cur].map # 0
          /\ Loaded(heap, h, loc[c].cur)
      BY <2>1, <2>3, <3>1, LoadGrows
    <3>4. KeepsTrees(heap, h)
      BY <2>1, <3>3, RegrownKeeps
    <3>5. Entered(c, h, Len(h.maps))
      BY <2>1, <3>3, <3>4 DEF Entered
    <3>6. PlacesStay(heap, h)
      BY <3>3, SamePlaces DEF Loaded, Grows
    <3>7. PlacesStay(h, heap')
      BY <3>2, <3>5, EnterPlaces
    <3> QED
      BY <3>6, <3>7, PlacesOn
  <2> QED
    BY <2>2, <2>3
<1>4. CASE CallWalk(c) \/ CallBuild(c)
  BY <1>1, <1>4, Zenon DEF CallWalk, CallBuild, Begin
<1>5. CASE BuildChild(c) \/ BuildDict(c) \/ RequestFails(c)
  BY <1>1, <1>5, Zenon DEF BuildChild, BuildDict, RequestFails, Throw
<1> QED
  BY <1>2, <1>3, <1>4, <1>5 DEF Step

-----------------------------------------------------------------------------
(* What stored nodes show. *)

LEMMA StoredStays ==
  ASSUME NEW h, NEW h2, NEW v, NEW r \in Seq(Name)
  PROVE  StoredView(h, v, r) = StoredView(h2, v, r)
<1>1. PICK x : x = NodeEntry([form |-> "node", val |-> v])
  OBVIOUS
<1>2. Twins(x, x)
  BY <1>1 DEF Twins, NodeEntry
<1>3. Shown(EntryFrom(h, x, r)) = Shown(EntryFrom(h2, x, r))
  BY <1>2, TwinsShow
<1> QED
  BY <1>1, <1>3 DEF StoredView

\* A path that is not empty, after another: the first name and the rest.
LEMMA FirstName ==
  ASSUME NEW u \in Seq(Name), NEW r \in Seq(Name), r # <<>>
  PROVE  \E n \in Name : \E s \in Seq(Name) :
           r = Sub(<<>>, n) \o s /\ u \o r = Sub(u, n) \o s
<1>1. /\ Head(r) \in Name /\ Tail(r) \in Seq(Name) /\ <<>> \in Seq(Name)
      /\ Sub(<<>>, Head(r)) \o Tail(r) = <<>> \o r /\ Sub(u, Head(r)) \o Tail(r) = u \o r
  BY HeadFirst, EmptySeq, Zenon
<1>2. r = Sub(<<>>, Head(r)) \o Tail(r)
  BY <1>1, ConcatEmptySeq
<1> QED
  BY <1>1, <1>2, Zenon

\* Below a name of an entry is what that leads to.
LEMMA FromName ==
  ASSUME NEW h, NEW x, NEW n \in Name, NEW s \in Seq(Name)
  PROVE  EntryFrom(h, x, Sub(<<>>, n) \o s) = EntryFrom(h, Child(h, x, n), s)
<1>1. <<>> \in Seq(Name) /\ Sub(<<>>, n) \in Seq(Name)
  BY EmptySeq, SubType, Zenon
<1>2. EntryFrom(h, x, Sub(<<>>, n) \o s) = EntryFrom(h, EntryFrom(h, x, Sub(<<>>, n)), s)
  BY <1>1, FromConcat
<1>3. EntryFrom(h, x, Sub(<<>>, n)) = Child(h, x, n)
  <2>1. EntryFrom(h, x, Sub(<<>>, n)) = Child(h, EntryFrom(h, x, <<>>), n)
    BY <1>1, FromSub, Zenon
  <2>2. EntryFrom(h, x, <<>>) = x
    BY FromRoot
  <2> QED
    BY <2>1, <2>2
<1> QED
  BY <1>2, <1>3

\* A file, or a node that is not loaded, is stored as what it shows.
LEMMA LeafShows ==
  ASSUME NEW h, HeapOK(h), EntriesHold(h), NEW x \in DOMAIN h.ents, h.ents[x].map = 0,
         NEW r \in Seq(Name)
  PROVE  StoredView(h, h.ents[x].val, r) = Shown(EntryFrom(h, h.ents[x], r))
<1>1. PICK y : y = NodeEntry([form |-> "node", val |-> h.ents[x].val])
  OBVIOUS
<1>2. y.type = "node" /\ y.val = h.ents[x].val /\ y.map = 0
  BY <1>1 DEF NodeEntry
<1>3. CASE h.ents[x].type = "node"
  BY <1>1, <1>2, <1>3, TwinsShow DEF Twins, StoredView
<1>4. CASE h.ents[x].type = "pending"
  <2>1. ~IsDict(h.ents[x].val)
    BY <1>4 DEF EntriesHold, IsDict
  <2>2. /\ \A n \in Name : Child(h, y, n) = NoEntry /\ Child(h, h.ents[x], n) = NoEntry
        /\ Shown(y) = Shown(h.ents[x])
    BY <1>2, <1>4, <2>1 DEF Child, Shown
  <2>3. Shown(EntryFrom(h, y, r)) = Shown(EntryFrom(h, h.ents[x], r))
    <3>1. CASE r = <<>>
      BY <2>2, <3>1, FromRoot
    <3>2. CASE r # <<>>
      BY <2>2, <3>2, NoneUnder
    <3> QED
      BY <3>1, <3>2
  <2> QED
    BY <1>1, <2>3 DEF StoredView
<1>5. h.ents[x].type # "dir"
  BY DEF EntriesHold
<1> QED
  BY <1>3, <1>4, <1>5, Sized DEF Entry

\* What a dict shows: that it is one, and at each name what is stored there.
LEMMA DictShows ==
  ASSUME DictsApart, NEW h, NEW names \in SUBSET Name, NEW v, v = [n \in names |-> v[n]]
  PROVE  /\ StoredView(h, v, <<>>) = "dir"
         /\ \A n \in names, s \in Seq(Name) :
              StoredView(h, v, Sub(<<>>, n) \o s) = StoredView(h, v[n], s)
         /\ \A n \in Name \ names, s \in Seq(Name) : StoredView(h, v, Sub(<<>>, n) \o s) = "none"
<1>1. IsDict(v) /\ DOMAIN v = names
  <2>1. v \notin Data
    BY DEF DictsApart
  <2> QED
    BY <2>1 DEF IsDict
<1>2. PICK y : y = NodeEntry([form |-> "node", val |-> v])
  OBVIOUS
<1>3. y.type = "node" /\ y.val = v /\ y.map = 0
  BY <1>2 DEF NodeEntry
<1>4. StoredView(h, v, <<>>) = "dir"
  BY <1>1, <1>2, <1>3, FromRoot DEF StoredView, Shown
<1>5. ASSUME NEW n \in names, NEW s \in Seq(Name)
      PROVE  StoredView(h, v, Sub(<<>>, n) \o s) = StoredView(h, v[n], s)
  <2>1. Child(h, y, n) = NodeEntry([form |-> "node", val |-> v[n]])
    BY <1>1, <1>3 DEF Child
  <2>2. EntryFrom(h, y, Sub(<<>>, n) \o s) = EntryFrom(h, Child(h, y, n), s)
    BY FromName
  <2> QED
    BY <1>2, <2>1, <2>2 DEF StoredView
<1>6. ASSUME NEW n \in Name \ names, NEW s \in Seq(Name)
      PROVE  StoredView(h, v, Sub(<<>>, n) \o s) = "none"
  <2>1. Child(h, y, n) = NoEntry
    BY <1>1, <1>3 DEF Child
  <2>2. EntryFrom(h, y, Sub(<<>>, n) \o s) = EntryFrom(h, Child(h, y, n), s)
    BY FromName
  <2>3. EntryFrom(h, y, Sub(<<>>, n) \o s) = NoEntry
    BY <2>1, <2>2, NothingBelow
  <2> QED
    BY <1>2, <2>3 DEF StoredView, Shown, NoEntry
<1> QED
  BY <1>4, <1>5, <1>6

\* What is shown below a name of a directory that is loaded.
LEMMA BelowName ==
  ASSUME NEW h, HeapOK(h), NEW u, NEW e, Leads(h, u, e), h.ents[e].map # 0, NEW n \in Name,
         NEW s \in Seq(Name)
  PROVE  /\ \A x : Link(h, e, n, x) => ViewOf(h, Sub(u, n) \o s) = Shown(EntryFrom(h, h.ents[x], s))
         /\ (\A x : ~Link(h, e, n, x)) => ViewOf(h, Sub(u, n) \o s) = "none"
<1>1. u \in Seq(Name) /\ e \in DOMAIN h.ents /\ EntryAt(h, u) = h.ents[e] /\ Sub(u, n) \in Seq(Name)
  BY LeadsType, LeadsEntry, SubType, Zenon
<1>2. EntryAt(h, Sub(u, n)) = Child(h, h.ents[e], n)
  BY <1>1, EntryAtOn
<1>3. EntryAt(h, Sub(u, n) \o s) = EntryFrom(h, Child(h, h.ents[e], n), s)
  BY <1>1, <1>2, AtConcat
<1>4. ASSUME NEW x, Link(h, e, n, x)
      PROVE  ViewOf(h, Sub(u, n) \o s) = Shown(EntryFrom(h, h.ents[x], s))
  <2>1. Child(h, h.ents[e], n) = h.ents[x]
    BY <1>1, <1>4, ChildIs
  <2> QED
    BY <1>3, <2>1 DEF ViewOf
<1>5. ASSUME \A x : ~Link(h, e, n, x) PROVE ViewOf(h, Sub(u, n) \o s) = "none"
  <2>1. Child(h, h.ents[e], n) = NoEntry
    BY <1>1, <1>5, ChildIs
  <2>2. EntryAt(h, Sub(u, n) \o s) = NoEntry
    BY <1>3, <2>1, NothingBelow
  <2> QED
    BY <2>2 DEF ViewOf, Shown, NoEntry
<1> QED
  BY <1>4, <1>5

-----------------------------------------------------------------------------
(* What a build has collected. *)

\* Another path set and another heap, that shows the same at these paths.
LEMMA FitStays ==
  ASSUME NEW h, HeapOK(h), NEW h2, HeapOK(h2), PlacesStay(h, h2),
         NEW L \in SUBSET Seq(Name), KeepsBut(h, h2, L),
         \A e \in DOMAIN h.ents : h.ents[e].map # 0 => h2.ents[e].map = h.ents[e].map,
         NEW S \in SUBSET Seq(Name), NEW S2 \in SUBSET S,
         \A p \in S2 : ViewOf(h2, p) = ViewOf(h, p) /\ \A s \in L : ~Below(s, p),
         NEW f, NEW u, NEW N, FrameFits(h, f, u, N, S)
  PROVE  FrameFits(h2, f, u, N, S2)
<1>1. FrameFields(f) /\ u \in Seq(Name)
  BY DEF FrameFits
<1>2. EntriesFit(h2, f.entries, u, S2)
  <2>1. PICK es : es = f.entries
    OBVIOUS
  <2>2. EntriesFit(h, es, u, S)
    BY <2>1 DEF FrameFits
  <2>3. ASSUME NEW j \in DOMAIN es, NEW r \in Seq(Name), Sub(u, es[j].name) \o r \in S2
        PROVE  StoredView(h2, es[j].key.val, r) = ViewOf(h2, Sub(u, es[j].name) \o r)
    <3>1. PICK v, p : v = es[j].key.val /\ p = Sub(u, es[j].name) \o r
      BY Zenon
    <3>2. StoredView(h, v, r) = ViewOf(h, p)
      BY <2>2, <2>3, <3>1 DEF EntriesFit
    <3>3. ViewOf(h2, p) = ViewOf(h, p)
      BY <2>3, <3>1
    <3>4. StoredView(h, v, r) = StoredView(h2, v, r)
      BY StoredStays
    <3> QED
      BY <3>1, <3>2, <3>3, <3>4
  <2> QED
    BY <2>1, <2>2, <2>3 DEF EntriesFit
<1>3. PlacesFit(h2, f, N)
  <2>1. PICK m : m = f.map
    OBVIOUS
  <2>2. /\ m \in DOMAIN h.maps /\ f.pos \in Nat
        /\ \A i \in Nat : 1 <= i /\ i <= f.pos => i \in DOMAIN h.maps[m]
        /\ \A i \in DOMAIN h.maps[m] : i <= f.pos /\ h.maps[m][i].ent # 0 =>
             h.maps[m][i].name \in N \cup {f.entries[j].name : j \in DOMAIN f.entries}
    BY <2>1 DEF FrameFits, PlacesFit
  <2>3. /\ m \in DOMAIN h2.maps
        /\ \A i \in DOMAIN h.maps[m] :
             /\ i \in DOMAIN h2.maps[m] /\ h2.maps[m][i].name = h.maps[m][i].name
             /\ h2.maps[m][i].ent # 0 => h.maps[m][i].ent # 0
    BY <2>2 DEF PlacesStay
  <2>4. \A i \in DOMAIN h2.maps[m] : i \in Nat /\ 1 <= i
    BY <2>3, Sized
  <2>5. ASSUME NEW i \in DOMAIN h2.maps[m], i <= f.pos, h2.maps[m][i].ent # 0
        PROVE  h2.maps[m][i].name \in N \cup {f.entries[j].name : j \in DOMAIN f.entries}
    <3>1. i \in DOMAIN h.maps[m]
      BY <2>2, <2>4, <2>5
    <3> QED
      BY <2>2, <2>3, <2>5, <3>1
  <2>6. \A i \in Nat : 1 <= i /\ i <= f.pos => i \in DOMAIN h2.maps[m]
    BY <2>2, <2>3
  <2> QED
    BY <2>1, <2>2, <2>3, <2>5, <2>6 DEF PlacesFit
<1>4. PathFits(h2, f.map, u, S2)
  <2>1. SUFFICES ASSUME NEW p \in S2, Below(u, p)
                 PROVE  \E e : Leads(h2, u, e) /\ h2.ents[e].map = f.map
    BY DEF PathFits
  <2>2. PICK e : Leads(h, u, e) /\ h.ents[e].map = f.map
    BY <2>1 DEF FrameFits, PathFits
  <2>3. ASSUME NEW s \in L, Below(s, u) PROVE FALSE
    <3>1. Below(s, p)
      BY <1>1, <2>1, <2>3, BelowOn
    <3> QED
      BY <2>1, <3>1
  <2>4. Leads(h2, u, e)
    BY <2>2, <2>3 DEF KeepsBut
  <2>5. e \in DOMAIN h.ents /\ f.map \in DOMAIN h.maps
    BY <2>2, LeadsType DEF FrameFits, PlacesFit
  <2>6. f.map # 0
    BY <2>5, Sized
  <2> QED
    BY <2>2, <2>4, <2>5, <2>6
<1> QED
  BY <1>1, <1>2, <1>3, <1>4 DEF FrameFits

\* The same of all frames.
LEMMA FramesStay ==
  ASSUME NEW h, HeapOK(h), NEW h2, HeapOK(h2), PlacesStay(h, h2),
         NEW L \in SUBSET Seq(Name), KeepsBut(h, h2, L),
         \A e \in DOMAIN h.ents : h.ents[e].map # 0 => h2.ents[e].map = h.ents[e].map,
         NEW S \in SUBSET Seq(Name), NEW S2 \in SUBSET S,
         \A p \in S2 : ViewOf(h2, p) = ViewOf(h, p) /\ \A s \in L : ~Below(s, p),
         NEW fs, NEW u, NEW N, FramesTo(h, fs, u, N, S)
  PROVE  FramesTo(h2, fs, u, N, S2)
<1>1. PICK at : FramesAt(h, fs, at, N, S) /\ at[Len(fs)] = u
  BY DEF FramesTo
<1>2. ASSUME NEW i \in DOMAIN fs PROVE FrameFits(h2, fs[i], at[i], NextName(fs, i, N), S2)
  <2>1. FrameFits(h, fs[i], at[i], NextName(fs, i, N), S)
    BY <1>1 DEF FramesAt
  <2> QED
    BY <2>1, FitStays
<1>3. FramesAt(h2, fs, at, N, S2)
  BY <1>1, <1>2 DEF FramesAt
<1> QED
  BY <1>1, <1>3 DEF FramesTo

\* The frame that a build starts with, at the root.
LEMMA FirstFits ==
  ASSUME NEW h, HeapOK(h), h.ents[1].map # 0, NEW S, NEW n, NEW f, f = Frame(h.ents[1].map, n)
  PROVE  FrameFits(h, f, <<>>, {}, S)
<1>1. f.map = h.ents[1].map /\ f.pos = 0 /\ f.entries = <<>> /\ FrameFields(f)
  BY DEF Frame, FrameFields
<1>2. PICK u, es : u = <<>> /\ es = <<>>
  OBVIOUS
<1>3. u \in Seq(Name) /\ DOMAIN es = {} /\ es \in Seq({})
  BY <1>2, EmptySeq, LenProperties
<1>4. h.ents[1].map \in DOMAIN h.maps
  <2>1. 1 \in DOMAIN h.ents
    BY DEF HeapOK
  <2> QED
    BY <2>1, MapOf
<1>5. EntriesFit(h, es, u, S)
  BY <1>3 DEF EntriesFit
<1>6. PlacesFit(h, f, {})
  <2>1. \A i \in DOMAIN h.maps[f.map] : i \in Nat /\ 1 <= i
    BY <1>1, <1>4, Sized
  <2> QED
    BY <1>1, <1>4, <2>1 DEF PlacesFit
<1>7. PathFits(h, f.map, u, S)
  <2>1. Leads(h, u, 1)
    BY <1>2, LeadsRoot
  <2> QED
    BY <1>1, <2>1 DEF PathFits
<1>8. EntriesFit(h, f.entries, u, S)
  BY <1>1, <1>2, <1>5
<1>9. FrameFits(h, f, u, {}, S)
  BY <1>1, <1>3, <1>6, <1>7, <1>8 DEF FrameFits
<1> QED
  BY <1>2, <1>9

-----------------------------------------------------------------------------
(* The frames of a build, last one first. *)

\* The last frame, and those before it.
LEMMA LastOf ==
  ASSUME NEW T, NEW fs \in Seq(T), fs # <<>>
  PROVE  /\ Len(fs) \in Nat /\ Len(fs) >= 1 /\ DOMAIN fs = 1..Len(fs)
         /\ Front(fs) \in Seq(T) /\ Last(fs) = fs[Len(fs)]
         /\ Len(Front(fs)) = Len(fs) - 1 /\ DOMAIN Front(fs) = 1..(Len(fs) - 1)
         /\ \A i \in 1..(Len(fs) - 1) : Front(fs)[i] = fs[i]
<1>1. /\ Front(fs) \in Seq(T) /\ Last(fs) \in T
      /\ fs = Append(Front(fs), Last(fs))
  BY FrontAndLast
<1>2. PICK up, f : up = Front(fs) /\ f = Last(fs)
  OBVIOUS
<1>3. up \in Seq(T) /\ f \in T /\ fs = Append(up, f)
  BY <1>1, <1>2
<1>4. /\ Len(up) \in Nat /\ DOMAIN up = 1..Len(up)
      /\ Len(fs) = Len(up) + 1 /\ DOMAIN fs = 1..(Len(up) + 1)
      /\ fs[Len(up) + 1] = f /\ \A i \in 1..Len(up) : fs[i] = up[i]
  BY <1>3, AppendProperties, LenProperties
<1> QED
  BY <1>2, <1>3, <1>4

\* What is known of the last frame.
LEMMA LastFits ==
  ASSUME NEW h, NEW fs, NEW u, NEW N, NEW S, FramesTo(h, fs, u, N, S)
  PROVE  FrameFits(h, Last(fs), u, N, S)
<1>1. PICK at : FramesAt(h, fs, at, N, S) /\ at[Len(fs)] = u
  BY DEF FramesTo
<1>2. PICK T : fs \in Seq(T)
  BY <1>1 DEF FramesAt
<1>3. PICK k : k = Len(fs)
  BY Zenon
<1>4. PICK up, f : up = Front(fs) /\ f = Last(fs)
  OBVIOUS
<1>5. fs # <<>> /\ at[1] = <<>> /\ at[k] = u
  BY <1>1, <1>3 DEF FramesAt
<1>6. /\ k \in Nat /\ k >= 1 /\ DOMAIN fs = 1..k
      /\ up \in Seq(T) /\ f = fs[k]
      /\ Len(up) = k - 1 /\ DOMAIN up = 1..(k - 1)
      /\ \A i \in 1..(k - 1) : up[i] = fs[i]
  BY <1>2, <1>3, <1>4, <1>5, LastOf
<1>7. /\ \A i \in 1..k : FrameFits(h, fs[i], at[i], NextName(fs, i, N), S)
      /\ \A i \in 1..k : i < k =>
           fs[i + 1].name \in Name /\ at[i + 1] = Sub(at[i], fs[i + 1].name)
  BY <1>1, <1>3, <1>6, Zenon DEF FramesAt
<1>8. FrameFits(h, f, u, N, S)
  <2>1. NextName(fs, k, N) = N
    BY <1>3, <1>6 DEF NextName
  <2>2. k \in 1..k
    BY <1>6
  <2> QED
    BY <1>5, <1>6, <1>7, <2>1, <2>2
<1> QED
  BY <1>4, <1>8

\* If it is the only one, it is the root's.
LEMMA RootLast ==
  ASSUME NEW h, NEW fs, NEW u, NEW N, NEW S, FramesTo(h, fs, u, N, S), Front(fs) = <<>>
  PROVE  u = <<>>
<1>1. PICK at : FramesAt(h, fs, at, N, S) /\ at[Len(fs)] = u
  BY DEF FramesTo
<1>2. PICK T : fs \in Seq(T)
  BY <1>1 DEF FramesAt
<1>3. PICK k : k = Len(fs)
  OBVIOUS
<1>4. PICK up, f : up = Front(fs) /\ f = Last(fs)
  OBVIOUS
<1>5. fs # <<>> /\ at[1] = <<>> /\ at[k] = u
  BY <1>1, <1>3 DEF FramesAt
<1>6. /\ k \in Nat /\ k >= 1 /\ DOMAIN fs = 1..k
      /\ up \in Seq(T) /\ f = fs[k]
      /\ Len(up) = k - 1 /\ DOMAIN up = 1..(k - 1)
      /\ \A i \in 1..(k - 1) : up[i] = fs[i]
  BY <1>2, <1>3, <1>4, <1>5, LastOf
<1>7. Len(up) = 0
  BY <1>4, EmptySeq
<1> QED
  BY <1>5, <1>6, <1>7

\* What is known of those before it.
LEMMA FrontFits ==
  ASSUME NEW h, NEW fs, NEW u, NEW N, NEW S, FramesTo(h, fs, u, N, S),
         NEW up, up = Front(fs), up # <<>>, NEW n, n = Last(fs).name
  PROVE  FramesOver(h, up, n, u, S)
<1>1. PICK at : FramesAt(h, fs, at, N, S) /\ at[Len(fs)] = u
  BY DEF FramesTo
<1>2. PICK T : fs \in Seq(T)
  BY <1>1 DEF FramesAt
<1>3. PICK k : k = Len(fs)
  OBVIOUS
<1>4. PICK f : f = Last(fs) /\ f.name = n
  OBVIOUS
<1>5. fs # <<>> /\ at[1] = <<>> /\ at[k] = u
  BY <1>1, <1>3 DEF FramesAt
<1>6. /\ k \in Nat /\ k >= 1 /\ DOMAIN fs = 1..k
      /\ up \in Seq(T) /\ f = fs[k]
      /\ Len(up) = k - 1 /\ DOMAIN up = 1..(k - 1)
      /\ \A i \in 1..(k - 1) : up[i] = fs[i]
  BY <1>2, <1>3, <1>4, <1>5, LastOf
<1>7. /\ \A i \in 1..k : FrameFits(h, fs[i], at[i], NextName(fs, i, N), S)
      /\ \A i \in 1..k : i < k =>
           fs[i + 1].name \in Name /\ at[i + 1] = Sub(at[i], fs[i + 1].name)
  BY <1>1, <1>3, <1>6 DEF FramesAt
<1>8. Len(up) # 0
  BY <1>6, EmptySeq
<1>9. k - 1 \in 1..k /\ k - 1 < k /\ k - 1 + 1 = k /\ 1 <= k - 1
  BY <1>6, <1>8
<1>10. f.name \in Name /\ u = Sub(at[k - 1], f.name)
  BY <1>5, <1>6, <1>7, <1>9
<1>11. ASSUME NEW i \in 1..(k - 1)
       PROVE  FrameFits(h, up[i], at[i], NextName(up, i, {f.name}), S)
  <2>1. i \in 1..k /\ i < k /\ up[i] = fs[i]
    BY <1>6
  <2>2. NextName(fs, i, N) = {fs[i + 1].name}
    BY <1>3, <2>1 DEF NextName
  <2>3. NextName(up, i, {f.name}) = {fs[i + 1].name}
    <3>1. CASE i < k - 1
      BY <1>6, <3>1 DEF NextName
    <3>2. CASE i = k - 1
      <4>1. i + 1 = k /\ ~(i < Len(up))
        BY <1>6, <3>2
      <4> QED
        BY <1>6, <4>1 DEF NextName
    <3>3. i < k - 1 \/ i = k - 1
      BY <1>6
    <3> QED
      BY <3>1, <3>2, <3>3, Zenon
  <2> QED
    BY <1>7, <2>1, <2>2, <2>3, Zenon
<1>12. ASSUME NEW i \in 1..(k - 1), i < k - 1
       PROVE  up[i + 1].name \in Name /\ at[i + 1] = Sub(at[i], up[i + 1].name)
  <2>1. i \in 1..k /\ i < k /\ i + 1 \in 1..(k - 1)
    BY <1>6, <1>12
  <2> QED
    BY <1>6, <1>7, <2>1
<1>13. FramesAt(h, up, at, {f.name}, S)
  BY <1>5, <1>6, <1>11, <1>12, Zenon DEF FramesAt
<1>14. FramesTo(h, up, at[k - 1], {f.name}, S)
  BY <1>6, <1>13 DEF FramesTo
<1> QED
  BY <1>4, <1>10, <1>14 DEF FramesOver

\* One frame.
LEMMA OneFrame ==
  ASSUME NEW h, NEW f, NEW u, u = <<>>, NEW N, NEW S, FrameFits(h, f, u, N, S),
         NEW fs, fs = <<f>>
  PROVE  FramesTo(h, fs, u, N, S)
<1>1. /\ fs \in Seq({f}) /\ Len(fs) = 1 /\ DOMAIN fs = {1} /\ fs[1] = f /\ fs # <<>>
  OBVIOUS
<1>2. PICK at : at = [i \in {1} |-> u]
  BY Zenon
<1>3. at[1] = u
  BY <1>2
<1>4. NextName(fs, 1, N) = N
  BY <1>1 DEF NextName
<1>5. FramesAt(h, fs, at, N, S)
  <2>1. at[1] = <<>> /\ fs # <<>> /\ \E T : fs \in Seq(T)
    BY <1>1, <1>3, Zenon
  <2>2. \A i \in DOMAIN fs : FrameFits(h, fs[i], at[i], NextName(fs, i, N), S)
    BY <1>1, <1>3, <1>4
  <2>3. \A i \in DOMAIN fs : ~(i < Len(fs))
    BY <1>1
  <2> QED
    BY <2>1, <2>2, <2>3 DEF FramesAt
<1> QED
  BY <1>1, <1>3, <1>5 DEF FramesTo

\* One frame more.
LEMMA FrameMore ==
  ASSUME NEW h, NEW fs, NEW w, NEW d, d.name \in Name, NEW N, NEW S,
         FramesTo(h, fs, w, {d.name}, S), NEW u, u = Sub(w, d.name), FrameFits(h, d, u, N, S),
         NEW fs2, fs2 = Append(fs, d)
  PROVE  FramesTo(h, fs2, u, N, S)
<1>1. PICK at : FramesAt(h, fs, at, {d.name}, S) /\ at[Len(fs)] = w
  BY DEF FramesTo
<1>2. PICK T0 : fs \in Seq(T0)
  BY <1>1 DEF FramesAt
<1>3. PICK T : T = T0 \cup {d}
  BY Zenon
<1>4. fs \in Seq(T) /\ d \in T
  BY <1>2, <1>3, SeqMonotonic
<1>5. PICK k : k = Len(fs)
  OBVIOUS
<1>6. /\ k \in Nat /\ DOMAIN fs = 1..k /\ fs2 \in Seq(T) /\ Len(fs2) = k + 1
      /\ DOMAIN fs2 = 1..(k + 1) /\ fs2[k + 1] = d /\ \A i \in 1..k : fs2[i] = fs[i]
  BY <1>4, <1>5, AppendProperties, LenProperties
<1>7. k # 0
  BY <1>1, <1>4, <1>5, EmptySeq DEF FramesAt
<1>8. /\ at[1] = <<>> /\ at[k] = w
      /\ \A i \in 1..k : FrameFits(h, fs[i], at[i], NextName(fs, i, {d.name}), S)
      /\ \A i \in 1..k : i < k =>
           fs[i + 1].name \in Name /\ at[i + 1] = Sub(at[i], fs[i + 1].name)
  BY <1>1, <1>5, <1>6, Zenon DEF FramesAt
<1>9. PICK at2 : at2 = [i \in 1..(k + 1) |-> IF i = k + 1 THEN u ELSE at[i]]
  BY Zenon
<1>10. at2[k + 1] = u /\ \A i \in 1..k : at2[i] = at[i]
  BY <1>6, <1>9
<1>11. ASSUME NEW i \in 1..k PROVE FrameFits(h, fs2[i], at2[i], NextName(fs2, i, N), S)
  <2>1. fs2[i] = fs[i] /\ at2[i] = at[i]
    BY <1>6, <1>10
  <2>2. NextName(fs2, i, N) = NextName(fs, i, {d.name})
    <3>1. CASE i < k
      BY <1>5, <1>6, <3>1 DEF NextName
    <3>2. CASE i = k
      <4>1. i < Len(fs2) /\ ~(i < Len(fs)) /\ fs2[i + 1] = d
        BY <1>5, <1>6, <3>2
      <4> QED
        BY <4>1 DEF NextName
    <3> QED
      BY <1>6, <3>1, <3>2
  <2> QED
    BY <1>8, <2>1, <2>2, Zenon
<1>12. FrameFits(h, fs2[k + 1], at2[k + 1], NextName(fs2, k + 1, N), S)
  <2>1. NextName(fs2, k + 1, N) = N
    BY <1>6 DEF NextName
  <2> QED
    BY <1>6, <1>10, <2>1
<1>13. ASSUME NEW i \in 1..(k + 1), i < k + 1
       PROVE  fs2[i + 1].name \in Name /\ at2[i + 1] = Sub(at2[i], fs2[i + 1].name)
  <2>1. CASE i < k
    <3>1. i \in 1..k /\ i + 1 \in 1..k
      BY <1>6, <2>1
    <3> QED
      BY <1>6, <1>8, <1>10, <2>1, <3>1
  <2>2. CASE i = k
    <3>1. i \in 1..k /\ i + 1 = k + 1
      BY <1>6, <1>7, <2>2
    <3> QED
      BY <1>6, <1>8, <1>10, <2>2, <3>1
  <2> QED
    BY <1>6, <1>13, <2>1, <2>2
<1>14. \A i \in 1..(k + 1) : i = k + 1 \/ i \in 1..k
  BY <1>6
<1>15. fs2 # <<>> /\ at2[1] = <<>>
  <2>1. 1 \in 1..k
    BY <1>6, <1>7
  <2>2. Len(fs2) # 0
    BY <1>6
  <2> QED
    BY <1>8, <1>10, <2>1, <2>2, EmptySeq
<1>16. FramesAt(h, fs2, at2, N, S)
  BY <1>6, <1>11, <1>12, <1>13, <1>14, <1>15 DEF FramesAt
<1> QED
  BY <1>6, <1>10, <1>16 DEF FramesTo

-----------------------------------------------------------------------------
(* The steps of a build, frame by frame. *)

\* Another last frame, with the same name.
LEMMA FrameChanged ==
  ASSUME NEW h, NEW fs, NEW u, NEW N, NEW S, FramesTo(h, fs, u, N, S),
         NEW g, g.name = Last(fs).name, NEW M, FrameFits(h, g, u, M, S),
         NEW fs2, fs2 = Append(Front(fs), g)
  PROVE  FramesTo(h, fs2, u, M, S)
<1>1. PICK up, n : up = Front(fs) /\ n = Last(fs).name
  OBVIOUS
<1>2. CASE up = <<>>
  <2>1. u = <<>>
    BY <1>1, <1>2, RootLast, Zenon
  <2>2. fs2 = <<g>>
    BY <1>1, <1>2
  <2> QED
    BY <2>1, <2>2, OneFrame
<1>3. CASE up # <<>>
  <2>1. FramesOver(h, up, n, u, S)
    BY <1>1, <1>3, FrontFits
  <2>2. PICK w : FramesTo(h, up, w, {n}, S) /\ u = Sub(w, n)
    BY <2>1 DEF FramesOver
  <2>3. /\ g.name \in Name /\ FramesTo(h, up, w, {g.name}, S) /\ u = Sub(w, g.name)
        /\ fs2 = Append(up, g)
    BY <1>1, <2>1, <2>2 DEF FramesOver
  <2> QED
    BY <2>3, FrameMore, Zenon
<1> QED
  BY <1>2, <1>3

\* One entry more.
LEMMA EntryMore ==
  ASSUME NEW h, NEW es, NEW u, NEW S, EntriesFit(h, es, u, S), NEW n \in Name, NEW key,
         \A r \in Seq(Name) : Sub(u, n) \o r \in S =>
           StoredView(h, key.val, r) = ViewOf(h, Sub(u, n) \o r),
         NEW es2, es2 = Append(es, [name |-> n, key |-> key])
  PROVE  EntriesFit(h, es2, u, S)
<1>1. PICK T0 : es \in Seq(T0)
  BY DEF EntriesFit
<1>2. PICK x : x = [name |-> n, key |-> key]
  OBVIOUS
<1>3. PICK T : T = T0 \cup {x}
  BY Zenon
<1>4. es \in Seq(T) /\ x \in T
  BY <1>1, <1>3, SeqMonotonic
<1>5. PICK k : k = Len(es)
  OBVIOUS
<1>6. /\ k \in Nat /\ DOMAIN es = 1..k /\ es2 \in Seq(T)
      /\ DOMAIN es2 = 1..(k + 1) /\ es2[k + 1] = x /\ \A i \in 1..k : es2[i] = es[i]
  BY <1>2, <1>4, <1>5, AppendProperties, LenProperties
<1>7. x.name = n /\ x.key = key
  BY <1>2
<1>8. \A j \in DOMAIN es2 : j = k + 1 \/ j \in DOMAIN es
  BY <1>6
<1>9. k + 1 \in DOMAIN es2 /\ DOMAIN es \subseteq DOMAIN es2
  BY <1>6
<1>10. \A j \in DOMAIN es : es2[j] = es[j]
  BY <1>6
<1>11. \A j \in DOMAIN es2 : es2[j].name \in Name
  BY <1>6, <1>7, <1>8, <1>10 DEF EntriesFit
<1>12. ASSUME NEW j \in DOMAIN es2, NEW r \in Seq(Name), Sub(u, es2[j].name) \o r \in S
       PROVE  StoredView(h, es2[j].key.val, r) = ViewOf(h, Sub(u, es2[j].name) \o r)
  BY <1>6, <1>7, <1>8, <1>10, <1>12 DEF EntriesFit
<1>13. EntriesFit(h, es2, u, S)
  BY <1>6, <1>11, <1>12 DEF EntriesFit
<1> QED
  BY <1>13

\* The names of the entries, with one more.
LEMMA NamesMore ==
  ASSUME NEW T0, NEW es \in Seq(T0), NEW n, NEW key,
         NEW es2, es2 = Append(es, [name |-> n, key |-> key]),
         NEW M, \A j \in DOMAIN es2 : es2[j].name \in M
  PROVE  n \in M /\ \A j \in DOMAIN es : es[j].name \in M
<1>1. PICK x : x = [name |-> n, key |-> key]
  OBVIOUS
<1>2. PICK T : T = T0 \cup {x}
  BY Zenon
<1>3. es \in Seq(T) /\ x \in T /\ x.name = n
  BY <1>1, <1>2, SeqMonotonic
<1>4. PICK k : k = Len(es)
  OBVIOUS
<1>5. /\ k \in Nat /\ DOMAIN es = 1..k
      /\ DOMAIN es2 = 1..(k + 1) /\ es2[k + 1] = x /\ \A i \in 1..k : es2[i] = es[i]
  BY <1>1, <1>3, <1>4, AppendProperties, LenProperties
<1>6. k + 1 \in DOMAIN es2 /\ \A j \in DOMAIN es : j \in DOMAIN es2 /\ es2[j] = es[j]
  BY <1>5
<1> QED
  BY <1>3, <1>5, <1>6

\* A frame keeps its name when it gets another entry.
LEMMA SameName ==
  ASSUME NEW f, FrameFields(f), NEW n, NEW key, NEW g, g = Added(f, n, key)
  PROVE  g.name = f.name
<1>1. PICK es : es = Append(f.entries, [name |-> n, key |-> key])
  BY Zenon
<1>2. g = [f EXCEPT !.entries = es]
  BY <1>1 DEF Added
<1> QED
  BY <1>2 DEF FrameFields

\* The entry that a frame waits for is added.
LEMMA FrameFilled ==
  ASSUME NEW h, NEW f, NEW u, NEW S, NEW n \in Name, FrameFits(h, f, u, {n}, S), NEW key,
         \A r \in Seq(Name) : Sub(u, n) \o r \in S =>
           StoredView(h, key.val, r) = ViewOf(h, Sub(u, n) \o r),
         NEW g, g = Added(f, n, key)
  PROVE  FrameFits(h, g, u, {}, S)
<1>1. FrameFields(f) /\ u \in Seq(Name)
  BY DEF FrameFits
<1>2. PICK es2 : es2 = Append(f.entries, [name |-> n, key |-> key])
  BY Zenon
<1>3. g = [map |-> f.map, name |-> f.name, pos |-> f.pos, entries |-> es2]
  <2>1. g = [f EXCEPT !.entries = es2]
    BY <1>2 DEF Added
  <2> QED
    BY <1>1, <2>1 DEF FrameFields
<1>4. g.map = f.map /\ g.name = f.name /\ g.pos = f.pos /\ g.entries = es2 /\ FrameFields(g)
  BY <1>3 DEF FrameFields
<1>5. PICK es : es = f.entries
  OBVIOUS
<1>6. EntriesFit(h, es, u, S)
  BY <1>5 DEF FrameFits
<1>7. EntriesFit(h, es2, u, S)
  <2>1. es2 = Append(es, [name |-> n, key |-> key])
    BY <1>2, <1>5
  <2> QED
    BY <1>6, <2>1, EntryMore, Zenon
<1>8. PlacesFit(h, g, {})
  <2>1. PICK M : M = {es2[j].name : j \in DOMAIN es2}
    BY Zenon
  <2>2. n \in M /\ \A j \in DOMAIN es : es[j].name \in M
    <3>1. PICK T0 : es \in Seq(T0)
      BY <1>6 DEF EntriesFit
    <3>2. es2 = Append(es, [name |-> n, key |-> key]) /\ \A j \in DOMAIN es2 : es2[j].name \in M
      BY <1>2, <1>5, <2>1
    <3> QED
      BY <3>1, <3>2, NamesMore
  <2>3. \A i \in DOMAIN h.maps[f.map] : i <= f.pos /\ h.maps[f.map][i].ent # 0 =>
          h.maps[f.map][i].name \in {n} \cup {es[j].name : j \in DOMAIN es}
    BY <1>5 DEF FrameFits, PlacesFit
  <2>4. \A i \in DOMAIN h.maps[f.map] : i <= f.pos /\ h.maps[f.map][i].ent # 0 =>
          h.maps[f.map][i].name \in M
    BY <2>2, <2>3
  <2>5. /\ f.map \in DOMAIN h.maps /\ f.pos \in Nat
        /\ \A i \in Nat : 1 <= i /\ i <= f.pos => i \in DOMAIN h.maps[f.map]
    BY DEF FrameFits, PlacesFit
  <2>6. M = {} \cup {g.entries[j].name : j \in DOMAIN g.entries}
    BY <1>4, <2>1
  <2> QED
    BY <1>4, <2>4, <2>5, <2>6 DEF PlacesFit
<1>9. PathFits(h, g.map, u, S)
  BY <1>4 DEF FrameFits
<1>10. EntriesFit(h, g.entries, u, S)
  BY <1>4, <1>7
<1> QED
  BY <1>1, <1>4, <1>8, <1>9, <1>10 DEF FrameFits

-----------------------------------------------------------------------------
(* The children of a frame. *)

\* The next place that a build comes to.
LEMMA NextPlace ==
  ASSUME HeapOK(heap), NEW f, NEW u, NEW N, NEW S, FrameFits(heap, f, u, N, S),
         Pending(f) # {}, NEW i, IsNext(f, i), NEW slot, slot = heap.maps[f.map][i]
  PROVE  /\ i \in DOMAIN heap.maps[f.map] /\ i \in Nat /\ i > f.pos
         /\ \A k \in DOMAIN heap.maps[f.map] :
              k <= i /\ heap.maps[f.map][k].ent # 0 => k <= f.pos \/ k = i
         /\ \A k \in Nat : 1 <= k /\ k <= i => k \in DOMAIN heap.maps[f.map]
         /\ slot.name \in Name /\ slot.ent \in DOMAIN heap.ents
         /\ In(heap, f.map, slot.name, slot.ent)
<1>1. PICK m : m = f.map
  OBVIOUS
<1>2. m \in DOMAIN heap.maps /\ f.pos \in Nat
  BY <1>1 DEF FrameFits, PlacesFit
<1>3. /\ Len(heap.maps[m]) \in Nat /\ DOMAIN heap.maps[m] = 1..Len(heap.maps[m])
      /\ \A k \in DOMAIN heap.maps[m] : heap.maps[m][k] \in Slot
  BY <1>2, Sized
<1>4. Pending(f) = {k \in DOMAIN heap.maps[m] : k > f.pos /\ heap.maps[m][k].ent # 0}
  BY <1>1 DEF Pending
<1>5. Pending(f) \in SUBSET Nat
  BY <1>3, <1>4
<1>6. \E x \in Pending(f) : \A y \in Pending(f) : x <= y
  BY <1>5, LeastOne
<1>7. i \in Pending(f) /\ \A y \in Pending(f) : i <= y
  BY <1>6 DEF IsNext
<1>8. i \in DOMAIN heap.maps[m] /\ i \in Nat /\ i > f.pos /\ heap.maps[m][i].ent # 0
  BY <1>4, <1>5, <1>7
<1>9. ASSUME NEW k \in DOMAIN heap.maps[m], k <= i, heap.maps[m][k].ent # 0, ~(k <= f.pos)
      PROVE  k = i
  BY <1>2, <1>3, <1>4, <1>7, <1>8, <1>9
<1>10. \A k \in Nat : 1 <= k /\ k <= i => k \in DOMAIN heap.maps[m]
  BY <1>3, <1>8
<1>11. slot \in Slot /\ slot = heap.maps[m][i] /\ slot.ent # 0
  BY <1>1, <1>3, <1>8
<1>12. slot.name \in Name /\ slot.ent \in Nat
  BY <1>11 DEF Slot
<1>13. slot.ent \in DOMAIN heap.ents
  <2>1. slot.ent \in 0..Len(heap.ents)
    BY <1>2, <1>8, <1>11 DEF HeapOK
  <2> QED
    BY <1>11, <2>1, Sized
<1>14. In(heap, m, slot.name, slot.ent)
  BY <1>8, <1>11 DEF In
<1> QED
  BY <1>1, <1>8, <1>9, <1>10, <1>12, <1>13, <1>14

\* A path of S that goes through a frame's directory to one of its entries.
LEMMA ThroughFrame ==
  ASSUME NEW h, HeapOK(h), NEW f, NEW u, NEW N, NEW S, FrameFits(h, f, u, N, S),
         NEW n \in Name, NEW p \in S, Below(Sub(u, n), p)
  PROVE  \E e : Leads(h, u, e) /\ h.ents[e].map = f.map /\ f.map # 0
<1>1. u \in Seq(Name) /\ f.map \in DOMAIN h.maps
  BY DEF FrameFits, PlacesFit
<1>2. PICK r \in Seq(Name) : p = Sub(u, n) \o r
  BY DEF Below
<1>3. Below(u, Sub(u, n)) /\ Sub(u, n) \in Seq(Name)
  BY <1>1, BelowItself, BelowSub, SubType
<1>4. Below(u, p)
  BY <1>1, <1>2, <1>3, BelowFurther
<1>5. PICK e : Leads(h, u, e) /\ h.ents[e].map = f.map
  BY <1>4 DEF FrameFits, PathFits
<1>6. f.map # 0
  BY <1>1, Sized
<1> QED
  BY <1>5, <1>6

\* A frame that has come to its next place, and waits for its entry.
LEMMA FrameComes ==
  ASSUME HeapOK(heap), NEW f, NEW u, NEW S, FrameFits(heap, f, u, {}, S),
         Pending(f) # {}, NEW i, IsNext(f, i), NEW n, n = heap.maps[f.map][i].name,
         NEW g, g = [f EXCEPT !.pos = i]
  PROVE  FrameFits(heap, g, u, {n}, S) /\ g.name = f.name /\ g.map = f.map
<1>1. FrameFields(f) /\ u \in Seq(Name)
  BY DEF FrameFits
<1>2. g = [map |-> f.map, name |-> f.name, pos |-> i, entries |-> f.entries]
  BY <1>1 DEF FrameFields
<1>3. g.map = f.map /\ g.name = f.name /\ g.pos = i /\ g.entries = f.entries /\ FrameFields(g)
  BY <1>2, Zenon DEF FrameFields
<1>4. PICK slot : slot = heap.maps[f.map][i]
  OBVIOUS
<1>5. /\ i \in DOMAIN heap.maps[f.map] /\ i \in Nat /\ i > f.pos
      /\ \A k \in DOMAIN heap.maps[f.map] :
           k <= i /\ heap.maps[f.map][k].ent # 0 => k <= f.pos \/ k = i
      /\ \A k \in Nat : 1 <= k /\ k <= i => k \in DOMAIN heap.maps[f.map]
  BY <1>4, NextPlace
<1>6. PlacesFit(heap, g, {n})
  BY <1>3, <1>5 DEF FrameFits, PlacesFit
<1>7. EntriesFit(heap, g.entries, u, S) /\ PathFits(heap, g.map, u, S)
  BY <1>3 DEF FrameFits
<1> QED
  BY <1>1, <1>3, <1>6, <1>7 DEF FrameFits

\* A child that is stored as it is.
LEMMA LeafFits ==
  ASSUME HeapOK(heap), EntriesHold(heap), NEW f, NEW u, NEW N, NEW S, FrameFits(heap, f, u, N, S),
         NEW n \in Name, NEW x \in DOMAIN heap.ents, In(heap, f.map, n, x),
         heap.ents[x].map = 0, NEW r \in Seq(Name), Sub(u, n) \o r \in S
  PROVE  StoredView(heap, heap.ents[x].val, r) = ViewOf(heap, Sub(u, n) \o r)
<1>1. u \in Seq(Name)
  BY DEF FrameFits
<1>2. PICK p : p = Sub(u, n) \o r
  BY Zenon
<1>3. p \in S /\ Below(Sub(u, n), p)
  BY <1>2 DEF Below
<1>4. PICK e : Leads(heap, u, e) /\ heap.ents[e].map = f.map /\ f.map # 0
  BY <1>3, ThroughFrame
<1>5. Link(heap, e, n, x)
  BY <1>4 DEF Link
<1>6. ViewOf(heap, Sub(u, n) \o r) = Shown(EntryFrom(heap, heap.ents[x], r))
  BY <1>4, <1>5, BelowName
<1>7. StoredView(heap, heap.ents[x].val, r) = Shown(EntryFrom(heap, heap.ents[x], r))
  BY LeafShows
<1> QED
  BY <1>6, <1>7

\* The directory that a build goes into.
LEMMA DirFits ==
  ASSUME HeapOK(heap), NEW f, NEW u, NEW N, NEW S, FrameFits(heap, f, u, N, S),
         NEW n \in Name, NEW x \in DOMAIN heap.ents, In(heap, f.map, n, x),
         heap.ents[x].map # 0, NEW d, d = Frame(heap.ents[x].map, n), NEW w, w = Sub(u, n)
  PROVE  FrameFits(heap, d, w, {}, S) /\ d.name = n
<1>1. u \in Seq(Name) /\ w \in Seq(Name)
  BY SubType DEF FrameFits
<1>2. d.map = heap.ents[x].map /\ d.pos = 0 /\ d.name = n /\ d.entries = <<>> /\ FrameFields(d)
  BY DEF Frame, FrameFields
<1>3. PICK es : es = <<>>
  OBVIOUS
<1>4. DOMAIN es = {} /\ es \in Seq({})
  BY <1>3, EmptySeq, LenProperties
<1>5. EntriesFit(heap, es, w, S)
  BY <1>4 DEF EntriesFit
<1>6. heap.ents[x].map \in DOMAIN heap.maps
  BY MapOf
<1>7. PlacesFit(heap, d, {})
  <2>1. \A i \in DOMAIN heap.maps[d.map] : i \in Nat /\ 1 <= i
    <3>1. DOMAIN heap.maps[d.map] = 1..Len(heap.maps[d.map]) /\ Len(heap.maps[d.map]) \in Nat
      BY <1>2, <1>6, Sized
    <3> QED
      BY <3>1
  <2> QED
    BY <1>2, <1>6, <2>1 DEF PlacesFit
<1>8. PathFits(heap, d.map, w, S)
  <2>1. SUFFICES ASSUME NEW p \in S, Below(w, p)
                 PROVE  \E e : Leads(heap, w, e) /\ heap.ents[e].map = d.map
    BY DEF PathFits
  <2>2. PICK e : Leads(heap, u, e) /\ heap.ents[e].map = f.map /\ f.map # 0
    BY <2>1, ThroughFrame
  <2>3. Link(heap, e, n, x)
    BY <2>2 DEF Link
  <2>4. Leads(heap, w, x)
    BY <2>2, <2>3, LeadsOn
  <2> QED
    BY <1>2, <2>4
<1>9. EntriesFit(heap, d.entries, w, S)
  BY <1>2, <1>3, <1>5
<1> QED
  BY <1>1, <1>2, <1>7, <1>8, <1>9 DEF FrameFits

-----------------------------------------------------------------------------
(* The node made of a frame. *)

\* The dict of some entries is a function of their names.
LEMMA DictIs ==
  ASSUME NEW es, NEW v, v = DictOf(es), NEW names, names = {es[j].name : j \in DOMAIN es}
  PROVE  v = [n \in names |-> v[n]]
BY DEF DictOf

\* Each name has the node of an entry.
LEMMA DictHas ==
  ASSUME NEW es, NEW v, v = DictOf(es), NEW n, \E j \in DOMAIN es : es[j].name = n
  PROVE  \E j \in DOMAIN es : es[j].name = n /\ v[n] = es[j].key.val
<1>1. PICK k : k = CHOOSE j \in DOMAIN es : es[j].name = n
  OBVIOUS
<1>2. k \in DOMAIN es /\ es[k].name = n
  BY <1>1
<1>3. v[n] = es[k].key.val
  <2>1. n \in {es[j].name : j \in DOMAIN es}
    BY <1>2
  <2> QED
    BY <1>1, <2>1 DEF DictOf
<1> QED
  BY <1>2, <1>3

\* A directory of which every place is passed shows what the dict of its entries shows.
LEMMA DictFits ==
  ASSUME DictsApart, HeapOK(heap), NEW f, NEW u, NEW S, FrameFits(heap, f, u, {}, S),
         Pending(f) = {}, NEW v, v = DictOf(f.entries), NEW r \in Seq(Name), u \o r \in S
  PROVE  StoredView(heap, v, r) = ViewOf(heap, u \o r)
<1>1. PICK es : es = f.entries
  OBVIOUS
<1>2. PICK names : names = {es[j].name : j \in DOMAIN es}
  BY Zenon
<1>3. EntriesFit(heap, es, u, S) /\ u \in Seq(Name) /\ f.map \in DOMAIN heap.maps /\ f.pos \in Nat
  BY <1>1 DEF FrameFits, PlacesFit
<1>4. names \in SUBSET Name
  BY <1>2, <1>3 DEF EntriesFit
<1>5. /\ v = [n \in names |-> v[n]]
      /\ \A n \in names : \E j \in DOMAIN es : es[j].name = n /\ v[n] = es[j].key.val
  <2>1. v = DictOf(es)
    BY <1>1
  <2>2. v = [n \in names |-> v[n]]
    BY <1>2, <2>1, DictIs, Zenon
  <2>3. ASSUME NEW n \in names PROVE \E j \in DOMAIN es : es[j].name = n /\ v[n] = es[j].key.val
    <3>1. \E j \in DOMAIN es : es[j].name = n
      BY <1>2
    <3> QED
      BY <2>1, <3>1, DictHas
  <2> QED
    BY <2>2, <2>3
<1>6. PICK e : Leads(heap, u, e) /\ heap.ents[e].map = f.map
  <2>1. \E p \in S : Below(u, p)
    BY Zenon DEF Below
  <2> QED
    BY <2>1 DEF FrameFits, PathFits
<1>7. f.map # 0
  BY <1>3, Sized
<1>8. CASE r = <<>>
  <2>1. StoredView(heap, v, <<>>) = "dir"
    BY <1>4, <1>5, DictShows
  <2>2. ViewOf(heap, u) = "dir"
    BY <1>6, <1>7, LeadsEntry, LeadsType, Sized DEF Entry, ViewOf, Shown
  <2>3. u \o r = u
    BY <1>3, <1>8, ConcatEmptySeq
  <2> QED
    BY <1>8, <2>1, <2>2, <2>3
<1>9. CASE r # <<>>
  <2>1. PICK n \in Name, s \in Seq(Name) : r = Sub(<<>>, n) \o s /\ u \o r = Sub(u, n) \o s
    BY <1>3, <1>9, FirstName, Zenon
  <2>2. CASE n \in names
    <3>1. PICK j \in DOMAIN es : es[j].name = n /\ v[n] = es[j].key.val
      BY <1>5, <2>2
    <3>2. StoredView(heap, v, Sub(<<>>, n) \o s) = StoredView(heap, v[n], s)
      BY <1>4, <1>5, <2>2, DictShows
    <3>3. Sub(u, n) \o s \in S
      BY <2>1, Zenon
    <3>4. StoredView(heap, es[j].key.val, s) = ViewOf(heap, Sub(u, n) \o s)
      BY <1>3, <3>1, <3>3, Zenon DEF EntriesFit
    <3> QED
      BY <2>1, <3>1, <3>2, <3>4, Zenon
  <2>3. CASE n \notin names
    <3>1. StoredView(heap, v, Sub(<<>>, n) \o s) = "none"
      BY <1>4, <1>5, <2>3, DictShows
    <3>2. ASSUME NEW x, Link(heap, e, n, x) PROVE FALSE
      <4>1. PICK m : m = f.map
        OBVIOUS
      <4>2. PICK i \in DOMAIN heap.maps[m] : heap.maps[m][i].name = n /\ heap.maps[m][i].ent # 0
        BY <1>6, <3>2, <4>1 DEF Link, In
      <4>3. i \in Nat
        BY <1>3, <4>1, Sized
      <4>4. ~(i > f.pos)
        BY <4>1, <4>2 DEF Pending
      <4>5. i <= f.pos
        BY <1>3, <4>3, <4>4
      <4>6. \A k \in DOMAIN heap.maps[m] : k <= f.pos /\ heap.maps[m][k].ent # 0 =>
              heap.maps[m][k].name \in {} \cup {es[j].name : j \in DOMAIN es}
        BY <1>1, <4>1 DEF FrameFits, PlacesFit
      <4> QED
        BY <1>2, <2>3, <4>2, <4>5, <4>6
    <3>3. ViewOf(heap, Sub(u, n) \o s) = "none"
      <4>1. heap.ents[e].map # 0
        BY <1>6, <1>7
      <4> QED
        BY <1>6, <3>2, <4>1, BelowName
    <3> QED
      BY <2>1, <3>1, <3>3, Zenon
  <2> QED
    BY <2>2, <2>3
<1> QED
  BY <1>8, <1>9

-----------------------------------------------------------------------------
(* The steps of a build. *)

\* A sequence and two more, one after the other.
LEMMA OneByOne ==
  ASSUME NEW T, NEW s \in Seq(T), NEW x \in T, NEW y \in T
  PROVE  s \o <<x, y>> = Append(Append(s, x), y)
<1>1. <<x, y>> \in Seq(T) /\ Len(<<x, y>>) = 2 /\ <<x, y>>[1] = x /\ <<x, y>>[2] = y
  OBVIOUS
<1>2. PICK k : k = Len(s) /\ k \in Nat
  BY LenProperties
<1>3. PICK a : a = s \o <<x, y>>
  BY Zenon
<1>4. /\ a \in Seq(T) /\ Len(a) = k + 2
      /\ \A i \in 1..(k + 2) : a[i] = IF i <= k THEN s[i] ELSE <<x, y>>[i - k]
  BY <1>1, <1>2, <1>3, ConcatProperties
<1>5. PICK b : b = Append(s, x)
  BY Zenon
<1>6. b \in Seq(T) /\ Len(b) = k + 1 /\ b[k + 1] = x /\ \A i \in 1..k : b[i] = s[i]
  BY <1>2, <1>5, AppendProperties
<1>7. PICK c : c = Append(b, y)
  BY Zenon
<1>8. c \in Seq(T) /\ Len(c) = k + 2 /\ c[k + 2] = y /\ \A i \in 1..(k + 1) : c[i] = b[i]
  BY <1>2, <1>6, <1>7, AppendProperties
<1>9. ASSUME NEW i \in 1..(k + 2) PROVE a[i] = c[i]
  <2>1. CASE i \in 1..k
    <3>1. i \in 1..(k + 1) /\ i <= k
      BY <1>2, <2>1
    <3> QED
      BY <1>4, <1>6, <1>8, <2>1, <3>1
  <2>2. CASE i = k + 1
    <3>1. i \in 1..(k + 1) /\ ~(i <= k) /\ i - k = 1
      BY <1>2, <2>2
    <3> QED
      BY <1>1, <1>4, <1>6, <1>8, <2>2, <3>1, Zenon
  <2>3. CASE i = k + 2
    <3>1. ~(i <= k) /\ i - k = 2
      BY <1>2, <2>3
    <3> QED
      BY <1>1, <1>4, <1>8, <2>3, <3>1
  <2>4. i \in 1..k \/ i = k + 1 \/ i = k + 2
    BY <1>2
  <2> QED
    BY <2>1, <2>2, <2>3, <2>4
<1>10. a = c
  BY <1>4, <1>8, <1>9, SeqEqual
<1> QED
  BY <1>3, <1>5, <1>7, <1>10

\* The entry of a child that is stored as it is.
LEMMA LeafFilled ==
  ASSUME HeapOK(heap), EntriesHold(heap), NEW f, NEW u, NEW N, NEW S, FrameFits(heap, f, u, N, S),
         NEW n \in Name, NEW x \in DOMAIN heap.ents, In(heap, f.map, n, x), heap.ents[x].map = 0,
         NEW key, key.val = heap.ents[x].val, NEW g, NEW name, FitsAs(heap, g, u, {n}, S, name),
         NEW g2, g2 = Added(g, n, key)
  PROVE  FitsAs(heap, g2, u, {}, S, name)
<1>0. FrameFits(heap, g, u, {n}, S) /\ g.name = name
  BY DEF FitsAs
<1>1. ASSUME NEW r \in Seq(Name), Sub(u, n) \o r \in S
      PROVE  StoredView(heap, key.val, r) = ViewOf(heap, Sub(u, n) \o r)
  BY <1>1, LeafFits
<1>2. FrameFits(heap, g2, u, {}, S)
  BY <1>0, <1>1, FrameFilled, Zenon
<1>3. g2.name = g.name
  <2>1. FrameFields(g)
    BY <1>0 DEF FrameFits
  <2> QED
    BY <2>1, SameName
<1> QED
  BY <1>0, <1>2, <1>3 DEF FitsAs

\* A build goes on to the next child, a file or a node that is not loaded.
LEMMA LeafBuilt ==
  ASSUME HeapOK(heap), EntriesHold(heap), NEW fs, NEW u, NEW S, FramesTo(heap, fs, u, {}, S),
         NEW f, f = Last(fs), Pending(f) # {}, NEW i, IsNext(f, i),
         NEW slot, slot = heap.maps[f.map][i], NEW entry, entry = heap.ents[slot.ent],
         entry.map = 0, NEW g, FrameFits(heap, g, u, {slot.name}, S), g.name = f.name,
         NEW key, key.val = entry.val,
         NEW g2, g2 = Added(g, slot.name, key), NEW fs2, fs2 = Append(Front(fs), g2)
  PROVE  FramesTo(heap, fs2, u, {}, S)
<1>1. FrameFits(heap, f, u, {}, S)
  BY LastFits
<1>2. PICK n, x : n = slot.name /\ x = slot.ent
  BY Zenon
<1>3. n \in Name /\ x \in DOMAIN heap.ents /\ In(heap, f.map, n, x)
  <2>1. slot.name \in Name
    BY <1>1, NextPlace
  <2>2. slot.ent \in DOMAIN heap.ents
    BY <1>1, NextPlace
  <2>3. In(heap, f.map, slot.name, slot.ent)
    BY <1>1, NextPlace
  <2> QED
    BY <1>2, <2>1, <2>2, <2>3, Zenon
<1>4. FrameFits(heap, g, u, {n}, S)
  BY <1>2
<1>5. PICK name : name = f.name
  OBVIOUS
<1>6. FrameFits(heap, g2, u, {}, S) /\ g2.name = name
  <2>1. g2 = Added(g, n, key) /\ heap.ents[x].map = 0 /\ key.val = heap.ents[x].val
    BY <1>2
  <2>2. FitsAs(heap, g, u, {n}, S, name)
    BY <1>4, <1>5 DEF FitsAs
  <2>3. FitsAs(heap, g2, u, {}, S, name)
    BY <1>1, <1>3, <2>1, <2>2, LeafFilled, Zenon
  <2> QED
    BY <2>3 DEF FitsAs
<1>7. fs2 = Append(Front(fs), g2) /\ g2.name = Last(fs).name
  BY <1>5, <1>6
<1> QED
  BY <1>6, <1>7, FrameChanged, Zenon

\* A build goes into the next child, a directory.
LEMMA DirBuilt ==
  ASSUME HeapOK(heap), NEW fs, NEW u, NEW S, FramesTo(heap, fs, u, {}, S),
         NEW f, f = Last(fs), Pending(f) # {}, NEW i, IsNext(f, i),
         NEW slot, slot = heap.maps[f.map][i], NEW entry, entry = heap.ents[slot.ent],
         entry.map # 0, NEW g, g = [f EXCEPT !.pos = i],
         NEW fs1, fs1 = Append(Front(fs), g)
  PROVE  \E w : FramesTo(heap, Append(fs1, Frame(entry.map, slot.name)), w, {}, S)
<1>1. FrameFits(heap, f, u, {}, S)
  BY LastFits
<1>2. PICK n, x : n = slot.name /\ x = slot.ent
  BY Zenon
<1>3. n \in Name /\ x \in DOMAIN heap.ents /\ In(heap, f.map, n, x)
  <2>1. slot.name \in Name
    BY <1>1, NextPlace
  <2>2. slot.ent \in DOMAIN heap.ents
    BY <1>1, NextPlace
  <2>3. In(heap, f.map, slot.name, slot.ent)
    BY <1>1, NextPlace
  <2> QED
    BY <1>2, <2>1, <2>2, <2>3
<1>4. FrameFits(heap, g, u, {n}, S) /\ g.name = f.name /\ g.map = f.map
  BY <1>1, <1>2, FrameComes
<1>5. PICK w, d : w = Sub(u, n) /\ d = Frame(entry.map, n)
  OBVIOUS
<1>6. FrameFits(heap, d, w, {}, S) /\ d.name = n
  <2>1. heap.ents[x].map # 0 /\ d = Frame(heap.ents[x].map, n)
    BY <1>2, <1>5, Zenon
  <2> QED
    BY <1>1, <1>3, <1>5, <2>1, DirFits
<1>7. FramesTo(heap, fs1, u, {n}, S)
  BY <1>4, FrameChanged, Zenon
<1>8. FramesTo(heap, Append(fs1, d), w, {}, S)
  <2>1. d.name \in Name /\ FramesTo(heap, fs1, u, {d.name}, S) /\ w = Sub(u, d.name)
    BY <1>3, <1>5, <1>6, <1>7, Zenon
  <2> QED
    BY <1>6, <2>1, FrameMore, Zenon
<1> QED
  BY <1>2, <1>5, <1>8, Zenon

\* A build leaves a directory.
LEMMA DictBuilt ==
  ASSUME DictsApart, HeapOK(heap), NEW fs, NEW u, NEW S, FramesTo(heap, fs, u, {}, S),
         NEW f, f = Last(fs), Pending(f) = {}, NEW up, up = Front(fs), up # <<>>,
         NEW key, key.val = DictOf(f.entries), NEW g, g = Added(Last(up), f.name, key),
         NEW fs2, fs2 = Append(Front(up), g)
  PROVE  \E w : FramesTo(heap, fs2, w, {}, S)
<1>1. FrameFits(heap, f, u, {}, S)
  BY LastFits
<1>2. PICK n : n = f.name
  OBVIOUS
<1>3. FramesOver(heap, up, n, u, S)
  BY <1>2, FrontFits
<1>4. PICK w : FramesTo(heap, up, w, {n}, S) /\ u = Sub(w, n)
  BY <1>3 DEF FramesOver
<1>5. n \in Name
  BY <1>3 DEF FramesOver
<1>6. PICK l : l = Last(up)
  OBVIOUS
<1>7. FrameFits(heap, l, w, {n}, S)
  BY <1>4, <1>6, LastFits
<1>8. ASSUME NEW r \in Seq(Name), Sub(w, n) \o r \in S
      PROVE  StoredView(heap, key.val, r) = ViewOf(heap, Sub(w, n) \o r)
  BY <1>1, <1>4, <1>8, DictFits
<1>9. FrameFits(heap, g, w, {}, S) /\ g.name = l.name
  <2>1. g = Added(l, n, key)
    BY <1>2, <1>6
  <2>2. FrameFits(heap, g, w, {}, S)
    BY <1>5, <1>7, <1>8, <2>1, FrameFilled, Zenon
  <2>3. FrameFields(l)
    BY <1>7 DEF FrameFits
  <2> QED
    BY <2>1, <2>2, <2>3, SameName
<1>10. FramesTo(heap, fs2, w, {}, S)
  BY <1>4, <1>6, <1>9, FrameChanged, Zenon
<1> QED
  BY <1>10

-----------------------------------------------------------------------------
(* A build and what stays while it is under way. *)

\* The frames of a build that goes into a directory.
LEMMA FramesInto ==
  ASSUME NEW h, NEW fs, NEW u, NEW N, NEW S, FramesTo(h, fs, u, N, S), NEW g, NEW d
  PROVE  Front(fs) \o <<g, d>> = Append(Append(Front(fs), g), d)
<1>1. PICK at : FramesAt(h, fs, at, N, S)
  BY DEF FramesTo
<1>2. PICK T : fs \in Seq(T) /\ fs # <<>>
  BY <1>1 DEF FramesAt
<1>3. PICK F : F = Front(fs)
  OBVIOUS
<1>4. F \in Seq(T)
  BY <1>2, <1>3, LastOf
<1>5. PICK T2 : T2 = T \cup {g, d}
  BY Zenon
<1>6. g \in T2 /\ d \in T2 /\ T \subseteq T2
  BY <1>5
<1>7. F \in Seq(T2)
  BY <1>4, <1>6, SeqMonotonic
<1>8. \A s \in Seq(T2), x, y \in T2 : s \o <<x, y>> = Append(Append(s, x), y)
  BY OneByOne
<1>9. F \o <<g, d>> = Append(Append(F, g), d)
  BY <1>6, <1>7, <1>8, Zenon
<1> QED
  BY <1>3, <1>9

\* A frame that has come to its next place.
LEMMA FrameGoes ==
  ASSUME HeapOK(heap), NEW f, NEW u, NEW S, FrameFits(heap, f, u, {}, S),
         Pending(f) # {}, NEW i, IsNext(f, i), NEW n, n = heap.maps[f.map][i].name
  PROVE  FitsAs(heap, [f EXCEPT !.pos = i], u, {n}, S, f.name)
<1>1. PICK g : g = [f EXCEPT !.pos = i]
  BY Zenon
<1>2. FrameFits(heap, g, u, {n}, S) /\ g.name = f.name
  BY <1>1, FrameComes
<1>3. FitsAs(heap, g, u, {n}, S, f.name)
  BY <1>2 DEF FitsAs
<1> QED
  BY <1>1, <1>3

\* A build that goes on has frames for what it has found.
LEMMA OwnFrames ==
  ASSUME DictsApart, HeapOK(heap), CallsOK, EntriesHold(heap), NEW c \in Call, pc[c] = "build",
         NEW u, NEW S, FramesTo(heap, loc[c].frames, u, {}, S),
         BuildChild(c) \/ BuildDict(c) \/ RequestFails(c), pc'[c] = "build"
  PROVE  \E w : FramesTo(heap, loc'[c].frames, w, {}, S)
<1>1. ASSUME NEW fs, loc' = [loc EXCEPT ![c].frames = fs] PROVE loc'[c].frames = fs
  <2>1. PICK r : r = loc[c]
    OBVIOUS
  <2>2. r = [op |-> r.op, path |-> r.path, dst |-> r.dst, arg |-> r.arg, stage |-> r.stage,
             cur |-> r.cur, rest |-> r.rest, src |-> r.src, from |-> r.from, frames |-> r.frames]
    BY <2>1 DEF CallsOK, CallOK
  <2>3. loc'[c] = [r EXCEPT !.frames = fs]
    BY <1>1, <2>1 DEF CallsOK
  <2> QED
    BY <2>2, <2>3
<1>2. ASSUME NEW how, NEW v, End(c, how, v) PROVE FALSE
  <2>1. pc'[c] = "idle"
    BY <1>2, EndsIs DEF Ends
  <2> QED
    BY <2>1
<1>3. ~Throw(c, heap)
  BY <1>2 DEF Throw
<1>4. CASE BuildChild(c)
  <2> DEFINE old == loc[c].frames
  <2> DEFINE f == Last(old)
             i == CHOOSE x \in Pending(f) : \A y \in Pending(f) : x <= y
             slot == heap.maps[f.map][i]
             entry == heap.ents[slot.ent]
             g == [f EXCEPT !.pos = i]
             key == [form |-> entry.form, val |-> entry.val]
             added == Append(Front(old), Added(g, slot.name, key))
             into == Front(old) \o <<g, Frame(entry.map, slot.name)>>
             fs == IF Unchanged(entry) THEN added ELSE into
  <2>1. Pending(f) # {} /\ loc' = [loc EXCEPT ![c].frames = fs]
    BY <1>4, Zenon DEF BuildChild
  <2>2. /\ f = Last(old) /\ IsNext(f, i)
        /\ slot = heap.maps[f.map][i] /\ entry = heap.ents[slot.ent] /\ g = [f EXCEPT !.pos = i]
        /\ key.val = entry.val
        /\ added = Append(Front(old), Added(g, slot.name, key))
        /\ into = Front(old) \o <<g, Frame(entry.map, slot.name)>>
        /\ fs = IF entry.map = 0 THEN added ELSE into
    BY Zenon DEF IsNext, Unchanged
  <2>3. FramesTo(heap, old, u, {}, S)
    OBVIOUS
  <2>4. loc'[c].frames = fs
    <3> HIDE DEF fs
    <3> QED
      BY <1>1, <2>1, Zenon
  <2> HIDE DEF old, f, i, slot, entry, g, key, added, into, fs
  <2>5. CASE entry.map = 0
    <3>1. FrameFits(heap, f, u, {}, S)
      BY <2>2, <2>3, LastFits, Zenon
    <3>2. PICK n : n = slot.name
      OBVIOUS
    <3>3. FrameFits(heap, g, u, {n}, S) /\ g.name = f.name
      <4>1. n = heap.maps[f.map][i].name
        BY <2>2, <3>2, Zenon
      <4>2. Pending(f) # {} /\ IsNext(f, i)
        BY <2>1, <2>2, Zenon
      <4>3. FitsAs(heap, [f EXCEPT !.pos = i], u, {n}, S, f.name)
        BY <3>1, <4>1, <4>2, FrameGoes
      <4>4. FitsAs(heap, g, u, {n}, S, f.name)
        BY <2>2, <4>3, Zenon
      <4> QED
        BY <4>4 DEF FitsAs
    <3>4. FramesTo(heap, added, u, {}, S)
      BY <2>1, <2>2, <2>3, <2>5, <3>2, <3>3, LeafBuilt, Zenon
    <3> QED
      BY <2>2, <2>4, <2>5, <3>4, Zenon
  <2>6. CASE entry.map # 0
    <3>1. PICK d : d = Frame(entry.map, slot.name)
      OBVIOUS
    <3>2. into = Append(Append(Front(old), g), d)
      <4>1. \A x, y : Front(old) \o <<x, y>> = Append(Append(Front(old), x), y)
        BY <2>3, FramesInto
      <4>2. Front(old) \o <<g, d>> = Append(Append(Front(old), g), d)
        BY <4>1, Zenon
      <4>3. into = Front(old) \o <<g, d>>
        BY <2>2, <3>1, Zenon
      <4> QED
        BY <4>2, <4>3
    <3>3. PICK fs1 : fs1 = Append(Front(old), g)
      BY Zenon
    <3>4. \E w : FramesTo(heap, Append(fs1, Frame(entry.map, slot.name)), w, {}, S)
      BY <2>1, <2>2, <2>3, <2>6, <3>3, DirBuilt, Zenon
    <3>5. fs = Append(fs1, Frame(entry.map, slot.name))
      BY <2>2, <2>6, <3>1, <3>2, <3>3, Zenon
    <3> QED
      BY <2>4, <3>4, <3>5
  <2> QED
    BY <2>5, <2>6
<1>5. CASE BuildDict(c)
  <2> DEFINE old == loc[c].frames
             f == Last(old)
             up == Front(old)
             key == [form |-> "hex", val |-> DictOf(f.entries)]
             g == Added(Last(up), f.name, key)
             fs == Append(Front(up), g)
  <2>1. /\ Pending(f) = {} /\ up # <<>> /\ loc' = [loc EXCEPT ![c].frames = fs]
    BY <1>2, <1>3, <1>5 DEF BuildDict
  <2>2. /\ f = Last(old) /\ up = Front(old) /\ key.val = DictOf(f.entries)
        /\ g = Added(Last(up), f.name, key) /\ fs = Append(Front(up), g)
    OBVIOUS
  <2>3. FramesTo(heap, old, u, {}, S)
    OBVIOUS
  <2>4. loc'[c].frames = fs
    <3> HIDE DEF fs
    <3> QED
      BY <1>1, <2>1, Zenon
  <2> HIDE DEF old, f, up, key, g, fs
  <2>5. \E w : FramesTo(heap, fs, w, {}, S)
    BY <2>1, <2>2, <2>3, DictBuilt, Zenon
  <2> QED
    BY <2>4, <2>5
<1>6. CASE RequestFails(c)
  BY <1>3, <1>6 DEF RequestFails
<1> QED
  BY <1>4, <1>5, <1>6

-----------------------------------------------------------------------------
(* What stays while a build is under way. *)

\* A step of a walk does not build.
LEMMA EnterWalks ==
  ASSUME CallsOK, NEW c \in Call, NEW h, NEW m, Enter(c, h, m)
  PROVE  pc'[c] # "build"
<1>1. \A q : Continue(c, q) => pc'[c] = "walk"
  BY GoesIs DEF Goes
<1>2. \A how, v : End(c, how, v) => pc'[c] = "idle"
  BY EndsIs DEF Ends
<1>3. \A g : Throw(c, g) => pc'[c] = "idle"
  BY <1>2 DEF Throw
<1>4. Done(c) => pc'[c] = "idle"
  BY <1>2 DEF Done
<1>5. NextSegment(c, h, m) => pc'[c] # "build"
  BY <1>1, <1>3 DEF NextSegment
<1>6. MoveStep(c, h, m) => pc'[c] # "build"
  BY <1>1, <1>3, <1>4 DEF MoveStep
<1>7. SetTarget(c, h, m) => pc'[c] # "build"
  BY <1>3, <1>4 DEF SetTarget
<1> QED
  BY <1>5, <1>6, <1>7 DEF Enter

\* After a step of call c it builds if it has just begun to, or goes on to.
LEMMA BuildFrom ==
  ASSUME CallsOK, NEW c \in Call, Step(c), pc'[c] = "build"
  PROVE  \/ ~InFlight(c) /\ CallBuild(c)
         \/ pc[c] = "build" /\ (BuildChild(c) \/ BuildDict(c) \/ RequestFails(c))
<1>1. \A h : Throw(c, h) => pc'[c] = "idle"
  BY EndsIs DEF Throw, Ends
<1>2. ~CallWalk(c)
  BY Zenon DEF CallWalk, CallsOK
<1>3. CallBuild(c) => ~InFlight(c)
  BY DEF CallBuild, Begin
<1>4. ~StepInMemory(c)
  BY <1>1, EnterWalks DEF StepInMemory, CallsOK
<1>5. ~StepFetched(c)
  BY <1>1, EnterWalks DEF StepFetched
<1>6. ~RequestFails(c)
  BY <1>1 DEF RequestFails
<1>7. BuildChild(c) \/ BuildDict(c) => pc[c] = "build"
  BY Zenon DEF BuildChild, BuildDict
<1> QED
  BY <1>2, <1>3, <1>4, <1>5, <1>6, <1>7 DEF Step

\* A path is steady as long as what is there is, and no call that ended has changed it.
LEMMA SteadyIs ==
  ASSUME Track, NEW c \in Call, NEW o \in Call, InFlight(o), pc'[o] = "build"
  PROVE  \A p \in steady'[o] :
           /\ p \in steady[o]
           /\ p \in Vis => ViewOf(heap', p) = View(p)
           /\ \A s \in Losses(c) : ~IsPrefix(s, p)
<1> DEFINE changed == IF heap' = heap THEN {} ELSE {p \in Vis : ViewOf(heap', p) # View(p)}
           ok == {y \in Call : (InFlight(y) /\ pc'[y] = "idle") /\ answer'[y].how = "ok"}
           done == UNION {Changes(loc[x]) : x \in ok}
<1>1. steady'[o] = {p \in steady[o] \ changed : \A s \in done : ~IsPrefix(s, p)}
  BY DEF Track
<1>2. \A p \in Vis \ changed : ViewOf(heap', p) = View(p)
  BY DEF View
<1>3. Losses(c) \subseteq done
  BY DEF Losses, Ends
<1> HIDE DEF changed, done
<1> QED
  BY <1>1, <1>2, <1>3

\* Only such paths are.
LEMMA SteadyVis ==
  ASSUME Track, NEW o \in Call, steady[o] \subseteq Vis
  PROVE  steady'[o] \subseteq Vis
BY DEF Track

\* A build begins with the root.
LEMMA BuildBegins ==
  ASSUME HeapOK(heap), CallsOK, NEW c \in Call, CallBuild(c), pc'[c] = "build", ~InFlight(c), NEW S
  PROVE  heap' = heap /\ \E u : FramesTo(heap, loc'[c].frames, u, {}, S)
<1> DEFINE root == heap.ents[1]
           f == Frame(root.map, "")
           fs == <<f>>
           b == [NoCall EXCEPT !.op = "build"]
           q == [b EXCEPT !.frames = fs]
<1>1. root.map # 0 /\ Begin(c, q)
  BY DEF CallBuild, CallsOK, InFlight
<1>2. heap' = heap /\ loc'[c] = q
  BY <1>1 DEF Begin, CallsOK
<1>3. q.frames = fs
  <2> HIDE DEF fs
  <2>1. PICK y : y = b
    BY Zenon
  <2>2. y = [op |-> "build", path |-> <<>>, dst |-> <<>>, arg |-> NoValue, stage |-> "target",
             cur |-> 1, rest |-> <<>>, src |-> 0, from |-> 0, frames |-> <<>>]
    BY <2>1 DEF NoCall
  <2>3. q = [y EXCEPT !.frames = fs]
    BY <2>1
  <2> QED
    BY <2>2, <2>3
<1>4. FramesTo(heap, fs, <<>>, {}, S)
  <2>1. \A n, x : x = Frame(heap.ents[1].map, n) => FrameFits(heap, x, <<>>, {}, S)
    BY <1>1, FirstFits
  <2>2. FrameFits(heap, f, <<>>, {}, S)
    BY <2>1, Zenon
  <2>3. PICK x, u : x = f /\ u = <<>>
    BY Zenon
  <2> HIDE DEF f
  <2>4. FrameFits(heap, x, u, {}, S)
    BY <2>2, <2>3
  <2>5. FramesTo(heap, <<x>>, u, {}, S)
    BY <2>3, <2>4, OneFrame
  <2> QED
    BY <2>3, <2>5
<1> HIDE DEF fs, q
<1> QED
  BY <1>2, <1>3, <1>4

\* The frames of a build after a step of call c that leaves it building.
LEMMA SteadyStep ==
  ASSUME DictsApart, VfsInv, KeptInv, SoloInv, SteadyInv, NEW c \in Call, Step(c), Track
  PROVE  SteadyInv'
<1>1. \A o \in Call : steady'[o] \subseteq Vis
  BY SteadyVis DEF SteadyInv
<1> SUFFICES ASSUME ~reloaded', ~movesMet', ~displaced', NEW o \in Call, pc'[o] = "build"
             PROVE  \E u : FramesTo(heap', loc'[o].frames, u, {}, steady'[o])
  BY <1>1 DEF SteadyInv
<1>2. PICK w, q : Turn(c, w, q) /\ Outcome(c, q)
  BY StepWell DEF VfsInv
<1>3. ~reloaded /\ ~movesMet /\ ~displaced /\ NoReload
  BY Zenon DEF Track, NoReload
<1>4. /\ HeapOK(heap) /\ CallsOK /\ HeapOK(heap') /\ Grows(heap, heap') /\ Planted(heap, NoCall)
      /\ Found(heap, loc[c]) /\ EntriesHold(heap)
  BY <1>2, <1>3 DEF VfsInv, Forest, Outcome, KeptInv, Standing, SoloInv
<1>5. Keeps(c)
  BY <1>3, <1>4, LoadsFirst, StepKeeps
<1>6. PlacesStay(heap, heap')
  BY <1>4, StepPlaces
<1>7. CASE ~InFlight(o)
  <2>1. o = c
    BY <1>2, <1>4, <1>7, Zenon DEF Turn, CallsOK, InFlight
  <2>2. CallBuild(c)
    BY <1>4, <1>7, <2>1, BuildFrom DEF InFlight
  <2> QED
    BY <1>4, <1>7, <2>1, <2>2, BuildBegins
<1>8. CASE InFlight(o)
  <2>1. /\ pc[o] = "build"
        /\ o = c => BuildChild(c) \/ BuildDict(c) \/ RequestFails(c)
        /\ o # c => loc'[o] = loc[o]
    BY <1>2, <1>4, <1>8, BuildFrom, Zenon DEF Turn, CallsOK
  <2>2. PICK u : FramesTo(heap, loc[o].frames, u, {}, steady[o])
    BY <1>3, <2>1 DEF SteadyInv
  <2>3. \E v : FramesTo(heap, loc'[o].frames, v, {}, steady[o])
    BY <1>4, <2>1, <2>2, OwnFrames
  <2>4. PICK v, fs : FramesTo(heap, fs, v, {}, steady[o]) /\ fs = loc'[o].frames
    BY <2>3
  <2>5. PICK L : L = Losses(c)
    OBVIOUS
  <2>6. /\ L \in SUBSET Seq(Name) /\ KeepsBut(heap, heap', L)
        /\ \A e \in DOMAIN heap.ents : heap.ents[e].map # 0 => heap'.ents[e].map = heap.ents[e].map
    BY <1>3, <1>4, <1>5, <2>5, LossesType DEF Keeps, NoReload
  <2>7. steady[o] \in SUBSET Seq(Name) /\ steady'[o] \in SUBSET steady[o]
    BY <1>8, SteadyIs, VisPaths DEF SteadyInv
  <2>8. ASSUME NEW p \in steady'[o]
        PROVE  ViewOf(heap', p) = ViewOf(heap, p) /\ \A s \in L : ~Below(s, p)
    BY <1>1, <1>8, <2>5, <2>6, VisPaths, SteadyIs, BelowIsPrefix DEF View
  <2>9. FramesTo(heap', fs, v, {}, steady'[o])
    <3>1. PICK h, h2, S, S2 : h = heap /\ h2 = heap' /\ S = steady[o] /\ S2 = steady'[o]
      OBVIOUS
    <3>2. /\ HeapOK(h) /\ HeapOK(h2) /\ PlacesStay(h, h2) /\ KeepsBut(h, h2, L)
          /\ \A e \in DOMAIN h.ents : h.ents[e].map # 0 => h2.ents[e].map = h.ents[e].map
      BY <1>4, <1>6, <2>6, <3>1
    <3>3. S \in SUBSET Seq(Name) /\ S2 \in SUBSET S /\ FramesTo(h, fs, v, {}, S)
      BY <2>4, <2>7, <3>1
    <3>4. \A p \in S2 : ViewOf(h2, p) = ViewOf(h, p) /\ \A s \in L : ~Below(s, p)
      BY <2>8, <3>1
    <3>5. FramesTo(h2, fs, v, {}, S2)
      BY <2>6, <3>2, <3>3, <3>4, FramesStay
    <3> QED
      BY <3>1, <3>5
  <2> QED
    BY <2>4, <2>9
<1> QED
  BY <1>7, <1>8

\* Every step keeps what is known of builds.
LEMMA SteadyNext ==
  ASSUME DictsApart, VfsInv, KeptInv, SoloInv, SteadyInv, [Next]_vars
  PROVE  SteadyInv'
<1>1. CASE Next
  BY <1>1, SteadyStep DEF Next
<1>2. CASE UNCHANGED vars
  BY <1>2 DEF vars, ghosts, SteadyInv
<1> QED
  BY <1>1, <1>2

\* A build that has ended has answered the node of the root.
LEMMA BuildAnswers ==
  ASSUME CallsOK, NEW c \in Call, pc[c] = "build", Step(c), pc'[c] = "idle", answer'[c].how = "ok"
  PROVE  \E f : /\ f = Last(loc[c].frames) /\ Front(loc[c].frames) = <<>> /\ Pending(f) = {}
                /\ answer'[c].val = DictOf(f.entries)
<1>1. \A h : Throw(c, h) => answer'[c].how = "error"
  BY EndsIs DEF Throw, Ends
<1>2. BuildDict(c)
  BY <1>1, Zenon DEF Step, CallWalk, CallBuild, Begin, InFlight, StepInMemory, StepFetched, BuildChild,
              RequestFails, CallsOK
<1>3. PICK f : f = Last(loc[c].frames)
  OBVIOUS
<1>4. ASSUME NEW v, End(c, "ok", v) PROVE answer'[c].val = v
  BY <1>4, EndsIs
<1>5. pc' # pc
  BY DEF CallsOK
<1>6. /\ Pending(f) = {} /\ Front(loc[c].frames) = <<>>
      /\ End(c, "ok", DictOf(f.entries))
  BY <1>1, <1>2, <1>3, <1>5 DEF BuildDict
<1> QED
  BY <1>3, <1>4, <1>6

\* A step that ends a build answers what is at the steady paths.
LEMMA SteadyEnd ==
  ASSUME DictsApart, VfsInv, SteadyInv, [Next]_vars, NEW c \in Call
  PROVE  SteadyAnswer(c)
<1> SUFFICES ASSUME ~reloaded, ~movesMet, ~displaced, pc[c] = "build", pc'[c] = "idle",
                    answer'[c].how = "ok", NEW p \in steady[c]
             PROVE  ViewIn(answer'[c].val, p) = View(p)
  BY DEF SteadyAnswer
<1>1. PICK x \in Call : Step(x)
  BY DEF Next, vars
<1>2. x = c
  <2>1. PICK w, q : Turn(x, w, q)
    BY <1>1, StepWell DEF VfsInv
  <2> QED
    BY <2>1, Zenon DEF Turn, VfsInv, CallsOK
<1>3. HeapOK(heap) /\ CallsOK
  BY DEF VfsInv
<1>4. PICK f : /\ f = Last(loc[c].frames) /\ Front(loc[c].frames) = <<>> /\ Pending(f) = {}
               /\ answer'[c].val = DictOf(f.entries)
  BY <1>1, <1>2, <1>3, BuildAnswers
<1>5. PICK u, fs, S : FramesTo(heap, fs, u, {}, S) /\ fs = loc[c].frames /\ S = steady[c]
  BY DEF SteadyInv
<1>6. u = <<>>
  BY <1>4, <1>5, RootLast
<1>7. FrameFits(heap, f, u, {}, S)
  BY <1>4, <1>5, LastFits
<1>8. PICK v : v = DictOf(f.entries)
  OBVIOUS
<1>9. p \in Seq(Name) /\ u \o p = p
  <2>1. p \in Seq(Name)
    BY VisPaths DEF SteadyInv
  <2> QED
    BY <1>6, <2>1, ConcatEmptySeq
<1>10. StoredView(heap, v, p) = ViewOf(heap, p)
  <2>1. PICK r : r = p
    OBVIOUS
  <2>2. r \in Seq(Name) /\ u \o r \in S
    BY <1>5, <1>9, <2>1, Zenon
  <2>3. Pending(f) = {}
    BY <1>4
  <2>4. StoredView(heap, v, r) = ViewOf(heap, u \o r)
    BY <1>3, <1>7, <1>8, <2>2, <2>3, DictFits
  <2> QED
    BY <1>9, <2>1, <2>4
<1> QED
  BY <1>4, <1>8, <1>10 DEF StoredView, ViewIn, View

\* What a build answers has, at every path that showed the same from its call to its
\* answer, and that no other call set or removed, nor a directory above it, exactly
\* that: unless a directory was loaded twice, two moves have met or a directory was
\* displaced beside a call below it (buildEntry of vfs.ts beside the other calls).  A
\* file's content is taken to be no dict.
THEOREM SteadyBuilds == DictsApart => (Spec => BuildsSteadyPaths)
<1> SUFFICES ASSUME DictsApart PROVE Spec => BuildsSteadyPaths
  OBVIOUS
<1>1. ASSUME Init PROVE KeptInv /\ SoloInv /\ SteadyInv
  <2>1. \A c \in Call : Found(heap, loc[c])
    BY <1>1, NoCallIs DEF Init, Found, Walks
  <2>2. KeptInv
    BY <1>1, <2>1 DEF Init, KeptInv, Apart, Untouched, Standing, InFlight
  <2>3. EntriesHold(heap)
    BY <1>1 DEF Init, EntriesHold, DirEntry, NodeEntry
  <2>4. SoloInv
    BY <1>1, <2>3 DEF Init, SoloInv
  <2>5. SteadyInv
    BY <1>1 DEF Init, SteadyInv
  <2> QED
    BY <2>2, <2>4, <2>5
<1>2. VfsInv /\ VfsInv' /\ KeptInv /\ [Next]_vars => KeptInv'
  BY KeptNext
<1>3. VfsInv /\ VfsInv' /\ SoloInv /\ [Next]_vars => SoloInv'
  BY SoloNext
<1>4. VfsInv /\ KeptInv /\ SoloInv /\ SteadyInv /\ [Next]_vars => SteadyInv'
  BY SteadyNext
<1>5. VfsInv /\ SteadyInv /\ [Next]_vars => \A c \in Call : SteadyAnswer(c)
  BY SteadyEnd
<1>6. Spec => [][\A c \in Call : SteadyAnswer(c)]_vars
  BY <1>1, <1>2, <1>3, <1>4, <1>5, VfsInductive, PTL DEF Spec
<1> QED
  BY <1>6 DEF BuildsSteadyPaths, SteadyAnswer

=============================================================================
