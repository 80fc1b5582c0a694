------------------------ MODULE VirtualFS_invariants ------------------------
(***************************************************************************)
(* What the proofs about VirtualFS say of the heap, of the calls and of    *)
(* their steps: the inductive invariants, and the notions they are made    *)
(* of.  The theorems are in VirtualFS_proofs.                              *)
(*                                                                         *)
(* That the tree stays a tree follows from an invariant about the whole    *)
(* heap (VfsInv).  The entries that can be reached from the root are in a  *)
(* tree: each has a path that no other has, that of the entry that holds   *)
(* it and its name there.  The move that is in flight either has its       *)
(* source at the path it was called with, or in a second tree, which other *)
(* calls have cut off from the first.  Whatever a call does to the heap    *)
(* but the last step of a move adds entries below one entry, and may cut   *)
(* off what was there; the last step of a move gives what it moves other   *)
(* paths.                                                                  *)
(*                                                                         *)
(* The answered writes are the other direction (KeptInv): what stays       *)
(* linked.  A step takes away no links but those of the paths its call     *)
(* changes, because each walk knows the path that leads to where it has    *)
(* come to.                                                                *)
(*                                                                         *)
(* For the call that runs alone (SoloInv), what is seen at every path is   *)
(* compared before and after a step: loading a directory shows nothing     *)
(* new, and a change of links under some names shows only below the paths  *)
(* of those names.                                                         *)
(*                                                                         *)
(* The last follows what a build has collected (SteadyInv): each directory *)
(* that it is inside of is where a path that stays leads to, the places it *)
(* has passed keep their names, and the entries it has made show what is   *)
(* at theirs.                                                              *)
(***************************************************************************)
EXTENDS VirtualFS

-----------------------------------------------------------------------------
(* Paths. *)

\* The path q leads to a place at p or below it.
Below(p, q) == \E r \in Seq(Name) : q = p \o r

\* The path of a name in the directory at p.
Sub(p, n) == Append(p, n)

\* What follows p in a path below it.
Beyond(p, q) == CHOOSE r \in Seq(Name) : q = p \o r

-----------------------------------------------------------------------------
(* The heap. *)

Value == Data \cup Node \cup {NoValue}

Entry == [type : {"node", "pending", "dir"}, val : Value, form : Form, map : Nat]

Slot == [name : Name, ent : Nat]

\* Map m has entry x under the name n.
In(h, m, n, x) ==
  x # 0 /\ \E i \in DOMAIN h.maps[m] : h.maps[m][i].name = n /\ h.maps[m][i].ent = x

Heap == [ents : Seq(Entry), maps : Seq(Seq(Slot))]

\* No two entries own one map, and no map has a name twice.  Entry 1, the root,
\* is in no map.
HeapOK(h) ==
  /\ h \in Heap
  /\ 1 \in DOMAIN h.ents
  /\ \A e \in DOMAIN h.ents :
       /\ h.ents[e].map \in 0..Len(h.maps)
       /\ h.ents[e].type = "node" => h.ents[e].val \in Node
  /\ \A m \in DOMAIN h.maps : \A i \in DOMAIN h.maps[m] :
       h.maps[m][i].ent \in (0..Len(h.ents)) \ {1}
  /\ \A e, f \in DOMAIN h.ents :
       h.ents[e].map = h.ents[f].map /\ h.ents[e].map # 0 => e = f
  /\ \A m \in DOMAIN h.maps : \A i, j \in DOMAIN h.maps[m] :
       /\ h.maps[m][i].ent # 0 /\ h.maps[m][j].ent # 0
       /\ h.maps[m][i].name = h.maps[m][j].name
       => i = j

\* What a heap keeps whatever is done to it: entries and maps are only added.
Grows(h, h2) ==
  /\ DOMAIN h.ents \subseteq DOMAIN h2.ents /\ Len(h.ents) <= Len(h2.ents)
  /\ DOMAIN h.maps \subseteq DOMAIN h2.maps /\ Len(h.maps) <= Len(h2.maps)
  /\ \A e \in DOMAIN h.ents : h2.ents[e].type = h.ents[e].type

\* Entry e holds entry x under the name n.
Link(h, e, n, x) == h.ents[e].map # 0 /\ In(h, h.ents[e].map, n, x)

\* Under the names K, the entry k holds none but new entries, each of which is in
\* one place and holds nothing; else nothing is held that was not before.
Regrown(h, h2, k, K) ==
  /\ \A e \in DOMAIN h.ents : h2.ents[e].map = h.ents[e].map \/ (e = k /\ K = Name)
  /\ \A e \in DOMAIN h2.ents, n \in Name : \A x : Link(h2, e, n, x) =>
       \/ e \in DOMAIN h.ents /\ ~(e = k /\ n \in K) /\ Link(h, e, n, x)
       \/ e = k /\ n \in K /\ x \in DOMAIN h2.ents \ DOMAIN h.ents
  /\ \A n, l \in Name : \A x :
       x \notin DOMAIN h.ents /\ Link(h2, k, n, x) /\ Link(h2, k, l, x) => n = l

\* The maps of h hold in h2 what they held, and new entries.
Refilled(h, h2) ==
  \A m \in DOMAIN h.maps : \A n \in Name : \A x :
    In(h2, m, n, x) => In(h, m, n, x) \/ x \notin DOMAIN h.ents

\* The links of entry k are those of the node it holds, and the rest is as it was.
Loaded(h, h2, k) ==
  /\ \A e \in DOMAIN h.ents \ {k} : h2.ents[e] = h.ents[e]
  /\ \A m \in DOMAIN h.maps : h2.maps[m] = h.maps[m]
  /\ \A n \in Name : \A x : Link(h2, k, n, x) =>
       /\ n \in DOMAIN h.ents[k].val
       /\ h2.ents[x] = NodeEntry([form |-> "node", val |-> h.ents[k].val[n]])
  /\ \A n \in DOMAIN h.ents[k].val : \E x : Link(h2, k, n, x)
  /\ \A e \in DOMAIN h2.ents \ DOMAIN h.ents : h2.ents[e].type = "node"

-----------------------------------------------------------------------------
(* Trees. *)

\* The entries of A are closed under what they hold, and P gives each a path of
\* its own: that of the entry that holds it, and the name.
Tree(h, A, P) ==
  /\ A \subseteq DOMAIN h.ents
  /\ \A e \in A, n \in Name : \A x : Link(h, e, n, x) => x \in A /\ P[x] = Sub(P[e], n)
  /\ \A e, f \in A : P[e] = P[f] => e = f

\* What a move has reached is where its path says, or in the tree B that was cut off.
Follows(h, q, A, B, P) ==
  q.op = "move" =>
    /\ q.stage = "source" =>
         \/ q.cur \in B
         \/ q.cur \in A /\ P[q.cur] \o q.rest = Front(q.path)
    /\ q.stage = "origin" =>
         \/ q.src \in B
         \/ /\ q.src \in A /\ P[q.src] = q.path
            /\ q.cur \in A /\ P[q.cur] \o q.rest = Front(q.path)
    /\ q.stage = "target" =>
         \/ q.src \in B
         \/ /\ q.src \in A /\ P[q.src] = q.path
            /\ \E e \in A : P[e] = Front(q.path) /\ h.ents[e].map = q.from

\* The root is in a tree, and a move that is in flight follows it.
Planted(h, q) ==
  \E P \in [Nat -> Seq(Name)], A \in SUBSET Nat, B \in SUBSET Nat :
    /\ 1 \in A /\ P[1] = <<>> /\ A \cap B = {}
    /\ Tree(h, A, P) /\ Tree(h, B, P)
    /\ Follows(h, q, A, B, P)

\* The entries of X below the places that k has under the names K.
Cut(X, P, k, K) == {d \in X : \E n \in K : Below(Sub(P[k], n), P[d])}

\* The new entries that k holds, and their paths.
Grown(h, h2, k) == {x \in DOMAIN h2.ents \ DOMAIN h.ents : \E n \in Name : Link(h2, k, n, x)}

NameOf(h2, k, x) == CHOOSE n \in Name : Link(h2, k, n, x)

PathsOn(h, h2, k, P) ==
  [x \in Nat |-> IF x \in Grown(h, h2, k) THEN Sub(P[k], NameOf(h2, k, x)) ELSE P[x]]

\* The path in a tree at l of what was below p, and what is beyond l there.
Moved(p, l, q) == l \o Beyond(p, q)

\* The links of h2 are those of h, but that entry k holds s under the name n, and
\* nothing is held under the name j in the map from.
Relinked(h, h2, k, n, s, from, j) ==
  \A e \in DOMAIN h.ents : \A i \in Name : \A x : Link(h2, e, i, x) =>
    /\ ~(h.ents[e].map = from /\ i = j)
    /\ IF e = k /\ i = n THEN x = s ELSE Link(h, e, i, x)

\* The tree of s, that is A itself or a tree beside it, is put into A below an
\* entry k that is not in it, and taken from where it was.
CanGraft(h, A, X, P, k, n, s, from, j) ==
  /\ P \in [Nat -> Seq(Name)] /\ A \in SUBSET Nat /\ X \in SUBSET Nat
  /\ Tree(h, A, P) /\ Tree(h, X, P) /\ (X = A \/ A \cap X = {})
  /\ 1 \in A /\ P[1] = <<>> /\ s \in X /\ k \in A /\ n \in Name /\ j \in Name
  /\ X = A => P[s] # <<>>
  /\ k \in X => ~Below(P[s], P[k])
  /\ X = A => \A e \in A : \A i \in Name : Link(h, e, i, s) => h.ents[e].map = from /\ i = j

-----------------------------------------------------------------------------
(* Builds.  What a build is inside of may have been cut off from the tree.   *)
(* There is no circle in it as long as no directory is put below itself; and *)
(* a move whose target is not below its source puts none there, wherever the *)
(* two are by the time of its last step.  For that, a move is followed in    *)
(* what was the tree when it started: there its source and its target have   *)
(* the paths it was called with, for good.                                   *)

\* The entries of R are closed under what they hold, and P gives each a path: that
\* of every entry that holds it, and the name.
Region(h, R, P) ==
  /\ R \subseteq DOMAIN h.ents
  /\ \A e \in R, n \in Name : \A x : Link(h, e, n, x) => x \in R /\ P[x] = Sub(P[e], n)

\* What a move has reached was where its path says.
OnCourse(h, q) ==
  q.op = "move" =>
    \E P \in [Nat -> Seq(Name)], R \in SUBSET Nat :
      /\ 1 \in R /\ P[1] = <<>> /\ Region(h, R, P)
      /\ q.stage = "source" => q.cur \in R /\ P[q.cur] \o q.rest = Front(q.path)
      /\ q.stage # "source" => q.src \in R /\ P[q.src] = q.path
      /\ q.stage = "target" => q.cur \in R /\ P[q.cur] \o q.rest = Front(q.dst)

\* The entries of X are closed under what they hold, and have no circle: of any
\* of them, one at least is held by none of these.
Sourced(h, X) ==
  /\ X \subseteq DOMAIN h.ents
  /\ \A e \in X, n \in Name : \A x : Link(h, e, n, x) => x \in X
  /\ \A S \in SUBSET X : S # {} => \E e \in S : \A f \in S, n \in Name : ~Link(h, f, n, e)

\* The maps that hold entries of X only.
FilledMaps(h, X) ==
  {m \in DOMAIN h.maps : \A n \in Name : \A x : In(h, m, n, x) => x \in X}

FrameFields(f) == f = [map |-> f.map, name |-> f.name, pos |-> f.pos, entries |-> f.entries]

\* The frames of fs are of maps in M.
FramesIn(fs, M) == \E S : fs \in Seq(S) /\ \A f \in S : FrameFields(f) /\ f.map \in M

\* The directories of the frames hold entries without a circle.
NoCircle(h, fs) == fs # <<>> /\ \E X : Sourced(h, X) /\ FramesIn(fs, FilledMaps(h, X))

\* What a build is inside of has no circle.
BuildSafe(h, q) == q.op = "build" => NoCircle(h, q.frames)

-----------------------------------------------------------------------------
(* Calls. *)

Walks == {"write", "mkdir", "mount", "delete", "move", "list"}

CallOK(q, h) ==
  /\ q = [op |-> q.op, path |-> q.path, dst |-> q.dst, arg |-> q.arg, stage |-> q.stage,
          cur |-> q.cur, rest |-> q.rest, src |-> q.src, from |-> q.from, frames |-> q.frames]
  /\ q.op \in Ops \cup {"none"}
  /\ q.path \in Seq(Name) /\ q.dst \in Seq(Name) /\ q.rest \in Seq(Name)
  /\ q.op \in Walks => q.path # <<>> /\ q.dst # <<>>
  /\ q.op = "mount" => q.arg \in Mounted
  /\ q.op = "write" => q.arg \in Written
  /\ q.cur \in DOMAIN h.ents
  /\ q.src \in 0..Len(h.ents)
  /\ q.from \in 0..Len(h.maps)
  /\ q.op # "build" => q.frames = <<>>
  /\ q.op = "move" =>
       /\ q.stage \in {"source", "origin", "target"}
       /\ q.stage # "source" => q.src \in DOMAIN h.ents \ {1}
       /\ q.stage = "target" => q.from \in DOMAIN h.maps

\* What a call waits for goes with what it does.
Waits(w, q, h) ==
  /\ w \in {"idle", "walk", "fetch", "build"}
  /\ w = "idle" => q.op = "none"
  /\ w \in {"walk", "fetch"} => q.op \in Walks
  /\ w = "fetch" => h.ents[q.cur].type = "node"
  /\ w = "build" => q.op = "build"

CallsOK ==
  /\ pc = [c \in Call |-> pc[c]]
  /\ loc = [c \in Call |-> loc[c]]
  /\ answer = [c \in Call |-> answer[c]]
  /\ \A c \in Call :
       /\ CallOK(loc[c], heap)
       /\ Waits(pc[c], loc[c], heap)
       /\ answer[c].how \in {"none", "ok", "error"}
  /\ begun \in 0..MaxCalls

\* A step of call c that leaves it with q, waiting for w.
Turn(c, w, q) ==
  /\ pc' = [pc EXCEPT ![c] = w]
  /\ loc' = [loc EXCEPT ![c] = q]
  /\ \/ answer' = answer
     \/ \E how \in {"none", "ok", "error"} : \E v :
          answer' = [answer EXCEPT ![c] = [how |-> how, val |-> v]]
  /\ begun' = begun \/ (begun < MaxCalls /\ begun' = begun + 1)
  /\ CallOK(q, heap')
  /\ Waits(w, q, heap')

\* Heap h2 keeps builds without a circle.
KeepsBuilds(h, h2) == \A q : BuildSafe(h, q) => BuildSafe(h2, q)

\* Heap h2 keeps whatever is planted in h, moves on their course and builds.
KeepsTrees(h, h2) ==
  /\ \A q : /\ Planted(h, q)
            /\ q.op = "move" => q.path \in Seq(Name) /\ q.path # <<>> /\ q.rest \in Seq(Name)
            => Planted(h2, q)
  /\ \A q : OnCourse(h, q) => OnCourse(h2, q)
  /\ KeepsBuilds(h, h2)

\* What a step of call c does to the heap, when it leaves the call with q.
Outcome(c, q) ==
  /\ HeapOK(heap') /\ Grows(heap, heap')
  /\ Planted(heap, loc[c]) => Planted(heap', q)
  /\ Planted(heap, loc[c]) /\ OnCourse(heap, loc[c]) => OnCourse(heap', q)
  /\ Planted(heap, loc[c]) /\ BuildSafe(heap, loc[c]) => BuildSafe(heap', q)
  /\ \/ KeepsTrees(heap, heap')
     \/ /\ loc[c].op = "move" /\ q = NoCall
        /\ OnCourse(heap, loc[c]) /\ ~IsPrefix(loc[c].path, loc[c].dst) => KeepsBuilds(heap, heap')

-----------------------------------------------------------------------------
(* The steps of a walk. *)

\* A call has reached a directory, with map m in h, that a step of its own may
\* have loaded.
Entered(c, h, m) ==
  /\ HeapOK(heap) /\ CallsOK /\ pc[c] \in {"walk", "fetch"}
  /\ HeapOK(h) /\ Grows(heap, h) /\ KeepsTrees(heap, h)
  /\ h.ents[loc[c].cur].map = m /\ m # 0

\* What a walk has got to is named by the next segment.
StepsOn(r, x) == r.op = "move" => Link(heap', r.cur, Head(r.rest), x)

\* The record of a call, field by field.
Fields(q) ==
  q = [op |-> q.op, path |-> q.path, dst |-> q.dst, arg |-> q.arg, stage |-> q.stage,
       cur |-> q.cur, rest |-> q.rest, src |-> q.src, from |-> q.from, frames |-> q.frames]

-----------------------------------------------------------------------------
(* The calls, and the steps of a build. *)

Asked(op, p, t, a) == [NoCall EXCEPT !.op = op, !.path = p, !.dst = t, !.arg = a]

-----------------------------------------------------------------------------
(* The inductive invariant. *)

\* As long as no two moves have met, the root is in a tree of which the move that
\* is in flight, if one is, knows where it has come to.
Forest ==
  ~movesMet =>
    /\ \A c, o \in Call : loc[c].op = "move" /\ loc[o].op = "move" => c = o
    /\ Planted(heap, NoCall)
    /\ \A c \in Call : Planted(heap, loc[c])

\* As long as no two moves have met, a move stays on its course.
Course == ~movesMet => \A c \in Call : OnCourse(heap, loc[c])

\* Unless a directory is moved into itself beside a build, what a build is inside
\* of has no circle.
Builds ==
  ~movesMet /\ ~inside =>
    /\ \A c, o \in Call :
         loc[c].op = "move" /\ IsPrefix(loc[c].path, loc[c].dst) => loc[o].op # "build"
    /\ \A c \in Call : BuildSafe(heap, loc[c])

VfsInv == HeapOK(heap) /\ CallsOK /\ Forest /\ Course /\ Builds

-----------------------------------------------------------------------------
(* The maps of the tree. *)

\* The maps of what map m holds.
MapsBelow(m) ==
  {heap.ents[e].map : e \in {heap.maps[m][i].ent : i \in DOMAIN heap.maps[m]} \ {0}}

\* What TreeMaps computes, level by level.
IsWithin(within, d) ==
  within = [n \in 0..d |->
    IF n = 0 THEN {heap.ents[1].map}
             ELSE within[n - 1] \cup UNION {MapsBelow(m) : m \in within[n - 1] \ {0}}]

-----------------------------------------------------------------------------
(* Where paths lead.  A write that is answered stays where its path leads as *)
(* long as every link on the way does.                                       *)

\* Pairs of a path and an entry: the root at the empty path, and with every entry
\* what it holds.
ClosedIn(h, S) ==
  /\ <<<<>>, 1>> \in S
  /\ \A u \in Seq(Name), a \in DOMAIN h.ents, n \in Name : \A x :
       <<u, a>> \in S /\ Link(h, a, n, x) => <<Sub(u, n), x>> \in S

\* The path p leads from the root to the entry e.
Leads(h, p, e) ==
  \A S \in SUBSET (Seq(Name) \X DOMAIN h.ents) : ClosedIn(h, S) => <<p, e>> \in S

\* A tree that has the root, at the empty path.
RootTree(h, A, P) == P \in [Nat -> Seq(Name)] /\ Tree(h, A, P) /\ 1 \in A /\ P[1] = <<>>

\* The entries stay as they are, but that a node may get a map.
KeepsEntries(h, h2) ==
  \A e \in DOMAIN h.ents :
    /\ e \in DOMAIN h2.ents
    /\ h2.ents[e].type = h.ents[e].type /\ h2.ents[e].val = h.ents[e].val
    /\ h2.ents[e].form = h.ents[e].form
    /\ h2.ents[e].map = h.ents[e].map \/ (h.ents[e].map = 0 /\ h.ents[e].type = "node")

\* A change of the heap that leaves the links alone but for the places of T, pairs
\* of a map and a name.
Spares(h, h2, T) ==
  /\ KeepsEntries(h, h2)
  /\ \A m \in DOMAIN h.maps, n \in Name : \A x :
       In(h, m, n, x) => In(h2, m, n, x) \/ <<m, n>> \in T

\* Every place of T is that of a path of S.
PlacesOf(h, T, S) ==
  \A m \in DOMAIN h.maps, n \in Name : <<m, n>> \in T =>
    \E u, e : Leads(h, u, e) /\ h.ents[e].map = m /\ m # 0 /\ Sub(u, n) \in S

\* The paths that lead somewhere still do, but those below a path of S.
KeepsBut(h, h2, S) ==
  \A p, e : Leads(h, p, e) /\ (\A s \in S : ~Below(s, p)) => Leads(h2, p, e)

\* What EntryFrom computes, name by name.
IsFrom(h, x, p, at) ==
  at = [i \in 0..Len(p) |-> IF i = 0 THEN x ELSE Child(h, at[i - 1], p[i])]

\* How a step leaves call c: it ends, or goes on with q.
Ends(c, how) == pc'[c] = "idle" /\ loc'[c].op = "none" /\ answer'[c].how = how

Goes(c, q) == pc'[c] = "walk" /\ loc'[c] = q

\* The paths whose links a step of call c may take away.
Losses(c) == IF InFlight(c) /\ Ends(c, "ok") THEN Changes(loc[c]) ELSE {}

\* The places of these.
Lost(c, h) ==
  IF Losses(c) = {} THEN {}
  ELSE {<<h.ents[loc[c].cur].map, Last(loc[c].dst)>>}
         \cup (IF loc[c].op = "move" THEN {<<loc[c].from, Last(loc[c].path)>>} ELSE {})

\* The path of the directory that a walk is to.
Goal(q) == IF q.op = "move" /\ q.stage # "target" THEN Front(q.path) ELSE Front(q.dst)

\* What a call that walks knows of where it has come to; a list goes to its path
\* itself, and changes nothing.
Found(h, q) ==
  q.op \in Walks \ {"list"} =>
    /\ \E u : Leads(h, u, q.cur) /\ u \o q.rest = Goal(q)
    /\ q.op = "move" /\ q.stage = "target" =>
         \E f : Leads(h, Front(q.path), f) /\ h.ents[f].map = q.from
    /\ q.op # "move" => q.dst = q.path

\* What call c has lost of h, in the directory that it has reached or in that of its source.
EnterSpares(c, h) ==
  /\ Spares(h, heap', Lost(c, h))
  /\ Losses(c) # {} => /\ loc[c].rest = <<>>
                       /\ loc[c].op = "move" => loc[c].stage = "target"

\* What a step of call c keeps.
Keeps(c) ==
  /\ KeepsEntries(heap, heap') /\ KeepsBut(heap, heap', Losses(c))
  /\ Found(heap', loc'[c])
  /\ loc[c].op = "write" /\ InFlight(c) /\ Ends(c, "ok") =>
       \E e : Leads(heap', loc[c].path, e) /\ heap'.ents[e] = PendingEntry(loc[c].arg)

\* No directory is loaded a second time.
NoReload ==
  \A e \in DOMAIN heap.ents : heap.ents[e].map # 0 => heap'.ents[e].map = heap.ents[e].map

\* The directory that call c has asked for has not been loaded meanwhile.
FirstLoad(c) == IsDict(heap.ents[loc[c].cur].val) => heap.ents[loc[c].cur].map = 0

\* Unless a directory was displaced beside a call to a place below it, no call
\* in flight changes a path above a target of another.
Apart ==
  ~displaced => \A c \in Call : \A o \in Call \ {c} : InFlight(c) /\ InFlight(o) =>
    \A s \in Changes(loc[c]), t \in Targets(loc[o]) : ~IsStrictPrefix(s, t)

\* No call in flight changes what is above, at or below a write that is kept.
Untouched ==
  \A k \in kept, c \in Call : InFlight(c) => \A t \in Changes(loc[c]) : ~Comparable(k.path, t)

\* The calls are found where they have come to, and the writes that are kept are
\* where their paths lead.
Standing ==
  ~reloaded /\ ~movesMet /\ ~displaced =>
    /\ \A c \in Call : Found(heap, loc[c])
    /\ \A k \in kept : \E e : Leads(heap, k.path, e) /\ heap.ents[e] = PendingEntry(k.data)

KeptInv == Apart /\ Untouched /\ Standing

-----------------------------------------------------------------------------
(* What is seen at a path. *)

\* Two entries that hold the same, with no map.
Twins(x, y) == x.map = 0 /\ y.map = 0 /\ x.type = y.type /\ x.val = y.val

-----------------------------------------------------------------------------
(* What a change of the heap leaves to be seen. *)

\* Heap h2 has the entries of h, and their links are the same but under the names of
\* T, pairs of an entry and a name.
Matches(h, h2, T) ==
  /\ \A e \in DOMAIN h.ents : e \in DOMAIN h2.ents /\ h2.ents[e] = h.ents[e]
  /\ \A e \in DOMAIN h.ents, n \in Name : \A x :
       <<e, n>> \notin T => (Link(h2, e, n, x) <=> Link(h, e, n, x))

\* Each place of T is that of a path of S.
LinksOf(h, T, S) ==
  \A e \in DOMAIN h.ents, n \in Name : <<e, n>> \in T => \E u : Leads(h, u, e) /\ Sub(u, n) \in S

-----------------------------------------------------------------------------
(* What a call that runs alone knows. *)

\* A directory that was made in memory has a map, and a file that was written its content.
EntriesHold(h) ==
  \A e \in DOMAIN h.ents : /\ h.ents[e].type = "dir" => h.ents[e].map # 0
                           /\ h.ents[e].type = "pending" => h.ents[e].val \in Data

\* The source that a move has found is where its path leads.
Carries(h, q) == q.op = "move" /\ q.stage # "source" => Leads(h, q.path, q.src)

\* The call has just made the directory it has come to.
Fresh(h, q) ==
  /\ Makes(q)
  /\ h.ents[q.cur].type = "dir" /\ h.ents[q.cur].map # 0 /\ h.maps[h.ents[q.cur].map] = <<>>

\* A directory is seen at t that was not there, and else nothing changes.
MakesAt(h, h2, t) ==
  /\ ViewOf(h, t) = "none" /\ ViewOf(h2, t) = "dir"
  /\ \A p \in Seq(Name) : p # t => ViewOf(h2, p) = ViewOf(h, p)

-----------------------------------------------------------------------------
(* What the steps of a call that runs alone do to be seen. *)

\* What a call that runs alone knows: the directory that it has asked for is not
\* loaded; if it has made directories, it has come to the last of them; and it is
\* where its path says, and a move its source.
Settled(c) ==
  /\ pc[c] = "fetch" => heap.ents[loc[c].cur].map = 0
  /\ made[c] => Fresh(heap, loc[c]) /\ pc[c] = "walk"
  /\ Found(heap, loc[c]) /\ Carries(heap, loc[c])

\* Nothing is seen to change.
Unseen == \A p \in Seq(Name) : ViewOf(heap', p) = View(p)

\* A step of call c does what the call is for, or is not seen, or makes a
\* directory above the target.
Exact(c) ==
  \/ Ends(c, "ok") /\ \A p \in Seq(Name) : ViewOf(heap', p) = Effect(loc[c], p)
  \/ Ends(c, "error") /\ Unseen /\ (pc[c] = "fetch" \/ ~made[c])
  \/ pc'[c] # "idle" /\ Unseen /\ ~made[c] /\ (pc'[c] = "fetch" => heap'.ents[loc'[c].cur].map = 0)
  \/ /\ pc'[c] = "walk" /\ Fresh(heap', loc'[c])
     /\ \E t \in Seq(Name) : IsStrictPrefix(t, loc[c].dst) /\ MakesAt(heap, heap', t)

\* Of a call that runs alone it is known where it is, as long as no two moves have met.
SoloInv ==
  /\ EntriesHold(heap)
  /\ \A c \in Call : alone[c] => InFlight(c) /\ \A o \in Call \ {c} : ~InFlight(o)
  /\ \A c \in Call : made[c] => InFlight(c)
  /\ ~movesMet => \A c \in Call : alone[c] => Settled(c)

\* What SoloCallsExact says of a step of call c.
ExactStep(c) ==
  /\ ~movesMet /\ alone[c] /\ InFlight(c) /\ <<pc'[c], loc'[c]>> # <<pc[c], loc[c]>>
  /\ loc[c].op # "build"
  => LET ended == pc'[c] = "idle" IN
     /\ ended /\ answer'[c].how = "ok" =>
          \A p \in Vis : ViewOf(heap', p) = Effect(loc[c], p)
     /\ ended /\ answer'[c].how = "error" /\ pc[c] # "fetch" => ~made[c]
     /\ ended /\ answer'[c].how = "error" => \A p \in Vis : ViewOf(heap', p) = View(p)
     /\ ~ended => \A p \in Vis :
          \/ ViewOf(heap', p) = View(p)
          \/ View(p) = "none" /\ ViewOf(heap', p) = "dir" /\ IsStrictPrefix(p, loc[c].dst)

-----------------------------------------------------------------------------
(* The places of the maps. *)

\* A place of a map keeps its name, and stays empty once it has been emptied.
PlacesStay(h, h2) ==
  \A m \in DOMAIN h.maps :
    /\ m \in DOMAIN h2.maps
    /\ \A i \in DOMAIN h.maps[m] :
         /\ i \in DOMAIN h2.maps[m] /\ h2.maps[m][i].name = h.maps[m][i].name
         /\ h2.maps[m][i].ent # 0 => h.maps[m][i].ent # 0

-----------------------------------------------------------------------------
(* What stored nodes show. *)

\* What is at r in the stored node v; it is the same in any heap.
StoredView(h, v, r) == Shown(EntryFrom(h, NodeEntry([form |-> "node", val |-> v]), r))

\* The content of a file is no function of names, as dicts are.
DictsApart == \A d \in Data, names \in SUBSET Name : d # [n \in names |-> d[n]]

-----------------------------------------------------------------------------
(* What a build has collected. *)

\* The entries of a frame: named, and each as it is seen at its path, where that is in S.
EntriesFit(h, es, u, S) ==
  /\ \E T : es \in Seq(T)
  /\ \A j \in DOMAIN es : es[j].name \in Name
  /\ \A j \in DOMAIN es, r \in Seq(Name) : Sub(u, es[j].name) \o r \in S =>
       StoredView(h, es[j].key.val, r) = ViewOf(h, Sub(u, es[j].name) \o r)

\* The places that the frame has passed, but those under the names N, are in its entries.
PlacesFit(h, f, N) ==
  /\ f.map \in DOMAIN h.maps /\ f.pos \in Nat
  /\ \A i \in Nat : 1 <= i /\ i <= f.pos => i \in DOMAIN h.maps[f.map]
  /\ \A i \in DOMAIN h.maps[f.map] : i <= f.pos /\ h.maps[f.map][i].ent # 0 =>
       h.maps[f.map][i].name \in N \cup {f.entries[j].name : j \in DOMAIN f.entries}

\* The frame is of the directory at u, if a path of S leads there.
PathFits(h, m, u, S) ==
  (\E p \in S : Below(u, p)) => \E e : Leads(h, u, e) /\ h.ents[e].map = m

FrameFits(h, f, u, N, S) ==
  /\ FrameFields(f) /\ u \in Seq(Name)
  /\ EntriesFit(h, f.entries, u, S)
  /\ PlacesFit(h, f, N)
  /\ PathFits(h, f.map, u, S)

\* The name of the frame that a build is in next; N after the last one.
NextName(fs, i, N) == IF i < Len(fs) THEN {fs[i + 1].name} ELSE N

\* The frames of a build, with the paths of their directories.
FramesAt(h, fs, at, N, S) ==
  /\ fs # <<>> /\ at[1] = <<>>
  /\ \E T : fs \in Seq(T)
  /\ \A i \in DOMAIN fs : FrameFits(h, fs[i], at[i], NextName(fs, i, N), S)
  /\ \A i \in DOMAIN fs : i < Len(fs) =>
       fs[i + 1].name \in Name /\ at[i + 1] = Sub(at[i], fs[i + 1].name)

\* The same, where u is the path of the last.
FramesTo(h, fs, u, N, S) == \E at : FramesAt(h, fs, at, N, S) /\ at[Len(fs)] = u

-----------------------------------------------------------------------------
(* The frames of a build, last one first. *)

\* The frames lead to a directory that has what is at u under the name n.
FramesOver(h, fs, n, u, S) == n \in Name /\ \E w : FramesTo(h, fs, w, {n}, S) /\ u = Sub(w, n)

-----------------------------------------------------------------------------
(* The children of a frame. *)

\* i is the first place of f that is pending.
IsNext(f, i) == i = CHOOSE x \in Pending(f) : \A y \in Pending(f) : x <= y

-----------------------------------------------------------------------------
(* The steps of a build. *)

\* A frame with a name.
FitsAs(h, f, u, N, S, name) == FrameFits(h, f, u, N, S) /\ f.name = name

-----------------------------------------------------------------------------
(* What stays while a build is under way. *)

\* Each build has frames for what it has found.
SteadyInv ==
  /\ \A c \in Call : steady[c] \subseteq Vis
  /\ ~reloaded /\ ~movesMet /\ ~displaced =>
       \A c \in Call : pc[c] = "build" =>
         \E u : FramesTo(heap, loc[c].frames, u, {}, steady[c])

\* What BuildsSteadyPaths says of a step of call c.
SteadyAnswer(c) ==
  /\ ~reloaded /\ ~movesMet /\ ~displaced
  /\ loc[c].op = "build" /\ pc[c] = "build" /\ pc'[c] = "idle" /\ answer'[c].how = "ok"
  => \A p \in steady[c] : ViewIn(answer'[c].val, p) = View(p)

=============================================================================
