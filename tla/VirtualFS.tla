----------------------------- MODULE VirtualFS -----------------------------
(***************************************************************************)
(* The virtual file system of packages/casfa-client (vfs.ts, over the      *)
(* endpoint.ts it calls): a tree of directories that are loaded from the   *)
(* store when first entered, changed in memory, and uploaded by build.     *)
(*                                                                         *)
(* A process is one call in flight on one VirtualFS; several may be, since *)
(* every method is asynchronous.  A step runs from one await to the next.  *)
(* The await of a directory that is in memory already ends the step that   *)
(* reaches the directory, so that a walk takes one step per segment, and   *)
(* two when the directory has to be fetched.                               *)
(*                                                                         *)
(* exists, stat and readFile load what list of the parent loads, and       *)
(* change nothing else.  A stored node is identified with what it holds: a *)
(* file with its content, a dict with the function from names to children. *)
(***************************************************************************)
EXTENDS Naturals, SequencesExt

CONSTANTS
  Call,      \* slots of calls in flight
  Name,      \* names in a directory
  Data,      \* contents of files
  Node,      \* what stored nodes can hold: contents, and the children of a dict by name
  Written,   \* the contents writeFile is called with
  Root,      \* nodes of which a VirtualFS is made (fromDict, empty)
  Mounted,   \* keys mount is called with
  Path,      \* paths the calls are made with, none of them the root
  Depth,     \* bound on the length of the paths that are compared
  MaxCalls,  \* bound on the number of calls
  NoValue    \* the content of an entry that has none

ASSUME TreeAssumption ==
  /\ Written \subseteq Data /\ Data \cap {"none", "dir"} = {}
  /\ \A v \in Node \ Data :
       DOMAIN v \in SUBSET Name /\ IsFiniteSet(DOMAIN v) /\ \A n \in DOMAIN v : v[n] \in Node
  /\ Root \subseteq Node
  /\ \A k \in Mounted : k.val \in Node /\ k.form \in {"node", "hex"}
  /\ \A p \in Path : p \in Seq(Name) /\ p # <<>> /\ Len(p) <= Depth
  /\ MaxCalls \in Nat /\ Depth \in Nat

VARIABLES
  heap,    \* the entries and the Map objects of the tree; entry 1 is the root
  pc,      \* Call -> what the call waits for
  loc,     \* Call -> the call's arguments and local variables
  answer,  \* Call -> how the slot's last call ended
  begun    \* number of calls made

\* History variables: no action's guard reads them.
VARIABLES
  alone,     \* Call -> no other call has been in flight during this one
  made,      \* Call -> this call has made a directory on its way
  kept,      \* writes answered, and not touched by any call since
  steady,    \* Call -> paths that have shown the same since the call began, and
             \* that no call has set or removed since, nor a directory above them
  reloaded,  \* a directory has been loaded twice
  movesMet,  \* two moves have been in flight together
  displaced, \* a directory was moved, removed or replaced beside a call to a place below it
  inside     \* a directory was moved into itself while a build was in flight

ghosts == <<alone, made, kept, steady, reloaded, movesMet, displaced, inside>>
vars == <<heap, pc, loc, answer, begun, ghosts>>

-----------------------------------------------------------------------------
(* Entries and maps.  A Map keeps the place of a deleted name while it is    *)
(* iterated over: the place stays, with entry 0.                             *)

IsDict(v) == v \notin Data

\* A node key in the spelling of the protocol, or in the hex of cas-core.
Form == {"node", "hex"}

NodeEntry(key) == [type |-> "node", val |-> key.val, form |-> key.form, map |-> 0]
PendingEntry(d) == [type |-> "pending", val |-> d, form |-> "hex", map |-> 0]
DirEntry(m) == [type |-> "dir", val |-> NoValue, form |-> "hex", map |-> m]
NoEntry == [type |-> "none", val |-> NoValue, form |-> "hex", map |-> 0]

Places(h, m, n) == {i \in DOMAIN h.maps[m] : h.maps[m][i].name = n /\ h.maps[m][i].ent # 0}
Place(h, m, n) == CHOOSE i \in Places(h, m, n) : TRUE
Has(h, m, n) == Places(h, m, n) # {}
Get(h, m, n) == h.maps[m][Place(h, m, n)].ent

\* Faulty variant: a name that is taken is left as it is.
Put_Keeps(h, m, n, e) ==
  IF Has(h, m, n) THEN h ELSE [h EXCEPT !.maps[m] = Append(@, [name |-> n, ent |-> e])]

Put(h, m, n, e) ==
  IF Has(h, m, n) THEN [h EXCEPT !.maps[m][Place(h, m, n)].ent = e]
                  ELSE [h EXCEPT !.maps[m] = Append(@, [name |-> n, ent |-> e])]

\* Faulty variant: the names after the deleted one move up.
Del_Compacts(h, m, n) ==
  IF Has(h, m, n) THEN [h EXCEPT !.maps[m] = RemoveAt(@, Place(h, m, n))] ELSE h

Del(h, m, n) == IF Has(h, m, n) THEN [h EXCEPT !.maps[m][Place(h, m, n)].ent = 0] ELSE h

PutNew(h, m, n, entry) ==
  Put([h EXCEPT !.ents = Append(@, entry)], m, n, Len(h.ents) + 1)

PutDir(h, m, n) ==
  LET h1 == [h EXCEPT !.maps = Append(@, <<>>)]
  IN  PutNew(h1, m, n, DirEntry(Len(h1.maps)))

\* getChildren with the answer of getNode: a new map of new entries, whatever
\* the entry has got as children in the meantime.
LoadChildren(h, e) ==
  LET v == h.ents[e].val
      names == SetToSeq(DOMAIN v)
      loaded == [i \in DOMAIN names |-> NodeEntry([form |-> "node", val |-> v[names[i]]])]
      map == <<>> \o [i \in DOMAIN names |-> [name |-> names[i], ent |-> Len(h.ents) + i]]
  IN  [ents |-> [h.ents EXCEPT ![e].map = Len(h.maps) + 1] \o loaded, maps |-> Append(h.maps, map)]

-----------------------------------------------------------------------------
(* What a caller can see of the tree.                                        *)

Child(h, entry, n) ==
  IF entry.map # 0
    THEN IF Has(h, entry.map, n) THEN h.ents[Get(h, entry.map, n)] ELSE NoEntry
    ELSE IF entry.type = "node" /\ IsDict(entry.val) /\ n \in DOMAIN entry.val
           THEN NodeEntry([form |-> "node", val |-> entry.val[n]]) ELSE NoEntry

\* What the path p leads to from an entry, and from the root.
EntryFrom(h, entry, p) ==
  LET at[i \in 0..Len(p)] == IF i = 0 THEN entry ELSE Child(h, at[i - 1], p[i])
  IN  at[Len(p)]

EntryAt(h, p) == EntryFrom(h, h.ents[1], p)

Shown(entry) ==
  IF entry.type = "none" THEN "none"
  ELSE IF entry.map # 0 \/ (entry.type = "node" /\ IsDict(entry.val)) THEN "dir"
  ELSE entry.val

ViewOf(h, p) == Shown(EntryAt(h, p))
View(p) == ViewOf(heap, p)

\* The paths the properties compare.
Vis == UNION {[1..n -> Name] : n \in 1..Depth}

\* What is at p in a stored node, seen through an entry that refers to it.
ViewIn(v, p) == Shown(EntryFrom(heap, NodeEntry([form |-> "node", val |-> v]), p))

Comparable(p, q) == IsPrefix(p, q) \/ IsPrefix(q, p)

-----------------------------------------------------------------------------
(* Calls.                                                                    *)

Ops == {"write", "mkdir", "mount", "delete", "move", "list", "build"}

\* stage: for move, whether the walk is the one to the source, to the parent of
\* the source or to the target.  cur: the entry reached, rest: the segments to
\* go.  src, from: srcEntry and srcChildren of move.  frames: the directories
\* build is inside of.
NoCall == [op |-> "none", path |-> <<>>, dst |-> <<>>, arg |-> NoValue, stage |-> "target",
           cur |-> 1, rest |-> <<>>, src |-> 0, from |-> 0, frames |-> <<>>]

NoAnswer == [how |-> "none", val |-> NoValue]

InFlight(c) == pc[c] # "idle"

\* Faulty variant: the walk starts before the root.
Walk_Zero(q, stage, segments) == [q EXCEPT !.stage = stage, !.cur = 0, !.rest = segments]

Walk(q, stage, segments) == [q EXCEPT !.stage = stage, !.cur = 1, !.rest = segments]

Makes(q) == q.op \in {"write", "mkdir", "mount"} \/ (q.op = "move" /\ q.stage = "target")

End(c, how, v) ==
  /\ pc' = [pc EXCEPT ![c] = "idle"]
  /\ answer' = [answer EXCEPT ![c] = [how |-> how, val |-> v]]
  /\ loc' = [loc EXCEPT ![c] = NoCall]
  /\ UNCHANGED begun

Done(c) == End(c, "ok", NoValue)
Throw(c, h) == heap' = h /\ End(c, "error", NoValue)

Continue(c, q) ==
  /\ pc' = [pc EXCEPT ![c] = "walk"]
  /\ loc' = [loc EXCEPT ![c] = q]
  /\ UNCHANGED <<answer, begun>>

Begin(c, q) ==
  /\ ~InFlight(c) /\ begun < MaxCalls
  /\ begun' = begun + 1
  /\ loc' = [loc EXCEPT ![c] = q]
  /\ answer' = [answer EXCEPT ![c] = NoAnswer]
  /\ UNCHANGED heap

\* The entry points: what precedes the first await.
CallWalk(c) ==
  LET ask(op, p, t, a) == [NoCall EXCEPT !.op = op, !.path = p, !.dst = t, !.arg = a] IN
  /\ pc' = [pc EXCEPT ![c] = "walk"]
  /\ \E p \in Path :
       \/ \E d \in Written : Begin(c, Walk(ask("write", p, p, d), "target", Front(p)))
       \/ \E k \in Mounted : Begin(c, Walk(ask("mount", p, p, k), "target", Front(p)))
       \/ \E op \in {"mkdir", "delete"} : Begin(c, Walk(ask(op, p, p, NoValue), "target", Front(p)))
       \/ \E t \in Path : Begin(c, Walk(ask("move", p, t, NoValue), "source", Front(p)))
       \/ Begin(c, Walk(ask("list", p, p, NoValue), "target", p))

-----------------------------------------------------------------------------
(* The walk: resolvePath, and ensureParent where the call makes directories. *)

\* The directory the walk was for is reached, with h the heap and m its map.
SetTarget(c, h, m) ==
  LET q == loc[c]
      n == Last(q.dst)
  IN
  \/ q.op = "write" /\ heap' = PutNew(h, m, n, PendingEntry(q.arg)) /\ Done(c)
  \/ q.op = "mount" /\ heap' = PutNew(h, m, n, NodeEntry(q.arg)) /\ Done(c)
  \/ /\ q.op = "mkdir"
     /\ \/ ~Has(h, m, n) /\ heap' = PutDir(h, m, n) /\ Done(c)
        \/ Has(h, m, n) /\ h.ents[Get(h, m, n)].type = "pending" /\ Throw(c, h)
        \/ Has(h, m, n) /\ h.ents[Get(h, m, n)].type # "pending" /\ heap' = h /\ Done(c)
  \/ /\ q.op = "delete"
     /\ \/ Has(h, m, n) /\ heap' = Del(h, m, n) /\ Done(c)
        \/ ~Has(h, m, n) /\ Throw(c, h)
  \/ q.op = "list" /\ heap' = h /\ Done(c)

\* Faulty variant: the entry moved stays where it was.
MoveStep_Copies(c, h, m) ==
  LET q == loc[c] IN
  \/ /\ q.stage = "source" /\ Has(h, m, Last(q.path)) /\ heap' = h
     /\ Continue(c, Walk([q EXCEPT !.src = Get(h, m, Last(q.path))], "origin", Front(q.path)))
  \/ q.stage = "source" /\ ~Has(h, m, Last(q.path)) /\ Throw(c, h)
  \/ /\ q.stage = "origin" /\ heap' = h
     /\ Continue(c, Walk([q EXCEPT !.from = m], "target", Front(q.dst)))
  \/ q.stage = "target" /\ heap' = Put(h, m, Last(q.dst), q.src) /\ Done(c)

MoveStep(c, h, m) ==
  LET q == loc[c] IN
  \/ /\ q.stage = "source" /\ Has(h, m, Last(q.path)) /\ heap' = h
     /\ Continue(c, Walk([q EXCEPT !.src = Get(h, m, Last(q.path))], "origin", Front(q.path)))
  \/ q.stage = "source" /\ ~Has(h, m, Last(q.path)) /\ Throw(c, h)
  \/ /\ q.stage = "origin" /\ heap' = h
     /\ Continue(c, Walk([q EXCEPT !.from = m], "target", Front(q.dst)))
  \/ /\ q.stage = "target"
     /\ heap' = Del(Put(h, m, Last(q.dst), q.src), q.from, Last(q.path))
     /\ Done(c)

\* Faulty variant: a directory is made on the way even if there is one.
Missing_Always(h, m, n) == ~(Has(h, m, n) /\ h.ents[Get(h, m, n)].type = "pending")

Missing(h, m, n) == ~Has(h, m, n)

\* The next segment is looked up in m, a directory made for it if need be.
NextSegment(c, h, m) ==
  LET q == loc[c]
      n == Head(q.rest)
      to(h1, e) == heap' = h1 /\ Continue(c, [q EXCEPT !.cur = e, !.rest = Tail(q.rest)])
  IN
  \/ Missing(h, m, n) /\ Makes(q) /\ to(PutDir(h, m, n), Len(h.ents) + 1)
  \/ Missing(h, m, n) /\ ~Makes(q) /\ Throw(c, h)
  \/ /\ ~Missing(h, m, n)
     /\ IF Makes(q) /\ h.ents[Get(h, m, n)].type = "pending" THEN Throw(c, h)
                                                             ELSE to(h, Get(h, m, n))

Enter(c, h, m) ==
  IF loc[c].rest # <<>> THEN NextSegment(c, h, m)
  ELSE IF loc[c].op = "move" THEN MoveStep(c, h, m)
  ELSE SetTarget(c, h, m)

\* getChildren of a directory in memory, of a pending file, of a stored node.
StepInMemory(c) ==
  LET cur == heap.ents[loc[c].cur] IN
  /\ pc[c] = "walk"
  /\ \/ cur.map # 0 /\ Enter(c, heap, cur.map)
     \/ cur.type = "pending" /\ Throw(c, heap)
     \/ /\ cur.type = "node" /\ cur.map = 0
        /\ pc' = [pc EXCEPT ![c] = "fetch"]
        /\ UNCHANGED <<heap, loc, answer, begun>>

\* The answer of getNode.
StepFetched(c) ==
  LET e == loc[c].cur IN
  /\ pc[c] = "fetch"
  /\ IF IsDict(heap.ents[e].val)
       THEN LET h == LoadChildren(heap, e) IN Enter(c, h, Len(h.maps))
       ELSE Throw(c, heap)

-----------------------------------------------------------------------------
(* build: a directory that has a map is made again from the keys of its      *)
(* children, depth first and in the order of the map.                        *)

Frame(m, n) == [map |-> m, name |-> n, pos |-> 0, entries |-> <<>>]

CallBuild(c) ==
  LET q == [NoCall EXCEPT !.op = "build"]
      root == heap.ents[1]
  IN
  \/ /\ root.map # 0
     /\ pc' = [pc EXCEPT ![c] = "build"]
     /\ Begin(c, [q EXCEPT !.frames = <<Frame(root.map, "")>>])
  \/ /\ root.map = 0 /\ ~InFlight(c) /\ begun < MaxCalls   \* the key as it is
     /\ begun' = begun + 1
     /\ answer' = [answer EXCEPT ![c] = [how |-> "ok", val |-> root.val]]
     /\ UNCHANGED <<heap, pc, loc>>

Pending(f) == {i \in DOMAIN heap.maps[f.map] : i > f.pos /\ heap.maps[f.map][i].ent # 0}

Added(f, n, key) == [f EXCEPT !.entries = Append(@, [name |-> n, key |-> key])]

\* A file, uploaded now, or a node nobody has looked into.
Unchanged(entry) == entry.map = 0

Holds(m, n) ==
  \E i \in DOMAIN heap.maps[m] :
    heap.maps[m][i].ent # 0 /\ heap.ents[heap.maps[m][i].ent].map = n

\* The build is inside a directory for the second time, and each directory on the
\* way holds the next one still: it is inside itself.
Circles(q) ==
  \E i, j \in DOMAIN q.frames :
    /\ i < j /\ q.frames[i].map = q.frames[j].map
    /\ \A k \in i..(j - 1) : Holds(q.frames[k].map, q.frames[k + 1].map)

\* A build that goes round in a circle is followed no further.
BuildChild(c) ==
  LET q == loc[c]
      f == Last(q.frames)
      i == CHOOSE x \in Pending(f) : \A y \in Pending(f) : x <= y
      slot == heap.maps[f.map][i]
      entry == heap.ents[slot.ent]
      g == [f EXCEPT !.pos = i]
      frames == Front(q.frames)
  IN
  /\ pc[c] = "build" /\ Pending(f) # {} /\ ~Circles(q)
  /\ loc' = [loc EXCEPT ![c].frames =
       IF Unchanged(entry)
         THEN Append(frames, Added(g, slot.name, [form |-> entry.form, val |-> entry.val]))
         ELSE frames \o <<g, Frame(entry.map, slot.name)>>]
  /\ UNCHANGED <<heap, pc, answer, begun>>

\* makeDict reads every child key as hex and throws at a node key.  A name that
\* was deleted and set again while build went by is in the entries twice, and
\* the server refuses the dict.
Makeable(es) ==
  /\ \A i \in DOMAIN es : es[i].key.form = "hex"
  /\ \A i, j \in DOMAIN es : es[i].name = es[j].name => i = j

DictOf(es) ==
  [n \in {es[i].name : i \in DOMAIN es} |->
     es[CHOOSE i \in DOMAIN es : es[i].name = n].key.val]

BuildDict(c) ==
  LET q == loc[c]
      f == Last(q.frames)
      up == Front(q.frames)
      key == [form |-> "hex", val |-> DictOf(f.entries)]
  IN
  /\ pc[c] = "build" /\ Pending(f) = {}
  /\ \/ ~Makeable(f.entries) /\ Throw(c, heap)
     \/ Makeable(f.entries) /\ up = <<>> /\ UNCHANGED heap /\ End(c, "ok", key.val)
     \/ /\ Makeable(f.entries) /\ up # <<>>
        /\ loc' = [loc EXCEPT ![c].frames = Append(Front(up), Added(Last(up), f.name, key))]
        /\ UNCHANGED <<heap, pc, answer, begun>>

\* A request to the endpoint fails.
RequestFails(c) == pc[c] \in {"fetch", "build"} /\ Throw(c, heap)

-----------------------------------------------------------------------------

Changes(q) ==
  CASE q.op = "move" -> {q.path, q.dst}
    [] q.op \in {"write", "mount", "delete"} -> {q.path}
    [] OTHER -> {}

\* Where a call will set or delete something.
Targets(q) == IF q.op = "mkdir" THEN {q.path} ELSE Changes(q)

\* The history variables follow the others.
Track ==
  LET others(c) == {o \in Call \ {c} : pc'[o] # "idle"}
      ended(c) == InFlight(c) /\ pc'[c] = "idle"
      changed == IF heap' = heap THEN {} ELSE {p \in Vis : ViewOf(heap', p) # View(p)}
      done == UNION {Changes(loc[x]) : x \in {y \in Call : ended(y) /\ answer'[y].how = "ok"}}
      answered == {[path |-> loc[c].path, data |-> loc[c].arg] :
                     c \in {x \in Call : /\ ended(x) /\ loc[x].op = "write" /\ answer'[x].how = "ok"}}
  IN
  /\ alone' = [c \in Call |->
       pc'[c] # "idle" /\ others(c) = {} /\ (InFlight(c) => alone[c])]
  /\ made' = [c \in Call |->
       /\ pc'[c] # "idle"
       /\ \/ made[c]
          \/ InFlight(c) /\ loc'[c] # loc[c] /\ changed # {}]
  /\ kept' = {k \in kept \cup answered :
       \A c \in Call : pc'[c] # "idle" =>
         \A t \in Changes(loc'[c]) : ~Comparable(k.path, t)}
  /\ steady' = [c \in Call |->
       IF pc'[c] # "build" /\ ~ended(c) THEN {}
       ELSE IF ~InFlight(c) THEN Vis
       ELSE {p \in steady[c] \ changed : \A s \in done : ~IsPrefix(s, p)}]
  /\ reloaded' = (reloaded \/ \E e \in DOMAIN heap.ents :
       heap.ents[e].map # 0 /\ heap'.ents[e].map # heap.ents[e].map)
  /\ movesMet' = (movesMet \/ \E c \in Call : \E o \in others(c) :
       pc'[c] # "idle" /\ loc'[c].op = "move" /\ loc'[o].op = "move")
  /\ displaced' = (displaced \/ \E c \in Call : \E o \in others(c) :
       pc'[c] # "idle" /\ \E s \in Changes(loc'[c]), t \in Targets(loc'[o]) : IsStrictPrefix(s, t))
  /\ inside' = (inside \/ \E c \in Call : \E o \in others(c) :
       loc'[c].op = "move" /\ IsPrefix(loc'[c].path, loc'[c].dst) /\ loc'[o].op = "build")

Init ==
  /\ \/ heap = [ents |-> <<DirEntry(1)>>, maps |-> << <<>> >>]
     \/ \E v \in Root : heap = [ents |-> <<NodeEntry([form |-> "node", val |-> v])>>, maps |-> <<>>]
  /\ pc = [c \in Call |-> "idle"]
  /\ loc = [c \in Call |-> NoCall]
  /\ answer = [c \in Call |-> NoAnswer]
  /\ begun = 0
  /\ alone = [c \in Call |-> FALSE]
  /\ made = [c \in Call |-> FALSE]
  /\ kept = {}
  /\ steady = [c \in Call |-> {}]
  /\ reloaded = FALSE
  /\ movesMet = FALSE
  /\ displaced = FALSE
  /\ inside = FALSE

Step(c) ==
  \/ CallWalk(c) \/ CallBuild(c)
  \/ StepInMemory(c) \/ StepFetched(c)
  \/ BuildChild(c) \/ BuildDict(c)
  \/ RequestFails(c)

Next == (\E c \in Call : Step(c)) /\ Track

Spec == Init /\ [][Next]_vars

-----------------------------------------------------------------------------
(* Properties. *)

TypeOK ==
  /\ \A m \in DOMAIN heap.maps : \A i \in DOMAIN heap.maps[m] :
       heap.maps[m][i].name \in Name /\ heap.maps[m][i].ent \in 0..Len(heap.ents)
  /\ \A e \in DOMAIN heap.ents :
       /\ heap.ents[e].type \in {"node", "pending", "dir"} /\ heap.ents[e].form \in Form
       /\ heap.ents[e].map \in 0..Len(heap.maps)
  /\ \A c \in Call :
       /\ pc[c] \in {"idle", "walk", "fetch", "build"}
       /\ loc[c].op \in Ops \cup {"none"}
       /\ loc[c].cur \in DOMAIN heap.ents /\ loc[c].src \in 0..Len(heap.ents)
       /\ loc[c].from \in 0..Len(heap.maps)
       /\ answer[c].how \in {"none", "ok", "error"}
  /\ begun \in 0..MaxCalls

\* What an answered call has done to what is at p.  A move of a directory into
\* itself, or of anything onto itself, takes it out of the tree.
Effect(q, p) ==
  LET under(r) == IsPrefix(r, p)
      beyond(r) == SubSeq(p, Len(r) + 1, Len(p))
  IN
  CASE q.op = "write" /\ under(q.path) -> IF p = q.path THEN q.arg ELSE "none"
    [] q.op = "mount" /\ under(q.path) -> ViewIn(q.arg.val, beyond(q.path))
    [] q.op = "delete" /\ under(q.path) -> "none"
    [] q.op = "mkdir" /\ p = q.path /\ View(p) = "none" -> "dir"
    [] q.op = "move" /\ IsPrefix(q.path, q.dst) /\ under(q.path) -> "none"
    [] q.op = "move" /\ ~IsPrefix(q.path, q.dst) /\ under(q.dst) -> View(q.path \o beyond(q.dst))
    [] q.op = "move" /\ ~IsPrefix(q.path, q.dst) /\ ~under(q.dst) /\ under(q.path) -> "none"
    [] OTHER -> View(p)

\* A call that runs alone changes of the tree what it is called for and no more,
\* in its last step; before that it may make directories above its target, but
\* then it does not fail.  Loading a directory is never seen.  (Two moves that
\* met before may have left a tree with a circle, in which a path has no one end.)
SoloCallsExact ==
  [][\A c \in Call :
       /\ ~movesMet /\ alone[c] /\ InFlight(c) /\ <<pc'[c], loc'[c]>> # <<pc[c], loc[c]>>
       /\ loc[c].op # "build"
       => LET ended == pc'[c] = "idle" IN
          /\ ended /\ answer'[c].how = "ok" =>
               \A p \in Vis : ViewOf(heap', p) = Effect(loc[c], p)
          /\ ended /\ answer'[c].how = "error" /\ pc[c] # "fetch" => ~made[c]
          /\ ended /\ answer'[c].how = "error" => \A p \in Vis : ViewOf(heap', p) = View(p)
          /\ ~ended => \A p \in Vis :
               \/ ViewOf(heap', p) = View(p)
               \/ View(p) = "none" /\ ViewOf(heap', p) = "dir" /\ IsStrictPrefix(p, loc[c].dst)]_vars

\* A write that was answered is in the tree until a call changes that part of
\* the tree, unless some directory was loaded twice, two moves have met, or a
\* directory was moved, removed or replaced beside a call to a place below it:
\* that call goes on in the entries it has reached, wherever these are by then.
AnsweredWritesKept ==
  ~reloaded /\ ~movesMet /\ ~displaced => \A k \in kept : View(k.path) = k.data

\* The maps of the tree: those that can be reached from the root.
TreeMaps ==
  LET below(m) == {heap.ents[e].map : e \in {heap.maps[m][i].ent : i \in DOMAIN heap.maps[m]} \ {0}}
      within[n \in 0..Depth] ==
        IF n = 0 THEN {heap.ents[1].map}
                 ELSE within[n - 1] \cup UNION {below(m) : m \in within[n - 1] \ {0}}
  IN  within[Depth] \ {0}

\* No entry is in two places of the tree, unless two moves have been in flight
\* together.  (With two places of one directory, a move of the one into the
\* other makes a tree that build does not return from.)
OneTree ==
  ~movesMet =>
    \A m, n \in TreeMaps : \A i \in DOMAIN heap.maps[m], j \in DOMAIN heap.maps[n] :
      heap.maps[m][i].ent # 0 /\ heap.maps[m][i].ent = heap.maps[n][j].ent => <<m, i>> = <<n, j>>

\* What a build answers has, at every path that showed the same from its call to
\* its answer, and that no other call set or removed, nor a directory above it,
\* exactly that; so a build that runs alone answers the tree.  A tree in which a
\* directory was loaded twice, two moves have met or a directory was displaced
\* beside a call below it may hide entries a build is inside of.
BuildsSteadyPaths ==
  [][\A c \in Call :
       /\ ~reloaded /\ ~movesMet /\ ~displaced
       /\ loc[c].op = "build" /\ pc[c] = "build" /\ pc'[c] = "idle" /\ answer'[c].how = "ok"
       => \A p \in steady[c] : ViewIn(answer'[c].val, p) = View(p)]_vars

\* A build returns: the directories it is inside of never form a circle, unless
\* two moves have been in flight together or a directory was moved into itself
\* beside it.
BuildsReturn ==
  movesMet \/ inside \/ \A c \in Call : ~Circles(loc[c])

\* endpoint.ts:375: what editDict returns is the new root key after the edits, so
\* the keys build has collected for a directory are keys makeDict can read.
BuildsSucceed ==
  \A c \in Call : pc[c] = "build" =>
    \A i \in DOMAIN Last(loc[c].frames).entries :
      Last(loc[c].frames).entries[i].key.form = "hex"
=============================================================================
