------------------------------- MODULE Depots -------------------------------
(***************************************************************************)
(* The depot endpoints of the casfa-v2 backend, controllers/depots.ts, for *)
(* one realm: what the handlers put in front of the depot table (module    *)
(* DepotTable) and of the blob store.                                      *)
(*                                                                         *)
(* A process is one HTTP request in flight; every await is one step, and   *)
(* what a handler does before its first await is part of that step.  A     *)
(* request refused at its first await changes nothing and has no step.     *)
(* Tickets are refused before any read, and list and get change nothing.   *)
(***************************************************************************)
EXTENDS DepotTable

CONSTANTS
  Node,         \* nodes that can be uploaded
  EmptyNode,    \* the empty dict: a well-known key, under which nothing is stored
  MainTitle,    \* MAIN_DEPOT_TITLE
  NoRequest     \* the locals of a slot whose handler is not at work

\* The two ways to write a node's hash.  The store is addressed in hex, as
\* EMPTY_DICT_KEY is; a node key of the API is "node:" and the hash in base32.
StorageName(n) == [form |-> "hex", node |-> n]

\* What POST /commit makes of the node key it is given: it takes the "node:" off.
CommitName(n) == [form |-> "base32", node |-> n]

EmptyDict == StorageName(EmptyNode)

ASSUME DepotAssumption ==
  /\ MainTitle \in Title
  /\ EmptyNode \notin Node
  /\ \A n \in Node \cup {EmptyNode} : StorageName(n) \in Key /\ CommitName(n) \in Key

VARIABLES
  blobs,   \* keys in the blob store
  pc,      \* Proc -> the await the handler is at
  req      \* Proc -> the handler's local variables

vars == <<blobs, table, pc, req>>

-----------------------------------------------------------------------------
(* Requests. *)

Step == {"idle", "createRow", "hasRoot", "deleteRow"}

CreateRequest == [title : Title \cup {NoTitle}, max : Limit]
CommitRequest == [depot : Depot, node : Node \cup {EmptyNode}]
DeleteRequest == [depot : Depot]

Idle(p) == pc[p] = "idle" /\ Free(p)
Goto(p, label) == pc' = [pc EXCEPT ![p] = label]
Begin(p, label, q) == Idle(p) /\ Goto(p, label) /\ req' = [req EXCEPT ![p] = q]
End(p) == Goto(p, "idle") /\ req' = [req EXCEPT ![p] = NoRequest]

Init ==
  /\ blobs = {}
  /\ TableInit
  /\ pc = [p \in Proc |-> "idle"]
  /\ req = [p \in Proc |-> NoRequest]

\* PUT /nodes/:key, as far as depots see it (module NodeStore): blobs appear,
\* under their hex names, and none is ever removed.
StoreNode(n) ==
  /\ blobs' = blobs \cup {StorageName(n)}
  /\ UNCHANGED <<table, pc, req>>

-----------------------------------------------------------------------------
(* POST /depots.  A maxHistory above the system limit is refused at once. *)

\* getByTitle; 409 when some item has the title.
CheckTitle(p, t, m) ==
  /\ ~ \E d \in Depot : Present(d) /\ row[d].title = t
  /\ Begin(p, "createRow", [title |-> t, max |-> m])
  /\ UNCHANGED <<blobs, table>>

\* No title was asked for: nothing to check, and the depot gets a generated one.
SkipTitleCheck(p, m) ==
  /\ Begin(p, "createRow", [title |-> NoTitle, max |-> m])
  /\ UNCHANGED <<blobs, table>>

CreateRow(p, d) ==
  /\ pc[p] = "createRow"
  /\ Create(p, d, req[p].title, EmptyDict, req[p].max)
  /\ End(p)

-----------------------------------------------------------------------------
(* PATCH /depots/:id, without a uniqueness check on the new title; 404 when  *)
(* there is no depot.                                                        *)

UpdateDepot(p, d, t, m) ==
  /\ Idle(p)
  /\ Update(p, d, t, m)
  /\ UNCHANGED <<blobs, pc, req>>

-----------------------------------------------------------------------------
(* POST /depots/:id/commit. *)

\* The controller's own read, which only decides on the 404.
FindDepot(p, d, n) ==
  /\ Present(d)
  /\ Begin(p, "hasRoot", [depot |-> d, node |-> n])
  /\ UNCHANGED <<blobs, table>>

\* The call of depotsDb.commit, up to its read; 404 when the depot is gone.
CallCommit(p) ==
  LET q == req[p] IN
  /\ IF Present(q.depot)
       THEN ReadDepot(p, q.depot, CommitName(q.node))
       ELSE UNCHANGED table
  /\ End(p)

\* Faulty variant: any well-formed key is taken for a stored node.
HasRoot_Unchecked(p) ==
  /\ pc[p] = "hasRoot"
  /\ CallCommit(p)
  /\ UNCHANGED blobs

\* storage.has; 400 when the root is not stored.  A stored blob stays, so the
\* answer yes and the read that follows it are one step.
HasRoot(p) ==
  /\ pc[p] = "hasRoot"
  /\ IF CommitName(req[p].node) \in blobs THEN CallCommit(p) ELSE End(p) /\ UNCHANGED table
  /\ UNCHANGED blobs

-----------------------------------------------------------------------------
(* DELETE /depots/:id. *)

\* 404, or 403 for the main depot.
ReadTitle(p, d) ==
  /\ Present(d) /\ row[d].title # MainTitle
  /\ Begin(p, "deleteRow", [depot |-> d])
  /\ UNCHANGED <<blobs, table>>

\* The handler does not look at what the deletion returns.
DeleteRow(p) ==
  /\ pc[p] = "deleteRow"
  /\ Delete(p, req[p].depot)
  /\ End(p)

-----------------------------------------------------------------------------

\* The commands a handler sends to the depot table: those it has reached, and
\* those that follow the first one of a table function.  No commit gets past
\* HasRoot, so here only DepotCreate and DepotDelete ever run.
TableCommand(p) ==
  /\ \/ \E d \in Depot : CreateRow(p, d)
     \/ DeleteRow(p)
     \/ Continue(p) /\ UNCHANGED <<pc, req>>
  /\ UNCHANGED blobs

\* A request that dies between two awaits of its handler or of a table function.
Die(p) ==
  /\ IF pc[p] = "idle"
       THEN Drop(p) /\ UNCHANGED <<pc, req>>
       ELSE End(p) /\ UNCHANGED table
  /\ UNCHANGED blobs

Receive(p) ==
  \/ \E t \in Title, m \in Limit : CheckTitle(p, t, m)
  \/ \E m \in Limit : SkipTitleCheck(p, m)
  \/ \E d \in Depot :
       \/ \E t \in Title \cup {NoTitle}, m \in Limit \cup {NoLimit} :
            UpdateDepot(p, d, t, m)
       \/ \E n \in Node \cup {EmptyNode} : FindDepot(p, d, n)
       \/ ReadTitle(p, d)

Next ==
  \/ \E n \in Node : StoreNode(n)
  \/ \E p \in Proc : Receive(p) \/ HasRoot(p) \/ TableCommand(p) \/ Die(p)

Spec == Init /\ [][Next]_vars

-----------------------------------------------------------------------------
(* Properties. *)

TypeOK ==
  /\ blobs \subseteq Key
  /\ TableTypeOK
  /\ pc \in [Proc -> Step]
  /\ \A p \in Proc :
       /\ pc[p] = "idle" => req[p] = NoRequest
       /\ pc[p] = "createRow" => req[p] \in CreateRequest
       /\ pc[p] = "hasRoot" => req[p] \in CommitRequest
       /\ pc[p] = "deleteRow" => req[p] \in DeleteRequest

\* A depot never points at a blob the store does not have, now or in its
\* history, except at the empty dict it was created with.
RootsStored ==
  \A d \in Depot :
    Present(d) => Entries(row[d]) \subseteq blobs \cup {EmptyDict}

\* What 04-depots.md says of a commit (400 only for a root that does not exist):
\* the existence check finds every node that has been uploaded.  The code looks
\* for it under another name.
StoredRootsAccepted ==
  \A p \in Proc :
    pc[p] = "hasRoot" /\ StorageName(req[p].node) \in blobs
      => CommitName(req[p].node) \in blobs
=============================================================================
