----------------------------- MODULE NodeStore -----------------------------
(***************************************************************************)
(* The node endpoints of the casfa-v2 backend                              *)
(* (apps/casfa-v2/backend/src/controllers/chunks.ts) over the four stores  *)
(* they write: the blob store, and the DynamoDB tables for ownership,      *)
(* reference counts and realm usage.                                       *)
(*                                                                         *)
(* A process is one HTTP request in flight.  Requests share nothing but    *)
(* the stores; every await of the handler is one step here, so requests    *)
(* interleave between any two store calls, and a request can die between   *)
(* any two (Lambda timeout, a store call that throws, a killed instance).  *)
(***************************************************************************)
EXTENDS NodeBody, FiniteSetsExt

CONSTANTS
  Realm,        \* realms (tenants); blobs are shared between them
  Proc,         \* request slots: how many requests may be in flight
  NoRequest,    \* the locals of a slot that serves no request
  QuotaLimit,   \* Realm -> quotaLimit of its USAGE row; 0 is unlimited
  MaxCount      \* bound of the model: no PUT of a node once its count is this

ASSUME StoreAssumption ==
  /\ IsFiniteSet(Proc) /\ Proc # {}
  /\ QuotaLimit \in [Realm -> Nat]
  /\ MaxCount \in Nat

VARIABLES
  blobs,     \* keys present in the blob store
  owned,     \* Realm -> keys with an OWN# row
  refCount,  \* Realm -> Node -> count of the REF# row; 0 when there is no row
  usage,     \* Realm -> the USAGE row
  pc,        \* Proc -> the await the request is at
  req        \* Proc -> the handler's local variables

\* History variables: no action's guard reads them.
VARIABLES
  acked,     \* Realm -> keys some PUT answered 200 for
  unbilled,  \* Realm -> keys whose REF# row was created by a PUT that died
             \* before it reached updateUsage
  counted    \* <<realm, parent, child>>: an answered PUT of parent that began
             \* when child had a REF# row

stores == <<blobs, owned, refCount, usage>>
ghosts == <<acked, unbilled, counted>>
vars   == <<stores, pc, req, ghosts>>

-----------------------------------------------------------------------------
\* Faulty variant: the size of the upload itself is forgotten.
QuotaAllows_UsedOnly(r, n) ==
  QuotaLimit[r] = 0 \/ usage[r].physicalBytes <= QuotaLimit[r]

\* usageDb.checkQuota
QuotaAllows(r, n) ==
  \/ QuotaLimit[r] = 0
  \/ usage[r].physicalBytes + PhysicalSize(n) <= QuotaLimit[r]

HasRef(r, n) == refCount[r][n] > 0

-----------------------------------------------------------------------------
(* Requests. *)

PutSteps  == {"hasChild", "getSizes", "readRef", "checkQuota", "putBlob",
              "addOwnership", "incUpdate", "incCreate", "readChildRef",
              "updateUsage"}
GetSteps  == {"hasOwnership", "getBlob"}
Step      == {"idle", "prepare"} \cup PutSteps \cup GetSteps

\* next: the child a loop is at, 0 while the node itself is being counted.
\* missing: some child was absent.  isNew: this request created the REF# row.
\* base: children that had a REF# row when the request began (history).
PutRequest == [realm : Realm, key : Node, next : Nat, missing : BOOLEAN,
               isNew : BOOLEAN, base : SUBSET Node]
GetRequest == [realm : Realm, key : Node]
PrepareRequest == [realm : Realm, todo : SUBSET Node, exists : SUBSET Node]

NewPut(r, n) ==
  [realm |-> r, key |-> n, next |-> 1, missing |-> FALSE, isNew |-> FALSE,
   base |-> {c \in ChildSet(n) : HasRef(r, c)}]

Goto(p, label) == pc' = [pc EXCEPT ![p] = label]
Begin(p, label, q) == Goto(p, label) /\ req' = [req EXCEPT ![p] = q]
End(p) == Begin(p, "idle", NoRequest)

Init ==
  /\ blobs = {}
  /\ owned = [r \in Realm |-> {}]
  /\ refCount = [r \in Realm |-> [n \in Node |-> 0]]
  /\ usage = [r \in Realm |-> NoUsage]
  /\ pc = [p \in Proc |-> "idle"]
  /\ req = [p \in Proc |-> NoRequest]
  /\ acked = [r \in Realm |-> {}]
  /\ unbilled = [r \in Realm |-> {}]
  /\ counted = {}

-----------------------------------------------------------------------------
(* PUT /nodes/:key.  A body that is empty, malformed, or does not hash to    *)
(* the key is refused before any store is touched: it never becomes a        *)
(* request of this model.                                                    *)

ReceivePut(p, r, n) ==
  /\ pc[p] = "idle"
  /\ refCount[r][n] < MaxCount
  /\ Begin(p, IF Children[n] = <<>> THEN "readRef" ELSE "hasChild", NewPut(r, n))
  /\ UNCHANGED <<stores, ghosts>>

\* One storage.has of the existence loop.
HasChild(p) ==
  LET q == req[p] IN
  /\ pc[p] = "hasChild"
  /\ req' = [req EXCEPT ![p].missing = q.missing \/ Children[q.key][q.next] \notin blobs,
                        ![p].next = q.next + 1]
  /\ Goto(p, IF q.next = Len(Children[q.key]) THEN "getSizes" ELSE "hasChild")
  /\ UNCHANGED <<stores, ghosts>>

\* Faulty variant: absent children are reported but not refused.
FinishValidation_NoMissingCheck(p) ==
  LET q == req[p] IN
  /\ pc[p] = "getSizes"
  /\ IF ~SizeAgrees(q.key) THEN End(p) ELSE Goto(p, "readRef") /\ UNCHANGED req
  /\ UNCHANGED <<stores, ghosts>>

\* The end of validateNode.  The getChildSize reads are of content-addressed
\* blobs just seen to exist, so the sum they give is that of the bodies.
FinishValidation(p) ==
  LET q == req[p] IN
  /\ pc[p] = "getSizes"
  /\ IF q.missing \/ ~SizeAgrees(q.key)
       THEN End(p)                          \* missing_nodes, or 400
       ELSE Goto(p, "readRef") /\ UNCHANGED req
  /\ UNCHANGED <<stores, ghosts>>

\* A node with a row is estimated to add nothing, so its quota is not checked.
ReadRef(p) ==
  LET q == req[p] IN
  /\ pc[p] = "readRef"
  /\ Goto(p, IF HasRef(q.realm, q.key) THEN "putBlob" ELSE "checkQuota")
  /\ UNCHANGED <<stores, req, ghosts>>

CheckQuota(p) ==
  LET q == req[p] IN
  /\ pc[p] = "checkQuota"
  /\ IF QuotaAllows(q.realm, q.key)
       THEN Goto(p, "putBlob") /\ UNCHANGED req
       ELSE End(p)                          \* REALM_QUOTA_EXCEEDED, 403
  /\ UNCHANGED <<stores, ghosts>>

\* Faulty variant: a stale entry of the existence cache suppresses the write.
PutBlob_Skipped(p) ==
  /\ pc[p] = "putBlob"
  /\ Goto(p, "addOwnership")
  /\ UNCHANGED <<stores, req, ghosts>>

PutBlob(p) ==
  /\ pc[p] = "putBlob"
  /\ blobs' = blobs \cup {req[p].key}
  /\ Goto(p, "addOwnership")
  /\ UNCHANGED <<owned, refCount, usage, req, ghosts>>

AddOwnership(p) ==
  LET q == req[p] IN
  /\ pc[p] = "addOwnership"
  /\ owned' = [owned EXCEPT ![q.realm] = @ \cup {q.key}]
  /\ req' = [req EXCEPT ![p].next = 0]
  /\ Goto(p, "incUpdate")
  /\ UNCHANGED <<blobs, refCount, usage, ghosts>>

\* The key incrementRef is called with: the node, then each child in turn.
Target(q) == IF q.next = 0 THEN q.key ELSE Children[q.key][q.next]

\* Faulty variant: off by one, the last child is not counted.
AfterIncrement_LastSkipped(q, new) ==
  IF q.next + 1 < Len(Children[q.key]) THEN "readChildRef"
  ELSE IF new THEN "updateUsage" ELSE "idle"

\* Where the handler goes after the increment for its next-th target.
AfterIncrement(q, new) ==
  IF q.next < Len(Children[q.key]) THEN "readChildRef"
  ELSE IF new THEN "updateUsage" ELSE "idle"

\* The 200 reply.
Answer(q) ==
  /\ acked' = [acked EXCEPT ![q.realm] = @ \cup {q.key}]
  /\ counted' = counted \cup {<<q.realm, q.key, c>> : c \in q.base}

\* Leave the increment of the current target.
Advance(p, new) ==
  LET q == req[p] IN
  IF AfterIncrement(q, new) = "idle"
    THEN End(p) /\ Answer(q) /\ UNCHANGED unbilled
    ELSE /\ Goto(p, AfterIncrement(q, new))
         /\ req' = [req EXCEPT ![p].next = q.next + 1, ![p].isNew = new]
         /\ UNCHANGED ghosts

\* Faulty variant: an increment of an existing row also reports a new one.
IncrementExisting_AlwaysNew(p) ==
  LET q == req[p] IN
  /\ pc[p] = "incUpdate"
  /\ IF HasRef(q.realm, Target(q))
       THEN /\ refCount' = [refCount EXCEPT ![q.realm][Target(q)] = @ + 1]
            /\ Advance(p, TRUE)
       ELSE Goto(p, "incCreate") /\ UNCHANGED <<refCount, req, ghosts>>
  /\ UNCHANGED <<blobs, owned, usage>>

\* Faulty variant: a failed conditional update is taken for success.
IncrementExisting_NoCreate(p) ==
  LET q == req[p] IN
  /\ pc[p] = "incUpdate"
  /\ Advance(p, q.isNew)
  /\ IF HasRef(q.realm, Target(q))
       THEN refCount' = [refCount EXCEPT ![q.realm][Target(q)] = @ + 1]
       ELSE UNCHANGED refCount
  /\ UNCHANGED <<blobs, owned, usage>>

\* incrementRef, first call: an update conditional on the row's existence.
IncrementExisting(p) ==
  LET q == req[p] IN
  /\ pc[p] = "incUpdate"
  /\ IF HasRef(q.realm, Target(q))
       THEN /\ refCount' = [refCount EXCEPT ![q.realm][Target(q)] = @ + 1]
            /\ Advance(p, q.isNew)
       ELSE /\ Goto(p, "incCreate")
            /\ UNCHANGED <<refCount, req, ghosts>>
  /\ UNCHANGED <<blobs, owned, usage>>

\* Faulty variant: the put that creates the row is unconditional.
CreateRef_Unconditional(p) ==
  LET q == req[p] IN
  /\ pc[p] = "incCreate"
  /\ refCount' = [refCount EXCEPT ![q.realm][Target(q)] = 1]
  /\ Advance(p, q.isNew \/ q.next = 0)
  /\ UNCHANGED <<blobs, owned, usage>>

\* incrementRef, second call: a put conditional on the row's absence.  The
\* loser of two concurrent creations gets an uncaught exception: a 500, with
\* the blob and the ownership row written, children and usage not.
CreateRef(p) ==
  LET q == req[p] IN
  /\ pc[p] = "incCreate"
  /\ IF HasRef(q.realm, Target(q))
       THEN End(p) /\ UNCHANGED <<refCount, ghosts>>
       ELSE /\ refCount' = [refCount EXCEPT ![q.realm][Target(q)] = 1]
            /\ Advance(p, q.isNew \/ q.next = 0)
  /\ UNCHANGED <<blobs, owned, usage>>

\* The children loop: only children with a row in this realm are counted.
ReadChildRef(p) ==
  LET q == req[p] IN
  /\ pc[p] = "readChildRef"
  /\ IF HasRef(q.realm, Target(q))
       THEN Goto(p, "incUpdate") /\ UNCHANGED <<req, ghosts>>
       ELSE Advance(p, q.isNew)
  /\ UNCHANGED stores

UpdateUsage(p) ==
  LET q == req[p] IN
  /\ pc[p] = "updateUsage"
  /\ usage' = [usage EXCEPT ![q.realm] = Charge(@, q.key)]
  /\ Answer(q)
  /\ End(p)
  /\ UNCHANGED <<blobs, owned, refCount, unbilled>>

-----------------------------------------------------------------------------
(* GET /nodes/:key and /nodes/:key/metadata: the same two reads. *)

ReceiveGet(p, r, n) ==
  /\ pc[p] = "idle"
  /\ Begin(p, "hasOwnership", [realm |-> r, key |-> n])
  /\ UNCHANGED <<stores, ghosts>>

HasOwnership(p) ==
  LET q == req[p] IN
  /\ pc[p] = "hasOwnership"
  /\ IF q.key \in owned[q.realm]
       THEN Goto(p, "getBlob") /\ UNCHANGED req
       ELSE End(p)                          \* 404 "Node not found"
  /\ UNCHANGED <<stores, ghosts>>

\* 200, or 404 "Node content not found" when the blob is absent.
GetBlob(p) ==
  /\ pc[p] = "getBlob"
  /\ End(p)
  /\ UNCHANGED <<stores, ghosts>>

(* POST /prepare-nodes: one hasOwnership per key of the batch. *)

ReceivePrepare(p, r, keys) ==
  /\ pc[p] = "idle"
  /\ Begin(p, "prepare", [realm |-> r, todo |-> keys, exists |-> {}])
  /\ UNCHANGED <<stores, ghosts>>

\* Faulty variant: existence is asked of the shared blob store.
PrepareKey_AnyRealm(p, n) ==
  LET q == req[p] IN
  /\ pc[p] = "prepare"
  /\ n \in q.todo
  /\ req' = [req EXCEPT ![p].todo = @ \ {n},
                        ![p].exists = IF n \in blobs THEN @ \cup {n} ELSE @]
  /\ UNCHANGED <<stores, pc, ghosts>>

PrepareKey(p, n) ==
  LET q == req[p] IN
  /\ pc[p] = "prepare"
  /\ n \in q.todo
  /\ req' = [req EXCEPT
       ![p].todo = @ \ {n},
       ![p].exists = IF n \in owned[q.realm] THEN @ \cup {n} ELSE @]
  /\ UNCHANGED <<stores, pc, ghosts>>

ReplyPrepare(p) ==
  /\ pc[p] = "prepare"
  /\ req[p].todo = {}
  /\ End(p)
  /\ UNCHANGED <<stores, ghosts>>

-----------------------------------------------------------------------------
(* A request that dies between two awaits.  A write it had sent may or may   *)
(* not have been applied: the first is a death after that step.              *)

Creating(p) == pc[p] \in PutSteps /\ req[p].isNew

Die(p) ==
  /\ pc[p] # "idle"
  /\ End(p)
  /\ IF Creating(p)
       THEN unbilled' = [unbilled EXCEPT ![req[p].realm] = @ \cup {req[p].key}]
       ELSE UNCHANGED unbilled
  /\ UNCHANGED <<stores, acked, counted>>

PutStep(p) ==
  \/ HasChild(p)
  \/ FinishValidation(p)
  \/ ReadRef(p)
  \/ CheckQuota(p)
  \/ PutBlob(p)
  \/ AddOwnership(p)
  \/ IncrementExisting(p)
  \/ CreateRef(p)
  \/ ReadChildRef(p)
  \/ UpdateUsage(p)

ReadStep(p) ==
  \/ HasOwnership(p)
  \/ GetBlob(p)
  \/ \E n \in Node : PrepareKey(p, n)
  \/ ReplyPrepare(p)

Receive(p) ==
  \E r \in Realm :
    \/ \E n \in Node : ReceivePut(p, r, n) \/ ReceiveGet(p, r, n)
    \/ \E keys \in SUBSET Node \ {{}} : ReceivePrepare(p, r, keys)

Next ==
  \E p \in Proc : Receive(p) \/ PutStep(p) \/ ReadStep(p) \/ Die(p)

Spec == Init /\ [][Next]_vars

-----------------------------------------------------------------------------
(* Properties. *)

TypeOK ==
  /\ blobs \subseteq Node
  /\ owned \in [Realm -> SUBSET Node]
  /\ refCount \in [Realm -> [Node -> Nat]]
  /\ usage \in [Realm -> Usage]
  /\ pc \in [Proc -> Step]
  /\ req \in [Proc -> PutRequest \cup GetRequest \cup PrepareRequest \cup {NoRequest}]
  /\ \A p \in Proc :
       /\ pc[p] \in PutSteps => req[p] \in PutRequest
       /\ pc[p] \in GetSteps => req[p] \in GetRequest
       /\ pc[p] = "prepare" => req[p] \in PrepareRequest
  /\ acked \in [Realm -> SUBSET Node]
  /\ unbilled \in [Realm -> SUBSET Node]
  /\ counted \subseteq Realm \X Node \X Node

\* The blob store never holds a node whose children it does not hold, whatever
\* the order of concurrent uploads and deaths: a tree is uploaded bottom-up or
\* not at all.
BlobsClosed == \A n \in blobs : ChildSet(n) \subseteq blobs

\* A realm's REF# rows are among its OWN# rows, and those among the blobs: the
\* three writes of a PUT are ordered so that a death leaves no row dangling.
RowsBacked ==
  \A r \in Realm :
    /\ owned[r] \subseteq blobs
    /\ \A n \in Node : HasRef(r, n) => n \in owned[r]

\* No GET that passed the ownership check answers "Node content not found",
\* and prepareNodes reports no node as existing that a GET would not return.
ReadersSeeWholeNodes ==
  \A p \in Proc :
    /\ pc[p] = "getBlob" => req[p].key \in blobs
    /\ pc[p] = "prepare" => req[p].exists \subseteq owned[req[p].realm] \cap blobs

\* An answered PUT is durable: blob, ownership and reference row stay.
AnsweredPutsSurvive ==
  \A r \in Realm : \A n \in acked[r] : n \in blobs /\ n \in owned[r] /\ HasRef(r, n)

\* Keys whose row was created and whose creator has not reached updateUsage.
Unpaid(r) ==
  {n \in Node : \E p \in Proc : Creating(p) /\ req[p].realm = r /\ req[p].key = n}

Billed(r) == {n \in Node : HasRef(r, n)} \ (Unpaid(r) \cup unbilled[r])

\* The handlers implement the abstract store.
Promise == INSTANCE ContentStore WITH
  stored     <- blobs,
  owns       <- owned,
  references <- [r \in Realm |-> {n \in Node : HasRef(r, n)}],
  charged    <- [r \in Realm |-> Billed(r)]

\* Every step of any interleaving of requests and deaths is a step of the
\* abstract store or changes nothing of it: above all, a realm is charged for a
\* node at most once, by the request that created the row.
ImplementsContentStore == Promise!Spec

\* The usage row is exactly the sum over the realm's reference rows, less those
\* whose creator is still on its way to updateUsage or died on it: concurrent
\* uploads of one node bill it once, and no increment is lost.
UsageLedger ==
  \A r \in Realm :
    /\ usage[r].nodeCount = Cardinality(Billed(r))
    /\ usage[r].physicalBytes = MapThenSumSet(PhysicalSize, Billed(r))
    /\ usage[r].logicalBytes = MapThenSumSet(LogicalSize, Billed(r))

Occurrences(n, c) == Cardinality({i \in DOMAIN Children[n] : Children[n][i] = c})

\* REFCOUNT-001's rule "upload references the node itself and its children",
\* as far as the code keeps it: a child that had a row when its parent's PUT
\* began is counted once for itself and, for every such parent answered, once
\* for each of the names the parent has for it.
ParentsCounted ==
  \A r \in Realm, c \in Node :
    LET parents == {n \in Node : <<r, n, c>> \in counted} IN
    HasRef(r, c) =>
      refCount[r][c] >= 1 + MapThenSumSet(LAMBDA n : Occurrences(n, c), parents)

\* Two requests never both believe they created one row, and a row whose
\* creator died is not created again.
OneCreator ==
  \A p \in Proc :
    Creating(p) =>
      /\ req[p].key \notin unbilled[req[p].realm]
      /\ \A o \in Proc \ {p} :
           Creating(o) => <<req[o].realm, req[o].key>> # <<req[p].realm, req[p].key>>

LargestNode == CHOOSE m \in {PhysicalSize(n) : n \in Node} :
                 \A n \in Node : PhysicalSize(n) <= m

\* The quota check reads the usage row long before the update adds to it; the
\* realm can overshoot its limit, by at most one node per other request slot.
OvershootBounded ==
  \A r \in Realm :
    QuotaLimit[r] > 0 =>
      usage[r].physicalBytes <= QuotaLimit[r] + (Cardinality(Proc) - 1) * LargestNode
=============================================================================
