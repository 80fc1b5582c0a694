-------------------------- MODULE NodeStore_proofs --------------------------
(***************************************************************************)
(* Proofs about NodeStore, for any realms, node bodies, request slots,     *)
(* quotas and bound: the inductive invariant and what it implies, that     *)
(* NodeStore implements ContentStore, and how far concurrent uploads take  *)
(* a realm over its quota.  The last part is about the counters: the usage *)
(* row of a realm is the sum of what the realm was charged for, and the    *)
(* reference count of a node covers its parents.  Both are about sums over *)
(* finite sets, which the model takes with the folds of the community      *)
(* modules: the choice of the element that is taken out next is theirs.    *)
(* What such a sum does when the set or the summands change is proved by   *)
(* induction over the subsets of the set, with the property given as the   *)
(* set of the subsets that have it.                                        *)
(***************************************************************************)
EXTENDS NodeStore, FiniteSetTheorems, TLAPS

-----------------------------------------------------------------------------
(* The inductive invariant.  What it adds to the properties is what a       *)
(* request in flight has already achieved, step by step.                    *)

\* Past the checks of the children; past the blob write; in the counting loop.
CheckedSteps == {"readRef", "checkQuota", "putBlob"}
StoredSteps  == {"addOwnership", "incUpdate", "incCreate", "readChildRef",
                 "updateUsage"}
CountSteps   == {"incUpdate", "incCreate", "readChildRef", "updateUsage"}

\* Validation: the children seen so far are stored, unless one was missing.
ValidationInv(p) ==
  LET q == req[p] IN
  /\ pc[p] = "hasChild" =>
       /\ q.next \in 1 .. Len(Children[q.key])
       /\ ~q.missing => \A i \in 1 .. q.next - 1 : Children[q.key][i] \in blobs
  /\ pc[p] = "getSizes" /\ ~q.missing => ChildSet(q.key) \subseteq blobs
  /\ pc[p] \in CheckedSteps => ChildSet(q.key) \subseteq blobs

\* Writing: the rows a request is past are there, and what it counts has a row
\* or is the node itself.
WritingInv(p) ==
  LET q == req[p] IN
  /\ pc[p] \in StoredSteps => q.key \in blobs
  /\ pc[p] \in CountSteps => q.key \in owned[q.realm]
  /\ pc[p] \in {"incUpdate", "readChildRef"} => q.next \in 0 .. Len(Children[q.key])
  /\ pc[p] = "readChildRef" => q.next > 0
  /\ pc[p] = "incCreate" => q.next = 0
  /\ pc[p] = "incUpdate" /\ q.next > 0 => HasRef(q.realm, Target(q))
  /\ pc[p] \in CountSteps => q.next = 0 \/ HasRef(q.realm, q.key)
  /\ pc[p] \in {"readChildRef", "updateUsage"} => HasRef(q.realm, q.key)

\* A request that created a row is past the creation and not yet answered.
CreatorInv(p) ==
  /\ Creating(p) =>
       /\ pc[p] \in {"incUpdate", "readChildRef", "updateUsage"}
       /\ req[p].next > 0
  /\ pc[p] = "updateUsage" => req[p].isNew

\* What was left unbilled has a row.
UnbilledBacked == \A r \in Realm : \A n \in unbilled[r] : HasRef(r, n)

\* What each request has achieved.
RequestInv(p) == ValidationInv(p) /\ WritingInv(p) /\ CreatorInv(p)

\* Of all requests.
Requests == \A p \in Proc : RequestInv(p)

\* The inductive invariant.
IInv ==
  /\ TypeOK
  /\ Requests
  /\ BlobsClosed
  /\ RowsBacked
  /\ ReadersSeeWholeNodes
  /\ AnsweredPutsSurvive
  /\ UnbilledBacked
  /\ OneCreator

-----------------------------------------------------------------------------
(* Facts about bodies. *)

\* Children are nodes, and sizes are natural numbers.
LEMMA BodyTypes ==
  ASSUME NEW n \in Node
  PROVE  /\ Children[n] \in Seq(Node)
         /\ Len(Children[n]) \in Nat
         /\ DOMAIN Children[n] = 1 .. Len(Children[n])
         /\ ChildSet(n) = {Children[n][i] : i \in 1 .. Len(Children[n])}
         /\ ChildSet(n) \subseteq Node
         /\ PhysicalSize(n) \in Nat
         /\ LogicalSize(n) \in Nat
<1>1. /\ Children[n] \in Seq(Node)
      /\ Payload[n] \in Nat /\ HeaderSize \in Nat /\ HashSize \in Nat
  BY BodyAssumption
<1>2. /\ Len(Children[n]) \in Nat
      /\ DOMAIN Children[n] = 1 .. Len(Children[n])
      /\ \A i \in 1 .. Len(Children[n]) : Children[n][i] \in Node
  BY <1>1
<1>3. HashSize * Len(Children[n]) \in Nat
  BY <1>1, <1>2
<1> QED
  BY <1>1, <1>2, <1>3 DEF ChildSet, Range, PhysicalSize, LogicalSize

\* Charging a usage row leaves a usage row.
LEMMA ChargeType ==
  ASSUME NEW u \in Usage, NEW n \in Node
  PROVE  Charge(u, n) \in Usage
BY BodyTypes DEF Charge, Usage

-----------------------------------------------------------------------------
(* The initial states. *)

\* The invariant holds before any request.
LEMMA InitIInv == Init => IInv
<1> SUFFICES ASSUME Init PROVE IInv
  OBVIOUS
<1> USE DEF Init
<1>1. TypeOK
  BY DEF TypeOK, Usage, NoUsage, Step, PutSteps, GetSteps
<1>2. Requests
  BY DEF Requests, RequestInv, ValidationInv, WritingInv, CreatorInv, Creating, CheckedSteps,
         StoredSteps, CountSteps, PutSteps
<1>3. BlobsClosed /\ RowsBacked /\ AnsweredPutsSurvive /\ UnbilledBacked
  BY DEF BlobsClosed, RowsBacked, AnsweredPutsSurvive, UnbilledBacked, HasRef
<1>4. ReadersSeeWholeNodes /\ OneCreator
  BY DEF ReadersSeeWholeNodes, OneCreator, Creating, PutSteps
<1> QED
  BY <1>1, <1>2, <1>3, <1>4 DEF IInv

-----------------------------------------------------------------------------
(* What a step of one request leaves alone. *)

\* Nothing is ever removed from the stores.
Grows ==
  /\ blobs \subseteq blobs'
  /\ \A r \in Realm : owned[r] \subseteq owned'[r]
  /\ \A r \in Realm, n \in Node : HasRef(r, n) => HasRef(r, n)'

\* The other requests stay where they are.
OthersStay(p) == \A o \in Proc \ {p} : pc'[o] = pc[o] /\ req'[o] = req[o]

\* Only request p moves.
Moves(p) ==
  /\ pc' = [pc EXCEPT ![p] = pc'[p]]
  /\ req' = [req EXCEPT ![p] = req'[p]]

\* The part of TypeOK about one request.
RequestType(p) ==
  /\ pc[p] \in Step
  /\ req[p] \in PutRequest \cup GetRequest \cup PrepareRequest \cup {NoRequest}
  /\ pc[p] \in PutSteps => req[p] \in PutRequest
  /\ pc[p] \in GetSteps => req[p] \in GetRequest
  /\ pc[p] = "prepare" => req[p] \in PrepareRequest

\* The types of the store.
StoreType ==
  /\ blobs \subseteq Node
  /\ owned \in [Realm -> SUBSET Node]
  /\ refCount \in [Realm -> [Node -> Nat]]
  /\ usage \in [Realm -> Usage]
  /\ acked \in [Realm -> SUBSET Node]
  /\ unbilled \in [Realm -> SUBSET Node]
  /\ counted \subseteq Realm \X Node \X Node

\* The part of ReadersSeeWholeNodes about one request.
ReaderInv(p) ==
  /\ pc[p] = "getBlob" => req[p].key \in blobs
  /\ pc[p] = "prepare" => req[p].exists \subseteq owned[req[p].realm] \cap blobs

\* What the request leaves in the stores is as it should be.
StoreInv == BlobsClosed /\ RowsBacked /\ AnsweredPutsSurvive /\ UnbilledBacked

\* A step neither makes the request a creator nor changes what it created.
CreatorKept(p) ==
  /\ unbilled' = unbilled
  /\ Creating(p)' => /\ Creating(p)
                     /\ req'[p].realm = req[p].realm
                     /\ req'[p].key = req[p].key

\* A request that stays where it is keeps its invariant while others write.
LEMMA RequestKept ==
  ASSUME Grows, NEW o \in Proc, RequestType(o), RequestInv(o),
         pc'[o] = pc[o], req'[o] = req[o]
  PROVE  RequestInv(o)'
<1> USE DEF RequestType, Grows
<1>1. ValidationInv(o)'
  <2>1. pc[o] \in PutSteps => req[o].key \in Node /\ req[o].realm \in Realm
    BY DEF PutRequest
  <2> QED
    BY <2>1 DEF RequestInv, ValidationInv, CheckedSteps
<1>2. WritingInv(o)'
  <2>1. CASE pc[o] \in StoredSteps
    <3>1. /\ req[o] \in PutRequest
          /\ req[o].key \in Node /\ req[o].realm \in Realm /\ req[o].next \in Nat
      BY <2>1 DEF PutRequest, PutSteps, StoredSteps
    <3>2. pc[o] = "incUpdate" => Target(req[o]) \in Node
      BY <3>1, BodyTypes DEF RequestInv, WritingInv, Target
    <3>3. Target(req'[o]) = Target(req[o])
      BY DEF Target
    <3> QED
      BY <2>1, <3>1, <3>2, <3>3 DEF RequestInv, WritingInv, StoredSteps, CountSteps
  <2>2. CASE pc[o] \notin StoredSteps
    BY <2>2 DEF WritingInv, StoredSteps, CountSteps
  <2> QED
    BY <2>1, <2>2
<1>3. CreatorInv(o)'
  BY DEF RequestInv, CreatorInv, Creating
<1> QED
  BY <1>1, <1>2, <1>3 DEF RequestInv

\* What a waiting reader was told stays true while the stores grow.
LEMMA ReaderKept ==
  ASSUME Grows, NEW o \in Proc, RequestType(o), ReaderInv(o),
         pc'[o] = pc[o], req'[o] = req[o]
  PROVE  ReaderInv(o)'
<1>1. pc[o] = "prepare" => req[o].realm \in Realm
  BY DEF RequestType, PrepareRequest
<1> QED
  BY <1>1 DEF Grows, ReaderInv

\* Creators stay distinct when no request becomes one.
LEMMA CreatorsStay ==
  ASSUME OneCreator, NEW p \in Proc, OthersStay(p), CreatorKept(p)
  PROVE  OneCreator'
<1>1. \A o \in Proc : Creating(o)' => /\ Creating(o)
                                     /\ req'[o].realm = req[o].realm
                                     /\ req'[o].key = req[o].key
  BY DEF OthersStay, CreatorKept, Creating
<1>2. unbilled' = unbilled
  BY DEF CreatorKept
<1> QED
  BY <1>1, <1>2 DEF OneCreator

\* A step is safe when it is safe for the request that takes it.
LEMMA StepIsLocal ==
  ASSUME IInv, NEW p \in Proc, Grows, OthersStay(p), StoreType', StoreInv',
         pc' \in [Proc -> Step], req' = [o \in Proc |-> req'[o]],
         RequestType(p)', RequestInv(p)', ReaderInv(p)', OneCreator'
  PROVE  IInv'
<1>1. \A o \in Proc : RequestType(o) /\ RequestInv(o) /\ ReaderInv(o)
  BY DEF IInv, TypeOK, RequestType, Requests, ReadersSeeWholeNodes, ReaderInv
<1>2. \A o \in Proc : RequestType(o)'
  <2> SUFFICES ASSUME NEW o \in Proc, o # p PROVE RequestType(o)'
    OBVIOUS
  <2> QED
    BY <1>1 DEF RequestType, OthersStay
<1>3. TypeOK'
  BY <1>2 DEF TypeOK, StoreType, RequestType
<1>4. Requests'
  <2> SUFFICES ASSUME NEW o \in Proc, o # p PROVE RequestInv(o)'
    BY DEF Requests
  <2> QED
    BY <1>1, RequestKept DEF OthersStay
<1>5. ReadersSeeWholeNodes'
  <2> SUFFICES ASSUME NEW o \in Proc, o # p PROVE ReaderInv(o)'
    BY DEF ReadersSeeWholeNodes, ReaderInv
  <2> QED
    BY <1>1, ReaderKept DEF OthersStay
<1> QED
  BY <1>3, <1>4, <1>5 DEF IInv, StoreInv

\* A step that writes no store: what remains to show is about its request.
LEMMA QuietStep ==
  ASSUME IInv, NEW p \in Proc, UNCHANGED <<stores, ghosts>>, Moves(p),
         RequestType(p)', RequestInv(p)', ReaderInv(p)', CreatorKept(p)
  PROVE  IInv'
<1> USE DEF stores, ghosts
<1>1. TypeOK /\ OneCreator /\ BlobsClosed /\ RowsBacked /\ AnsweredPutsSurvive
        /\ UnbilledBacked
  BY DEF IInv
<1>2. Grows
  BY DEF Grows, HasRef
<1>3. OthersStay(p) /\ pc' \in [Proc -> Step] /\ req' = [o \in Proc |-> req'[o]]
  BY <1>1 DEF Moves, RequestType, OthersStay, TypeOK
<1>4. StoreType'
  BY <1>1 DEF TypeOK, StoreType
<1>5. StoreInv'
  BY <1>1 DEF StoreInv, BlobsClosed, RowsBacked, AnsweredPutsSurvive, UnbilledBacked, HasRef
<1>6. OneCreator'
  BY <1>1, <1>3, CreatorsStay
<1> QED
  BY <1>2, <1>3, <1>4, <1>5, <1>6, StepIsLocal

\* A request that is over has nothing left to keep.
LEMMA EndIsSafe ==
  ASSUME IInv, NEW p \in Proc, End(p)
  PROVE  /\ Moves(p) /\ pc'[p] = "idle"
         /\ RequestType(p)' /\ RequestInv(p)' /\ ReaderInv(p)' /\ ~Creating(p)'
<1>1. pc \in [Proc -> Step] /\ DOMAIN req = Proc
  BY DEF IInv, TypeOK
<1>2. pc'[p] = "idle" /\ req'[p] = NoRequest /\ Moves(p)
  BY <1>1 DEF End, Begin, Goto, Moves
<1>3. RequestType(p)' /\ ~Creating(p)' /\ ReaderInv(p)'
  BY <1>2 DEF RequestType, Step, PutSteps, GetSteps, Creating, ReaderInv
<1>4. RequestInv(p)'
  BY <1>2, <1>3 DEF RequestInv, ValidationInv, WritingInv, CreatorInv,
                    CheckedSteps, StoredSteps, CountSteps
<1> QED
  BY <1>2, <1>3, <1>4

\* What the invariant says of a PUT that is being handled.
LEMMA PutFacts ==
  ASSUME IInv, NEW p \in Proc, pc[p] \in PutSteps
  PROVE  /\ req[p] \in PutRequest
         /\ req[p].key \in Node /\ req[p].realm \in Realm /\ req[p].next \in Nat
         /\ req[p].missing \in BOOLEAN /\ req[p].isNew \in BOOLEAN
         /\ req[p].base \subseteq Node
         /\ pc \in [Proc -> Step] /\ DOMAIN req = Proc
         /\ req = [o \in Proc |-> req[o]]
         /\ ValidationInv(p) /\ WritingInv(p) /\ CreatorInv(p)
<1>1. TypeOK /\ RequestInv(p)
  BY DEF IInv, Requests
<1>2. req[p] \in PutRequest
  BY <1>1 DEF TypeOK
<1> QED
  BY <1>1, <1>2 DEF TypeOK, PutRequest, RequestInv

-----------------------------------------------------------------------------
(* The steps that write no store. *)

\* Ending a request that has written nothing, or has been answered.
LEMMA QuietEnd ==
  ASSUME IInv, NEW p \in Proc, End(p), UNCHANGED <<stores, ghosts>>
  PROVE  IInv'
BY EndIsSafe, QuietStep DEF CreatorKept, ghosts

\* A new PUT has achieved nothing yet.
LEMMA ReceivePutInv ==
  ASSUME IInv, NEW p \in Proc, NEW r \in Realm, NEW n \in Node, ReceivePut(p, r, n)
  PROVE  IInv'
<1>1. pc \in [Proc -> Step] /\ DOMAIN req = Proc
  BY DEF IInv, TypeOK
<1>2. /\ pc'[p] = IF Children[n] = <<>> THEN "readRef" ELSE "hasChild"
      /\ req'[p] = NewPut(r, n) /\ Moves(p)
      /\ UNCHANGED <<stores, ghosts>>
  BY <1>1 DEF ReceivePut, Begin, Goto, Moves
<1>3. NewPut(r, n) \in PutRequest /\ ~NewPut(r, n).isNew
  BY BodyTypes DEF NewPut, PutRequest
<1>4. RequestType(p)' /\ ReaderInv(p)' /\ CreatorKept(p)
  BY <1>2, <1>3 DEF RequestType, Step, PutSteps, GetSteps, ReaderInv, CreatorKept, Creating, ghosts
<1>5. RequestInv(p)'
  <2>1. Children[n] = <<>> => ChildSet(n) = {}
    BY BodyTypes
  <2>2. Children[n] # <<>> => 1 \in 1 .. Len(Children[n])
    BY BodyTypes
  <2> QED
    BY <1>2, <2>1, <2>2 DEF NewPut, RequestInv, ValidationInv, WritingInv, CreatorInv, Creating,
       CheckedSteps, StoredSteps, CountSteps, PutSteps
<1> QED
  BY <1>2, <1>4, <1>5, QuietStep

\* The existence loop: one more child is known to be stored, or one is missing.
LEMMA HasChildInv ==
  ASSUME IInv, NEW p \in Proc, HasChild(p)
  PROVE  IInv'
<1> DEFINE q == req[p]
           absent == Children[q.key][q.next] \notin blobs
           m == q.missing \/ absent
<1>1. pc[p] = "hasChild" /\ pc[p] \in PutSteps
  BY DEF HasChild, PutSteps
<1>2. /\ q \in PutRequest /\ q.key \in Node
      /\ q.next \in Nat /\ q.next \in 1 .. Len(Children[q.key])
      /\ ~q.missing => \A i \in 1 .. q.next - 1 : Children[q.key][i] \in blobs
      /\ q.next + 1 \in Nat /\ ~q.isNew
  BY <1>1, PutFacts DEF ValidationInv, CreatorInv, Creating
<1>3. /\ pc'[p] = IF q.next = Len(Children[q.key]) THEN "getSizes" ELSE "hasChild"
      /\ req'[p] = [q EXCEPT !.missing = m, !.next = q.next + 1]
      /\ Moves(p)
      /\ UNCHANGED <<stores, ghosts>>
  BY <1>1, PutFacts DEF HasChild, Goto, Moves
<1>4. m \in BOOLEAN
  BY <1>2 DEF PutRequest
<1>5. ~m => ~q.missing /\ Children[q.key][q.next] \in blobs
  OBVIOUS
<1>6. /\ req'[p] \in PutRequest
      /\ req'[p].key = q.key /\ req'[p].next = q.next + 1
      /\ req'[p].missing = m /\ ~req'[p].isNew
  <2> HIDE DEF m, q
  <2>1. req'[p].key = q.key /\ req'[p].next = q.next + 1
    BY <1>2, <1>3 DEF PutRequest
  <2>2. req'[p].missing = m
    BY <1>2, <1>3 DEF PutRequest
  <2>3. req'[p].isNew = q.isNew
    BY <1>2, <1>3 DEF PutRequest
  <2>4. req'[p] \in PutRequest
    BY <1>2, <1>3, <1>4 DEF PutRequest
  <2> QED
    BY <1>2, <2>1, <2>2, <2>3, <2>4
<1> HIDE DEF m
<1>7. RequestType(p)' /\ ReaderInv(p)' /\ CreatorKept(p)
  BY <1>3, <1>6 DEF RequestType, Step, PutSteps, GetSteps, ReaderInv, CreatorKept, Creating, ghosts
<1>8. ~m => \A i \in 1 .. q.next : Children[q.key][i] \in blobs
  <2> SUFFICES ASSUME ~m, NEW i \in 1 .. q.next PROVE Children[q.key][i] \in blobs
    OBVIOUS
  <2>1. i \in 1 .. q.next - 1 \/ i = q.next
    BY <1>2
  <2> QED
    BY <1>2, <1>5, <2>1
<1>9. q.next = Len(Children[q.key]) /\ ~m => ChildSet(q.key) \subseteq blobs
  <2>1. ChildSet(q.key) = {Children[q.key][i] : i \in 1 .. Len(Children[q.key])}
    BY <1>2, BodyTypes
  <2> QED
    BY <1>8, <2>1
<1>10. Len(Children[q.key]) \in Nat /\ blobs' = blobs
  BY <1>2, <1>3, BodyTypes DEF stores
<1>11. ValidationInv(p)'
  BY <1>2, <1>3, <1>6, <1>8, <1>9, <1>10 DEF ValidationInv, CheckedSteps
<1>12. WritingInv(p)' /\ CreatorInv(p)'
  BY <1>3, <1>6 DEF WritingInv, CreatorInv, Creating, StoredSteps, CountSteps
<1> QED
  BY <1>3, <1>7, <1>11, <1>12, QuietStep DEF RequestInv

\* A PUT that only goes on to its next await.
LEMMA GotoInv ==
  ASSUME IInv, NEW p \in Proc, pc[p] \in PutSteps, NEW l \in PutSteps, Goto(p, l),
         UNCHANGED <<stores, req, ghosts>>, RequestInv(p)'
  PROVE  IInv'
<1>1. pc'[p] = l /\ Moves(p)
  BY PutFacts DEF Goto, Moves
<1>2. RequestType(p)' /\ ReaderInv(p)'
  BY <1>1, PutFacts DEF RequestType, ReaderInv, Step, PutSteps, GetSteps
<1>3. CreatorKept(p)
  BY <1>1 DEF CreatorKept, Creating, ghosts
<1> QED
  BY <1>1, <1>2, <1>3, QuietStep

\* A PUT that passes validation has all its children stored.
LEMMA FinishValidationInv ==
  ASSUME IInv, NEW p \in Proc, FinishValidation(p)
  PROVE  IInv'
<1>1. pc[p] = "getSizes" /\ pc[p] \in PutSteps /\ UNCHANGED <<stores, ghosts>>
  BY DEF FinishValidation, PutSteps
<1>2. CASE End(p)
  BY <1>1, <1>2, QuietEnd
<1>3. CASE ~End(p)
  <2>1. ~req[p].missing /\ Goto(p, "readRef") /\ req' = req
    BY <1>3 DEF FinishValidation
  <2>2. pc'[p] = "readRef" /\ blobs' = blobs
    BY <1>1, <2>1, PutFacts DEF Goto, stores
  <2>3. RequestInv(p)'
    BY <1>1, <2>1, <2>2, PutFacts DEF RequestInv, ValidationInv, WritingInv, CreatorInv, Creating,
       CheckedSteps, StoredSteps, CountSteps
  <2> QED
    BY <1>1, <2>1, <2>3, GotoInv DEF PutSteps
<1> QED
  BY <1>2, <1>3

\* Reading the reference row decides only where the PUT goes next.
LEMMA ReadRefInv ==
  ASSUME IInv, NEW p \in Proc, ReadRef(p)
  PROVE  IInv'
<1>1. /\ pc[p] = "readRef" /\ pc[p] \in PutSteps
      /\ UNCHANGED <<stores, req, ghosts>>
  BY DEF ReadRef, PutSteps
<1>2. PICK l \in {"putBlob", "checkQuota"} : Goto(p, l)
  BY DEF ReadRef
<1>3. pc'[p] = l /\ blobs' = blobs
  BY <1>1, <1>2, PutFacts DEF Goto, stores
<1>4. RequestInv(p)'
  BY <1>1, <1>3, PutFacts DEF RequestInv, ValidationInv, WritingInv, CreatorInv, Creating,
     CheckedSteps, StoredSteps, CountSteps
<1> QED
  BY <1>1, <1>2, <1>4, GotoInv DEF PutSteps

\* The quota check ends the PUT or lets it go on.
LEMMA CheckQuotaInv ==
  ASSUME IInv, NEW p \in Proc, CheckQuota(p)
  PROVE  IInv'
<1>1. pc[p] = "checkQuota" /\ pc[p] \in PutSteps /\ UNCHANGED <<stores, ghosts>>
  BY DEF CheckQuota, PutSteps
<1>2. CASE End(p)
  BY <1>1, <1>2, QuietEnd
<1>3. CASE ~End(p)
  <2>1. Goto(p, "putBlob") /\ req' = req
    BY <1>3 DEF CheckQuota
  <2>2. pc'[p] = "putBlob" /\ blobs' = blobs
    BY <1>1, <2>1, PutFacts DEF Goto, stores
  <2>3. RequestInv(p)'
    BY <1>1, <2>1, <2>2, PutFacts DEF RequestInv, ValidationInv, WritingInv, CreatorInv, Creating,
       CheckedSteps, StoredSteps, CountSteps
  <2> QED
    BY <1>1, <2>1, <2>3, GotoInv DEF PutSteps
<1> QED
  BY <1>2, <1>3

-----------------------------------------------------------------------------
(* The reads. *)

\* A step that leaves a request reading, with what it reads in place.
LEMMA ReadingInv ==
  ASSUME IInv, NEW p \in Proc, UNCHANGED <<stores, ghosts>>, Moves(p),
         pc'[p] \in GetSteps \cup {"prepare"}, RequestType(p)', ReaderInv(p)'
  PROVE  IInv'
<1>1. pc'[p] \notin PutSteps
  BY DEF GetSteps, PutSteps
<1>2. RequestInv(p)'
  BY <1>1 DEF RequestInv, ValidationInv, WritingInv, CreatorInv, Creating,
     CheckedSteps, StoredSteps, CountSteps, PutSteps
<1>3. CreatorKept(p)
  BY <1>1 DEF CreatorKept, Creating, ghosts
<1> QED
  BY <1>2, <1>3, QuietStep

\* Steps of GET and prepare-nodes.
LEMMA ReadStepInv ==
  ASSUME IInv, NEW p \in Proc, ReadStep(p)
  PROVE  IInv'
<1>1. pc \in [Proc -> Step] /\ req = [o \in Proc |-> req[o]] /\ RowsBacked
  BY DEF IInv, TypeOK
<1>2. UNCHANGED <<stores, ghosts>>
  BY DEF ReadStep, HasOwnership, GetBlob, PrepareKey, ReplyPrepare
<1>3. CASE End(p)
  BY <1>2, <1>3, QuietEnd
<1>4. CASE HasOwnership(p) /\ ~End(p)
  <2>1. req[p] \in GetRequest
    BY <1>4 DEF HasOwnership, IInv, TypeOK, GetSteps
  <2>2. /\ req' = req /\ Goto(p, "getBlob") /\ blobs' = blobs
        /\ req[p].key \in owned[req[p].realm]
    BY <1>4 DEF HasOwnership, stores
  <2>3. pc'[p] = "getBlob" /\ Moves(p)
    BY <1>1, <2>2 DEF Goto, Moves
  <2>4. RequestType(p)' /\ ReaderInv(p)'
    BY <1>1, <2>1, <2>2, <2>3 DEF RequestType, ReaderInv, RowsBacked, GetRequest,
       Step, PutSteps, GetSteps
  <2> QED
    BY <1>2, <2>3, <2>4, ReadingInv DEF GetSteps
<1>5. ASSUME NEW n \in Node, PrepareKey(p, n) PROVE IInv'
  <2>1. /\ pc[p] = "prepare" /\ req[p] \in PrepareRequest /\ ReaderInv(p)
        /\ req[p].realm \in Realm
    BY <1>5 DEF PrepareKey, IInv, TypeOK, PrepareRequest, ReadersSeeWholeNodes, ReaderInv
  <2>2. PICK e \in {req[p].exists, req[p].exists \cup {n}} :
          /\ req'[p] = [req[p] EXCEPT !.todo = @ \ {n}, !.exists = e]
          /\ e # req[p].exists => n \in owned[req[p].realm]
    BY <1>1, <1>5 DEF PrepareKey
  <2>3. pc'[p] = "prepare" /\ Moves(p) /\ UNCHANGED <<blobs, owned>>
    BY <1>1, <1>5, <2>1 DEF PrepareKey, Moves, stores
  <2>4. e \subseteq owned[req[p].realm] \cap blobs /\ e \subseteq Node
    BY <1>1, <2>1, <2>2 DEF ReaderInv, RowsBacked, PrepareRequest
  <2>5. RequestType(p)' /\ ReaderInv(p)'
    BY <2>1, <2>2, <2>3, <2>4 DEF RequestType, ReaderInv, PrepareRequest, Step, PutSteps, GetSteps
  <2> QED
    BY <1>2, <2>3, <2>5, ReadingInv
<1> QED
  BY <1>3, <1>4, <1>5 DEF ReadStep, GetBlob, ReplyPrepare

\* A new GET.
LEMMA ReceiveGetInv ==
  ASSUME IInv, NEW p \in Proc, NEW r \in Realm, NEW n \in Node, ReceiveGet(p, r, n)
  PROVE  IInv'
<1>1. pc \in [Proc -> Step] /\ DOMAIN req = Proc
  BY DEF IInv, TypeOK
<1>2. /\ pc'[p] = "hasOwnership" /\ req'[p] = [realm |-> r, key |-> n]
      /\ Moves(p) /\ UNCHANGED <<stores, ghosts>>
  BY <1>1 DEF ReceiveGet, Begin, Goto, Moves
<1>3. RequestType(p)' /\ ReaderInv(p)'
  BY <1>2 DEF RequestType, ReaderInv, GetRequest, Step, PutSteps, GetSteps
<1> QED
  BY <1>2, <1>3, ReadingInv DEF GetSteps

\* A new prepare-nodes.
LEMMA ReceivePrepareInv ==
  ASSUME IInv, NEW p \in Proc, NEW r \in Realm, NEW keys \in SUBSET Node,
         ReceivePrepare(p, r, keys)
  PROVE  IInv'
<1>1. pc \in [Proc -> Step] /\ DOMAIN req = Proc
  BY DEF IInv, TypeOK
<1>2. /\ pc'[p] = "prepare" /\ req'[p] = [realm |-> r, todo |-> keys, exists |-> {}]
      /\ Moves(p) /\ UNCHANGED <<stores, ghosts>>
  BY <1>1 DEF ReceivePrepare, Begin, Goto, Moves
<1>3. RequestType(p)' /\ ReaderInv(p)'
  BY <1>2 DEF RequestType, ReaderInv, PrepareRequest, Step, PutSteps, GetSteps
<1> QED
  BY <1>2, <1>3, ReadingInv

-----------------------------------------------------------------------------
(* The steps that write a store. *)

\* Writing one store keeps the rest as it is.
LEMMA PutBlobInv ==
  ASSUME IInv, NEW p \in Proc, PutBlob(p)
  PROVE  IInv'
<1> DEFINE q == req[p]
<1>1. pc[p] = "putBlob" /\ pc[p] \in PutSteps
  BY DEF PutBlob, PutSteps
<1>2. /\ q \in PutRequest /\ q.key \in Node /\ q.realm \in Realm
      /\ ChildSet(q.key) \subseteq blobs /\ ~q.isNew
  BY <1>1, PutFacts DEF ValidationInv, CreatorInv, Creating, CheckedSteps
<1>3. /\ blobs' = blobs \cup {q.key} /\ pc'[p] = "addOwnership"
      /\ UNCHANGED <<owned, refCount, usage, req, acked, unbilled, counted>>
      /\ Moves(p)
  BY <1>1, PutFacts DEF PutBlob, Goto, Moves, ghosts
<1>4. TypeOK /\ BlobsClosed /\ RowsBacked /\ AnsweredPutsSurvive /\ UnbilledBacked
        /\ OneCreator
  BY DEF IInv
<1>5. Grows /\ OthersStay(p) /\ pc' \in [Proc -> Step] /\ req' = [o \in Proc |-> req'[o]]
  BY <1>3, <1>4 DEF Grows, HasRef, OthersStay, Moves, TypeOK, Step, PutSteps
<1>6. StoreType'
  BY <1>2, <1>3, <1>4 DEF StoreType, TypeOK
<1>7. StoreInv'
  <2>1. BlobsClosed'
    BY <1>2, <1>3, <1>4 DEF BlobsClosed
  <2>2. RowsBacked' /\ AnsweredPutsSurvive' /\ UnbilledBacked'
    BY <1>3, <1>4 DEF RowsBacked, AnsweredPutsSurvive, UnbilledBacked, HasRef
  <2> QED
    BY <2>1, <2>2 DEF StoreInv
<1>8. RequestType(p)' /\ RequestInv(p)' /\ ReaderInv(p)'
  <2>1. RequestType(p)' /\ ReaderInv(p)'
    BY <1>2, <1>3 DEF RequestType, ReaderInv, Step, PutSteps, GetSteps
  <2>2. RequestInv(p)'
    BY <1>2, <1>3 DEF RequestInv, ValidationInv, WritingInv, CreatorInv, Creating,
       CheckedSteps, StoredSteps, CountSteps, PutSteps
  <2> QED
    BY <2>1, <2>2
<1>9. OneCreator'
  BY <1>1, <1>3, <1>4, <1>5, CreatorsStay DEF CreatorKept, Creating
<1> QED
  BY <1>5, <1>6, <1>7, <1>8, <1>9, StepIsLocal

\* The ownership row is written when the blob is there.
LEMMA AddOwnershipInv ==
  ASSUME IInv, NEW p \in Proc, AddOwnership(p)
  PROVE  IInv'
<1> DEFINE q == req[p]
<1>1. pc[p] = "addOwnership" /\ pc[p] \in PutSteps
  BY DEF AddOwnership, PutSteps
<1>2. /\ q \in PutRequest /\ q.key \in Node /\ q.realm \in Realm
      /\ q.key \in blobs /\ ~q.isNew
  BY <1>1, PutFacts DEF WritingInv, StoredSteps, CreatorInv, Creating
<1>3. /\ owned' = [owned EXCEPT ![q.realm] = @ \cup {q.key}]
      /\ pc'[p] = "incUpdate" /\ req'[p] = [q EXCEPT !.next = 0]
      /\ UNCHANGED <<blobs, refCount, usage, acked, unbilled, counted>>
      /\ Moves(p)
  BY <1>1, PutFacts DEF AddOwnership, Goto, Moves, ghosts
<1>4. /\ req'[p] \in PutRequest /\ req'[p].realm = q.realm /\ req'[p].key = q.key
      /\ req'[p].next = 0 /\ ~req'[p].isNew
  BY <1>2, <1>3 DEF PutRequest
<1>5. TypeOK /\ BlobsClosed /\ RowsBacked /\ AnsweredPutsSurvive /\ UnbilledBacked
        /\ OneCreator
  BY DEF IInv
<1>6. /\ owned' \in [Realm -> SUBSET Node] /\ q.key \in owned'[q.realm]
      /\ \A r \in Realm : owned[r] \subseteq owned'[r] /\ owned'[r] \subseteq owned[r] \cup {q.key}
  BY <1>2, <1>3, <1>5 DEF TypeOK
<1>7. Grows /\ OthersStay(p) /\ pc' \in [Proc -> Step] /\ req' = [o \in Proc |-> req'[o]]
  BY <1>3, <1>5, <1>6 DEF Grows, HasRef, OthersStay, Moves, TypeOK, Step, PutSteps
<1>8. StoreType'
  BY <1>3, <1>5, <1>6 DEF StoreType, TypeOK
<1>9. StoreInv'
  BY <1>2, <1>3, <1>5, <1>6 DEF StoreInv, BlobsClosed, RowsBacked, AnsweredPutsSurvive,
     UnbilledBacked, HasRef
<1>10. RequestType(p)' /\ ReaderInv(p)'
  BY <1>3, <1>4 DEF RequestType, ReaderInv, Step, PutSteps, GetSteps
<1>11. RequestInv(p)'
  <2>1. 0 \in 0 .. Len(Children[q.key])
    BY <1>2, BodyTypes
  <2> QED
    BY <1>2, <1>3, <1>4, <1>6, <2>1 DEF RequestInv, ValidationInv, WritingInv, CreatorInv,
       Creating, CheckedSteps, StoredSteps, CountSteps, PutSteps
<1>12. OneCreator'
  BY <1>3, <1>4, <1>5, <1>7, CreatorsStay DEF CreatorKept, Creating
<1> QED
  BY <1>7, <1>8, <1>9, <1>10, <1>11, <1>12, StepIsLocal

\* A death leaves the stores, and a creator that dies leaves its row unbilled.
LEMMA DieInv ==
  ASSUME IInv, NEW p \in Proc, Die(p)
  PROVE  IInv'
<1>1. /\ End(p)
      /\ UNCHANGED <<blobs, owned, refCount, usage, acked, counted>>
  BY DEF Die, stores
<1>2. CASE ~Creating(p)
  BY <1>1, <1>2, QuietEnd DEF Die, ghosts
<1>3. CASE Creating(p)
  <2> DEFINE r == req[p].realm
             n == req[p].key
  <2>1. unbilled' = [unbilled EXCEPT ![r] = @ \cup {n}]
    BY <1>3 DEF Die
  <2>2. pc[p] \in PutSteps /\ pc[p] \in CountSteps /\ req[p].next # 0
    BY <1>3, PutFacts DEF Creating, CreatorInv, CountSteps
  <2>3. n \in Node /\ r \in Realm /\ HasRef(r, n)
    BY <2>2, PutFacts DEF WritingInv
  <2>4. TypeOK /\ BlobsClosed /\ RowsBacked /\ AnsweredPutsSurvive /\ UnbilledBacked
          /\ OneCreator
    BY DEF IInv
  <2>5. Grows /\ OthersStay(p) /\ pc' \in [Proc -> Step] /\ req' = [o \in Proc |-> req'[o]]
    BY <1>1, <2>4, EndIsSafe DEF Grows, HasRef, OthersStay, Moves, TypeOK, Step
  <2>6. /\ unbilled' \in [Realm -> SUBSET Node]
        /\ \A s \in Realm : \A m \in unbilled'[s] : m \in unbilled[s] \/ (s = r /\ m = n)
    BY <2>1, <2>3, <2>4 DEF TypeOK
  <2>7. StoreType'
    BY <1>1, <2>4, <2>6 DEF StoreType, TypeOK
  <2>8. StoreInv'
    BY <1>1, <2>3, <2>4, <2>6 DEF StoreInv, BlobsClosed, RowsBacked, AnsweredPutsSurvive,
       UnbilledBacked, HasRef
  <2>9. OneCreator'
    <3>1. \A o \in Proc : Creating(o)' =>
            /\ o # p /\ Creating(o) /\ req'[o] = req[o]
            /\ req[o].realm \in Realm
      BY <1>1, <2>5, EndIsSafe, PutFacts DEF OthersStay, Creating
    <3>2. \A o \in Proc : Creating(o)' => req[o].key \notin unbilled'[req[o].realm]
      BY <1>3, <2>4, <2>6, <3>1 DEF OneCreator
    <3> QED
      BY <2>4, <3>1, <3>2 DEF OneCreator
  <2> QED
    BY <1>1, <2>5, <2>7, <2>8, <2>9, EndIsSafe, StepIsLocal
<1> QED
  BY <1>2, <1>3

-----------------------------------------------------------------------------
(* The increments. *)

\* What the invariant says of a PUT that is past its ownership row.
LEMMA CountingFacts ==
  ASSUME IInv, NEW p \in Proc, pc[p] \in CountSteps
  PROVE  /\ pc[p] \in PutSteps
         /\ req[p].key \in blobs
         /\ req[p].key \in owned[req[p].realm]
         /\ req[p].next = 0 \/ HasRef(req[p].realm, req[p].key)
         /\ pc[p] # "updateUsage" => req[p].next \in 0 .. Len(Children[req[p].key])
         /\ pc[p] # "updateUsage" => Target(req[p]) \in Node
         /\ Creating(p) => req[p].next > 0
         /\ Len(Children[req[p].key]) \in Nat
<1>1. pc[p] \in PutSteps /\ pc[p] \in StoredSteps
  BY DEF CountSteps, StoredSteps, PutSteps
<1>2. pc[p] # "updateUsage" => req[p].next \in 0 .. Len(Children[req[p].key])
  BY <1>1, PutFacts, BodyTypes DEF WritingInv, CountSteps
<1>3. pc[p] # "updateUsage" => Target(req[p]) \in Node
  BY <1>1, <1>2, PutFacts, BodyTypes DEF Target
<1> QED
  BY <1>1, <1>2, <1>3, PutFacts, BodyTypes DEF WritingInv, CreatorInv

\* A reply: its node is backed by all three rows.
LEMMA AnswerInv ==
  ASSUME IInv, NEW p \in Proc, pc[p] \in CountSteps, Answer(req[p]), End(p),
         UNCHANGED <<blobs, owned, unbilled>>,
         usage' \in [Realm -> Usage], refCount' \in [Realm -> [Node -> Nat]],
         \A r \in Realm, n \in Node : HasRef(r, n) => HasRef(r, n)',
         \A r \in Realm, n \in Node : HasRef(r, n)' => n \in owned[r],
         refCount'[req[p].realm][req[p].key] > 0
  PROVE  IInv'
<1> DEFINE q == req[p]
<1>1. TypeOK /\ BlobsClosed /\ RowsBacked /\ AnsweredPutsSurvive /\ UnbilledBacked
        /\ OneCreator
  BY DEF IInv
<1>2. /\ q.key \in Node /\ q.realm \in Realm /\ q.base \subseteq Node
      /\ q.key \in blobs /\ q.key \in owned[q.realm]
  BY CountingFacts, PutFacts
<1>3. Grows /\ OthersStay(p) /\ pc' \in [Proc -> Step] /\ req' = [o \in Proc |-> req'[o]]
  BY <1>1, EndIsSafe DEF Grows, OthersStay, Moves, TypeOK, Step
<1>4. /\ acked' \in [Realm -> SUBSET Node]
      /\ \A r \in Realm : \A n \in acked'[r] : n \in acked[r] \/ (r = q.realm /\ n = q.key)
  BY <1>1, <1>2 DEF Answer, TypeOK
<1>5. counted' \subseteq Realm \X Node \X Node
  BY <1>1, <1>2 DEF Answer, TypeOK
<1>6. StoreType'
  BY <1>1, <1>4, <1>5 DEF StoreType, TypeOK
<1>7. StoreInv'
  <2>1. BlobsClosed'
    BY <1>1 DEF BlobsClosed
  <2>2. RowsBacked'
    BY <1>1 DEF RowsBacked
  <2>3. AnsweredPutsSurvive'
    <3> SUFFICES ASSUME NEW r \in Realm, NEW n \in acked'[r]
                 PROVE  n \in blobs /\ n \in owned[r] /\ HasRef(r, n)'
      BY DEF AnsweredPutsSurvive
    <3>1. CASE n \in acked[r]
      <4>1. n \in Node /\ n \in blobs /\ n \in owned[r] /\ HasRef(r, n)
        BY <1>1, <3>1 DEF AnsweredPutsSurvive, TypeOK
      <4> QED
        BY <4>1
    <3>2. CASE r = q.realm /\ n = q.key
      BY <1>2, <3>2 DEF HasRef
    <3> QED
      BY <1>4, <3>1, <3>2
  <2>4. UnbilledBacked'
    BY <1>1 DEF UnbilledBacked, TypeOK
  <2> QED
    BY <2>1, <2>2, <2>3, <2>4 DEF StoreInv
<1>8. OneCreator'
  BY <1>1, <1>3, EndIsSafe, CreatorsStay DEF CreatorKept
<1> QED
  BY <1>3, <1>6, <1>7, <1>8, EndIsSafe, StepIsLocal

\* Going on to the next target, or to the usage row, or to the reply.
LEMMA AdvanceInv ==
  ASSUME IInv, NEW p \in Proc, pc[p] \in CountSteps, pc[p] # "updateUsage",
         NEW new \in BOOLEAN, Advance(p, new),
         UNCHANGED <<blobs, owned, usage>>, refCount' \in [Realm -> [Node -> Nat]],
         \A r \in Realm, n \in Node : HasRef(r, n) => HasRef(r, n)',
         \A r \in Realm, n \in Node : HasRef(r, n)' => n \in owned[r],
         refCount'[req[p].realm][req[p].key] > 0,
         unbilled' = unbilled /\ ~End(p) => OneCreator'
  PROVE  IInv'
<1> DEFINE q == req[p]
<1>1. TypeOK /\ BlobsClosed /\ RowsBacked /\ AnsweredPutsSurvive /\ UnbilledBacked
        /\ OneCreator
  BY DEF IInv
<1>2. /\ q \in PutRequest /\ q.key \in Node /\ q.realm \in Realm /\ q.next + 1 \in Nat
      /\ q.key \in blobs /\ q.key \in owned[q.realm]
      /\ q.next \in 0 .. Len(Children[q.key]) /\ Len(Children[q.key]) \in Nat
  BY CountingFacts, PutFacts
<1>3. CASE AfterIncrement(q, new) = "idle"
  <2>1. End(p) /\ Answer(q) /\ unbilled' = unbilled
    BY <1>3 DEF Advance
  <2>2. usage' \in [Realm -> Usage]
    BY <1>1 DEF TypeOK
  <2> QED
    BY <2>1, <2>2, AnswerInv
<1>4. CASE AfterIncrement(q, new) # "idle"
  <2> DEFINE l == AfterIncrement(q, new)
  <2>1. /\ l \in {"readChildRef", "updateUsage"}
        /\ l = "readChildRef" => q.next + 1 \in 0 .. Len(Children[q.key])
        /\ l = "updateUsage" => new
    BY <1>2, <1>4 DEF AfterIncrement
  <2>2. /\ pc'[p] = l /\ req'[p] = [q EXCEPT !.next = q.next + 1, !.isNew = new]
        /\ Moves(p) /\ UNCHANGED ghosts
    BY <1>1, <1>4 DEF Advance, Goto, Moves, TypeOK
  <2> HIDE DEF l
  <2>3. /\ req'[p] \in PutRequest /\ req'[p].realm = q.realm /\ req'[p].key = q.key
        /\ req'[p].next = q.next + 1 /\ req'[p].isNew = new
    BY <1>2, <2>2 DEF PutRequest
  <2>4. l \in Step /\ l # "idle" /\ ~End(p)
    BY <1>1, <2>1, <2>2 DEF Step, PutSteps, End, Begin, Goto, TypeOK
  <2>5. Grows /\ OthersStay(p) /\ pc' \in [Proc -> Step] /\ req' = [o \in Proc |-> req'[o]]
    BY <1>1, <2>2, <2>4 DEF Grows, OthersStay, Moves, TypeOK
  <2>6. StoreType' /\ StoreInv'
    <3>1. UNCHANGED <<acked, unbilled, counted>>
      BY <2>2 DEF ghosts
    <3>2. StoreType'
      BY <1>1, <3>1 DEF StoreType, TypeOK
    <3>3. BlobsClosed' /\ RowsBacked'
      BY <1>1 DEF BlobsClosed, RowsBacked
    <3>4. AnsweredPutsSurvive' /\ UnbilledBacked'
      BY <1>1, <3>1 DEF AnsweredPutsSurvive, UnbilledBacked, TypeOK
    <3> QED
      BY <3>2, <3>3, <3>4 DEF StoreInv
  <2>7. RequestType(p)' /\ ReaderInv(p)'
    BY <2>1, <2>2, <2>3, <2>4 DEF RequestType, ReaderInv, Step, PutSteps, GetSteps
  <2>8. RequestInv(p)'
    BY <1>2, <2>1, <2>2, <2>3 DEF RequestInv, ValidationInv, WritingInv, CreatorInv, Creating,
       CheckedSteps, StoredSteps, CountSteps, PutSteps, HasRef
  <2>9. OneCreator'
    BY <2>2, <2>4 DEF ghosts
  <2> QED
    BY <2>5, <2>6, <2>7, <2>8, <2>9, StepIsLocal
<1> QED
  BY <1>3, <1>4

\* The conditional update: a row that is there is counted up, one that is not is created next.
LEMMA IncrementExistingInv ==
  ASSUME IInv, NEW p \in Proc, IncrementExisting(p)
  PROVE  IInv'
<1> DEFINE q == req[p]
           t == Target(q)
<1>1. pc[p] = "incUpdate" /\ pc[p] \in CountSteps /\ pc[p] \in PutSteps
  BY DEF IncrementExisting, CountSteps, PutSteps
<1>2. /\ q \in PutRequest /\ q.key \in Node /\ q.realm \in Realm /\ t \in Node
      /\ q.isNew \in BOOLEAN
      /\ q.next = 0 \/ HasRef(q.realm, q.key)
      /\ q.next > 0 => HasRef(q.realm, t)
      /\ q.next \in Nat
  BY <1>1, CountingFacts, PutFacts DEF WritingInv
<1>3. UNCHANGED <<blobs, owned, usage>>
  BY DEF IncrementExisting
<1>4. TypeOK /\ RowsBacked /\ OneCreator
  BY DEF IInv
<1>5. CASE HasRef(q.realm, t)
  <2>1. /\ refCount' = [refCount EXCEPT ![q.realm][t] = @ + 1]
        /\ Advance(p, q.isNew)
    BY <1>5 DEF IncrementExisting
  <2>2. /\ refCount' \in [Realm -> [Node -> Nat]]
        /\ \A r \in Realm, n \in Node : refCount[r][n] > 0 <=> refCount'[r][n] > 0
    BY <1>2, <1>4, <1>5, <2>1 DEF TypeOK, HasRef
  <2>3. HasRef(q.realm, q.key)
    BY <1>2, <1>5 DEF Target
  <2>4. unbilled' = unbilled /\ ~End(p) => OneCreator'
    <3> SUFFICES ASSUME unbilled' = unbilled, ~End(p) PROVE OneCreator'
      OBVIOUS
    <3>1. /\ Goto(p, AfterIncrement(q, q.isNew))
          /\ req' = [req EXCEPT ![p].next = q.next + 1, ![p].isNew = q.isNew]
      BY <2>1 DEF Advance
    <3>2. OthersStay(p)
      BY <1>4, <3>1 DEF OthersStay, Goto, TypeOK
    <3>3. /\ req'[p].realm = q.realm /\ req'[p].key = q.key /\ req'[p].isNew = q.isNew
      BY <1>2, <1>4, <3>1 DEF PutRequest, TypeOK
    <3>4. CreatorKept(p)
      BY <1>1, <3>3 DEF CreatorKept, Creating
    <3> QED
      BY <1>4, <3>2, <3>4, CreatorsStay
  <2>5. \A r \in Realm, n \in Node : HasRef(r, n) => n \in owned[r]
    BY <1>4 DEF RowsBacked
  <2> QED
    BY <1>1, <1>2, <1>3, <2>1, <2>2, <2>3, <2>4, <2>5, AdvanceInv DEF HasRef
<1>6. CASE ~HasRef(q.realm, t)
  <2>1. Goto(p, "incCreate") /\ UNCHANGED <<stores, req, ghosts>>
    BY <1>3, <1>6 DEF IncrementExisting, stores
  <2>2. pc'[p] = "incCreate" /\ blobs' = blobs /\ owned' = owned
    BY <1>4, <2>1 DEF Goto, TypeOK, stores
  <2>3. q.next = 0 /\ ~q.isNew
    BY <1>1, <1>2, <1>6, PutFacts DEF CreatorInv, Creating
  <2>4. q.key \in blobs /\ q.key \in owned[q.realm]
    BY <1>1, CountingFacts
  <2>5. RequestInv(p)'
    BY <1>2, <2>1, <2>2, <2>3, <2>4 DEF RequestInv, ValidationInv, WritingInv, CreatorInv, Creating,
       CheckedSteps, StoredSteps, CountSteps, PutSteps
  <2> QED
    BY <1>1, <2>1, <2>5, GotoInv DEF PutSteps
<1> QED
  BY <1>5, <1>6

\* The conditional put: its winner is the only creator of the row.
LEMMA CreateRefInv ==
  ASSUME IInv, NEW p \in Proc, CreateRef(p)
  PROVE  IInv'
<1> DEFINE q == req[p]
<1>1. pc[p] = "incCreate" /\ pc[p] \in CountSteps /\ pc[p] \in PutSteps
  BY DEF CreateRef, CountSteps, PutSteps
<1>2. /\ q \in PutRequest /\ q.key \in Node /\ q.realm \in Realm
      /\ q.key \in owned[q.realm]
      /\ q.next = 0 /\ Target(q) = q.key
  BY <1>1, CountingFacts, PutFacts DEF WritingInv, Target
<1>3. UNCHANGED <<blobs, owned, usage>>
  BY DEF CreateRef
<1>4. TypeOK /\ RowsBacked /\ OneCreator /\ UnbilledBacked
  BY DEF IInv
<1>5. CASE HasRef(q.realm, q.key)
  <2>1. End(p) /\ UNCHANGED <<stores, ghosts>>
    BY <1>2, <1>3, <1>5 DEF CreateRef, stores
  <2> QED
    BY <2>1, QuietEnd
<1>6. CASE ~HasRef(q.realm, q.key)
  <2>1. /\ refCount' = [refCount EXCEPT ![q.realm][q.key] = 1]
        /\ Advance(p, TRUE)
    BY <1>2, <1>6 DEF CreateRef
  <2>2. /\ refCount' \in [Realm -> [Node -> Nat]]
        /\ refCount'[q.realm][q.key] = 1
        /\ \A r \in Realm, n \in Node :
             (r # q.realm \/ n # q.key) => refCount'[r][n] = refCount[r][n]
    BY <1>2, <1>4, <2>1 DEF TypeOK
  <2>3. unbilled' = unbilled /\ ~End(p) => OneCreator'
    <3> SUFFICES ASSUME unbilled' = unbilled, ~End(p) PROVE OneCreator'
      OBVIOUS
    <3>1. /\ Goto(p, AfterIncrement(q, TRUE))
          /\ req' = [req EXCEPT ![p].next = q.next + 1, ![p].isNew = TRUE]
      BY <2>1 DEF Advance
    <3>2. OthersStay(p)
      BY <1>4, <3>1 DEF OthersStay, Goto, TypeOK
    <3>3. req'[p].realm = q.realm /\ req'[p].key = q.key
      BY <1>2, <1>4, <3>1 DEF PutRequest, TypeOK
    <3>4. q.key \notin unbilled[q.realm]
      BY <1>2, <1>4, <1>6 DEF UnbilledBacked
    <3>5. ASSUME NEW o \in Proc \ {p}, Creating(o)
          PROVE  <<req[o].realm, req[o].key>> # <<q.realm, q.key>>
      <4>1. HasRef(req[o].realm, req[o].key)
        BY <3>5, PutFacts, CountingFacts DEF Creating, CreatorInv, CountSteps
      <4> QED
        BY <1>6, <4>1
    <3>6. \A o \in Proc \ {p} : Creating(o)' => Creating(o) /\ req'[o] = req[o]
      BY <3>2 DEF OthersStay, Creating
    <3>7. \A o \in Proc \ {p} : Creating(o)' =>
            /\ req'[o].key \notin unbilled[req'[o].realm]
            /\ <<req'[o].realm, req'[o].key>> # <<q.realm, q.key>>
            /\ \A x \in Proc \ {o, p} : Creating(x)' =>
                 <<req'[x].realm, req'[x].key>> # <<req'[o].realm, req'[o].key>>
      BY <1>4, <3>5, <3>6 DEF OneCreator
    <3> QED
      BY <3>3, <3>4, <3>7 DEF OneCreator
  <2>4. \A r \in Realm, n \in Node : HasRef(r, n) => HasRef(r, n)'
    BY <2>2 DEF HasRef
  <2>5. \A r \in Realm, n \in Node : HasRef(r, n)' => n \in owned[r]
    BY <1>2, <1>4, <2>2 DEF HasRef, RowsBacked
  <2>6. refCount' \in [Realm -> [Node -> Nat]] /\ refCount'[q.realm][q.key] > 0
    BY <2>2
  <2> QED
    BY <1>1, <1>3, <2>1, <2>3, <2>4, <2>5, <2>6, AdvanceInv
<1> QED
  BY <1>5, <1>6

\* The children loop goes on with a child that has a row, or skips it.
LEMMA ReadChildRefInv ==
  ASSUME IInv, NEW p \in Proc, ReadChildRef(p)
  PROVE  IInv'
<1> DEFINE q == req[p]
<1>1. pc[p] = "readChildRef" /\ pc[p] \in CountSteps /\ pc[p] \in PutSteps /\ UNCHANGED stores
  BY DEF ReadChildRef, CountSteps, PutSteps
<1>2. /\ q \in PutRequest /\ q.key \in Node /\ q.realm \in Realm
      /\ q.isNew \in BOOLEAN /\ HasRef(q.realm, q.key)
      /\ q.next \in 0 .. Len(Children[q.key]) /\ q.next > 0
      /\ q.key \in blobs /\ q.key \in owned[q.realm]
  BY <1>1, CountingFacts, PutFacts DEF WritingInv
<1>3. TypeOK /\ RowsBacked /\ OneCreator
  BY DEF IInv
<1>4. CASE HasRef(q.realm, Target(q))
  <2>1. Goto(p, "incUpdate") /\ UNCHANGED <<stores, req, ghosts>>
    BY <1>1, <1>4 DEF ReadChildRef
  <2>2. pc'[p] = "incUpdate" /\ UNCHANGED <<blobs, owned, refCount>>
    BY <1>3, <2>1 DEF Goto, TypeOK, stores
  <2>3. Target(q)' = Target(q)
    BY <2>1 DEF Target
  <2>4. RequestInv(p)'
    BY <1>2, <1>4, <2>1, <2>2, <2>3 DEF RequestInv, ValidationInv, WritingInv, CreatorInv,
       Creating, CheckedSteps, StoredSteps, CountSteps, PutSteps, HasRef
  <2> QED
    BY <1>1, <2>1, <2>4, GotoInv DEF PutSteps
<1>5. CASE ~HasRef(q.realm, Target(q))
  <2>1. Advance(p, q.isNew) /\ UNCHANGED <<blobs, owned, usage, refCount>>
    BY <1>1, <1>5 DEF ReadChildRef, stores
  <2>2. unbilled' = unbilled /\ ~End(p) => OneCreator'
    <3> SUFFICES ASSUME unbilled' = unbilled, ~End(p) PROVE OneCreator'
      OBVIOUS
    <3>1. /\ Goto(p, AfterIncrement(q, q.isNew))
          /\ req' = [req EXCEPT ![p].next = q.next + 1, ![p].isNew = q.isNew]
      BY <2>1 DEF Advance
    <3>2. OthersStay(p)
      BY <1>3, <3>1 DEF OthersStay, Goto, TypeOK
    <3>3. req'[p].realm = q.realm /\ req'[p].key = q.key /\ req'[p].isNew = q.isNew
      BY <1>2, <1>3, <3>1 DEF PutRequest, TypeOK
    <3>4. CreatorKept(p)
      BY <1>1, <3>3 DEF CreatorKept, Creating
    <3> QED
      BY <1>3, <3>2, <3>4, CreatorsStay
  <2>3. \A r \in Realm, n \in Node : HasRef(r, n) => n \in owned[r]
    BY <1>3 DEF RowsBacked
  <2>4. refCount' \in [Realm -> [Node -> Nat]]
    BY <1>3, <2>1 DEF TypeOK
  <2> QED
    BY <1>1, <1>2, <2>1, <2>2, <2>3, <2>4, AdvanceInv DEF HasRef
<1> QED
  BY <1>4, <1>5

\* The creator charges the realm and answers.
LEMMA UpdateUsageInv ==
  ASSUME IInv, NEW p \in Proc, UpdateUsage(p)
  PROVE  IInv'
<1> DEFINE q == req[p]
<1>1. pc[p] = "updateUsage" /\ pc[p] \in CountSteps /\ pc[p] \in PutSteps
  BY DEF UpdateUsage, CountSteps, PutSteps
<1>2. /\ q.key \in Node /\ q.realm \in Realm /\ HasRef(q.realm, q.key)
  BY <1>1, PutFacts DEF WritingInv
<1>3. /\ usage' = [usage EXCEPT ![q.realm] = Charge(@, q.key)]
      /\ Answer(q) /\ End(p) /\ UNCHANGED <<blobs, owned, unbilled, refCount>>
  BY DEF UpdateUsage
<1>4. TypeOK /\ RowsBacked
  BY DEF IInv
<1>5. usage' \in [Realm -> Usage]
  BY <1>2, <1>3, <1>4, ChargeType DEF TypeOK
<1>6. \A r \in Realm, n \in Node : HasRef(r, n) => n \in owned[r]
  BY <1>4 DEF RowsBacked
<1>7. refCount' \in [Realm -> [Node -> Nat]]
  BY <1>3, <1>4 DEF TypeOK
<1> QED
  BY <1>1, <1>2, <1>3, <1>5, <1>6, <1>7, AnswerInv DEF HasRef

-----------------------------------------------------------------------------
(* The theorems. *)

\* A step of a request in flight: one case per await of the PUT handler.
LEMMA PutStepInv ==
  ASSUME IInv, NEW p \in Proc, PutStep(p)
  PROVE  IInv'
<1>1. CASE HasChild(p)
  BY <1>1, HasChildInv
<1>2. CASE FinishValidation(p)
  BY <1>2, FinishValidationInv
<1>3. CASE ReadRef(p)
  BY <1>3, ReadRefInv
<1>4. CASE CheckQuota(p)
  BY <1>4, CheckQuotaInv
<1>5. CASE PutBlob(p)
  BY <1>5, PutBlobInv
<1>6. CASE AddOwnership(p)
  BY <1>6, AddOwnershipInv
<1>7. CASE IncrementExisting(p)
  BY <1>7, IncrementExistingInv
<1>8. CASE CreateRef(p)
  BY <1>8, CreateRefInv
<1>9. CASE ReadChildRef(p)
  BY <1>9, ReadChildRefInv
<1>10. CASE UpdateUsage(p)
  BY <1>10, UpdateUsageInv
<1> QED
  BY <1>1, <1>2, <1>3, <1>4, <1>5, <1>6, <1>7, <1>8, <1>9, <1>10 DEF PutStep

\* A step in which nothing changes.
LEMMA StutterInv == IInv /\ UNCHANGED vars => IInv'
<1> SUFFICES ASSUME IInv, UNCHANGED vars PROVE IInv'
  OBVIOUS
<1> USE DEF vars, stores, ghosts
<1>1. TypeOK' /\ BlobsClosed' /\ RowsBacked' /\ AnsweredPutsSurvive' /\ UnbilledBacked'
  BY DEF IInv, TypeOK, BlobsClosed, RowsBacked, AnsweredPutsSurvive, UnbilledBacked, HasRef
<1>2. Requests'
  BY DEF IInv, Requests, RequestInv, ValidationInv, WritingInv, CreatorInv, Creating, HasRef, Target
<1>3. ReadersSeeWholeNodes' /\ OneCreator'
  BY DEF IInv, ReadersSeeWholeNodes, OneCreator, Creating
<1> QED
  BY <1>1, <1>2, <1>3 DEF IInv

\* The invariant is inductive.
LEMMA StepInv == IInv /\ [Next]_vars => IInv'
<1> SUFFICES ASSUME IInv, [Next]_vars PROVE IInv'
  OBVIOUS
<1>1. CASE UNCHANGED vars
  BY <1>1, StutterInv
<1>2. ASSUME NEW p \in Proc, Receive(p) \/ PutStep(p) \/ ReadStep(p) \/ Die(p)
      PROVE  IInv'
  <2>1. CASE Receive(p)
    BY <2>1, ReceivePutInv, ReceiveGetInv, ReceivePrepareInv DEF Receive
  <2>2. CASE PutStep(p)
    BY <2>2, PutStepInv
  <2>3. CASE ReadStep(p)
    BY <2>3, ReadStepInv
  <2>4. CASE Die(p)
    BY <2>4, DieInv
  <2> QED
    BY <1>2, <2>1, <2>2, <2>3, <2>4
<1> QED
  BY <1>1, <1>2 DEF Next

\* Every reachable state satisfies the inductive invariant.
THEOREM Inductive == Spec => []IInv
BY InitIInv, StepInv, PTL DEF Spec

\* Every variable keeps its type, the counters of the usage row among them.
THEOREM TypeCorrect == Spec => []TypeOK
BY Inductive, PTL DEF IInv

\* No upload, whatever it races with and wherever it dies, leaves a stored node
\* with a child that is not stored.
THEOREM StoreClosed == Spec => []BlobsClosed
BY Inductive, PTL DEF IInv

\* Reference rows imply ownership rows, and those imply blobs, in every state
\* between two awaits of any number of requests.
THEOREM RowsAreBacked == Spec => []RowsBacked
BY Inductive, PTL DEF IInv

\* A reader past the ownership check finds its blob, and prepareNodes reports
\* only nodes that can be read.
THEOREM ReadersSafe == Spec => []ReadersSeeWholeNodes
BY Inductive, PTL DEF IInv

\* What a PUT answered 200 for stays stored, owned and referenced.
THEOREM AnswersDurable == Spec => []AnsweredPutsSurvive
BY Inductive, PTL DEF IInv

\* At most one request at a time is on its way to charge a realm for a node, and
\* none is once the creator of its row has died.
THEOREM CreatorUnique == Spec => []OneCreator
BY Inductive, PTL DEF IInv

-----------------------------------------------------------------------------
(* NodeStore implements ContentStore.  The blob write is the abstract        *)
(* Store, the ownership row Own, the creation of a reference row Refer, the  *)
(* usage update ChargeOnce; every other step, a death included, changes      *)
(* nothing a client can be billed for.  The argument about Billed rests on   *)
(* OneCreator.                                                               *)

\* The nodes with a reference row.
Referenced(r) == {n \in Node : HasRef(r, n)}

\* The step neither starts nor ends the creation of a row.
SameCreator(p) ==
  /\ OthersStay(p)
  /\ unbilled' = unbilled
  /\ Creating(p)' <=> Creating(p)
  /\ Creating(p) => req'[p].realm = req[p].realm /\ req'[p].key = req[p].key

\* A step that neither makes nor ends a creator leaves the unpaid keys.
LEMMA UnpaidKept ==
  ASSUME NEW p \in Proc, SameCreator(p), NEW r \in Realm
  PROVE  Unpaid(r)' = Unpaid(r)
<1>1. \A o \in Proc : Creating(o)' <=> Creating(o)
  BY DEF SameCreator, OthersStay, Creating
<1>2. \A o \in Proc : Creating(o) => req'[o].realm = req[o].realm /\ req'[o].key = req[o].key
  BY DEF SameCreator, OthersStay
<1>3. ASSUME NEW n \in Node
      PROVE  n \in Unpaid(r)' <=> n \in Unpaid(r)
  BY <1>1, <1>2 DEF Unpaid
<1> QED
  BY <1>3 DEF Unpaid

\* The rows and the creators stay: so does what is billed.
LEMMA BilledKept ==
  ASSUME NEW p \in Proc, SameCreator(p),
         \A r \in Realm, n \in Node : HasRef(r, n)' <=> HasRef(r, n)
  PROVE  /\ \A r \in Realm : Referenced(r)' = Referenced(r)
         /\ \A r \in Realm : Billed(r)' = Billed(r)
<1>1. \A r \in Realm : Referenced(r)' = Referenced(r)
  BY DEF Referenced
<1>2. \A r \in Realm : Unpaid(r)' = Unpaid(r)
  BY UnpaidKept
<1>3. unbilled' = unbilled
  BY DEF SameCreator
<1> QED
  BY <1>1, <1>2, <1>3 DEF Billed, Referenced

\* The abstract variables under the mapping.
LEMMA AbstractStutter ==
  ASSUME UNCHANGED <<blobs, owned, usage>>,
         \A r \in Realm : Referenced(r)' = Referenced(r),
         \A r \in Realm : Billed(r)' = Billed(r)
  PROVE  UNCHANGED Promise!vars
BY DEF Promise!vars, Referenced

\* A step that leaves stores, unbilled keys and creators is a stutter of the abstract store.
LEMMA QuietStutter ==
  ASSUME NEW p \in Proc, SameCreator(p), UNCHANGED stores
  PROVE  UNCHANGED Promise!vars
<1>1. UNCHANGED <<blobs, owned, usage, refCount>>
  BY DEF stores
<1>2. \A r \in Realm, n \in Node : HasRef(r, n)' <=> HasRef(r, n)
  BY <1>1 DEF HasRef
<1> QED
  BY <1>1, <1>2, BilledKept, AbstractStutter

\* Charging is the same function on both levels.
LEMMA SameCharge ==
  ASSUME NEW u, NEW n
  PROVE  Promise!Charge(u, n) = Charge(u, n)
BY DEF Promise!Charge, Charge, Promise!PhysicalSize, PhysicalSize, Promise!LogicalSize, LogicalSize

-----------------------------------------------------------------------------
(* Initial states. *)

\* Initial states map to initial states.
LEMMA InitMapped == Init => Promise!Init
<1> SUFFICES ASSUME Init PROVE Promise!Init
  OBVIOUS
<1>1. \A r \in Realm : Referenced(r) = {}
  BY DEF Init, Referenced, HasRef
<1>2. \A r \in Realm : Billed(r) = {}
  BY <1>1 DEF Billed, Referenced
<1> QED
  BY <1>1, <1>2 DEF Init, Promise!Init, Referenced, NoUsage, Promise!NoUsage

-----------------------------------------------------------------------------
(* Steps that change nothing of the abstract store. *)

\* The step of a request that created no row and creates none.
LEMMA NoCreator ==
  ASSUME NEW p \in Proc, OthersStay(p), unbilled' = unbilled, ~Creating(p), ~Creating(p)'
  PROVE  SameCreator(p)
BY DEF SameCreator

\* A new request is a stutter.
LEMMA ReceiveMapped ==
  ASSUME IInv, NEW p \in Proc, Receive(p)
  PROVE  UNCHANGED Promise!vars
<1>1. pc \in [Proc -> Step] /\ req = [o \in Proc |-> req[o]]
  BY DEF IInv, TypeOK
<1>2. PICK l, q :
        /\ l \in {"readRef", "hasChild", "hasOwnership", "prepare"}
        /\ pc[p] = "idle" /\ Begin(p, l, q) /\ UNCHANGED <<stores, ghosts>>
        /\ l \in {"readRef", "hasChild"} => ~q.isNew
  <2>1. CASE \E r \in Realm, n \in Node : ReceivePut(p, r, n)
    <3>1. PICK r \in Realm, n \in Node : ReceivePut(p, r, n)
      BY <2>1
    <3>2. ~NewPut(r, n).isNew
      BY DEF NewPut
    <3> QED
      BY <3>1, <3>2 DEF ReceivePut
  <2>2. CASE \E r \in Realm, n \in Node : ReceiveGet(p, r, n)
    BY <2>2 DEF ReceiveGet
  <2>3. CASE \E r \in Realm : \E keys \in SUBSET Node \ {{}} : ReceivePrepare(p, r, keys)
    BY <2>3 DEF ReceivePrepare
  <2> QED
    BY <2>1, <2>2, <2>3 DEF Receive
<1>3. OthersStay(p) /\ pc'[p] = l /\ req'[p] = q
  BY <1>1, <1>2 DEF OthersStay, Begin, Goto
<1>4. ~Creating(p) /\ ~Creating(p)'
  BY <1>2, <1>3 DEF Creating, PutSteps
<1> QED
  BY <1>2, <1>3, <1>4, NoCreator, QuietStutter DEF ghosts

\* GET and prepare-nodes are stutters.
LEMMA ReadStepMapped ==
  ASSUME IInv, NEW p \in Proc, ReadStep(p)
  PROVE  UNCHANGED Promise!vars
<1>1. pc \in [Proc -> Step] /\ req = [o \in Proc |-> req[o]]
  BY DEF IInv, TypeOK
<1>2. /\ pc[p] \in {"prepare", "hasOwnership", "getBlob"}
      /\ UNCHANGED <<stores, ghosts>>
  BY DEF ReadStep, HasOwnership, GetBlob, PrepareKey, ReplyPrepare
<1>3. pc'[p] \in {"idle", "prepare", "getBlob"} /\ OthersStay(p)
  BY <1>1, <1>2
     DEF ReadStep, HasOwnership, GetBlob, PrepareKey, ReplyPrepare, End, Begin, Goto, OthersStay
<1>4. ~Creating(p) /\ ~Creating(p)'
  BY <1>2, <1>3 DEF Creating, PutSteps
<1> QED
  BY <1>2, <1>3, <1>4, NoCreator, QuietStutter DEF ghosts

\* The awaits of a PUT before its blob write.
LEMMA ValidationMapped ==
  ASSUME IInv, NEW p \in Proc,
         HasChild(p) \/ FinishValidation(p) \/ ReadRef(p) \/ CheckQuota(p)
  PROVE  UNCHANGED Promise!vars
<1>1. /\ pc[p] \in {"hasChild", "getSizes", "readRef", "checkQuota"}
      /\ UNCHANGED <<stores, ghosts>>
  BY DEF HasChild, FinishValidation, ReadRef, CheckQuota
<1>2. pc[p] \in PutSteps
  BY <1>1 DEF PutSteps
<1>3. req[p] \in PutRequest /\ ~Creating(p) /\ ~req[p].isNew
  BY <1>1, <1>2, PutFacts DEF CreatorInv, Creating
<1>4. pc \in [Proc -> Step] /\ req = [o \in Proc |-> req[o]]
  BY <1>2, PutFacts
<1>5. CASE End(p)
  <2>1. OthersStay(p)
    BY <1>4, <1>5, EndIsSafe DEF OthersStay, Moves
  <2> QED
    BY <1>1, <1>3, <1>5, <2>1, EndIsSafe, NoCreator, QuietStutter DEF ghosts
<1>6. CASE ~End(p)
  <2>1. OthersStay(p)
    BY <1>4, <1>6 DEF HasChild, FinishValidation, ReadRef, CheckQuota, Goto, OthersStay
  <2>2. req'[p].isNew = req[p].isNew
    BY <1>3, <1>4, <1>6 DEF HasChild, FinishValidation, ReadRef, CheckQuota, PutRequest
  <2> QED
    BY <1>1, <1>3, <2>1, <2>2, NoCreator, QuietStutter DEF Creating, ghosts
<1> QED
  BY <1>5, <1>6

\* Going on with isNew as it was.
LEMMA AdvanceKeepsCreator ==
  ASSUME IInv, NEW p \in Proc, pc[p] \in PutSteps, Advance(p, req[p].isNew)
  PROVE  SameCreator(p)
<1> DEFINE q == req[p]
<1>1. q \in PutRequest /\ pc \in [Proc -> Step] /\ req = [o \in Proc |-> req[o]]
  BY PutFacts
<1>2. CASE AfterIncrement(q, q.isNew) = "idle"
  <2>1. End(p) /\ unbilled' = unbilled
    BY <1>2 DEF Advance
  <2>2. ~q.isNew
    BY <1>2 DEF AfterIncrement
  <2>3. ~Creating(p) /\ ~Creating(p)' /\ OthersStay(p)
    BY <2>1, <2>2, <1>1, EndIsSafe DEF Creating, OthersStay, Moves
  <2> QED
    BY <2>1, <2>3, NoCreator
<1>3. CASE AfterIncrement(q, q.isNew) # "idle"
  <2>1. /\ Goto(p, AfterIncrement(q, q.isNew)) /\ UNCHANGED ghosts
        /\ req' = [req EXCEPT ![p].next = q.next + 1, ![p].isNew = q.isNew]
    BY <1>3 DEF Advance
  <2>2. OthersStay(p) /\ pc'[p] \in PutSteps
    BY <1>1, <1>3, <2>1 DEF OthersStay, Goto, AfterIncrement, PutSteps
  <2>3. req'[p].realm = q.realm /\ req'[p].key = q.key /\ req'[p].isNew = q.isNew
    BY <1>1, <2>1 DEF PutRequest
  <2> QED
    BY <2>1, <2>2, <2>3 DEF SameCreator, Creating, ghosts
<1> QED
  BY <1>2, <1>3

\* Looking at a child's row is a stutter.
LEMMA ReadChildRefMapped ==
  ASSUME IInv, NEW p \in Proc, ReadChildRef(p)
  PROVE  UNCHANGED Promise!vars
<1>1. pc[p] \in PutSteps /\ UNCHANGED stores
  BY DEF ReadChildRef, PutSteps
<1>2. SameCreator(p)
  <2>1. CASE HasRef(req[p].realm, Target(req[p]))
    BY <1>1, <2>1, PutFacts DEF ReadChildRef, Goto, SameCreator, OthersStay, Creating, PutSteps, ghosts
  <2>2. CASE ~HasRef(req[p].realm, Target(req[p]))
    BY <1>1, <2>2, AdvanceKeepsCreator DEF ReadChildRef
  <2> QED
    BY <2>1, <2>2
<1> QED
  BY <1>1, <1>2, QuietStutter

\* Counting up a row that is there is a stutter.
LEMMA IncrementExistingMapped ==
  ASSUME IInv, NEW p \in Proc, IncrementExisting(p)
  PROVE  UNCHANGED Promise!vars
<1> DEFINE q == req[p]
           t == Target(q)
<1>1. pc[p] \in PutSteps /\ pc[p] \in CountSteps /\ pc[p] # "updateUsage"
      /\ UNCHANGED <<blobs, owned, usage>>
  BY DEF IncrementExisting, PutSteps, CountSteps
<1>2. q.realm \in Realm /\ t \in Node /\ refCount \in [Realm -> [Node -> Nat]]
  BY <1>1, PutFacts, CountingFacts DEF IInv, TypeOK
<1>3. CASE HasRef(q.realm, t)
  <2>1. /\ refCount' = [refCount EXCEPT ![q.realm][t] = @ + 1]
        /\ Advance(p, q.isNew)
    BY <1>3 DEF IncrementExisting
  <2>2. \A r \in Realm, n \in Node : HasRef(r, n)' <=> HasRef(r, n)
    BY <1>2, <1>3, <2>1 DEF HasRef
  <2> QED
    BY <1>1, <2>1, <2>2, AdvanceKeepsCreator, BilledKept, AbstractStutter
<1>4. CASE ~HasRef(q.realm, t)
  <2>1. Goto(p, "incCreate") /\ UNCHANGED <<stores, req, ghosts>>
    BY <1>1, <1>4 DEF IncrementExisting, stores
  <2>2. SameCreator(p)
    BY <1>1, <2>1, PutFacts DEF Goto, SameCreator, OthersStay, Creating, PutSteps, ghosts
  <2> QED
    BY <2>1, <2>2, QuietStutter
<1> QED
  BY <1>3, <1>4

\* A death moves what its request created from the unpaid to the unbilled.
LEMMA DieMapped ==
  ASSUME IInv, NEW p \in Proc, Die(p)
  PROVE  UNCHANGED Promise!vars
<1> DEFINE s == req[p].realm
           k == req[p].key
<1>1. End(p) /\ UNCHANGED stores
  BY DEF Die
<1>2. OthersStay(p) /\ ~Creating(p)'
  <2>1. pc \in [Proc -> Step] /\ req = [o \in Proc |-> req[o]]
    BY DEF IInv, TypeOK
  <2> QED
    BY <1>1, <2>1, EndIsSafe DEF OthersStay, Moves
<1>3. CASE ~Creating(p)
  BY <1>1, <1>2, <1>3, NoCreator, QuietStutter DEF Die
<1>4. CASE Creating(p)
  <2>1. /\ unbilled' = [unbilled EXCEPT ![s] = @ \cup {k}]
        /\ unbilled \in [Realm -> SUBSET Node] /\ s \in Realm /\ k \in Node
    BY <1>4, PutFacts DEF Die, Creating, IInv, TypeOK
  <2>2. UNCHANGED <<blobs, owned, usage, refCount>>
    BY <1>1 DEF stores
  <2>3. \A r \in Realm : Referenced(r)' = Referenced(r)
    BY <2>2 DEF Referenced, HasRef
  <2>4. ASSUME NEW r \in Realm, NEW n \in Node
        PROVE  n \in Unpaid(r) <=> n \in Unpaid(r)' \/ (r = s /\ n = k)
    BY <1>2, <1>4 DEF Unpaid, OthersStay, Creating
  <2>5. ASSUME NEW r \in Realm, NEW n \in Node
        PROVE  n \in unbilled'[r] <=> n \in unbilled[r] \/ (r = s /\ n = k)
    BY <2>1
  <2>6. \A r \in Realm : Billed(r)' = Billed(r)
    BY <2>3, <2>4, <2>5 DEF Billed, Referenced
  <2> QED
    BY <2>2, <2>3, <2>6, AbstractStutter
<1> QED
  BY <1>3, <1>4

-----------------------------------------------------------------------------
(* Steps of the abstract store. *)

\* PutBlob is Store.
LEMMA PutBlobMapped ==
  ASSUME IInv, NEW p \in Proc, PutBlob(p)
  PROVE  Promise!Store(req[p].key)
<1> DEFINE k == req[p].key
<1>1. pc[p] = "putBlob" /\ pc[p] \in PutSteps
  BY DEF PutBlob, PutSteps
<1>2. /\ ChildSet(k) \subseteq blobs /\ ~Creating(p) /\ ~req[p].isNew
      /\ pc \in [Proc -> Step]
  BY <1>1, PutFacts DEF ValidationInv, CheckedSteps, CreatorInv, Creating
<1>3. /\ blobs' = blobs \cup {k}
      /\ UNCHANGED <<owned, refCount, usage, req, unbilled>>
      /\ OthersStay(p)
  BY <1>2 DEF PutBlob, Goto, OthersStay, ghosts
<1>4. SameCreator(p)
  BY <1>2, <1>3, NoCreator DEF Creating
<1>5. \A r \in Realm, n \in Node : HasRef(r, n)' <=> HasRef(r, n)
  BY <1>3 DEF HasRef
<1>6. /\ \A r \in Realm : Referenced(r)' = Referenced(r)
      /\ \A r \in Realm : Billed(r)' = Billed(r)
  BY <1>4, <1>5, BilledKept
<1> QED
  BY <1>2, <1>3, <1>6 DEF Promise!Store, Promise!ChildSet, Promise!Range, ChildSet, Range, Referenced

\* AddOwnership is Own.
LEMMA AddOwnershipMapped ==
  ASSUME IInv, NEW p \in Proc, AddOwnership(p)
  PROVE  Promise!Own(req[p].realm, req[p].key)
<1> DEFINE q == req[p]
<1>1. pc[p] = "addOwnership" /\ pc[p] \in PutSteps
  BY DEF AddOwnership, PutSteps
<1>2. /\ q \in PutRequest /\ q.key \in blobs /\ ~q.isNew /\ ~Creating(p)
      /\ pc \in [Proc -> Step] /\ req = [o \in Proc |-> req[o]]
  BY <1>1, PutFacts DEF WritingInv, StoredSteps, CreatorInv, Creating
<1>3. /\ owned' = [owned EXCEPT ![q.realm] = @ \cup {q.key}]
      /\ UNCHANGED <<blobs, refCount, usage, unbilled>>
      /\ OthersStay(p) /\ req'[p] = [q EXCEPT !.next = 0]
  BY <1>2 DEF AddOwnership, Goto, OthersStay, ghosts
<1>4. ~req'[p].isNew
  BY <1>2, <1>3 DEF PutRequest
<1>5. SameCreator(p)
  BY <1>2, <1>3, <1>4, NoCreator DEF Creating
<1>6. \A r \in Realm, n \in Node : HasRef(r, n)' <=> HasRef(r, n)
  BY <1>3 DEF HasRef
<1>7. /\ \A r \in Realm : Referenced(r)' = Referenced(r)
      /\ \A r \in Realm : Billed(r)' = Billed(r)
  BY <1>5, <1>6, BilledKept
<1> QED
  BY <1>2, <1>3, <1>7 DEF Promise!Own, Referenced

\* The row appears and its creator with it, so nothing more is billed yet.
LEMMA CreateRefMapped ==
  ASSUME IInv, NEW p \in Proc, CreateRef(p)
  PROVE  Promise!Refer(req[p].realm, req[p].key) \/ UNCHANGED Promise!vars
<1> DEFINE q == req[p]
           s == q.realm
           k == q.key
<1>1. pc[p] = "incCreate" /\ pc[p] \in PutSteps /\ pc[p] \in CountSteps
  BY DEF CreateRef, PutSteps, CountSteps
<1>2. /\ q \in PutRequest /\ k \in Node /\ s \in Realm /\ k \in owned[s]
      /\ q.next = 0 /\ Target(q) = k /\ ~Creating(p)
      /\ pc \in [Proc -> Step] /\ req = [o \in Proc |-> req[o]]
  BY <1>1, PutFacts, CountingFacts DEF WritingInv, CreatorInv, Creating, Target
<1>3. UNCHANGED <<blobs, owned, usage>>
  BY DEF CreateRef
<1>4. CASE HasRef(s, k)
  <2>1. End(p) /\ UNCHANGED <<stores, ghosts>>
    BY <1>2, <1>3, <1>4 DEF CreateRef, stores
  <2>2. OthersStay(p)
    BY <1>2, <2>1, EndIsSafe DEF OthersStay, Moves
  <2> QED
    BY <1>2, <2>1, <2>2, EndIsSafe, NoCreator, QuietStutter DEF ghosts
<1>5. CASE ~HasRef(s, k)
  <2>1. /\ refCount' = [refCount EXCEPT ![s][k] = 1]
        /\ Advance(p, TRUE)
    BY <1>2, <1>5 DEF CreateRef
  <2>2. AfterIncrement(q, TRUE) \in {"readChildRef", "updateUsage"}
    BY DEF AfterIncrement
  <2>3. /\ Goto(p, AfterIncrement(q, TRUE)) /\ unbilled' = unbilled
        /\ req' = [req EXCEPT ![p].next = q.next + 1, ![p].isNew = TRUE]
    BY <2>1, <2>2 DEF Advance, ghosts
  <2>4. OthersStay(p) /\ pc'[p] \in PutSteps
    BY <1>2, <2>2, <2>3 DEF OthersStay, Goto, PutSteps
  <2>5. req'[p].realm = s /\ req'[p].key = k /\ req'[p].isNew
    BY <1>2, <2>3 DEF PutRequest
  <2>6. ASSUME NEW r \in Realm, NEW n \in Node
        PROVE  HasRef(r, n)' <=> HasRef(r, n) \/ (r = s /\ n = k)
    <3>1. refCount \in [Realm -> [Node -> Nat]]
      BY DEF IInv, TypeOK
    <3> QED
      BY <1>2, <2>1, <3>1 DEF HasRef
  <2>7. ASSUME NEW r \in Realm, NEW n \in Node
        PROVE  n \in Unpaid(r)' <=> n \in Unpaid(r) \/ (r = s /\ n = k)
    BY <1>2, <2>4, <2>5 DEF Unpaid, OthersStay, Creating
  <2>8. \A r \in Realm : Billed(r)' = Billed(r)
    BY <1>5, <2>3, <2>6, <2>7 DEF Billed
  <2>9. \A r \in Realm :
          Referenced(r)' = IF r = s THEN Referenced(r) \cup {k} ELSE Referenced(r)
    BY <1>2, <2>6 DEF Referenced
  <2>10. [r \in Realm |-> Referenced(r)]' =
           [[r \in Realm |-> Referenced(r)] EXCEPT ![s] = @ \cup {k}]
    BY <1>2, <2>9
  <2> QED
    BY <1>2, <1>3, <2>8, <2>10 DEF Promise!Refer, Referenced
<1> QED
  BY <1>4, <1>5

\* The one creator of the row pays for it.
LEMMA UpdateUsageMapped ==
  ASSUME IInv, NEW p \in Proc, UpdateUsage(p)
  PROVE  Promise!ChargeOnce(req[p].realm, req[p].key)
<1> DEFINE q == req[p]
           s == q.realm
           k == q.key
<1>1. pc[p] = "updateUsage" /\ pc[p] \in PutSteps /\ pc[p] \in CountSteps
  BY DEF UpdateUsage, PutSteps, CountSteps
<1>2. /\ k \in Node /\ s \in Realm /\ HasRef(s, k) /\ Creating(p)
      /\ pc \in [Proc -> Step] /\ req = [o \in Proc |-> req[o]]
  BY <1>1, PutFacts DEF WritingInv, CreatorInv, Creating
<1>3. /\ usage' = [usage EXCEPT ![s] = Charge(@, k)]
      /\ End(p) /\ UNCHANGED <<blobs, owned, unbilled, refCount>>
  BY DEF UpdateUsage
<1>4. OthersStay(p) /\ ~Creating(p)'
  BY <1>2, <1>3, EndIsSafe DEF OthersStay, Moves
<1>5. /\ k \notin unbilled[s]
      /\ \A o \in Proc \ {p} : Creating(o) => <<req[o].realm, req[o].key>> # <<s, k>>
  BY <1>2 DEF IInv, OneCreator
<1>6. ASSUME NEW r \in Realm, NEW n \in Node
      PROVE  n \in Unpaid(r)' <=> n \in Unpaid(r) /\ ~(r = s /\ n = k)
  BY <1>2, <1>4, <1>5 DEF Unpaid, OthersStay, Creating
<1>7. k \in Unpaid(s)
  BY <1>2 DEF Unpaid
<1>8. \A r \in Realm : Referenced(r)' = Referenced(r)
  BY <1>3 DEF Referenced, HasRef
<1>9. \A r \in Realm : Billed(r)' = IF r = s THEN Billed(r) \cup {k} ELSE Billed(r)
  BY <1>2, <1>3, <1>5, <1>6, <1>8 DEF Billed, Referenced
<1>10. [r \in Realm |-> Billed(r)]' =
         [[r \in Realm |-> Billed(r)] EXCEPT ![s] = @ \cup {k}]
  BY <1>2, <1>9
<1>11. k \in Referenced(s) \ Billed(s)
  BY <1>2, <1>7 DEF Referenced, Billed
<1>12. usage' = [usage EXCEPT ![s] = Promise!Charge(@, k)]
  BY <1>3, SameCharge
<1> QED
  BY <1>2, <1>3, <1>8, <1>10, <1>11, <1>12 DEF Promise!ChargeOnce, Referenced

-----------------------------------------------------------------------------

\* Every step of NodeStore is a step of the abstract store or none.
LEMMA StepMapped == IInv /\ [Next]_vars => [Promise!Next]_Promise!vars
<1> SUFFICES ASSUME IInv, [Next]_vars PROVE [Promise!Next]_Promise!vars
  OBVIOUS
<1>1. CASE UNCHANGED vars
  BY <1>1 DEF vars, stores, ghosts, Promise!vars, HasRef, Billed, Unpaid, Creating
<1>2. ASSUME NEW p \in Proc, Receive(p) \/ ReadStep(p) \/ Die(p)
      PROVE  UNCHANGED Promise!vars
  BY <1>2, ReceiveMapped, ReadStepMapped, DieMapped
<1>3. ASSUME NEW p \in Proc, PutStep(p)
      PROVE  [Promise!Next]_Promise!vars
  <2>1. pc[p] \in PutSteps
    BY <1>3 DEF PutStep, HasChild, FinishValidation, ReadRef, CheckQuota, PutBlob, AddOwnership,
       IncrementExisting, CreateRef, ReadChildRef, UpdateUsage, PutSteps
  <2>2. req[p].key \in Node /\ req[p].realm \in Realm
    BY <2>1, PutFacts
  <2>3. CASE HasChild(p) \/ FinishValidation(p) \/ ReadRef(p) \/ CheckQuota(p)
    BY <2>3, ValidationMapped
  <2>4. CASE PutBlob(p)
    BY <2>2, <2>4, PutBlobMapped DEF Promise!Next
  <2>5. CASE AddOwnership(p)
    BY <2>2, <2>5, AddOwnershipMapped DEF Promise!Next
  <2>6. CASE IncrementExisting(p)
    BY <2>6, IncrementExistingMapped
  <2>7. CASE CreateRef(p)
    BY <2>2, <2>7, CreateRefMapped DEF Promise!Next
  <2>8. CASE ReadChildRef(p)
    BY <2>8, ReadChildRefMapped
  <2>9. CASE UpdateUsage(p)
    BY <2>2, <2>9, UpdateUsageMapped DEF Promise!Next
  <2> QED
    BY <1>3, <2>3, <2>4, <2>5, <2>6, <2>7, <2>8, <2>9 DEF PutStep
<1> QED
  BY <1>1, <1>2, <1>3 DEF Next

\* The node endpoints implement the abstract store: whatever requests interleave
\* and die, a realm is charged at most once for a node, after its reference row.
THEOREM Refinement == Spec => ImplementsContentStore
BY Inductive, InitMapped, StepMapped, PTL DEF Spec, ImplementsContentStore, Promise!Spec

-----------------------------------------------------------------------------
(* The quota is checked on a usage row read before the upload; what bounds   *)
(* the overshoot is that every upload past its check holds a slot, and that  *)
(* the last one admitted fitted.                                             *)

\* The steps of a PUT between its quota check and the creation of its row.
AdmittedSteps == {"putBlob", "addOwnership", "incUpdate", "incCreate"}

\* A request that may still add to the usage of the realm: it has created the
\* row of its node, or it was admitted and there is no row yet.
Spending(p, r) ==
  /\ pc[p] \in PutSteps /\ req[p].realm = r
  /\ Creating(p) \/ (pc[p] \in AdmittedSteps /\ ~HasRef(r, req[p].key))

\* Their slots.
Spenders(r) == {p \in Proc : Spending(p, r)}

\* The most a realm with this quota can use.
Ceiling(r) == QuotaLimit[r] + (Cardinality(Proc) - 1) * LargestNode

\* Were all spenders of the realm to add the largest node, it would stay under
\* the ceiling, or would do so if one of them, the last that was admitted, adds
\* its own.
Covered(r) ==
  LET spent == usage[r].physicalBytes
      n     == Cardinality(Spenders(r))
  IN  \/ spent + n * LargestNode <= Ceiling(r)
      \/ \E p \in Spenders(r) :
           spent + PhysicalSize(req[p].key) + (n - 1) * LargestNode <= Ceiling(r)

\* The inductive invariant of the quota.
QuotaInv == IInv /\ \A r \in Realm : QuotaLimit[r] > 0 => Covered(r)

-----------------------------------------------------------------------------
(* Sizes and counts. *)

\* The nodes larger than the node.
Above(n) == {m \in Node : PhysicalSize(m) > PhysicalSize(n)}

\* Finitely many nodes have a largest one.
LEMMA LargestNodeIs ==
  LargestNode \in Nat /\ \A n \in Node : PhysicalSize(n) <= LargestNode
<1> DEFINE R == StrictSubsetOrdering(Node)
           F == FiniteSubsetsOf(Node)
           T == {Above(n) : n \in Node}
<1>1. IsFiniteSet(Node) /\ Node # {} /\ \A n \in Node : PhysicalSize(n) \in Nat
  BY BodyAssumption, BodyTypes
<1>2. T \subseteq F /\ T # {}
  <2>1. \A n \in Node : Above(n) \in SUBSET Node
    BY DEF Above
  <2>2. F = SUBSET Node
    BY <1>1, FS_FiniteSubsetsOfFinite
  <2> QED
    BY <1>1, <2>1, <2>2
<1>3. PICK x \in T : \A y \in T : ~(<<y, x>> \in R)
  <2>1. IsWellFoundedOn(R, F)
    BY FS_StrictSubsetOrderingWellFounded
  <2> HIDE DEF R, F, T
  <2> QED
    BY <1>2, <2>1, WFMin
<1>4. PICK n \in Node : x = Above(n)
  BY <1>3
<1>5. \A m \in Node : PhysicalSize(m) <= PhysicalSize(n)
  <2> SUFFICES ASSUME NEW m \in Node, PhysicalSize(m) > PhysicalSize(n) PROVE FALSE
    BY <1>1
  <2>1. Above(m) \subseteq Above(n)
    BY <1>1 DEF Above
  <2>2. m \in Above(n) /\ m \notin Above(m)
    BY <1>1 DEF Above
  <2>3. Above(m) \in T /\ Above(m) \in SUBSET Node /\ Above(n) \in SUBSET Node
    BY DEF Above
  <2>4. <<Above(m), Above(n)>> \in R
    BY <2>1, <2>2, <2>3 DEF StrictSubsetOrdering
  <2> QED
    BY <1>3, <1>4, <2>3, <2>4
<1> DEFINE Sizes == {PhysicalSize(m) : m \in Node}
<1>6. PhysicalSize(n) \in Sizes /\ \A m \in Node : PhysicalSize(m) <= PhysicalSize(n)
  BY <1>5
<1>7. LargestNode \in Sizes /\ \A m \in Node : PhysicalSize(m) <= LargestNode
  <2>1. \E k \in Sizes : \A m \in Node : PhysicalSize(m) <= k
    BY <1>6
  <2> QED
    BY <2>1 DEF LargestNode
<1> QED
  BY <1>1, <1>7

\* A set of requests is counted, and its subsets are no larger.
LEMMA CountsOf ==
  ASSUME NEW S \in SUBSET Proc, NEW T \in SUBSET S
  PROVE  /\ Cardinality(S) \in Nat /\ Cardinality(T) \in Nat
         /\ Cardinality(T) <= Cardinality(S)
         /\ \A p \in S : p \notin T => Cardinality(T) <= Cardinality(S) - 1
         /\ S # {} => Cardinality(S) >= 1
<1>1. IsFiniteSet(S)
  BY StoreAssumption, FS_Subset
<1>2. IsFiniteSet(T) /\ Cardinality(T) <= Cardinality(S)
  BY <1>1, FS_Subset
<1>3. Cardinality(S) \in Nat /\ Cardinality(T) \in Nat
  BY <1>1, <1>2, FS_CardinalityType
<1>4. ASSUME NEW p \in S, p \notin T
      PROVE  Cardinality(T) <= Cardinality(S) - 1
  <2>1. IsFiniteSet(S \ {p}) /\ Cardinality(S \ {p}) = Cardinality(S) - 1
    BY <1>1, FS_RemoveElement
  <2>2. T \in SUBSET (S \ {p})
    BY <1>4
  <2> QED
    BY <2>1, <2>2, FS_Subset
<1>5. S # {} => Cardinality(S) >= 1
  BY <1>1, <1>3, FS_EmptySet
<1> QED
  BY <1>2, <1>3, <1>4, <1>5

\* Multiples of a natural number.
LEMMA Multiples ==
  ASSUME NEW size \in Nat, NEW c \in Int, NEW d \in Int, c <= d
  PROVE  /\ c * size \in Int /\ d * size \in Int
         /\ c * size <= d * size
         /\ (c - 1) * size = c * size - size
<1>1. \A k \in Nat : k * size \in Nat
  OBVIOUS
<1>2. d * size = c * size + (d - c) * size
  OBVIOUS
<1> QED
  BY <1>1, <1>2

\* The terms of Covered are integers.
LEMMA CoveredTerms ==
  ASSUME IInv, NEW r \in Realm
  PROVE  /\ usage[r].physicalBytes \in Nat /\ QuotaLimit[r] \in Nat
         /\ LargestNode \in Nat /\ Cardinality(Proc) \in Nat /\ Cardinality(Proc) >= 1
         /\ Ceiling(r) \in Int
         /\ Spenders(r) \in SUBSET Proc /\ Cardinality(Spenders(r)) \in Nat
         /\ \A p \in Spenders(r) :
              /\ PhysicalSize(req[p].key) \in Nat
              /\ PhysicalSize(req[p].key) <= LargestNode
<1>1. usage[r] \in Usage /\ QuotaLimit[r] \in Nat
  BY StoreAssumption DEF IInv, TypeOK
<1>2. Spenders(r) \in SUBSET Proc
  BY DEF Spenders
<1>3. /\ Cardinality(Proc) \in Nat /\ Cardinality(Proc) >= 1
      /\ Cardinality(Spenders(r)) \in Nat
  BY <1>2, CountsOf, StoreAssumption
<1>4. LargestNode \in Nat /\ Ceiling(r) \in Int
  BY <1>1, <1>3, LargestNodeIs, Multiples DEF Ceiling
<1>5. \A p \in Spenders(r) : req[p].key \in Node
  BY PutFacts DEF Spenders, Spending
<1> QED
  BY <1>1, <1>2, <1>3, <1>4, <1>5, LargestNodeIs, BodyTypes DEF Usage

-----------------------------------------------------------------------------
(* What a step does to the spenders. *)

\* Requests may stop spending, all at once even; none begins.
Fewer(r) ==
  /\ Spenders(r)' \subseteq Spenders(r)
  /\ \A p \in Spenders(r)' : req'[p].key = req[p].key

\* As long as nothing is charged, fewer spenders are covered.
LEMMA FewerCovered ==
  ASSUME IInv, IInv', NEW r \in Realm, Covered(r), Fewer(r),
         usage'[r] = usage[r]
  PROVE  Covered(r)'
<1> DEFINE spent == usage[r].physicalBytes
           L == LargestNode
           S == Spenders(r)
           n == Cardinality(S)
           m == Cardinality(S')
<1>1. spent \in Nat /\ L \in Nat /\ Ceiling(r) \in Int /\ Ceiling(r)' = Ceiling(r)
  BY CoveredTerms DEF Ceiling
<1>2. S \in SUBSET Proc /\ S' \in SUBSET S
  BY CoveredTerms DEF Fewer
<1>3. /\ n \in Nat /\ m \in Nat /\ m <= n
      /\ \A p \in S : p \notin S' => m <= n - 1
  BY <1>2, CountsOf
<1>4. CASE spent + n * L <= Ceiling(r)
  <2>1. m * L \in Int /\ n * L \in Int /\ m * L <= n * L
    BY <1>1, <1>3, Multiples
  <2>2. spent + m * L <= Ceiling(r)
    BY <1>1, <1>4, <2>1
  <2> QED
    BY <1>1, <2>2 DEF Covered
<1>5. ASSUME NEW p \in S, spent + PhysicalSize(req[p].key) + (n - 1) * L <= Ceiling(r)
      PROVE  Covered(r)'
  <2> DEFINE k == PhysicalSize(req[p].key)
  <2>1. k \in Nat
    BY CoveredTerms
  <2>2. CASE p \in S'
    <3>1. (m - 1) * L \in Int /\ (n - 1) * L \in Int /\ (m - 1) * L <= (n - 1) * L
      BY <1>1, <1>3, Multiples
    <3>2. spent + k + (m - 1) * L <= Ceiling(r)
      BY <1>1, <1>5, <2>1, <3>1
    <3>3. req'[p].key = req[p].key
      BY <2>2 DEF Fewer
    <3> QED
      BY <1>1, <2>2, <3>2, <3>3 DEF Covered
  <2>3. CASE p \notin S'
    <3>1. m * L \in Int /\ (n - 1) * L \in Int /\ m * L <= (n - 1) * L
      BY <1>1, <1>3, <2>3, Multiples
    <3>2. spent + m * L <= Ceiling(r)
      BY <1>1, <1>5, <2>1, <3>1
    <3> QED
      BY <1>1, <3>2 DEF Covered
  <2> QED
    BY <2>2, <2>3
<1> QED
  BY <1>4, <1>5 DEF Covered

\* A spender that adds its node and stops is covered by the largest one.
LEMMA ChargeCovered ==
  ASSUME IInv, IInv', NEW r \in Realm, Covered(r), Fewer(r),
         NEW o \in Spenders(r), o \notin Spenders(r)',
         usage'[r].physicalBytes = usage[r].physicalBytes + PhysicalSize(req[o].key)
  PROVE  Covered(r)'
<1> DEFINE spent == usage[r].physicalBytes
           L == LargestNode
           S == Spenders(r)
           n == Cardinality(S)
           m == Cardinality(S')
           j == PhysicalSize(req[o].key)
<1>1. /\ spent \in Nat /\ L \in Nat /\ Ceiling(r) \in Int /\ Ceiling(r)' = Ceiling(r)
      /\ j \in Nat /\ j <= L
  BY CoveredTerms DEF Ceiling
<1>2. S \in SUBSET Proc /\ S' \in SUBSET S
  BY CoveredTerms DEF Fewer
<1>3. n \in Nat /\ m \in Nat /\ m <= n - 1
  BY <1>2, CountsOf
<1>4. /\ m * L \in Int /\ (n - 1) * L \in Int /\ m * L <= (n - 1) * L
      /\ n * L \in Int /\ (n - 1) * L = n * L - L
  BY <1>1, <1>3, Multiples
<1>5. CASE spent + n * L <= Ceiling(r)
  <2>1. (spent + j) + m * L <= Ceiling(r)
    BY <1>1, <1>4, <1>5
  <2> QED
    BY <1>1, <2>1 DEF Covered
<1>6. ASSUME NEW p \in S, spent + PhysicalSize(req[p].key) + (n - 1) * L <= Ceiling(r)
      PROVE  Covered(r)'
  <2> DEFINE k == PhysicalSize(req[p].key)
  <2>1. k \in Nat
    BY CoveredTerms
  <2>2. CASE p = o
    <3>1. (spent + j) + m * L <= Ceiling(r)
      BY <1>1, <1>4, <1>6, <2>1, <2>2
    <3> QED
      BY <1>1, <3>1 DEF Covered
  <2>3. CASE p # o /\ p \in S'
    <3>1. (m - 1) * L \in Int /\ (m - 1) * L = m * L - L
      BY <1>1, <1>3, Multiples
    <3>2. (spent + j) + k + (m - 1) * L <= Ceiling(r)
      BY <1>1, <1>4, <1>6, <2>1, <3>1
    <3>3. req'[p].key = req[p].key
      BY <2>3 DEF Fewer
    <3> QED
      BY <1>1, <2>3, <3>2, <3>3 DEF Covered
  <2>4. CASE p # o /\ p \notin S'
    <3>1. IsFiniteSet(S) /\ IsFiniteSet(S \ {o}) /\ Cardinality(S \ {o}) = n - 1
      BY <1>2, StoreAssumption, FS_Subset, FS_RemoveElement
    <3>2. S \ {o} \in SUBSET Proc /\ S' \in SUBSET (S \ {o}) /\ p \in S \ {o}
      BY <1>2, <2>4
    <3>3. m <= n - 2
      BY <1>3, <2>4, <3>1, <3>2, CountsOf
    <3>4. m * L <= (n - 2) * L /\ (n - 2) * L \in Int /\ ((n - 1) - 1) * L = (n - 1) * L - L
      BY <1>1, <1>3, <3>3, Multiples
    <3>5. (spent + j) + m * L <= Ceiling(r)
      BY <1>1, <1>3, <1>4, <1>6, <2>1, <3>4
    <3> QED
      BY <1>1, <3>5 DEF Covered
  <2> QED
    BY <2>2, <2>3, <2>4
<1> QED
  BY <1>5, <1>6 DEF Covered

\* The last one admitted fits, and the others have a slot each.
LEMMA AdmissionCovered ==
  ASSUME IInv, IInv', NEW r \in Realm, NEW p \in Spenders(r)',
         usage[r].physicalBytes + PhysicalSize(req'[p].key) <= QuotaLimit[r],
         usage'[r] = usage[r]
  PROVE  Covered(r)'
<1> DEFINE spent == usage[r].physicalBytes
           L == LargestNode
           m == Cardinality(Spenders(r)')
           c == Cardinality(Proc)
           k == PhysicalSize(req'[p].key)
<1>1. spent \in Nat /\ L \in Nat /\ QuotaLimit[r] \in Nat /\ c \in Nat /\ k \in Nat
  <2>1. req'[p] \in PutRequest
    BY DEF Spenders, Spending, IInv, TypeOK
  <2>2. k \in Nat
    BY <2>1, BodyTypes DEF PutRequest
  <2> QED
    BY <2>2, CoveredTerms
<1>2. m \in Nat /\ m <= c
  <2>1. Spenders(r)' \in SUBSET Proc
    BY DEF Spenders
  <2> QED
    BY <2>1, CountsOf
<1>3. (m - 1) * L \in Int /\ (c - 1) * L \in Int /\ (m - 1) * L <= (c - 1) * L
  BY <1>1, <1>2, Multiples
<1>4. spent + k + (m - 1) * L <= QuotaLimit[r] + (c - 1) * L
  BY <1>1, <1>3
<1> QED
  BY <1>4 DEF Covered, Ceiling

-----------------------------------------------------------------------------
(* The steps. *)

\* A step that starts no spending of the request that takes it.
NoSpender(p) ==
  \A r \in Realm :
    Spending(p, r)' => Spending(p, r) /\ req'[p].key = req[p].key

\* Then it starts none: rows stay, and the other requests stay where they are.
LEMMA StepFewer ==
  ASSUME IInv, NEW p \in Proc, OthersStay(p), NoSpender(p),
         \A r \in Realm, n \in Node : HasRef(r, n) => HasRef(r, n)',
         NEW r \in Realm
  PROVE  Fewer(r)
<1>1. ASSUME NEW o \in Proc, Spending(o, r)'
      PROVE  Spending(o, r) /\ req'[o].key = req[o].key
  <2>1. CASE o = p
    BY <1>1, <2>1 DEF NoSpender
  <2>2. CASE o # p
    <3>1. pc'[o] = pc[o] /\ req'[o] = req[o]
      BY <2>2 DEF OthersStay
    <3>2. pc[o] \in PutSteps /\ req[o].key \in Node
      BY <1>1, <3>1, PutFacts DEF Spending
    <3> QED
      BY <1>1, <3>1, <3>2 DEF Spending, Creating
  <2> QED
    BY <2>1, <2>2
<1> QED
  BY <1>1 DEF Fewer, Spenders

\* A step before the admission, or of a reader, starts no spending.
LEMMA QuietSpender ==
  ASSUME IInv, NEW p \in Proc, OthersStay(p), UNCHANGED <<refCount, usage>>,
         \A r \in Realm : ~Spending(p, r)'
  PROVE  \A r \in Realm : Fewer(r) /\ usage'[r] = usage[r]
<1>1. NoSpender(p)
  BY DEF NoSpender
<1>2. \A r \in Realm, n \in Node : HasRef(r, n) => HasRef(r, n)'
  BY DEF HasRef
<1> QED
  BY <1>1, <1>2, StepFewer

\* What a step leaves when no realm is charged and nobody is admitted.
Calm == \A r \in Realm : Fewer(r) /\ usage'[r] = usage[r]

\* A request that begins spends nothing yet.
LEMMA ReceiveCalm ==
  ASSUME IInv, NEW p \in Proc, Receive(p)
  PROVE  Calm
<1>1. pc \in [Proc -> Step] /\ DOMAIN req = Proc
  BY DEF IInv, TypeOK
<1>2. ASSUME NEW label \in {"readRef", "hasChild", "hasOwnership", "prepare"}, NEW q,
             Begin(p, label, q), label \in {"readRef", "hasChild"} => ~q.isNew,
             UNCHANGED <<stores, ghosts>>
      PROVE  Calm
  <2>1. OthersStay(p) /\ pc'[p] = label /\ req'[p] = q
    BY <1>1, <1>2 DEF Begin, Goto, OthersStay
  <2>2. \A r \in Realm : ~Spending(p, r)'
    BY <1>2, <2>1 DEF Spending, Creating, AdmittedSteps, PutSteps
  <2> QED
    BY <1>2, <2>1, <2>2, QuietSpender DEF Calm, stores
<1>3. ASSUME NEW r \in Realm, NEW n \in Node, ReceivePut(p, r, n)
      PROVE  Calm
  <2>1. ~NewPut(r, n).isNew
    BY DEF NewPut
  <2> QED
    BY <1>2, <1>3, <2>1 DEF ReceivePut
<1>4. ASSUME NEW r \in Realm, NEW n \in Node, ReceiveGet(p, r, n)
      PROVE  Calm
  BY <1>2, <1>4 DEF ReceiveGet
<1>5. ASSUME NEW r \in Realm, NEW keys \in SUBSET Node, ReceivePrepare(p, r, keys)
      PROVE  Calm
  BY <1>2, <1>5 DEF ReceivePrepare
<1> QED
  BY <1>3, <1>4, <1>5 DEF Receive

\* A request that ends stops spending.
LEMMA EndCalm ==
  ASSUME IInv, NEW p \in Proc, End(p), UNCHANGED <<refCount, usage>>
  PROVE  Calm
<1>1. OthersStay(p) /\ pc'[p] = "idle"
  BY EndIsSafe DEF OthersStay, Moves, IInv, TypeOK
<1>2. \A r \in Realm : ~Spending(p, r)'
  BY <1>1 DEF Spending, PutSteps
<1> QED
  BY <1>1, <1>2, QuietSpender DEF Calm

\* Readers spend nothing.
LEMMA ReadStepCalm ==
  ASSUME IInv, NEW p \in Proc, ReadStep(p)
  PROVE  Calm
<1>1. pc \in [Proc -> Step] /\ DOMAIN req = Proc
  BY DEF IInv, TypeOK
<1>2. CASE End(p) /\ UNCHANGED stores
  BY <1>2, EndCalm DEF stores
<1>3. CASE /\ OthersStay(p) /\ pc'[p] \in {"getBlob", "prepare"}
           /\ UNCHANGED stores
  <2>1. \A r \in Realm : ~Spending(p, r)'
    BY <1>3 DEF Spending, PutSteps
  <2> QED
    BY <1>3, <2>1, QuietSpender DEF Calm, stores
<1>4. CASE HasOwnership(p)
  BY <1>1, <1>2, <1>3, <1>4 DEF HasOwnership, Goto, OthersStay
<1>5. CASE GetBlob(p) \/ ReplyPrepare(p)
  BY <1>2, <1>5 DEF GetBlob, ReplyPrepare
<1>6. CASE \E n \in Node : PrepareKey(p, n)
  BY <1>1, <1>3, <1>6 DEF PrepareKey, OthersStay
<1> QED
  BY <1>4, <1>5, <1>6 DEF ReadStep

\* A death frees the room its request had been left.
LEMMA DieCalm ==
  ASSUME IInv, NEW p \in Proc, Die(p)
  PROVE  Calm
BY EndCalm DEF Die, stores

\* Validation admits nobody; a node that has a row will not be charged for.
LEMMA ValidationCalm ==
  ASSUME IInv, NEW p \in Proc, HasChild(p) \/ FinishValidation(p) \/ ReadRef(p)
  PROVE  Calm
<1>1. /\ pc[p] \in {"hasChild", "getSizes", "readRef"} /\ pc[p] \in PutSteps
      /\ UNCHANGED stores
  BY DEF HasChild, FinishValidation, ReadRef, PutSteps
<1>2. /\ pc \in [Proc -> Step] /\ DOMAIN req = Proc
      /\ ~req[p].isNew /\ req[p] \in PutRequest /\ req[p].realm \in Realm /\ req[p].key \in Node
  BY <1>1, PutFacts DEF CreatorInv, Creating
<1>3. CASE End(p)
  BY <1>1, <1>3, EndCalm DEF stores
<1>4. CASE HasChild(p)
  <2>1. OthersStay(p) /\ pc'[p] \in {"getSizes", "hasChild"} /\ ~req'[p].isNew
    BY <1>2, <1>4 DEF HasChild, Goto, OthersStay, PutRequest
  <2>2. \A r \in Realm : ~Spending(p, r)'
    BY <2>1 DEF Spending, Creating, AdmittedSteps
  <2> QED
    BY <1>1, <2>1, <2>2, QuietSpender DEF Calm, stores
<1>5. CASE FinishValidation(p) /\ ~End(p)
  <2>1. OthersStay(p) /\ pc'[p] = "readRef" /\ ~req'[p].isNew
    BY <1>2, <1>5 DEF FinishValidation, Goto, OthersStay
  <2>2. \A r \in Realm : ~Spending(p, r)'
    BY <2>1 DEF Spending, Creating, AdmittedSteps
  <2> QED
    BY <1>1, <2>1, <2>2, QuietSpender DEF Calm, stores
<1>6. CASE ReadRef(p)
  <2>1. /\ OthersStay(p) /\ req'[p] = req[p]
        /\ pc'[p] = "putBlob" => HasRef(req[p].realm, req[p].key)
        /\ pc'[p] \in {"putBlob", "checkQuota"}
    BY <1>2, <1>6 DEF ReadRef, Goto, OthersStay
  <2>2. \A r \in Realm, n \in Node : HasRef(r, n)' <=> HasRef(r, n)
    BY <1>1 DEF stores, HasRef
  <2>3. \A r \in Realm : ~Spending(p, r)'
    BY <1>2, <2>1, <2>2 DEF Spending, Creating, AdmittedSteps
  <2> QED
    BY <1>1, <2>1, <2>3, QuietSpender DEF Calm, stores
<1> QED
  BY <1>3, <1>4, <1>5, <1>6

\* The writes before the row: an admitted request stays one.
LEMMA WriteCalm ==
  ASSUME IInv, NEW p \in Proc, PutBlob(p) \/ AddOwnership(p)
  PROVE  Calm
<1>1. /\ pc[p] \in {"putBlob", "addOwnership"} /\ pc[p] \in PutSteps
      /\ pc'= [pc EXCEPT ![p] = IF pc[p] = "putBlob" THEN "addOwnership" ELSE "incUpdate"]
      /\ UNCHANGED <<refCount, usage>>
  BY DEF PutBlob, AddOwnership, Goto, PutSteps
<1>2. pc \in [Proc -> Step] /\ DOMAIN req = Proc /\ req[p] \in PutRequest
  BY <1>1, PutFacts
<1>3. /\ \A o \in Proc \ {p} : req'[o] = req[o]
      /\ req'[p].key = req[p].key /\ req'[p].realm = req[p].realm /\ req'[p].isNew = req[p].isNew
  BY <1>2 DEF PutBlob, AddOwnership, PutRequest
<1>4. \A r \in Realm, n \in Node : HasRef(r, n)' <=> HasRef(r, n)
  BY <1>1 DEF HasRef
<1>5. OthersStay(p)
  BY <1>1, <1>2, <1>3 DEF OthersStay
<1>6. NoSpender(p)
  BY <1>1, <1>2, <1>3, <1>4 DEF NoSpender, Spending, Creating, AdmittedSteps, PutRequest
<1> QED
  BY <1>1, <1>4, <1>5, <1>6, StepFewer DEF Calm

\* A step that leaves an increment makes no spender of a request that was none.
LEMMA AdvanceCalm ==
  ASSUME IInv, NEW p \in Proc, pc[p] \in CountSteps, NEW new \in BOOLEAN, Advance(p, new),
         new => Spending(p, req[p].realm),
         \A r \in Realm, n \in Node : HasRef(r, n) => HasRef(r, n)',
         usage' = usage
  PROVE  Calm
<1> DEFINE q == req[p]
<1>1. /\ pc[p] \in PutSteps
      /\ pc \in [Proc -> Step] /\ DOMAIN req = Proc /\ q \in PutRequest
  BY PutFacts DEF CountSteps, PutSteps
<1>2. CASE End(p)
  <2>1. OthersStay(p) /\ pc'[p] = "idle"
    BY <1>2, EndIsSafe DEF OthersStay, Moves, IInv, TypeOK
  <2>2. NoSpender(p)
    BY <2>1 DEF NoSpender, Spending, PutSteps
  <2> QED
    BY <2>1, <2>2, StepFewer DEF Calm
<1>3. CASE ~End(p)
  <2>1. /\ AfterIncrement(q, new) # "idle"
        /\ Goto(p, AfterIncrement(q, new))
        /\ req' = [req EXCEPT ![p].next = q.next + 1, ![p].isNew = new]
    BY <1>3 DEF Advance
  <2>2. pc'[p] \in {"readChildRef", "updateUsage"} /\ (pc'[p] = "updateUsage" => new)
    BY <1>1, <2>1 DEF AfterIncrement, Goto
  <2>3. /\ \A o \in Proc \ {p} : req'[o] = req[o] /\ pc'[o] = pc[o]
        /\ req'[p].key = q.key /\ req'[p].realm = q.realm /\ req'[p].isNew = new
    BY <1>1, <2>1 DEF PutRequest, Goto
  <2>4. NoSpender(p)
    BY <1>1, <2>2, <2>3 DEF NoSpender, Spending, Creating, AdmittedSteps
  <2>5. OthersStay(p)
    BY <2>3 DEF OthersStay
  <2> QED
    BY <2>4, <2>5, StepFewer DEF Calm
<1> QED
  BY <1>2, <1>3

\* The increment of an existing row: of the request's own, or of a child's.
LEMMA IncrementCalm ==
  ASSUME IInv, NEW p \in Proc, IncrementExisting(p)
  PROVE  Calm
<1> DEFINE q == req[p]
           t == Target(q)
<1>1. pc[p] \in PutSteps /\ pc[p] \in CountSteps /\ pc[p] = "incUpdate" /\ usage' = usage
  BY DEF IncrementExisting, PutSteps, CountSteps
<1>2. /\ q \in PutRequest /\ q.realm \in Realm /\ t \in Node /\ q.isNew \in BOOLEAN
      /\ refCount \in [Realm -> [Node -> Nat]] /\ pc \in [Proc -> Step]
  BY <1>1, PutFacts, CountingFacts DEF IInv, TypeOK
<1>3. CASE HasRef(q.realm, t)
  <2>1. /\ refCount' = [refCount EXCEPT ![q.realm][t] = @ + 1]
        /\ Advance(p, q.isNew)
    BY <1>3 DEF IncrementExisting
  <2>2. \A r \in Realm, n \in Node : HasRef(r, n) => HasRef(r, n)'
    BY <1>2, <1>3, <2>1 DEF HasRef
  <2>3. q.isNew => Spending(p, q.realm)
    BY <1>1 DEF Spending, Creating
  <2> QED
    BY <1>1, <1>2, <2>1, <2>2, <2>3, AdvanceCalm
<1>4. CASE ~HasRef(q.realm, t)
  <2>1. Goto(p, "incCreate") /\ UNCHANGED <<refCount, req>>
    BY <1>4 DEF IncrementExisting
  <2>2. \A r \in Realm, n \in Node : HasRef(r, n)' <=> HasRef(r, n)
    BY <2>1 DEF HasRef
  <2>3. OthersStay(p) /\ pc'[p] = "incCreate"
    BY <1>2, <2>1 DEF OthersStay, Goto
  <2>4. NoSpender(p)
    BY <1>1, <1>2, <2>1, <2>2, <2>3 DEF NoSpender, Spending, Creating, AdmittedSteps, PutRequest
  <2> QED
    BY <1>1, <2>2, <2>3, <2>4, StepFewer DEF Calm
<1> QED
  BY <1>3, <1>4

\* The creator of a row was admitted, and is one of the spenders still.
LEMMA CreateCalm ==
  ASSUME IInv, NEW p \in Proc, CreateRef(p)
  PROVE  Calm
<1> DEFINE q == req[p]
           t == Target(q)
<1>1. pc[p] \in PutSteps /\ pc[p] \in CountSteps /\ pc[p] = "incCreate" /\ usage' = usage
  BY DEF CreateRef, PutSteps, CountSteps
<1>2. /\ q \in PutRequest /\ q.realm \in Realm /\ q.next = 0 /\ t = q.key /\ t \in Node
      /\ refCount \in [Realm -> [Node -> Nat]] /\ q.isNew \in BOOLEAN
  BY <1>1, PutFacts DEF IInv, TypeOK, WritingInv, Target
<1>3. CASE HasRef(q.realm, t)
  BY <1>1, <1>3, EndCalm DEF CreateRef
<1>4. CASE ~HasRef(q.realm, t)
  <2>1. refCount' = [refCount EXCEPT ![q.realm][t] = 1] /\ Advance(p, TRUE)
    BY <1>2, <1>4 DEF CreateRef
  <2>2. \A r \in Realm, n \in Node : HasRef(r, n) => HasRef(r, n)'
    BY <1>2, <2>1 DEF HasRef
  <2>3. Spending(p, q.realm)
    BY <1>1, <1>2, <1>4 DEF Spending, AdmittedSteps
  <2> QED
    BY <1>1, <2>1, <2>2, <2>3, AdvanceCalm
<1> QED
  BY <1>3, <1>4

\* The children loop: a creator stays one, another request stays none.
LEMMA ReadChildCalm ==
  ASSUME IInv, NEW p \in Proc, ReadChildRef(p)
  PROVE  Calm
<1> DEFINE q == req[p]
<1>1. pc[p] \in PutSteps /\ pc[p] \in CountSteps /\ pc[p] = "readChildRef" /\ UNCHANGED stores
  BY DEF ReadChildRef, PutSteps, CountSteps
<1>2. /\ q.isNew \in BOOLEAN /\ q.realm \in Realm /\ q.key \in Node /\ pc \in [Proc -> Step]
      /\ HasRef(q.realm, q.key)
  BY <1>1, PutFacts DEF WritingInv
<1>3. \A r \in Realm, n \in Node : HasRef(r, n)' <=> HasRef(r, n)
  BY <1>1 DEF HasRef, stores
<1>4. CASE Advance(p, q.isNew)
  <2>1. q.isNew => Spending(p, q.realm)
    BY <1>1 DEF Spending, Creating
  <2> QED
    BY <1>1, <1>2, <1>3, <1>4, <2>1, AdvanceCalm DEF stores
<1>5. CASE Goto(p, "incUpdate") /\ UNCHANGED req
  <2>1. OthersStay(p) /\ pc'[p] = "incUpdate"
    BY <1>2, <1>5 DEF OthersStay, Goto
  <2>2. NoSpender(p)
    BY <1>1, <1>2, <1>3, <1>5, <2>1 DEF NoSpender, Spending, Creating
  <2> QED
    BY <1>1, <1>3, <2>1, <2>2, StepFewer DEF Calm, stores
<1> QED
  BY <1>4, <1>5 DEF ReadChildRef

\* The quota check: the request ends, or what it will add fits.
LEMMA CheckCovered ==
  ASSUME QuotaInv, IInv', NEW p \in Proc, CheckQuota(p),
         NEW r \in Realm, QuotaLimit[r] > 0
  PROVE  Covered(r)'
<1> DEFINE q == req[p]
<1>1. IInv /\ Covered(r) /\ pc[p] = "checkQuota" /\ pc[p] \in PutSteps /\ UNCHANGED stores
  BY DEF QuotaInv, CheckQuota, PutSteps
<1>2. /\ q.realm \in Realm /\ q.key \in Node /\ ~q.isNew /\ q.isNew \in BOOLEAN
      /\ pc \in [Proc -> Step]
  BY <1>1, PutFacts DEF CreatorInv, Creating
<1>3. CASE End(p)
  BY <1>1, <1>3, EndCalm, FewerCovered DEF Calm, stores
<1>4. CASE QuotaAllows(q.realm, q.key) /\ Goto(p, "putBlob") /\ UNCHANGED req
  <2>1. OthersStay(p) /\ pc'[p] = "putBlob" /\ req'[p] = q
    BY <1>2, <1>4 DEF OthersStay, Goto
  <2>2. \A s \in Realm, n \in Node : HasRef(s, n)' <=> HasRef(s, n)
    BY <1>1 DEF HasRef, stores
  <2>3. CASE p \in Spenders(r)'
    <3>1. q.realm = r
      BY <2>1, <2>3 DEF Spenders, Spending
    <3>2. usage[r].physicalBytes + PhysicalSize(req'[p].key) <= QuotaLimit[r]
      BY <1>4, <2>1, <3>1, StoreAssumption DEF QuotaAllows
    <3> QED
      BY <1>1, <2>3, <3>2, AdmissionCovered DEF stores
  <2>4. CASE p \notin Spenders(r)'
    <3>1. \A o \in Proc \ {p} : Spending(o, r)' => Spending(o, r) /\ req'[o].key = req[o].key
      <4> SUFFICES ASSUME NEW o \in Proc \ {p}, Spending(o, r)'
                   PROVE  Spending(o, r) /\ req'[o].key = req[o].key
        OBVIOUS
      <4>1. pc'[o] = pc[o] /\ req'[o] = req[o]
        BY <2>1 DEF OthersStay
      <4>2. pc[o] \in PutSteps /\ req[o].key \in Node
        BY <1>1, <4>1, PutFacts DEF Spending
      <4> QED
        BY <2>2, <4>1, <4>2 DEF Spending, Creating
    <3>2. Fewer(r)
      BY <2>4, <3>1 DEF Fewer, Spenders
    <3> QED
      BY <1>1, <3>2, FewerCovered DEF stores
  <2> QED
    BY <2>3, <2>4
<1> QED
  BY <1>3, <1>4 DEF CheckQuota

\* The charge: the creator adds its node, which its realm had been left room for.
LEMMA UpdateCovered ==
  ASSUME QuotaInv, IInv', NEW p \in Proc, UpdateUsage(p),
         NEW r \in Realm, QuotaLimit[r] > 0
  PROVE  Covered(r)'
<1> DEFINE q == req[p]
<1>1. /\ IInv /\ Covered(r) /\ pc[p] = "updateUsage" /\ pc[p] \in PutSteps
      /\ usage' = [usage EXCEPT ![q.realm] = Charge(@, q.key)]
      /\ End(p) /\ UNCHANGED refCount
  BY DEF QuotaInv, UpdateUsage, PutSteps
<1>2. /\ q.realm \in Realm /\ q.key \in Node /\ Creating(p) /\ usage \in [Realm -> Usage]
  BY <1>1, PutFacts DEF CreatorInv, Creating, IInv, TypeOK
<1>3. OthersStay(p) /\ pc'[p] = "idle"
  BY <1>1, EndIsSafe DEF OthersStay, Moves, IInv, TypeOK
<1>4. NoSpender(p) /\ p \notin Spenders(r)'
  BY <1>3 DEF NoSpender, Spenders, Spending, PutSteps
<1>5. Fewer(r)
  BY <1>1, <1>3, <1>4, StepFewer DEF HasRef
<1>6. CASE q.realm = r
  <2>1. p \in Spenders(r)
    BY <1>1, <1>2, <1>6 DEF Spenders, Spending
  <2>2. usage'[r].physicalBytes = usage[r].physicalBytes + PhysicalSize(q.key)
    BY <1>1, <1>2, <1>6 DEF Charge
  <2> QED
    BY <1>1, <1>4, <1>5, <2>1, <2>2, ChargeCovered
<1>7. CASE q.realm # r
  BY <1>1, <1>2, <1>5, <1>7, FewerCovered
<1> QED
  BY <1>6, <1>7

-----------------------------------------------------------------------------
(* The theorem. *)

\* A calm step leaves a covered realm covered.
LEMMA CalmCovered ==
  ASSUME QuotaInv, IInv', Calm, NEW r \in Realm, QuotaLimit[r] > 0
  PROVE  Covered(r)'
BY FewerCovered DEF Calm, QuotaInv

\* At first nothing is spent and nobody spends.
LEMMA InitQuota == Init => QuotaInv
<1> SUFFICES ASSUME Init PROVE QuotaInv
  OBVIOUS
<1>1. IInv
  BY InitIInv
<1>2. ASSUME NEW r \in Realm, QuotaLimit[r] > 0
      PROVE  Covered(r)
  <2>1. usage[r].physicalBytes = 0
    BY DEF Init, NoUsage
  <2>2. Spenders(r) = {}
    BY DEF Init, Spenders, Spending, PutSteps
  <2>3. Cardinality(Spenders(r)) = 0
    BY <2>2, FS_EmptySet
  <2>4. /\ LargestNode \in Nat /\ QuotaLimit[r] \in Nat
        /\ Cardinality(Proc) \in Nat /\ Cardinality(Proc) >= 1
    BY <1>1, CoveredTerms
  <2>5. /\ 0 * LargestNode = 0 /\ (Cardinality(Proc) - 1) * LargestNode \in Int
        /\ 0 * LargestNode <= (Cardinality(Proc) - 1) * LargestNode
    BY <2>4, Multiples
  <2> QED
    BY <2>1, <2>3, <2>4, <2>5 DEF Covered, Ceiling
<1> QED
  BY <1>1, <1>2 DEF QuotaInv

\* The invariant is inductive.
LEMMA StepQuota == QuotaInv /\ [Next]_vars => QuotaInv'
<1> SUFFICES ASSUME QuotaInv, [Next]_vars PROVE QuotaInv'
  OBVIOUS
<1>1. IInv /\ IInv'
  BY StepInv DEF QuotaInv
<1>2. CASE UNCHANGED vars
  <2>1. \A r \in Realm : Covered(r)' <=> Covered(r)
    BY <1>2 DEF vars, stores, Covered, Ceiling, Spenders, Spending, Creating, HasRef
  <2> QED
    BY <1>1, <2>1 DEF QuotaInv
<1>3. ASSUME NEW p \in Proc, Receive(p) \/ PutStep(p) \/ ReadStep(p) \/ Die(p)
      PROVE  QuotaInv'
  <2>1. CASE CheckQuota(p)
    BY <1>1, <2>1, CheckCovered DEF QuotaInv
  <2>2. CASE UpdateUsage(p)
    BY <1>1, <2>2, UpdateCovered DEF QuotaInv
  <2>3. CASE Calm
    BY <1>1, <2>3, CalmCovered DEF QuotaInv
  <2>4. CASE Receive(p) \/ ReadStep(p) \/ Die(p)
    BY <1>1, <2>3, <2>4, ReceiveCalm, ReadStepCalm, DieCalm
  <2>5. CASE PutStep(p)
    BY <1>1, <2>1, <2>2, <2>3, <2>5, ValidationCalm, WriteCalm, IncrementCalm, CreateCalm,
       ReadChildCalm DEF PutStep
  <2> QED
    BY <1>3, <2>4, <2>5
<1> QED
  BY <1>2, <1>3 DEF Next

\* A covered realm is under its ceiling.
LEMMA CoveredBounds == QuotaInv => OvershootBounded
<1> SUFFICES ASSUME QuotaInv, NEW r \in Realm, QuotaLimit[r] > 0
             PROVE  usage[r].physicalBytes <= Ceiling(r)
  BY DEF OvershootBounded, Ceiling
<1> DEFINE spent == usage[r].physicalBytes
           n == Cardinality(Spenders(r))
<1>1. /\ spent \in Nat /\ LargestNode \in Nat /\ n \in Nat /\ Ceiling(r) \in Int
      /\ \A p \in Spenders(r) : PhysicalSize(req[p].key) \in Nat
  BY CoveredTerms DEF QuotaInv
<1>2. CASE spent + n * LargestNode <= Ceiling(r)
  <2>1. n * LargestNode \in Int /\ 0 * LargestNode <= n * LargestNode /\ 0 * LargestNode = 0
    BY <1>1, Multiples
  <2> QED
    BY <1>1, <1>2, <2>1
<1>3. ASSUME NEW p \in Spenders(r),
             spent + PhysicalSize(req[p].key) + (n - 1) * LargestNode <= Ceiling(r)
      PROVE  spent <= Ceiling(r)
  <2>1. n >= 1
    BY CountsOf DEF Spenders
  <2>2. /\ (n - 1) * LargestNode \in Int /\ 0 * LargestNode <= (n - 1) * LargestNode
        /\ 0 * LargestNode = 0
    BY <1>1, <2>1, Multiples
  <2> QED
    BY <1>1, <1>3, <2>2
<1> QED
  BY <1>2, <1>3 DEF QuotaInv, Covered

\* Uploads that pass the quota check together take a realm over its limit by at
\* most the largest node for each request slot but one.
THEOREM QuotaHolds == Spec => []OvershootBounded
<1>1. Init => QuotaInv
  BY InitQuota
<1>2. QuotaInv /\ [Next]_vars => QuotaInv'
  BY StepQuota
<1>3. QuotaInv => OvershootBounded
  BY CoveredBounds
<1> QED
  BY <1>1, <1>2, <1>3, PTL DEF Spec

-----------------------------------------------------------------------------
(* Sums over finite sets. *)

\* Induction over the subsets of a finite set, for a property given as the set
\* of the subsets that have it.
LEMMA SubsetInduction ==
  ASSUME NEW S, IsFiniteSet(S), NEW C,
         \A T \in SUBSET S : (\A U \in SUBSET T : U # T => U \in C) => T \in C
  PROVE  SUBSET S \subseteq C
<1> DEFINE R == StrictSubsetOrdering(S)
           Left == (SUBSET S) \ C
<1> SUFFICES ASSUME Left # {} PROVE FALSE
  OBVIOUS
<1>1. IsWellFoundedOn(R, SUBSET S)
  <2>1. FiniteSubsetsOf(S) = SUBSET S
    BY FS_FiniteSubsetsOfFinite
  <2>2. IsWellFoundedOn(R, FiniteSubsetsOf(S))
    BY FS_StrictSubsetOrderingWellFounded
  <2> HIDE DEF R
  <2> QED
    BY <2>1, <2>2
<1>2. PICK T \in Left : \A U \in Left : ~(<<U, T>> \in R)
  <2>1. Left \subseteq SUBSET S /\ Left # {}
    OBVIOUS
  <2> HIDE DEF R, Left
  <2> QED
    BY <1>1, <2>1, WFMin
<1>3. \A U \in SUBSET T : U # T => U \in C
  BY <1>2 DEF StrictSubsetOrdering
<1> QED
  BY <1>2, <1>3

\* The element the folds take out next.
Chosen(s) == CHOOSE x \in s : TRUE

\* The function the folds recurse on, for the sums of f over the subsets of S.
IsSum(it, f, S) ==
  it = [s \in SUBSET S |-> IF s = {} THEN 0 ELSE f[Chosen(s)] + it[s \ {Chosen(s)}]]

\* The sum of f over a finite set.
Sum(f, S) == (CHOOSE it : IsSum(it, f, S))[S]

\* Its recursion, at one subset.
LEMMA SumEquation ==
  ASSUME NEW S, NEW f, NEW it, IsSum(it, f, S), NEW s \in SUBSET S
  PROVE  it[s] = IF s = {} THEN 0 ELSE f[Chosen(s)] + it[s \ {Chosen(s)}]
BY DEF IsSum

\* A subset's sum does not depend on the set the recursion started from.
LEMMA SumUnique ==
  ASSUME NEW S, IsFiniteSet(S), NEW T, NEW f, NEW a, NEW b,
         S \subseteq T, IsSum(a, f, S), IsSum(b, f, T)
  PROVE  \A s \in SUBSET S : a[s] = b[s]
<1> DEFINE C == {s \in SUBSET S : a[s] = b[s]}
<1>1. ASSUME NEW s \in SUBSET S, \A u \in SUBSET s : u # s => u \in C
      PROVE  s \in C
  <2>1. CASE s = {}
    BY <2>1, SumEquation
  <2>2. CASE s # {}
    <3>1. Chosen(s) \in s
      BY <2>2 DEF Chosen
    <3>2. a[s \ {Chosen(s)}] = b[s \ {Chosen(s)}]
      BY <1>1, <3>1
    <3>3. s \in SUBSET T
      OBVIOUS
    <3> QED
      BY <2>2, <3>2, <3>3, SumEquation
  <2> QED
    BY <2>1, <2>2
<1> HIDE DEF C
<1>2. SUBSET S \subseteq C
  BY <1>1, SubsetInduction
<1> QED
  BY <1>2 DEF C

\* The recursion has a solution.
LEMMA SumExists ==
  ASSUME NEW S, IsFiniteSet(S), NEW f
  PROVE  IsSum(CHOOSE it : IsSum(it, f, S), f, S)
<1> DEFINE C == {T \in SUBSET S : \E it : IsSum(it, f, T)}
<1>1. ASSUME NEW T \in SUBSET S, \A U \in SUBSET T : U # T => U \in C
      PROVE  T \in C
  <2> DEFINE g == [s \in SUBSET T |-> IF s = {} THEN 0
                                      ELSE f[Chosen(s)] + Sum(f, s \ {Chosen(s)})]
  <2>1. ASSUME NEW s \in SUBSET T, s # T
        PROVE  g[s] = Sum(f, s)
    <3> DEFINE h == CHOOSE it : IsSum(it, f, s)
    <3>1. IsSum(h, f, s)
      BY <1>1, <2>1
    <3>2. ASSUME NEW u \in SUBSET s, u # s
          PROVE  h[u] = Sum(f, u)
      <4> DEFINE k == CHOOSE it : IsSum(it, f, u)
      <4>1. IsSum(k, f, u)
        BY <1>1, <3>2
      <4>2. IsFiniteSet(u)
        BY FS_Subset
      <4> HIDE DEF h, k
      <4>3. k[u] = h[u]
        BY <3>1, <4>1, <4>2, SumUnique
      <4> QED
        BY <4>3 DEF k, Sum
    <3>3. h[s] = IF s = {} THEN 0 ELSE f[Chosen(s)] + h[s \ {Chosen(s)}]
      <4> HIDE DEF h
      <4> QED
        BY <3>1, SumEquation
    <3>4. s # {} => Chosen(s) \in s
      BY DEF Chosen
    <3>5. Sum(f, s) = h[s]
      BY DEF Sum
    <3> HIDE DEF h
    <3> QED
      BY <3>2, <3>3, <3>4, <3>5
  <2>2. ASSUME NEW s \in SUBSET T, s # {}
        PROVE  s \ {Chosen(s)} \in SUBSET T /\ s \ {Chosen(s)} # T
    BY <2>2 DEF Chosen
  <2>3. g = [s \in SUBSET T |-> IF s = {} THEN 0 ELSE f[Chosen(s)] + g[s \ {Chosen(s)}]]
    <3>1. \A s \in SUBSET T :
            s # {} => g[s \ {Chosen(s)}] = Sum(f, s \ {Chosen(s)})
      <4> HIDE DEF g
      <4> QED
        BY <2>1, <2>2
    <3> QED
      BY <3>1
  <2>4. IsSum(g, f, T)
    <3> HIDE DEF g
    <3> QED
      BY <2>3 DEF IsSum
  <2> QED
    BY <2>4
<1> HIDE DEF C
<1>2. S \in C
  BY <1>1, SubsetInduction
<1>3. \E it : IsSum(it, f, S)
  BY <1>2 DEF C
<1> QED
  BY <1>3

\* What the recursion for a set computes for its subsets.
LEMMA SumOfSubset ==
  ASSUME NEW S, IsFiniteSet(S), NEW f, NEW it, IsSum(it, f, S), NEW T \in SUBSET S
  PROVE  it[T] = Sum(f, T)
<1> DEFINE h == CHOOSE k : IsSum(k, f, T)
<1>1. IsFiniteSet(T)
  BY FS_Subset
<1>2. IsSum(h, f, T)
  BY <1>1, SumExists
<1> HIDE DEF h
<1>3. h[T] = it[T]
  BY <1>1, <1>2, SumUnique
<1> QED
  BY <1>3 DEF h, Sum

\* One step of the recursion.
LEMMA SumStep ==
  ASSUME NEW S, IsFiniteSet(S), NEW f
  PROVE  Sum(f, S) = IF S = {} THEN 0 ELSE f[Chosen(S)] + Sum(f, S \ {Chosen(S)})
<1> DEFINE h == CHOOSE k : IsSum(k, f, S)
<1>1. IsSum(h, f, S)
  BY SumExists
<1> HIDE DEF h
<1>2. h[S] = Sum(f, S) /\ h[S \ {Chosen(S)}] = Sum(f, S \ {Chosen(S)})
  BY <1>1, SumOfSubset
<1>3. h[S] = IF S = {} THEN 0 ELSE f[Chosen(S)] + h[S \ {Chosen(S)}]
  BY <1>1, SumEquation
<1> QED
  BY <1>2, <1>3

\* The empty sum.
LEMMA SumOfNone == ASSUME NEW f PROVE Sum(f, {}) = 0
BY FS_EmptySet, SumStep

\* A sum of naturals is one.
LEMMA SumIsNat ==
  ASSUME NEW S, IsFiniteSet(S), NEW f, \A x \in S : f[x] \in Nat
  PROVE  Sum(f, S) \in Nat
<1> DEFINE C == {T \in SUBSET S : Sum(f, T) \in Nat}
<1>1. ASSUME NEW T \in SUBSET S, \A U \in SUBSET T : U # T => U \in C
      PROVE  T \in C
  <2>1. IsFiniteSet(T)
    BY FS_Subset
  <2>2. CASE T = {}
    BY <2>2, SumOfNone
  <2>3. CASE T # {}
    <3>1. Chosen(T) \in T
      BY <2>3 DEF Chosen
    <3>2. Sum(f, T \ {Chosen(T)}) \in Nat
      BY <1>1, <3>1
    <3>3. Sum(f, T) = f[Chosen(T)] + Sum(f, T \ {Chosen(T)})
      BY <2>1, <2>3, SumStep
    <3> QED
      BY <3>1, <3>2, <3>3
  <2> QED
    BY <2>2, <2>3
<1> HIDE DEF C
<1>2. S \in C
  BY <1>1, SubsetInduction
<1> QED
  BY <1>2 DEF C

\* In which order the elements are taken makes no difference.
LEMMA SumOfOneMore ==
  ASSUME NEW S, IsFiniteSet(S), NEW f, \A y \in S : f[y] \in Nat, NEW x \in S
  PROVE  Sum(f, S) = f[x] + Sum(f, S \ {x})
<1> DEFINE C == {T \in SUBSET S : \A y \in T : Sum(f, T) = f[y] + Sum(f, T \ {y})}
<1>1. ASSUME NEW T \in SUBSET S, \A U \in SUBSET T : U # T => U \in C
      PROVE  T \in C
  <2> SUFFICES ASSUME NEW y \in T PROVE Sum(f, T) = f[y] + Sum(f, T \ {y})
    OBVIOUS
  <2> DEFINE z == Chosen(T)
             Rest == T \ {y, z}
  <2>1. IsFiniteSet(T) /\ IsFiniteSet(Rest)
    BY FS_Subset
  <2>2. z \in T
    BY DEF Chosen
  <2>3. Sum(f, T) = f[z] + Sum(f, T \ {z})
    BY <2>1, SumStep
  <2>4. CASE z # y
    <3> HIDE DEF z
    <3>1. T \ {z} \in C /\ T \ {y} \in C
      BY <1>1, <2>2
    <3>2. Sum(f, T \ {z}) = f[y] + Sum(f, (T \ {z}) \ {y})
      BY <2>4, <3>1
    <3>3. Sum(f, T \ {y}) = f[z] + Sum(f, (T \ {y}) \ {z})
      BY <2>2, <2>4, <3>1
    <3>4. (T \ {z}) \ {y} = Rest /\ (T \ {y}) \ {z} = Rest
      OBVIOUS
    <3>5. Sum(f, Rest) \in Nat
      BY <2>1, SumIsNat
    <3>6. f[y] \in Nat /\ f[z] \in Nat
      BY <2>2
    <3> HIDE DEF Rest
    <3> QED
      BY <2>3, <3>2, <3>3, <3>4, <3>5, <3>6
  <2> QED
    BY <2>3, <2>4
<1> HIDE DEF C
<1>2. S \in C
  BY <1>1, SubsetInduction
<1> QED
  BY <1>2 DEF C

\* Functions that agree on a set have the same sum over it.
LEMMA SumSame ==
  ASSUME NEW S, IsFiniteSet(S), NEW f, NEW g, \A x \in S : f[x] = g[x]
  PROVE  Sum(f, S) = Sum(g, S)
<1> DEFINE C == {T \in SUBSET S : Sum(f, T) = Sum(g, T)}
<1>1. ASSUME NEW T \in SUBSET S, \A U \in SUBSET T : U # T => U \in C
      PROVE  T \in C
  <2>1. IsFiniteSet(T)
    BY FS_Subset
  <2>2. CASE T = {}
    BY <2>2, SumOfNone
  <2>3. CASE T # {}
    <3>1. Chosen(T) \in T
      BY <2>3 DEF Chosen
    <3>2. Sum(f, T \ {Chosen(T)}) = Sum(g, T \ {Chosen(T)})
      BY <1>1, <3>1
    <3> QED
      BY <2>1, <2>3, <3>1, <3>2, SumStep
  <2> QED
    BY <2>2, <2>3
<1> HIDE DEF C
<1>2. S \in C
  BY <1>1, SubsetInduction
<1> QED
  BY <1>2 DEF C

\* Functions that differ in one argument have sums that differ as much.
LEMMA SumChange ==
  ASSUME NEW S, IsFiniteSet(S), NEW f, NEW g,
         \A y \in S : f[y] \in Nat /\ g[y] \in Nat,
         NEW x \in S, \A y \in S \ {x} : f[y] = g[y]
  PROVE  Sum(g, S) + f[x] = Sum(f, S) + g[x]
<1> DEFINE T == S \ {x}
<1>1. IsFiniteSet(T)
  BY FS_Subset
<1>2. Sum(f, S) = f[x] + Sum(f, T) /\ Sum(g, S) = g[x] + Sum(g, T)
  BY SumOfOneMore
<1> HIDE DEF T
<1>3. Sum(f, T) = Sum(g, T) /\ Sum(f, T) \in Nat
  BY <1>1, SumSame, SumIsNat DEF T
<1> QED
  BY <1>2, <1>3

\* A sum of zeros.
LEMMA SumOfZeros ==
  ASSUME NEW S, IsFiniteSet(S), NEW f, \A x \in S : f[x] = 0
  PROVE  Sum(f, S) = 0
<1> DEFINE C == {T \in SUBSET S : Sum(f, T) = 0}
<1>1. ASSUME NEW T \in SUBSET S, \A U \in SUBSET T : U # T => U \in C
      PROVE  T \in C
  <2>1. IsFiniteSet(T)
    BY FS_Subset
  <2>2. CASE T = {}
    BY <2>2, SumOfNone
  <2>3. CASE T # {}
    <3>1. Chosen(T) \in T
      BY <2>3 DEF Chosen
    <3>2. Sum(f, T \ {Chosen(T)}) = 0
      BY <1>1, <3>1
    <3> QED
      BY <2>1, <2>3, <3>1, <3>2, SumStep
  <2> QED
    BY <2>2, <2>3
<1> HIDE DEF C
<1>2. S \in C
  BY <1>1, SubsetInduction
<1> QED
  BY <1>2 DEF C

-----------------------------------------------------------------------------
(* The ledger: UsageLedger is inductive, given OneCreator.                   *)

\* The summands, as functions.
PhysicalSizes == [n \in Node |-> PhysicalSize(n)]
LogicalSizes  == [n \in Node |-> LogicalSize(n)]

\* The folds of the model, as sums of a function.
LEMMA PhysicalTotal ==
  ASSUME NEW S \in SUBSET Node
  PROVE  MapThenSumSet(PhysicalSize, S) = Sum(PhysicalSizes, S)
<1> DEFINE P(it) == it = [s \in SUBSET S |-> IF s = {} THEN 0
                           ELSE PhysicalSize(CHOOSE x \in s : TRUE)
                                  + it[s \ {CHOOSE x \in s : TRUE}]]
           h == CHOOSE it : P(it)
<1>1. IsFiniteSet(S)
  BY BodyAssumption, FS_Subset
<1>2. \A it : P(it) <=> IsSum(it, PhysicalSizes, S)
  <2>1. ASSUME NEW s \in SUBSET S, s # {}
        PROVE  PhysicalSizes[Chosen(s)] = PhysicalSize(CHOOSE x \in s : TRUE)
    BY <2>1 DEF Chosen, PhysicalSizes
  <2> QED
    BY <2>1 DEF IsSum, Chosen
<1>3. MapThenSumSet(PhysicalSize, S) = h[S]
  BY DEF MapThenSumSet, MapThenFoldSet
<1>4. P(h)
  <2> HIDE DEF P
  <2> QED
    BY <1>1, <1>2, SumExists
<1>5. IsSum(h, PhysicalSizes, S)
  BY <1>2, <1>4
<1> HIDE DEF h
<1> QED
  BY <1>1, <1>3, <1>5, SumOfSubset

\* The same for the logical sizes.
LEMMA LogicalTotal ==
  ASSUME NEW S \in SUBSET Node
  PROVE  MapThenSumSet(LogicalSize, S) = Sum(LogicalSizes, S)
<1> DEFINE P(it) == it = [s \in SUBSET S |-> IF s = {} THEN 0
                           ELSE LogicalSize(CHOOSE x \in s : TRUE)
                                  + it[s \ {CHOOSE x \in s : TRUE}]]
           h == CHOOSE it : P(it)
<1>1. IsFiniteSet(S)
  BY BodyAssumption, FS_Subset
<1>2. \A it : P(it) <=> IsSum(it, LogicalSizes, S)
  <2>1. ASSUME NEW s \in SUBSET S, s # {}
        PROVE  LogicalSizes[Chosen(s)] = LogicalSize(CHOOSE x \in s : TRUE)
    BY <2>1 DEF Chosen, LogicalSizes
  <2> QED
    BY <2>1 DEF IsSum, Chosen
<1>3. MapThenSumSet(LogicalSize, S) = h[S]
  BY DEF MapThenSumSet, MapThenFoldSet
<1>4. P(h)
  <2> HIDE DEF P
  <2> QED
    BY <1>1, <1>2, SumExists
<1>5. IsSum(h, LogicalSizes, S)
  BY <1>2, <1>4
<1> HIDE DEF h
<1> QED
  BY <1>1, <1>3, <1>5, SumOfSubset

\* One more billed node adds its own count and sizes to the totals.
LEMMA OneMoreBilled ==
  ASSUME NEW S \in SUBSET Node, NEW k \in Node \ S
  PROVE  /\ Cardinality(S) \in Nat
         /\ Cardinality(S \cup {k}) = Cardinality(S) + 1
         /\ Sum(PhysicalSizes, S \cup {k}) = Sum(PhysicalSizes, S) + PhysicalSize(k)
         /\ Sum(LogicalSizes, S \cup {k}) = Sum(LogicalSizes, S) + LogicalSize(k)
<1> DEFINE T == S \cup {k}
<1>1. IsFiniteSet(T) /\ IsFiniteSet(S) /\ k \in T /\ T \ {k} = S
  BY BodyAssumption, FS_Subset
<1>2. Cardinality(S) \in Nat /\ Cardinality(T) = Cardinality(S) + 1
  BY <1>1, FS_CardinalityType, FS_AddElement
<1>3. \A n \in T : PhysicalSizes[n] \in Nat /\ LogicalSizes[n] \in Nat
  BY BodyTypes DEF PhysicalSizes, LogicalSizes
<1>4. Sum(PhysicalSizes, S) \in Nat /\ Sum(LogicalSizes, S) \in Nat
  BY <1>1, <1>3, SumIsNat
<1>5. PhysicalSizes[k] = PhysicalSize(k) /\ LogicalSizes[k] = LogicalSize(k)
  BY DEF PhysicalSizes, LogicalSizes
<1> HIDE DEF T
<1>6. /\ Sum(PhysicalSizes, T) = PhysicalSizes[k] + Sum(PhysicalSizes, S)
      /\ Sum(LogicalSizes, T) = LogicalSizes[k] + Sum(LogicalSizes, S)
  BY <1>1, <1>3, SumOfOneMore
<1>7. PhysicalSize(k) \in Nat /\ LogicalSize(k) \in Nat
  BY BodyTypes
<1> QED
  BY <1>2, <1>4, <1>5, <1>6, <1>7 DEF T

\* The ledger of one realm, its folds as sums.
Ledger(r) ==
  /\ usage[r].nodeCount = Cardinality(Billed(r))
  /\ usage[r].physicalBytes = Sum(PhysicalSizes, Billed(r))
  /\ usage[r].logicalBytes = Sum(LogicalSizes, Billed(r))

\* UsageLedger, realm by realm.
LEMMA LedgerIs == UsageLedger <=> \A r \in Realm : Ledger(r)
<1>1. \A r \in Realm : Billed(r) \in SUBSET Node
  BY DEF Billed
<1> QED
  BY <1>1, PhysicalTotal, LogicalTotal DEF UsageLedger, Ledger

\* The same for the next state.
LEMMA LedgerNextIs == UsageLedger' <=> \A r \in Realm : Ledger(r)'
<1>1. \A r \in Realm : Billed(r)' \in SUBSET Node
  BY DEF Billed
<1> QED
  BY <1>1, PhysicalTotal, LogicalTotal DEF UsageLedger, Ledger

\* What a step does to one realm's account: nothing, or one node is billed.
LEMMA AccountStep ==
  ASSUME IInv, [Next]_vars, NEW r \in Realm
  PROVE  \/ Billed(r)' = Billed(r) /\ usage'[r] = usage[r]
         \/ \E k \in Node \ Billed(r) :
              Billed(r)' = Billed(r) \cup {k} /\ usage'[r] = Charge(usage[r], k)
<1> DEFINE charged == [s \in Realm |-> Billed(s)]
<1>1. charged[r] = Billed(r) /\ charged'[r] = Billed(r)'
  OBVIOUS
<1>2. usage \in [Realm -> Usage]
  BY DEF IInv, TypeOK
<1>3. [Promise!Next]_Promise!vars
  BY StepMapped
<1>4. CASE charged' = charged /\ usage' = usage
  BY <1>1, <1>4
<1>5. ASSUME NEW n \in Node, NEW s \in Realm, Promise!ChargeOnce(s, n)
      PROVE  \/ Billed(r)' = Billed(r) /\ usage'[r] = usage[r]
             \/ \E k \in Node \ Billed(r) :
                  Billed(r)' = Billed(r) \cup {k} /\ usage'[r] = Charge(usage[r], k)
  <2>1. /\ n \notin charged[s]
        /\ charged' = [charged EXCEPT ![s] = @ \cup {n}]
        /\ usage' = [usage EXCEPT ![s] = Charge(@, n)]
    BY <1>5, SameCharge DEF Promise!ChargeOnce
  <2> HIDE DEF charged
  <2>2. DOMAIN charged = Realm
    BY DEF charged
  <2>3. CASE r = s
    BY <1>1, <1>2, <2>1, <2>2, <2>3
  <2>4. CASE r # s
    BY <1>1, <1>2, <2>1, <2>2, <2>4
  <2> QED
    BY <2>3, <2>4
<1> QED
  BY <1>3, <1>4, <1>5 DEF Promise!Next, Promise!vars, Promise!Store, Promise!Own, Promise!Refer

\* Nothing stored, nothing charged.
LEMMA InitLedger == Init => UsageLedger
<1> SUFFICES ASSUME Init, NEW r \in Realm PROVE Ledger(r)
  BY LedgerIs
<1>1. Billed(r) = {} /\ usage[r] = NoUsage
  BY DEF Init, Billed, HasRef
<1> QED
  BY <1>1, FS_EmptySet, SumOfNone DEF Ledger, NoUsage

\* Only the usage update changes an account, and the set of what is billed with
\* it: the request that created a row charges for it once.
LEMMA StepLedger == IInv /\ UsageLedger /\ [Next]_vars => UsageLedger'
<1> SUFFICES ASSUME IInv, UsageLedger, [Next]_vars, NEW r \in Realm PROVE Ledger(r)'
  BY LedgerNextIs
<1>1. Ledger(r)
  BY LedgerIs
<1>2. CASE Billed(r)' = Billed(r) /\ usage'[r] = usage[r]
  BY <1>1, <1>2 DEF Ledger
<1>3. ASSUME NEW k \in Node \ Billed(r),
             Billed(r)' = Billed(r) \cup {k}, usage'[r] = Charge(usage[r], k)
      PROVE  Ledger(r)'
  <2>1. Billed(r) \in SUBSET Node
    BY DEF Billed
  <2> QED
    BY <1>1, <1>3, <2>1, OneMoreBilled DEF Ledger, Charge
<1> QED
  BY <1>2, <1>3, AccountStep

\* A realm's usage row is always the sum of the sizes of the nodes it was billed
\* for, in bytes, logical bytes and nodes, whatever requests race or die.
THEOREM LedgerExact == Spec => []UsageLedger
<1>1. IInv /\ UsageLedger /\ [Next]_vars => (IInv /\ UsageLedger)'
  BY StepInv, StepLedger
<1> QED
  BY <1>1, InitIInv, InitLedger, PTL DEF Spec

-----------------------------------------------------------------------------
(* The reference counts.  A parent whose upload was answered has counted its *)
(* children, each as often as it names it, and one whose upload is underway  *)
(* has counted the names before the one its loop is at.                      *)

\* The names a node has for a child before its i-th.
Before(n, i, c) == {j \in 1 .. Len(Children[n]) : j < i /\ Children[n][j] = c}

\* How often a request at this await, with these locals, has counted the child.
Progress(l, q, r, c) ==
  IF l \in CountSteps /\ q.realm = r /\ c \in q.base
    THEN Cardinality(Before(q.key, q.next, c))
    ELSE 0

\* The parents whose upload was answered and that count the child.
Parents(r, c) == {n \in Node : <<r, n, c>> \in counted}

\* How often each node names the child.
NamesOf(c) == [n \in Node |-> Occurrences(n, c)]

\* How often each request has counted the child so far.
Underway(r, c) == [p \in Proc |-> Progress(pc[p], req[p], r, c)]

\* What the count of the child owes to parents answered and parents underway.
Owed(r, c) == Sum(NamesOf(c), Parents(r, c)) + Sum(Underway(r, c), Proc)

\* The count of a row covers its creation, every name of an answered parent, and
\* what the requests underway have counted so far.
CountsOwed ==
  \A r \in Realm, c \in Node : HasRef(r, c) => refCount[r][c] >= 1 + Owed(r, c)

\* Only rows that are there are counted.
CountedBacked == \A r \in Realm, n \in Node, c \in Node : <<r, n, c>> \in counted => HasRef(r, c)

\* The children a request is to count have rows.
BaseBacked ==
  \A p \in Proc : pc[p] \in PutSteps => \A c \in req[p].base : HasRef(req[p].realm, c)

\* The usage row comes after the last child.
LoopsEnd == \A p \in Proc : pc[p] = "updateUsage" => req[p].next > Len(Children[req[p].key])

\* The inductive invariant of the counts.
CountInv == IInv /\ CountsOwed /\ CountedBacked /\ BaseBacked /\ LoopsEnd

-----------------------------------------------------------------------------
\* How the names before a position grow with it.
LEMMA BeforeFacts ==
  ASSUME NEW n \in Node, NEW c, NEW i \in Nat
  PROVE  /\ IsFiniteSet(Before(n, i, c))
         /\ Cardinality(Before(n, i, c)) \in Nat
         /\ i = 0 => Cardinality(Before(n, i, c)) = 0
         /\ i > Len(Children[n]) => Cardinality(Before(n, i, c)) = Occurrences(n, c)
         /\ i \in 1 .. Len(Children[n]) =>
              Cardinality(Before(n, i + 1, c))
                = Cardinality(Before(n, i, c)) + (IF Children[n][i] = c THEN 1 ELSE 0)
         /\ i = 0 => Cardinality(Before(n, i + 1, c)) = 0
<1>1. Len(Children[n]) \in Nat /\ DOMAIN Children[n] = 1 .. Len(Children[n])
  BY BodyTypes
<1>2. IsFiniteSet(1 .. Len(Children[n]))
  BY <1>1, FS_Interval
<1>3. IsFiniteSet(Before(n, i, c)) /\ Cardinality(Before(n, i, c)) \in Nat
  BY <1>2, FS_Subset, FS_CardinalityType DEF Before
<1>4. i = 0 => Before(n, i, c) = {} /\ Before(n, i + 1, c) = {}
  BY <1>1 DEF Before
<1>5. i > Len(Children[n]) => Before(n, i, c) = {j \in DOMAIN Children[n] : Children[n][j] = c}
  BY <1>1 DEF Before
<1>6. ASSUME i \in 1 .. Len(Children[n])
      PROVE  Cardinality(Before(n, i + 1, c))
                = Cardinality(Before(n, i, c)) + (IF Children[n][i] = c THEN 1 ELSE 0)
  <2>1. CASE Children[n][i] = c
    <3>1. Before(n, i + 1, c) = Before(n, i, c) \cup {i} /\ i \notin Before(n, i, c)
      BY <1>1, <1>6, <2>1 DEF Before
    <3> QED
      BY <1>3, <2>1, <3>1, FS_AddElement
  <2>2. CASE Children[n][i] # c
    <3>1. Before(n, i + 1, c) = Before(n, i, c)
      BY <1>1, <1>6, <2>2 DEF Before
    <3> QED
      BY <1>3, <2>2, <3>1
  <2> QED
    BY <2>1, <2>2
<1> QED
  BY <1>3, <1>4, <1>5, <1>6, FS_EmptySet DEF Occurrences

\* The fold of the model over parents, as a sum of a function.
LEMMA NamesTotal ==
  ASSUME NEW S \in SUBSET Node, NEW c
  PROVE  MapThenSumSet(LAMBDA n : Occurrences(n, c), S) = Sum(NamesOf(c), S)
<1> DEFINE P(it) == it = [s \in SUBSET S |-> IF s = {} THEN 0
                           ELSE Occurrences(CHOOSE x \in s : TRUE, c)
                                  + it[s \ {CHOOSE x \in s : TRUE}]]
           h == CHOOSE it : P(it)
<1>1. IsFiniteSet(S)
  BY BodyAssumption, FS_Subset
<1>2. \A it : P(it) <=> IsSum(it, NamesOf(c), S)
  <2>1. ASSUME NEW s \in SUBSET S, s # {}
        PROVE  NamesOf(c)[Chosen(s)] = Occurrences(CHOOSE x \in s : TRUE, c)
    BY <2>1 DEF Chosen, NamesOf
  <2> QED
    BY <2>1 DEF IsSum, Chosen
<1>3. MapThenSumSet(LAMBDA n : Occurrences(n, c), S) = h[S]
  BY DEF MapThenSumSet, MapThenFoldSet
<1>4. P(h)
  <2> HIDE DEF P
  <2> QED
    BY <1>1, <1>2, SumExists
<1>5. IsSum(h, NamesOf(c), S)
  BY <1>2, <1>4
<1> HIDE DEF h
<1> QED
  BY <1>1, <1>3, <1>5, SumOfSubset

\* What is owed is a number, and one more parent adds at most its names.
LEMMA NamesFacts ==
  ASSUME NEW S \in SUBSET Node, NEW c, NEW n \in Node
  PROVE  /\ Occurrences(n, c) \in Nat
         /\ Sum(NamesOf(c), S) \in Nat
         /\ Sum(NamesOf(c), S \cup {n}) <= Sum(NamesOf(c), S) + Occurrences(n, c)
<1>1. \A m \in Node : Occurrences(m, c) \in Nat
  <2> SUFFICES ASSUME NEW m \in Node PROVE Occurrences(m, c) \in Nat
    OBVIOUS
  <2>1. Len(Children[m]) + 1 \in Nat /\ Len(Children[m]) + 1 > Len(Children[m])
    BY BodyTypes
  <2> HIDE DEF Occurrences
  <2> QED
    BY <2>1, BeforeFacts
<1>2. \A m \in Node : NamesOf(c)[m] = Occurrences(m, c)
  BY DEF NamesOf
<1> DEFINE T == S \cup {n}
<1>3. IsFiniteSet(S) /\ IsFiniteSet(T)
  BY BodyAssumption, FS_Subset
<1>4. Sum(NamesOf(c), S) \in Nat
  BY <1>1, <1>2, <1>3, SumIsNat
<1>5. CASE n \in S
  <2>1. T = S
    BY <1>5
  <2> HIDE DEF T
  <2>2. Sum(NamesOf(c), T) <= Sum(NamesOf(c), S) + Occurrences(n, c)
    BY <1>1, <1>4, <2>1
  <2> QED
    BY <1>1, <1>4, <2>2 DEF T
<1>6. CASE n \notin S
  <2>1. n \in T /\ T \ {n} = S /\ \A m \in T : NamesOf(c)[m] \in Nat
    BY <1>1, <1>2, <1>6
  <2> HIDE DEF T
  <2>2. Sum(NamesOf(c), T) = NamesOf(c)[n] + Sum(NamesOf(c), S)
    BY <1>3, <2>1, SumOfOneMore
  <2> QED
    BY <1>1, <1>2, <1>4, <2>2 DEF T
<1> QED
  BY <1>1, <1>4, <1>5, <1>6

\* Progress is a number.
LEMMA ProgressType ==
  ASSUME NEW l, NEW q, l \in CountSteps => q \in PutRequest, NEW r, NEW c
  PROVE  Progress(l, q, r, c) \in Nat
BY BeforeFacts DEF Progress, PutRequest

\* Progress in a step of one request.
LEMMA UnderwayStep ==
  ASSUME TypeOK, TypeOK', NEW p \in Proc, OthersStay(p), NEW r \in Realm, NEW c \in Node
  PROVE  /\ Sum(Underway(r, c), Proc) \in Nat
         /\ Sum(Underway(r, c)', Proc) \in Nat
         /\ Progress(pc[p], req[p], r, c) \in Nat
         /\ Progress(pc'[p], req'[p], r, c) \in Nat
         /\ Sum(Underway(r, c)', Proc) + Progress(pc[p], req[p], r, c)
              = Sum(Underway(r, c), Proc) + Progress(pc'[p], req'[p], r, c)
<1> DEFINE f == Underway(r, c)
           g == Underway(r, c)'
<1>1. \A o \in Proc : /\ f[o] = Progress(pc[o], req[o], r, c)
                      /\ g[o] = Progress(pc'[o], req'[o], r, c)
  BY DEF Underway
<1>2. \A o \in Proc : /\ pc[o] \in CountSteps => req[o] \in PutRequest
                      /\ pc'[o] \in CountSteps => req'[o] \in PutRequest
  BY DEF TypeOK, CountSteps, PutSteps
<1>3. \A o \in Proc : f[o] \in Nat /\ g[o] \in Nat
  BY <1>1, <1>2, ProgressType
<1>4. \A o \in Proc \ {p} : f[o] = g[o]
  BY <1>1 DEF OthersStay
<1>5. IsFiniteSet(Proc)
  BY StoreAssumption
<1> HIDE DEF f, g
<1>6. Sum(f, Proc) \in Nat /\ Sum(g, Proc) \in Nat
  BY <1>3, <1>5, SumIsNat
<1>7. Sum(g, Proc) + f[p] = Sum(f, Proc) + g[p]
  BY <1>3, <1>4, <1>5, SumChange
<1> QED
  BY <1>1, <1>3, <1>6, <1>7 DEF f, g

\* Nothing is owed to a row that is not there.
LEMMA NoRowNoDebt ==
  ASSUME CountInv, NEW r \in Realm, NEW c \in Node, ~HasRef(r, c)
  PROVE  /\ Parents(r, c) = {}
         /\ \A p \in Proc : Progress(pc[p], req[p], r, c) = 0
         /\ Owed(r, c) = 0
<1>1. Parents(r, c) = {}
  BY DEF CountInv, CountedBacked, Parents
<1>2. \A p \in Proc : Progress(pc[p], req[p], r, c) = 0
  BY DEF CountInv, BaseBacked, Progress, CountSteps, PutSteps
<1>3. IsFiniteSet(Proc)
  BY StoreAssumption
<1>4. Sum(Underway(r, c), Proc) = 0
  <2>1. \A p \in Proc : Underway(r, c)[p] = 0
    BY <1>2 DEF Underway
  <2> QED
    BY <1>3, <2>1, SumOfZeros
<1> QED
  BY <1>1, <1>2, <1>4, SumOfNone DEF Owed

-----------------------------------------------------------------------------
\* What a step has to show of the request that takes it.
BaseKept(p) ==
  /\ pc'[p] \in PutSteps => \A c \in req'[p].base : HasRef(req[p].realm, c)'
  /\ pc'[p] = "updateUsage" => req'[p].next > Len(Children[req'[p].key])

\* A step is safe when no count grows by less than what is owed to it.
LEMMA CountStep ==
  ASSUME CountInv, TypeOK', NEW p \in Proc, OthersStay(p), BaseKept(p),
         \A r \in Realm, c \in Node : HasRef(r, c) => HasRef(r, c)',
         \A r \in Realm, c \in Node :
           HasRef(r, c) => refCount'[r][c] + Owed(r, c) >= refCount[r][c] + Owed(r, c)',
         \A r \in Realm, c \in Node :
           HasRef(r, c)' /\ ~HasRef(r, c) => refCount'[r][c] >= 1 + Owed(r, c)',
         \A r \in Realm, n \in Node, c \in Node :
           <<r, n, c>> \in counted' => <<r, n, c>> \in counted \/ HasRef(r, c)
  PROVE  CountsOwed' /\ CountedBacked' /\ BaseBacked' /\ LoopsEnd'
<1>1. TypeOK
  BY DEF CountInv, IInv
<1>2. CountsOwed'
  <2> SUFFICES ASSUME NEW r \in Realm, NEW c \in Node, HasRef(r, c)'
               PROVE  refCount'[r][c] >= 1 + Owed(r, c)'
    BY DEF CountsOwed
  <2>1. Sum(Underway(r, c), Proc) \in Nat /\ Sum(Underway(r, c)', Proc) \in Nat
    BY <1>1, UnderwayStep
  <2>2. /\ Sum(NamesOf(c), Parents(r, c)) \in Nat
        /\ Sum(NamesOf(c), Parents(r, c)') \in Nat
    <3>1. Parents(r, c) \in SUBSET Node /\ Parents(r, c)' \in SUBSET Node
      BY DEF Parents
    <3> QED
      BY <3>1, NamesFacts
  <2>3. Owed(r, c) \in Nat /\ Owed(r, c)' \in Nat
    <3>1. NamesOf(c)' = NamesOf(c)
      BY DEF NamesOf, Occurrences
    <3> QED
      BY <2>1, <2>2, <3>1 DEF Owed
  <2>4. refCount[r][c] \in Nat /\ refCount'[r][c] \in Nat
    BY <1>1 DEF TypeOK
  <2>5. CASE HasRef(r, c)
    <3>1. refCount[r][c] >= 1 + Owed(r, c)
      BY <2>5 DEF CountInv, CountsOwed
    <3> QED
      BY <2>3, <2>4, <2>5, <3>1
  <2>6. CASE ~HasRef(r, c)
    BY <2>6
  <2> QED
    BY <2>5, <2>6
<1>3. CountedBacked'
  <2> SUFFICES ASSUME NEW r \in Realm, NEW n \in Node, NEW c \in Node, <<r, n, c>> \in counted'
               PROVE  HasRef(r, c)'
    BY DEF CountedBacked
  <2> QED
    BY DEF CountInv, CountedBacked
<1>4. BaseBacked'
  <2> SUFFICES ASSUME NEW o \in Proc \ {p}, pc'[o] \in PutSteps, NEW c \in req'[o].base
               PROVE  HasRef(req[o].realm, c)'
    BY DEF BaseBacked, BaseKept
  <2>1. pc[o] \in PutSteps /\ req'[o] = req[o] /\ c \in req[o].base
    BY DEF OthersStay
  <2>2. req[o].realm \in Realm /\ c \in Node
    BY <1>1, <2>1 DEF TypeOK, PutRequest
  <2>3. HasRef(req[o].realm, c)
    BY <2>1 DEF CountInv, BaseBacked
  <2> QED
    BY <2>1, <2>2, <2>3
<1>5. LoopsEnd'
  BY DEF CountInv, LoopsEnd, BaseKept, OthersStay
<1> QED
  BY <1>2, <1>3, <1>4, <1>5

\* The parents stay and the request makes no progress.
LEMMA QuietCount ==
  ASSUME CountInv, TypeOK', NEW p \in Proc, OthersStay(p), BaseKept(p),
         refCount' = refCount, counted' = counted,
         \A r \in Realm, c \in Node :
           Progress(pc'[p], req'[p], r, c) <= Progress(pc[p], req[p], r, c)
  PROVE  CountsOwed' /\ CountedBacked' /\ BaseBacked' /\ LoopsEnd'
<1>1. TypeOK
  BY DEF CountInv, IInv
<1>2. \A r \in Realm, c \in Node : HasRef(r, c)' <=> HasRef(r, c)
  BY DEF HasRef
<1>3. ASSUME NEW r \in Realm, NEW c \in Node
      PROVE  refCount'[r][c] + Owed(r, c) >= refCount[r][c] + Owed(r, c)'
  <2>1. Parents(r, c)' = Parents(r, c) /\ NamesOf(c)' = NamesOf(c)
    BY DEF Parents, NamesOf, Occurrences
  <2>2. Sum(NamesOf(c), Parents(r, c)) \in Nat
    <3>1. Parents(r, c) \in SUBSET Node
      BY DEF Parents
    <3> QED
      BY <3>1, NamesFacts
  <2>3. Progress(pc'[p], req'[p], r, c) <= Progress(pc[p], req[p], r, c)
    OBVIOUS
  <2>4. Sum(Underway(r, c)', Proc) <= Sum(Underway(r, c), Proc)
        /\ Sum(Underway(r, c)', Proc) \in Nat /\ Sum(Underway(r, c), Proc) \in Nat
    BY <1>1, <2>3, UnderwayStep
  <2>5. refCount[r][c] \in Nat
    BY <1>1 DEF TypeOK
  <2> QED
    BY <2>1, <2>2, <2>4, <2>5 DEF Owed
<1> QED
  BY <1>2, <1>3, CountStep

-----------------------------------------------------------------------------
\* What counting the current target adds to the progress on a child.
Bump(q, r, c) == IF q.realm = r /\ c \in q.base /\ q.next > 0 /\ Target(q) = c THEN 1 ELSE 0

\* Counting the current target is progress by one name of it.
LEMMA BeforeNext ==
  ASSUME NEW q \in PutRequest, q.next \in 0 .. Len(Children[q.key]), NEW r, NEW c,
         q.realm = r, c \in q.base
  PROVE  Cardinality(Before(q.key, q.next + 1, c))
           = Cardinality(Before(q.key, q.next, c)) + Bump(q, r, c)
<1>1. q.key \in Node /\ q.next \in Nat /\ Len(Children[q.key]) \in Nat
  BY BodyTypes DEF PutRequest
<1>2. CASE q.next = 0
  <2>1. Bump(q, r, c) = 0
    BY <1>2 DEF Bump
  <2>2. /\ Cardinality(Before(q.key, q.next, c)) = 0
        /\ Cardinality(Before(q.key, q.next + 1, c)) = 0
    <3>1. /\ Cardinality(Before(q.key, 0, c)) = 0
          /\ Cardinality(Before(q.key, 0 + 1, c)) = 0
      BY <1>1, BeforeFacts
    <3> QED
      BY <1>2, <3>1
  <2> QED
    BY <2>1, <2>2
<1>3. CASE q.next > 0
  <2>1. q.next \in 1 .. Len(Children[q.key]) /\ Target(q) = Children[q.key][q.next]
    BY <1>1, <1>3 DEF Target
  <2>2. Bump(q, r, c) = IF Children[q.key][q.next] = c THEN 1 ELSE 0
    BY <1>3, <2>1 DEF Bump
  <2> QED
    BY <1>1, <2>1, <2>2, BeforeFacts
<1> QED
  BY <1>1, <1>2, <1>3

\* Going on to the next target or to the reply: one more name is counted, and a
\* parent that is answered has counted every one.
LEMMA AdvanceOwes ==
  ASSUME CountInv, TypeOK', NEW p \in Proc,
         pc[p] \in CountSteps, pc[p] # "updateUsage", NEW new \in BOOLEAN, Advance(p, new),
         \A r \in Realm, c \in Node : HasRef(r, c) => HasRef(r, c)'
  PROVE  /\ OthersStay(p) /\ BaseKept(p)
         /\ \A r \in Realm, n \in Node, c \in Node :
               <<r, n, c>> \in counted' => <<r, n, c>> \in counted \/ HasRef(r, c)
         /\ \A r \in Realm, c \in Node :
               /\ Owed(r, c)' <= Owed(r, c) + Bump(req[p], r, c)
               /\ Owed(r, c) \in Nat /\ Owed(r, c)' \in Nat
<1> DEFINE q == req[p]
           k == q.key
           s == q.realm
<1>1. IInv /\ TypeOK /\ pc[p] \in PutSteps
  BY DEF CountInv, IInv, CountSteps, PutSteps
<1>2. /\ q \in PutRequest /\ k \in Node /\ s \in Realm /\ q.base \subseteq Node
      /\ q.next \in Nat /\ q.next \in 0 .. Len(Children[k]) /\ Len(Children[k]) \in Nat
      /\ pc \in [Proc -> Step] /\ req = [o \in Proc |-> req[o]]
  BY <1>1, PutFacts, CountingFacts
<1>3. \A c \in q.base : HasRef(s, c)
  BY <1>1 DEF CountInv, BaseBacked
<1>4. ASSUME NEW r \in Realm, NEW c \in Node
      PROVE  /\ Sum(NamesOf(c), Parents(r, c)) \in Nat
             /\ Sum(NamesOf(c), Parents(r, c)') \in Nat
             /\ NamesOf(c)' = NamesOf(c)
             /\ Bump(q, r, c) \in Nat
             /\ Parents(r, c) \in SUBSET Node
  <2>1. Parents(r, c) \in SUBSET Node /\ Parents(r, c)' \in SUBSET Node
    BY DEF Parents
  <2> QED
    BY <2>1, NamesFacts DEF NamesOf, Occurrences, Bump
<1>5. CASE AfterIncrement(q, new) = "idle"
  <2>1. End(p) /\ Answer(q) /\ q.next = Len(Children[k])
    BY <1>2, <1>5 DEF Advance, AfterIncrement
  <2>2. OthersStay(p) /\ pc'[p] = "idle"
    BY <1>1, <1>2, <2>1, EndIsSafe DEF OthersStay, Moves
  <2>3. BaseKept(p)
    BY <2>2 DEF BaseKept, PutSteps
  <2>4. counted' = counted \cup {<<s, k, c>> : c \in q.base}
    BY <2>1 DEF Answer
  <2>5. ASSUME NEW r \in Realm, NEW c \in Node
        PROVE  /\ Owed(r, c)' <= Owed(r, c) + Bump(q, r, c)
               /\ Owed(r, c) \in Nat /\ Owed(r, c)' \in Nat
    <3>1. Progress(pc'[p], req'[p], r, c) = 0
      BY <2>2 DEF Progress, CountSteps
    <3>2. /\ Sum(Underway(r, c), Proc) \in Nat
          /\ Sum(Underway(r, c)', Proc) \in Nat
          /\ Progress(pc[p], req[p], r, c) \in Nat
          /\ Sum(Underway(r, c)', Proc) + Progress(pc[p], req[p], r, c) = Sum(Underway(r, c), Proc)
      BY <1>1, <2>2, <3>1, UnderwayStep
    <3>3. CASE r = s /\ c \in q.base
      <4>1. Parents(r, c)' = Parents(r, c) \cup {k}
        BY <1>2, <2>4, <3>3 DEF Parents
      <4>2. Sum(NamesOf(c), Parents(r, c)') <= Sum(NamesOf(c), Parents(r, c)) + Occurrences(k, c)
            /\ Occurrences(k, c) \in Nat
        BY <1>2, <1>4, <4>1, NamesFacts
      <4>3. Occurrences(k, c) = Progress(pc[p], q, r, c) + Bump(q, r, c)
        <5>1. Occurrences(k, c) = Cardinality(Before(k, q.next + 1, c))
          <6>1. q.next + 1 \in Nat /\ q.next + 1 > Len(Children[k])
            BY <1>2, <2>1
          <6> QED
            BY <1>2, <6>1, BeforeFacts
        <5>2. Progress(pc[p], q, r, c) = Cardinality(Before(k, q.next, c))
          BY <3>3 DEF Progress
        <5> QED
          BY <1>2, <3>3, <5>1, <5>2, BeforeNext
      <4> QED
        BY <1>4, <3>2, <4>2, <4>3 DEF Owed
    <3>4. CASE ~(r = s /\ c \in q.base)
      <4>1. Parents(r, c)' = Parents(r, c)
        BY <1>2, <2>4, <3>4 DEF Parents
      <4>2. Progress(pc[p], q, r, c) = 0
        BY <3>4 DEF Progress
      <4> QED
        BY <1>4, <3>2, <4>1, <4>2 DEF Owed
    <3> QED
      BY <3>3, <3>4
  <2> QED
    BY <1>2, <1>3, <2>2, <2>3, <2>4, <2>5
<1>6. CASE AfterIncrement(q, new) # "idle"
  <2> DEFINE l == AfterIncrement(q, new)
  <2>1. /\ l \in {"readChildRef", "updateUsage"}
        /\ l = "updateUsage" => q.next + 1 > Len(Children[k])
    BY <1>2, <1>6 DEF AfterIncrement
  <2>2. /\ pc'[p] = l /\ req'[p] = [q EXCEPT !.next = q.next + 1, !.isNew = new]
        /\ OthersStay(p) /\ counted' = counted
    BY <1>2, <1>6 DEF Advance, Goto, OthersStay, ghosts
  <2> HIDE DEF l
  <2>3. /\ req'[p].realm = s /\ req'[p].key = k /\ req'[p].base = q.base
        /\ req'[p].next = q.next + 1
    BY <1>2, <2>2 DEF PutRequest
  <2>4. BaseKept(p)
    BY <1>2, <1>3, <2>1, <2>2, <2>3 DEF BaseKept
  <2>5. ASSUME NEW r \in Realm, NEW c \in Node
        PROVE  /\ Owed(r, c)' <= Owed(r, c) + Bump(q, r, c)
               /\ Owed(r, c) \in Nat /\ Owed(r, c)' \in Nat
    <3>1. Progress(pc'[p], req'[p], r, c) = Progress(pc[p], q, r, c) + Bump(q, r, c)
      <4>1. pc'[p] \in CountSteps
        BY <2>1, <2>2 DEF CountSteps
      <4>2. CASE r = s /\ c \in q.base
        BY <1>2, <2>3, <4>1, <4>2, BeforeNext DEF Progress
      <4>3. CASE ~(r = s /\ c \in q.base)
        BY <2>3, <4>3 DEF Progress, Bump
      <4> QED
        BY <4>2, <4>3
    <3>2. /\ Sum(Underway(r, c), Proc) \in Nat
          /\ Sum(Underway(r, c)', Proc) \in Nat
          /\ Progress(pc[p], q, r, c) \in Nat
          /\ Sum(Underway(r, c)', Proc) + Progress(pc[p], q, r, c)
               = Sum(Underway(r, c), Proc) + Progress(pc'[p], req'[p], r, c)
      BY <1>1, <2>2, UnderwayStep
    <3>3. Parents(r, c)' = Parents(r, c)
      BY <2>2 DEF Parents
    <3> QED
      BY <1>4, <3>1, <3>2, <3>3 DEF Owed
  <2> QED
    BY <2>2, <2>4, <2>5
<1> QED
  BY <1>5, <1>6

-----------------------------------------------------------------------------
(* The steps. *)

\* A request that leaves its loop, or has not entered it.
LEMMA NoProgress ==
  ASSUME CountInv, TypeOK', NEW p \in Proc, OthersStay(p), BaseKept(p),
         refCount' = refCount, counted' = counted,
         pc'[p] \in CountSteps =>
           \/ req'[p].next = 0 /\ req'[p] \in PutRequest
           \/ pc[p] \in CountSteps /\ req'[p] = req[p]
  PROVE  CountsOwed' /\ CountedBacked' /\ BaseBacked' /\ LoopsEnd'
<1>1. ASSUME NEW r \in Realm, NEW c \in Node
      PROVE  Progress(pc'[p], req'[p], r, c) <= Progress(pc[p], req[p], r, c)
  <2>1. Progress(pc[p], req[p], r, c) \in Nat
    BY ProgressType DEF CountInv, IInv, TypeOK, CountSteps, PutSteps
  <2>2. CASE pc'[p] \notin CountSteps
    BY <2>1, <2>2 DEF Progress
  <2>3. CASE pc'[p] \in CountSteps /\ req'[p].next = 0 /\ req'[p] \in PutRequest
    <3>1. req'[p].key \in Node
      BY <2>3 DEF PutRequest
    <3>2. Cardinality(Before(req'[p].key, 0, c)) = 0
      BY <3>1, BeforeFacts
    <3> QED
      BY <2>1, <2>3, <3>2 DEF Progress
  <2>4. CASE pc'[p] \in CountSteps /\ pc[p] \in CountSteps /\ req'[p] = req[p]
    BY <2>1, <2>4 DEF Progress
  <2> QED
    BY <2>2, <2>3, <2>4
<1> QED
  BY <1>1, QuietCount

\* Ending a request that is not answered.
LEMMA EndCount ==
  ASSUME CountInv, TypeOK', NEW p \in Proc, End(p), refCount' = refCount, counted' = counted
  PROVE  CountsOwed' /\ CountedBacked' /\ BaseBacked' /\ LoopsEnd'
<1>1. OthersStay(p) /\ pc'[p] = "idle"
  BY EndIsSafe DEF CountInv, OthersStay, Moves, IInv, TypeOK
<1>2. BaseKept(p)
  BY <1>1 DEF BaseKept, PutSteps
<1> QED
  BY <1>1, <1>2, NoProgress DEF CountSteps

\* A request that arrives has counted nothing.
LEMMA ReceiveCount ==
  ASSUME CountInv, TypeOK', NEW p \in Proc, Receive(p)
  PROVE  CountsOwed' /\ CountedBacked' /\ BaseBacked' /\ LoopsEnd'
<1>1. pc \in [Proc -> Step] /\ req = [o \in Proc |-> req[o]]
  BY DEF CountInv, IInv, TypeOK
<1>2. PICK l, q :
        /\ l \in {"readRef", "hasChild", "hasOwnership", "prepare"}
        /\ Begin(p, l, q) /\ UNCHANGED <<stores, ghosts>>
        /\ l \in {"readRef", "hasChild"} => \A c \in q.base : HasRef(q.realm, c)
  <2>1. CASE \E r \in Realm, n \in Node : ReceivePut(p, r, n)
    <3>1. PICK r \in Realm, n \in Node : ReceivePut(p, r, n)
      BY <2>1
    <3>2. \A c \in NewPut(r, n).base : HasRef(NewPut(r, n).realm, c)
      BY DEF NewPut
    <3> QED
      BY <3>1, <3>2 DEF ReceivePut
  <2>2. CASE \E r \in Realm, n \in Node : ReceiveGet(p, r, n)
    BY <2>2 DEF ReceiveGet
  <2>3. CASE \E r \in Realm : \E keys \in SUBSET Node \ {{}} : ReceivePrepare(p, r, keys)
    BY <2>3 DEF ReceivePrepare
  <2> QED
    BY <2>1, <2>2, <2>3 DEF Receive
<1>3. OthersStay(p) /\ pc'[p] = l /\ req'[p] = q
  BY <1>1, <1>2 DEF OthersStay, Begin, Goto
<1>4. refCount' = refCount /\ counted' = counted
  BY <1>2 DEF stores, ghosts
<1>5. BaseKept(p)
  BY <1>2, <1>3, <1>4 DEF BaseKept, PutSteps, HasRef
<1> QED
  BY <1>2, <1>3, <1>4, <1>5, NoProgress DEF CountSteps

\* Nor does a step that only reads.
LEMMA ReadStepCount ==
  ASSUME CountInv, TypeOK', NEW p \in Proc, ReadStep(p)
  PROVE  CountsOwed' /\ CountedBacked' /\ BaseBacked' /\ LoopsEnd'
<1>1. pc \in [Proc -> Step] /\ req = [o \in Proc |-> req[o]]
  BY DEF CountInv, IInv, TypeOK
<1>2. pc'[p] \in {"idle", "prepare", "getBlob"} /\ OthersStay(p)
      /\ refCount' = refCount /\ counted' = counted
  BY <1>1 DEF ReadStep, HasOwnership, GetBlob, PrepareKey, ReplyPrepare, End, Begin, Goto,
     OthersStay, stores, ghosts
<1>3. BaseKept(p)
  BY <1>2 DEF BaseKept, PutSteps
<1> QED
  BY <1>2, <1>3, NoProgress DEF CountSteps

\* The awaits of a PUT before its ownership row, and the row itself.
LEMMA BeforeCounting ==
  ASSUME CountInv, TypeOK', NEW p \in Proc,
         \/ HasChild(p) \/ FinishValidation(p) \/ ReadRef(p) \/ CheckQuota(p)
         \/ PutBlob(p) \/ AddOwnership(p)
  PROVE  CountsOwed' /\ CountedBacked' /\ BaseBacked' /\ LoopsEnd'
<1>1. /\ pc[p] \in {"hasChild", "getSizes", "readRef", "checkQuota", "putBlob", "addOwnership"}
      /\ refCount' = refCount /\ counted' = counted
  BY DEF HasChild, FinishValidation, ReadRef, CheckQuota, PutBlob, AddOwnership, stores, ghosts
<1>2. IInv /\ pc[p] \in PutSteps /\ \A c \in req[p].base : HasRef(req[p].realm, c)
  BY <1>1 DEF PutSteps, CountInv, BaseBacked
<1>3. /\ req[p] \in PutRequest
      /\ pc \in [Proc -> Step] /\ req = [o \in Proc |-> req[o]]
  BY <1>2, PutFacts
<1>4. CASE End(p)
  BY <1>1, <1>4, EndCount
<1>5. CASE ~End(p)
  <2>1. OthersStay(p) /\ pc'[p] \in PutSteps \ {"updateUsage"}
    BY <1>3, <1>5 DEF HasChild, FinishValidation, ReadRef, CheckQuota, PutBlob, AddOwnership,
       Goto, OthersStay, PutSteps
  <2>2. req'[p].base = req[p].base /\ req'[p].realm = req[p].realm
    BY <1>3, <1>5 DEF HasChild, FinishValidation, ReadRef, CheckQuota, PutBlob, AddOwnership,
       PutRequest
  <2>3. pc'[p] \in CountSteps => req'[p].next = 0 /\ req'[p] \in PutRequest
    BY <1>3, <1>5 DEF HasChild, FinishValidation, ReadRef, CheckQuota, PutBlob, AddOwnership,
       PutRequest, Goto, CountSteps
  <2>4. BaseKept(p)
    BY <1>1, <1>2, <2>1, <2>2 DEF BaseKept, HasRef
  <2> QED
    BY <1>1, <2>1, <2>3, <2>4, NoProgress
<1> QED
  BY <1>4, <1>5

\* Going on to the next await of the loop with nothing counted.
LEMMA LoopGoto ==
  ASSUME CountInv, TypeOK', NEW p \in Proc, pc[p] \in CountSteps, NEW l, l # "updateUsage",
         Goto(p, l), req' = req, refCount' = refCount, counted' = counted
  PROVE  CountsOwed' /\ CountedBacked' /\ BaseBacked' /\ LoopsEnd'
<1>1. pc[p] \in PutSteps /\ \A c \in req[p].base : HasRef(req[p].realm, c)
  BY DEF CountInv, BaseBacked, CountSteps, PutSteps
<1>2. OthersStay(p) /\ pc'[p] = l
  BY DEF CountInv, IInv, TypeOK, OthersStay, Goto
<1>3. BaseKept(p)
  BY <1>1, <1>2 DEF BaseKept, HasRef
<1> QED
  BY <1>2, <1>3, NoProgress

\* The increment of a row that is there pays for the name the loop is at.
LEMMA IncrementExistingCount ==
  ASSUME CountInv, TypeOK', NEW p \in Proc, IncrementExisting(p)
  PROVE  CountsOwed' /\ CountedBacked' /\ BaseBacked' /\ LoopsEnd'
<1> DEFINE q == req[p]
           t == Target(q)
<1>1. pc[p] \in CountSteps /\ pc[p] # "updateUsage" /\ pc[p] \in PutSteps
      /\ IInv /\ TypeOK
  BY DEF IncrementExisting, CountSteps, PutSteps, CountInv, IInv
<1>2. q.realm \in Realm /\ t \in Node /\ q.isNew \in BOOLEAN
  BY <1>1, CountingFacts, PutFacts
<1>3. CASE ~HasRef(q.realm, t)
  <2>1. Goto(p, "incCreate") /\ UNCHANGED <<refCount, req, ghosts>>
    BY <1>3 DEF IncrementExisting
  <2> QED
    BY <1>1, <2>1, LoopGoto DEF ghosts
<1>4. CASE HasRef(q.realm, t)
  <2>1. /\ refCount' = [refCount EXCEPT ![q.realm][t] = @ + 1]
        /\ Advance(p, q.isNew)
    BY <1>4 DEF IncrementExisting
  <2>2. \A r \in Realm, c \in Node :
          /\ HasRef(r, c)' <=> HasRef(r, c)
          /\ refCount[r][c] \in Nat
          /\ refCount'[r][c] = refCount[r][c] + (IF r = q.realm /\ c = t THEN 1 ELSE 0)
    BY <1>1, <1>2, <1>4, <2>1 DEF TypeOK, HasRef
  <2>3. \A r \in Realm, c \in Node :
          Bump(q, r, c) <= (IF r = q.realm /\ c = t THEN 1 ELSE 0) /\ Bump(q, r, c) \in Nat
    BY DEF Bump
  <2>4. /\ OthersStay(p) /\ BaseKept(p)
        /\ \A r \in Realm, n \in Node, c \in Node :
              <<r, n, c>> \in counted' => <<r, n, c>> \in counted \/ HasRef(r, c)
        /\ \A r \in Realm, c \in Node :
              /\ Owed(r, c)' <= Owed(r, c) + Bump(q, r, c)
              /\ Owed(r, c) \in Nat /\ Owed(r, c)' \in Nat
    BY <1>1, <1>2, <2>1, <2>2, AdvanceOwes
  <2>5. ASSUME NEW r \in Realm, NEW c \in Node
        PROVE  refCount'[r][c] + Owed(r, c) >= refCount[r][c] + Owed(r, c)'
    <3> HIDE DEF q, t
    <3> QED
      BY <2>2, <2>3, <2>4
  <2> QED
    BY <2>2, <2>4, <2>5, CountStep
<1> QED
  BY <1>3, <1>4

\* A child without a row is passed over.
LEMMA ReadChildRefCount ==
  ASSUME CountInv, TypeOK', NEW p \in Proc, ReadChildRef(p)
  PROVE  CountsOwed' /\ CountedBacked' /\ BaseBacked' /\ LoopsEnd'
<1> DEFINE q == req[p]
           t == Target(q)
<1>1. pc[p] \in CountSteps /\ pc[p] # "updateUsage" /\ pc[p] \in PutSteps
      /\ IInv /\ TypeOK /\ refCount' = refCount
  BY DEF ReadChildRef, CountSteps, PutSteps, CountInv, IInv, stores
<1>2. q.realm \in Realm /\ t \in Node /\ q.isNew \in BOOLEAN
  BY <1>1, CountingFacts, PutFacts
<1>3. CASE HasRef(q.realm, t)
  BY <1>1, <1>3, LoopGoto DEF ReadChildRef, ghosts
<1>4. CASE ~HasRef(q.realm, t)
  <2>1. Advance(p, q.isNew)
    BY <1>4 DEF ReadChildRef
  <2>2. \A r \in Realm, c \in Node :
          (HasRef(r, c)' <=> HasRef(r, c)) /\ refCount[r][c] \in Nat
    BY <1>1 DEF TypeOK, HasRef
  <2>3. \A r \in Realm, c \in Node : Bump(q, r, c) = 0
    BY <1>1, <1>4 DEF Bump, CountInv, BaseBacked
  <2>4. /\ OthersStay(p) /\ BaseKept(p)
        /\ \A r \in Realm, n \in Node, c \in Node :
              <<r, n, c>> \in counted' => <<r, n, c>> \in counted \/ HasRef(r, c)
        /\ \A r \in Realm, c \in Node :
              /\ Owed(r, c)' <= Owed(r, c) + Bump(q, r, c)
              /\ Owed(r, c) \in Nat /\ Owed(r, c)' \in Nat
    BY <1>1, <1>2, <2>1, <2>2, AdvanceOwes
  <2>5. ASSUME NEW r \in Realm, NEW c \in Node
        PROVE  refCount'[r][c] + Owed(r, c) >= refCount[r][c] + Owed(r, c)'
    BY <1>1, <2>2, <2>3, <2>4
  <2> QED
    BY <2>2, <2>4, <2>5, CountStep
<1> QED
  BY <1>3, <1>4

\* A created row starts at one, for itself; only a target without a row is created,
\* so that nothing was owed to it.
LEMMA CreateRefCount ==
  ASSUME CountInv, TypeOK', NEW p \in Proc, CreateRef(p)
  PROVE  CountsOwed' /\ CountedBacked' /\ BaseBacked' /\ LoopsEnd'
<1> DEFINE q == req[p]
           k == q.key
<1>1. pc[p] = "incCreate" /\ pc[p] \in CountSteps /\ pc[p] # "updateUsage" /\ pc[p] \in PutSteps
      /\ IInv /\ TypeOK
  BY DEF CreateRef, CountSteps, PutSteps, CountInv, IInv
<1>2. q.realm \in Realm /\ k \in Node /\ q.next = 0 /\ Target(q) = k
  BY <1>1, PutFacts DEF WritingInv, Target
<1>3. CASE HasRef(q.realm, k)
  BY <1>2, <1>3, EndCount DEF CreateRef, ghosts
<1>4. CASE ~HasRef(q.realm, k)
  <2>1. refCount' = [refCount EXCEPT ![q.realm][k] = 1] /\ Advance(p, TRUE)
    BY <1>2, <1>4 DEF CreateRef
  <2>2. \A r \in Realm, c \in Node :
          /\ HasRef(r, c)' <=> HasRef(r, c) \/ (r = q.realm /\ c = k)
          /\ refCount[r][c] \in Nat
          /\ HasRef(r, c) => refCount'[r][c] = refCount[r][c]
          /\ HasRef(r, c)' /\ ~HasRef(r, c) => refCount'[r][c] = 1
    BY <1>1, <1>2, <1>4, <2>1 DEF TypeOK, HasRef
  <2>3. \A r \in Realm, c \in Node : Bump(q, r, c) = 0
    BY <1>2 DEF Bump
  <2>4. /\ OthersStay(p) /\ BaseKept(p)
        /\ \A r \in Realm, n \in Node, c \in Node :
              <<r, n, c>> \in counted' => <<r, n, c>> \in counted \/ HasRef(r, c)
        /\ \A r \in Realm, c \in Node :
              /\ Owed(r, c)' <= Owed(r, c) + Bump(q, r, c)
              /\ Owed(r, c) \in Nat /\ Owed(r, c)' \in Nat
    BY <1>1, <2>1, <2>2, AdvanceOwes
  <2>5. ASSUME NEW r \in Realm, NEW c \in Node, HasRef(r, c)
        PROVE  refCount'[r][c] + Owed(r, c) >= refCount[r][c] + Owed(r, c)'
    BY <2>2, <2>3, <2>4, <2>5
  <2>6. ASSUME NEW r \in Realm, NEW c \in Node, HasRef(r, c)', ~HasRef(r, c)
        PROVE  refCount'[r][c] >= 1 + Owed(r, c)'
    <3>1. Owed(r, c) = 0
      BY <2>6, NoRowNoDebt
    <3> QED
      BY <2>2, <2>3, <2>4, <2>6, <3>1
  <2> QED
    BY <2>2, <2>4, <2>5, <2>6, CountStep
<1> QED
  BY <1>3, <1>4

\* The creator answers when all the names of its children have been counted.
LEMMA UpdateUsageCount ==
  ASSUME CountInv, TypeOK', NEW p \in Proc, UpdateUsage(p)
  PROVE  CountsOwed' /\ CountedBacked' /\ BaseBacked' /\ LoopsEnd'
<1> DEFINE q == req[p]
           k == q.key
           s == q.realm
<1>1. pc[p] = "updateUsage" /\ pc[p] \in CountSteps /\ pc[p] \in PutSteps /\ IInv /\ TypeOK
  BY DEF UpdateUsage, CountSteps, PutSteps, CountInv, IInv
<1>2. /\ k \in Node /\ s \in Realm /\ q.next \in Nat /\ q.base \subseteq Node
      /\ q.next > Len(Children[k])
      /\ \A c \in q.base : HasRef(s, c)
  BY <1>1, PutFacts DEF CountInv, LoopsEnd, BaseBacked
<1>3. End(p) /\ refCount' = refCount /\ counted' = counted \cup {<<s, k, c>> : c \in q.base}
  BY DEF UpdateUsage, Answer
<1>4. OthersStay(p) /\ pc'[p] = "idle"
  BY <1>1, <1>3, EndIsSafe DEF OthersStay, Moves, TypeOK
<1>5. BaseKept(p)
  BY <1>4 DEF BaseKept, PutSteps
<1>6. \A r \in Realm, c \in Node :
        (HasRef(r, c)' <=> HasRef(r, c)) /\ refCount[r][c] \in Nat
  BY <1>1, <1>3 DEF TypeOK, HasRef
<1>7. ASSUME NEW r \in Realm, NEW c \in Node
      PROVE  refCount'[r][c] + Owed(r, c) >= refCount[r][c] + Owed(r, c)'
  <2>1. Progress(pc'[p], req'[p], r, c) = 0
    BY <1>4 DEF Progress, CountSteps
  <2>2. /\ Sum(Underway(r, c), Proc) \in Nat
        /\ Sum(Underway(r, c)', Proc) \in Nat
        /\ Progress(pc[p], q, r, c) \in Nat
        /\ Sum(Underway(r, c)', Proc) + Progress(pc[p], q, r, c) = Sum(Underway(r, c), Proc)
    BY <1>1, <1>4, <2>1, UnderwayStep
  <2>3. NamesOf(c)' = NamesOf(c) /\ Parents(r, c) \in SUBSET Node
    BY DEF NamesOf, Occurrences, Parents
  <2>4. Sum(NamesOf(c), Parents(r, c)) \in Nat
    BY <2>3, NamesFacts
  <2>5. CASE r = s /\ c \in q.base
    <3>1. Parents(r, c)' = Parents(r, c) \cup {k}
      BY <1>2, <1>3, <2>5 DEF Parents
    <3>2. Sum(NamesOf(c), Parents(r, c)') <= Sum(NamesOf(c), Parents(r, c)) + Occurrences(k, c)
          /\ Occurrences(k, c) \in Nat
      BY <1>2, <2>3, <3>1, NamesFacts
    <3>3. Parents(r, c)' \in SUBSET Node
      BY <1>2, <2>3, <3>1
    <3>4. Sum(NamesOf(c), Parents(r, c)') \in Nat
      BY <3>3, NamesFacts
    <3>5. Occurrences(k, c) = Progress(pc[p], q, r, c)
      BY <1>1, <1>2, <2>5, BeforeFacts DEF Progress
    <3> QED
      BY <1>3, <1>6, <2>2, <2>3, <2>4, <3>2, <3>4, <3>5 DEF Owed
  <2>6. CASE ~(r = s /\ c \in q.base)
    <3>1. Parents(r, c)' = Parents(r, c)
      BY <1>2, <1>3, <2>6 DEF Parents
    <3> QED
      BY <1>3, <1>6, <2>2, <2>3, <2>4, <3>1 DEF Owed
  <2> QED
    BY <2>5, <2>6
<1>8. \A r \in Realm, n \in Node, c \in Node :
        <<r, n, c>> \in counted' => <<r, n, c>> \in counted \/ HasRef(r, c)
  BY <1>2, <1>3
<1> QED
  BY <1>4, <1>5, <1>6, <1>7, <1>8, CountStep

-----------------------------------------------------------------------------

\* Nothing stored, nothing owed.
LEMMA InitCount == Init => CountInv
<1> SUFFICES ASSUME Init PROVE CountInv
  OBVIOUS
<1>1. IInv
  BY InitIInv
<1>2. CountsOwed /\ CountedBacked
  BY DEF Init, CountsOwed, CountedBacked, HasRef
<1>3. BaseBacked /\ LoopsEnd
  BY DEF Init, BaseBacked, LoopsEnd, PutSteps
<1> QED
  BY <1>1, <1>2, <1>3 DEF CountInv

\* Every step keeps the counts covered.
LEMMA StepCount == CountInv /\ [Next]_vars => CountInv'
<1> SUFFICES ASSUME CountInv, [Next]_vars PROVE CountInv'
  OBVIOUS
<1>1. IInv'
  BY StepInv DEF CountInv
<1>2. TypeOK'
  BY <1>1 DEF IInv
<1>3. CASE UNCHANGED vars
  <2>1. UNCHANGED <<refCount, counted, pc, req>>
    BY <1>3 DEF vars, stores, ghosts
  <2>2. CountsOwed' /\ CountedBacked'
    BY <2>1 DEF CountInv, CountsOwed, CountedBacked, HasRef, Owed, Parents, Underway, NamesOf,
       Occurrences
  <2>3. BaseBacked' /\ LoopsEnd'
    BY <2>1 DEF CountInv, BaseBacked, LoopsEnd, HasRef
  <2> QED
    BY <1>1, <2>2, <2>3 DEF CountInv
<1>4. ASSUME NEW p \in Proc, Receive(p) \/ PutStep(p) \/ ReadStep(p) \/ Die(p)
      PROVE  CountsOwed' /\ CountedBacked' /\ BaseBacked' /\ LoopsEnd'
  <2>1. CASE Receive(p)
    BY <1>2, <2>1, ReceiveCount
  <2>2. CASE ReadStep(p)
    BY <1>2, <2>2, ReadStepCount
  <2>3. CASE Die(p)
    BY <1>2, <2>3, EndCount DEF Die, stores
  <2>4. CASE \/ HasChild(p) \/ FinishValidation(p) \/ ReadRef(p) \/ CheckQuota(p)
             \/ PutBlob(p) \/ AddOwnership(p)
    BY <1>2, <2>4, BeforeCounting
  <2>5. CASE IncrementExisting(p)
    BY <1>2, <2>5, IncrementExistingCount
  <2>6. CASE CreateRef(p)
    BY <1>2, <2>6, CreateRefCount
  <2>7. CASE ReadChildRef(p)
    BY <1>2, <2>7, ReadChildRefCount
  <2>8. CASE UpdateUsage(p)
    BY <1>2, <2>8, UpdateUsageCount
  <2> QED
    BY <1>4, <2>1, <2>2, <2>3, <2>4, <2>5, <2>6, <2>7, <2>8 DEF PutStep
<1> QED
  BY <1>1, <1>3, <1>4 DEF Next, CountInv

\* Covered counts cover the answered parents.
LEMMA CountsCover == CountInv => ParentsCounted
<1> SUFFICES ASSUME CountInv, NEW r \in Realm, NEW c \in Node, HasRef(r, c)
             PROVE  refCount[r][c] >= 1 + Sum(NamesOf(c), Parents(r, c))
  <2>1. \A r \in Realm, c \in Node : Parents(r, c) \in SUBSET Node
    BY DEF Parents
  <2> QED
    BY <2>1, NamesTotal DEF ParentsCounted, Parents
<1>1. TypeOK
  BY DEF CountInv, IInv
<1>2. refCount[r][c] >= 1 + Owed(r, c) /\ refCount[r][c] \in Nat
  BY <1>1 DEF CountInv, CountsOwed, TypeOK
<1>3. Sum(NamesOf(c), Parents(r, c)) \in Nat
  <2>1. Parents(r, c) \in SUBSET Node
    BY DEF Parents
  <2> QED
    BY <2>1, NamesFacts
<1>4. Sum(Underway(r, c), Proc) \in Nat
  <2>1. \A p \in Proc : Underway(r, c)[p] \in Nat
    BY <1>1, ProgressType DEF TypeOK, CountSteps, PutSteps, Underway
  <2>2. IsFiniteSet(Proc)
    BY StoreAssumption
  <2> QED
    BY <2>1, <2>2, SumIsNat
<1> QED
  BY <1>2, <1>3, <1>4 DEF Owed

\* The reference count of a row is at least its creation and every name that the
\* parents whose upload was answered have for its node, however uploads of the same
\* parents and children interleave.
THEOREM ParentsAreCounted == Spec => []ParentsCounted
BY InitCount, StepCount, CountsCover, PTL DEF Spec
=============================================================================
