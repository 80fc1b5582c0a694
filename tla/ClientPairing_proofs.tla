------------------------ MODULE ClientPairing_proofs ------------------------
(***************************************************************************)
(* Proofs about ClientPairing, for any clients, codes, users and slots.    *)
(***************************************************************************)
EXTENDS ClientPairing, TLAPS

-----------------------------------------------------------------------------
(* The inductive invariant.  A code is spent by a completion that read it    *)
(* some steps before, so what it adds is where codes come from; and what the *)
(* requests about to delete a key know of it.                                *)

\* A code is displayed by one client, and what is pending or about to be
\* authorised for a client was displayed by that client.
CodesDisplayed ==
  /\ \A c, d \in Client : c # d => displayed[c] \cap displayed[d] = {}
  /\ \A c \in Client : pending[c] # NoRow => pending[c].code \in displayed[c]
  /\ \A p \in Proc : pc[p] \in CompleteSteps => req[p].code \in displayed[req[p].client]

\* A request about to delete a live key was in flight when the key was stored,
\* or is a revocation of the key's user.
Deleters(p) ==
  LET c == req[p].client IN
  /\ pc[p] \in {"getDropKey", "dropKey"} /\ Live(keys[c]) => p \in overlap[c]
  /\ pc[p] = "revokeKey" /\ Live(keys[c]) =>
       p \in overlap[c] \/ keys[c].user = req[p].user

DeletersKnow == \A p \in Proc : Deleters(p)

IInv == TypeOK /\ CodesDisplayed /\ KeysWereConfirmed /\ CodesSpent /\ DeletersKnow

\* The part of TypeOK about one request.
RequestOK(p) ==
  /\ pc[p] \in Step
  /\ req[p] \in ClientRequest \cup CompleteRequest \cup RevokeRequest \cup {NoRequest}
  /\ pc[p] = "idle" => req[p] = NoRequest
  /\ pc[p] \in GetSteps => req[p] \in ClientRequest
  /\ pc[p] \in CompleteSteps => req[p] \in CompleteRequest
  /\ pc[p] \in RevokeSteps => req[p] \in RevokeRequest
  /\ pc[p] = "dropPending" => req[p].client \in Client

\* The rest of it.
TablesOK ==
  /\ pending \in [Client -> PendingRow \cup {NoRow}]
  /\ keys \in [Client -> KeyRow \cup {NoRow}]
  /\ drawn \subseteq Code
  /\ displayed \in [Client -> SUBSET drawn]
  /\ spent \subseteq drawn
  /\ overlap \in [Client -> SUBSET Proc]

\* p moves and the others stay.
Moves(p) ==
  /\ pc' = [pc EXCEPT ![p] = pc'[p]]
  /\ req' = [req EXCEPT ![p] = req'[p]]

-----------------------------------------------------------------------------
(* Requests. *)

\* A request in flight is about a client.
LEMMA RequestClient ==
  ASSUME TypeOK, NEW p \in Proc, pc[p] # "idle"
  PROVE  req[p].client \in Client
BY DEF TypeOK, Step, GetSteps, CompleteSteps, RevokeSteps, ClientRequest, CompleteRequest,
       RevokeRequest

\* Type correctness after a step of one request.
LEMMA MoveType ==
  ASSUME TypeOK, NEW p \in Proc, Moves(p), RequestOK(p)', TablesOK'
  PROVE  TypeOK'
<1>1. \A o \in Proc \ {p} : pc'[o] = pc[o] /\ req'[o] = req[o]
  BY DEF TypeOK, Moves
<1>2. \A o \in Proc \ {p} : RequestOK(o)
  BY DEF TypeOK, RequestOK
<1>3. \A o \in Proc : RequestOK(o)'
  BY <1>1, <1>2 DEF RequestOK
<1>4. pc' \in [Proc -> Step]
  BY <1>3 DEF TypeOK, Moves, RequestOK
<1>5. req' \in [Proc -> ClientRequest \cup CompleteRequest \cup RevokeRequest \cup {NoRequest}]
  BY <1>3 DEF TypeOK, Moves, RequestOK
<1> QED
  BY <1>3, <1>4, <1>5 DEF TypeOK, TablesOK, RequestOK

\* Where End, Begin and Goto leave the request that takes them.
LEMMA Ends ==
  ASSUME TypeOK, NEW p \in Proc, End(p)
  PROVE  /\ Moves(p) /\ pc'[p] = "idle" /\ req'[p] = NoRequest /\ RequestOK(p)'
         /\ \A c \in Client : overlap'[c] = overlap[c] \ {p}
         /\ overlap' \in [Client -> SUBSET Proc]
BY DEF TypeOK, End, Goto, Moves, RequestOK, Step, GetSteps, CompleteSteps, RevokeSteps

LEMMA Begins ==
  ASSUME TypeOK, NEW p \in Proc, NEW l, NEW q, Begin(p, l, q)
  PROVE  Moves(p) /\ pc'[p] = l /\ req'[p] = q /\ overlap' = overlap
BY DEF TypeOK, Begin, Goto, Moves

LEMMA Goes ==
  ASSUME TypeOK, NEW p \in Proc, NEW l, Goto(p, l), UNCHANGED req
  PROVE  Moves(p) /\ pc'[p] = l /\ req'[p] = req[p]
BY DEF TypeOK, Goto, Moves

-----------------------------------------------------------------------------
(* What a step of one request leaves of the invariant. *)

\* Codes, when p may have finished a check or a completion.
LEMMA CodesKept ==
  ASSUME IInv, NEW p \in Proc, Moves(p), TypeOK',
         UNCHANGED displayed,
         \A c \in Client : pending'[c] \in {pending[c], NoRow},
         pc'[p] \in CompleteSteps => req'[p].code \in displayed[req'[p].client]
  PROVE  CodesDisplayed'
<1>1. \A o \in Proc \ {p} : pc'[o] = pc[o] /\ req'[o] = req[o]
  BY DEF IInv, TypeOK, Moves
<1>2. \A c, d \in Client : c # d => displayed'[c] \cap displayed'[d] = {}
  BY DEF IInv, CodesDisplayed
<1>3. \A c \in Client : pending'[c] # NoRow => pending'[c].code \in displayed'[c]
  BY DEF IInv, CodesDisplayed
<1>4. \A o \in Proc : pc'[o] \in CompleteSteps => req'[o].code \in displayed'[req'[o].client]
  BY <1>1 DEF IInv, CodesDisplayed
<1> QED
  BY <1>2, <1>3, <1>4 DEF CodesDisplayed

\* Requests about to delete a key, when a step of p stores none.
LEMMA DeletersKept ==
  ASSUME IInv, NEW p \in Proc, Moves(p),
         \A c \in Client : keys'[c] \in {keys[c], NoRow},
         \A c \in Client : overlap'[c] = overlap[c] \/ overlap'[c] = overlap[c] \ {p},
         Deleters(p)'
  PROVE  DeletersKnow'
<1> SUFFICES ASSUME NEW o \in Proc \ {p} PROVE Deleters(o)'
  BY DEF DeletersKnow
<1>1. pc'[o] = pc[o] /\ req'[o] = req[o]
  BY DEF IInv, TypeOK, Moves
<1>2. CASE pc[o] = "idle"
  BY <1>1, <1>2 DEF Deleters
<1>3. CASE pc[o] # "idle"
  <2>1. req[o].client \in Client
    BY <1>3, RequestClient DEF IInv
  <2>2. Live(keys'[req[o].client]) => keys'[req[o].client] = keys[req[o].client]
    BY <2>1 DEF Live
  <2>3. Deleters(o)
    BY DEF IInv, DeletersKnow
  <2> QED
    BY <1>1, <2>1, <2>2, <2>3 DEF Deleters
<1> QED
  BY <1>2, <1>3

\* A step of p that writes no row.
LEMMA QuietStep ==
  ASSUME IInv, NEW p \in Proc, Moves(p), RequestOK(p)',
         UNCHANGED <<tables, displayed, spent>>,
         overlap' \in [Client -> SUBSET Proc],
         \A c \in Client : overlap'[c] = overlap[c] \/ overlap'[c] = overlap[c] \ {p},
         pc'[p] \in CompleteSteps => req'[p].code \in displayed[req'[p].client],
         Deleters(p)'
  PROVE  IInv'
<1>1. TypeOK'
  BY MoveType DEF IInv, TypeOK, TablesOK, tables
<1>2. CodesDisplayed'
  BY <1>1, CodesKept DEF tables
<1>3. DeletersKnow'
  BY DeletersKept DEF tables
<1>4. KeysWereConfirmed' /\ CodesSpent'
  BY DEF IInv, KeysWereConfirmed, CodesSpent, tables
<1> QED
  BY <1>1, <1>2, <1>3, <1>4 DEF IInv

\* A request that ends, its last command done or not.
LEMMA EndStep ==
  ASSUME IInv, NEW p \in Proc, End(p),
         UNCHANGED <<tables, displayed, spent>>
  PROVE  IInv'
<1>1. /\ Moves(p) /\ pc'[p] = "idle" /\ RequestOK(p)'
      /\ overlap' \in [Client -> SUBSET Proc]
      /\ \A c \in Client : overlap'[c] = overlap[c] \ {p}
  BY Ends DEF IInv
<1>2. Deleters(p)'
  BY <1>1 DEF Deleters
<1> QED
  BY <1>1, <1>2, QuietStep DEF CompleteSteps

-----------------------------------------------------------------------------
(* Steps outside of requests, and the first await of a request. *)

LEMMA InitClientStep ==
  ASSUME IInv, NEW c \in Client, NEW k \in Code, InitClient(c, k)
  PROVE  IInv'
<1> USE DEF InitClient
<1>1. TypeOK'
  BY DEF IInv, TypeOK, PendingRow
<1>2. CodesDisplayed'
  <2>1. \A d \in Client : displayed'[d] = IF d = c THEN displayed[d] \cup {k} ELSE displayed[d]
    BY DEF IInv, TypeOK
  <2>2. \A d \in Client : k \notin displayed[d]
    BY DEF IInv, TypeOK
  <2>3. \A d \in Client : pending'[d] = IF d = c THEN [code |-> k, expired |-> FALSE] ELSE pending[d]
    BY DEF IInv, TypeOK
  <2>4. \A p \in Proc : pc[p] \in CompleteSteps => req[p].client \in Client
    BY RequestClient DEF IInv, CompleteSteps
  <2> QED
    BY <2>1, <2>2, <2>3, <2>4 DEF IInv, CodesDisplayed
<1>3. KeysWereConfirmed'
  BY DEF IInv, TypeOK, KeysWereConfirmed
<1>4. CodesSpent'
  BY DEF IInv, TypeOK, CodesSpent
<1>5. DeletersKnow'
  BY DEF IInv, DeletersKnow, Deleters
<1> QED
  BY <1>1, <1>2, <1>3, <1>4, <1>5 DEF IInv

LEMMA ExpireStep ==
  ASSUME IInv, NEW c \in Client, Expire(c)
  PROVE  IInv'
<1>1. \A d \in Client :
        /\ pending'[d] # NoRow => pending[d] # NoRow /\ pending'[d].code = pending[d].code
        /\ keys'[d] # NoRow => keys[d] # NoRow /\ keys'[d].code = keys[d].code
        /\ Live(keys'[d]) => keys'[d] = keys[d]
        /\ pending'[d] \in PendingRow \cup {NoRow} /\ keys'[d] \in KeyRow \cup {NoRow}
  <2> SUFFICES ASSUME NEW d \in Client
               PROVE  /\ pending'[d] # NoRow => pending[d] # NoRow /\ pending'[d].code = pending[d].code
                      /\ keys'[d] # NoRow => keys[d] # NoRow /\ keys'[d].code = keys[d].code
                      /\ Live(keys'[d]) => keys'[d] = keys[d]
                      /\ pending'[d] \in PendingRow \cup {NoRow} /\ keys'[d] \in KeyRow \cup {NoRow}
    OBVIOUS
  <2>1. pending[d] \in PendingRow \cup {NoRow} /\ keys[d] \in KeyRow \cup {NoRow}
    BY DEF IInv, TypeOK
  <2>2. CASE Live(pending[c]) /\ pending' = [pending EXCEPT ![c].expired = TRUE] /\ UNCHANGED keys
    BY <2>1, <2>2 DEF IInv, TypeOK, Live, PendingRow
  <2>3. CASE Live(keys[c]) /\ keys' = [keys EXCEPT ![c].expired = TRUE] /\ UNCHANGED pending
    BY <2>1, <2>3 DEF IInv, TypeOK, Live, KeyRow
  <2> QED
    BY <2>2, <2>3 DEF Expire
<1>2. TypeOK'
  BY <1>1 DEF Expire, IInv, TypeOK, ghosts
<1>3. CodesDisplayed'
  BY <1>1 DEF Expire, IInv, CodesDisplayed, ghosts
<1>4. KeysWereConfirmed' /\ CodesSpent'
  BY <1>1 DEF Expire, IInv, KeysWereConfirmed, CodesSpent, ghosts
<1>5. DeletersKnow'
  <2> SUFFICES ASSUME NEW p \in Proc PROVE Deleters(p)'
    BY DEF DeletersKnow
  <2>1. Deleters(p)
    BY DEF IInv, DeletersKnow
  <2>2. pc[p] # "idle" => req[p].client \in Client
    BY RequestClient DEF IInv
  <2> QED
    BY <1>1, <2>1, <2>2 DEF Deleters, Expire, ghosts
<1> QED
  BY <1>2, <1>3, <1>4, <1>5 DEF IInv

-----------------------------------------------------------------------------
(* The first await of a request. *)

LEMMA GetKeyStep ==
  ASSUME IInv, NEW p \in Proc, NEW c \in Client, GetKey(p, c)
  PROVE  IInv'
<1> DEFINE l == IF Stale(keys[c]) THEN "getDropKey" ELSE "getPending"
<1>1. Moves(p) /\ pc'[p] = l /\ req'[p] = [client |-> c] /\ overlap' = overlap
  BY Begins DEF GetKey, IInv
<1>2. RequestOK(p)'
  BY <1>1 DEF RequestOK, Step, GetSteps, CompleteSteps, RevokeSteps, ClientRequest
<1>3. Deleters(p)'
  BY <1>1 DEF Deleters, GetKey, tables
<1>4. UNCHANGED <<tables, displayed, spent>> /\ overlap' \in [Client -> SUBSET Proc]
  BY <1>1 DEF GetKey, IInv, TypeOK
<1> QED
  BY <1>1, <1>2, <1>3, <1>4, QuietStep DEF CompleteSteps

LEMMA CheckCodeStep ==
  ASSUME IInv, NEW p \in Proc, NEW c \in Client, NEW u \in User, NEW k \in Code,
         CheckCode(p, c, u, k)
  PROVE  IInv'
<1> DEFINE q == [client |-> c, user |-> u, code |-> k]
<1>1. PICK l \in {"dropPending", "storeKey"} :
        /\ Moves(p) /\ pc'[p] = l /\ req'[p] = q /\ overlap' = overlap
        /\ l = "storeKey" => Live(pending[c]) /\ pending[c].code = k
  BY Begins DEF CheckCode, IInv
<1>2. RequestOK(p)'
  BY <1>1 DEF RequestOK, Step, GetSteps, CompleteSteps, RevokeSteps, CompleteRequest
<1>3. pc'[p] \in CompleteSteps => req'[p].code \in displayed[req'[p].client]
  BY <1>1 DEF IInv, CodesDisplayed, CompleteSteps, Live
<1>4. UNCHANGED <<tables, displayed, spent>> /\ overlap' \in [Client -> SUBSET Proc]
  BY <1>1 DEF CheckCode, IInv, TypeOK
<1>5. Deleters(p)'
  BY <1>1 DEF Deleters
<1> QED
  BY <1>1, <1>2, <1>3, <1>4, <1>5, QuietStep

LEMMA FindKeyStep ==
  ASSUME IInv, NEW p \in Proc, NEW c \in Client, NEW u \in User, FindKey(p, c, u)
  PROVE  IInv'
<1> DEFINE q == [client |-> c, user |-> u]
<1>1. PICK l \in {"dropKey", "revokeKey"} :
        /\ Moves(p) /\ pc'[p] = l /\ req'[p] = q /\ overlap' = overlap
        /\ l = "dropKey" => Stale(keys[c])
        /\ l = "revokeKey" => keys[c].user = u
  BY Begins DEF FindKey, IInv
<1>2. RequestOK(p)'
  BY <1>1 DEF RequestOK, Step, GetSteps, CompleteSteps, RevokeSteps, RevokeRequest
<1>3. UNCHANGED <<tables, displayed, spent>> /\ overlap' \in [Client -> SUBSET Proc]
  BY <1>1 DEF FindKey, IInv, TypeOK
<1>4. Deleters(p)'
  BY <1>1, <1>3 DEF Deleters, Live, Stale, tables
<1> QED
  BY <1>1, <1>2, <1>3, <1>4, QuietStep DEF CompleteSteps

-----------------------------------------------------------------------------
(* The further awaits. *)

LEMMA GetPendingStep ==
  ASSUME IInv, NEW p \in Proc, GetPending(p)
  PROVE  IInv'
<1>1. CASE Stale(pending[req[p].client])
  <2>1. Goto(p, "dropPending") /\ UNCHANGED <<req, overlap, tables, displayed, spent>>
    BY <1>1 DEF GetPending
  <2>2. Moves(p) /\ pc'[p] = "dropPending" /\ req'[p] = req[p]
    BY <2>1, Goes DEF IInv
  <2>3. RequestOK(p)'
    <3>1. req[p].client \in Client
      BY RequestClient DEF GetPending, IInv
    <3> QED
      BY <2>2, <3>1 DEF RequestOK, Step, GetSteps, CompleteSteps, RevokeSteps, IInv, TypeOK
  <2>4. Deleters(p)' /\ pc'[p] \notin CompleteSteps
    BY <2>2 DEF Deleters, CompleteSteps
  <2>5. overlap' \in [Client -> SUBSET Proc] /\ overlap' = overlap
    BY <2>1 DEF IInv, TypeOK
  <2> QED
    BY <2>1, <2>2, <2>3, <2>4, <2>5, QuietStep
<1>2. CASE ~Stale(pending[req[p].client])
  BY <1>2, EndStep DEF GetPending
<1> QED
  BY <1>1, <1>2

LEMMA DropPendingStep ==
  ASSUME IInv, NEW p \in Proc,
         End(p), pending' = [pending EXCEPT ![req[p].client] = NoRow],
         UNCHANGED <<keys, drawn, displayed>>,
         spent' \in {spent, spent \cup {req[p].code}},
         spent' # spent => pc[p] = "deletePending",
         pc[p] # "idle"
  PROVE  IInv'
<1>1. /\ Moves(p) /\ pc'[p] = "idle" /\ RequestOK(p)'
      /\ overlap' \in [Client -> SUBSET Proc]
      /\ \A c \in Client : overlap'[c] = overlap[c] \ {p}
  BY Ends DEF IInv
<1>2. req[p].client \in Client
  BY RequestClient DEF IInv
<1>3. \A c \in Client : pending'[c] = IF c = req[p].client THEN NoRow ELSE pending[c]
  BY DEF IInv, TypeOK
<1>4. pc[p] = "deletePending" => req[p].code \in displayed[req[p].client]
  BY DEF IInv, CodesDisplayed, CompleteSteps
<1>5. TypeOK'
  <2>1. TablesOK'
    BY <1>1, <1>2, <1>4 DEF IInv, TypeOK, TablesOK
  <2> QED
    BY <1>1, <2>1, MoveType DEF IInv
<1>6. CodesDisplayed'
  BY <1>1, <1>3, <1>5, CodesKept DEF CompleteSteps
<1>7. CodesSpent'
  BY <1>2, <1>3, <1>4 DEF IInv, CodesSpent, CodesDisplayed
<1>8. KeysWereConfirmed'
  BY DEF IInv, KeysWereConfirmed
<1>9. DeletersKnow'
  <2>1. Deleters(p)'
    BY <1>1 DEF Deleters
  <2> QED
    BY <1>1, <2>1, DeletersKept
<1> QED
  BY <1>5, <1>6, <1>7, <1>8, <1>9 DEF IInv

\* A step that deletes the key of its client.
LEMMA NoKeyStep ==
  ASSUME IInv, NEW p \in Proc, Moves(p), RequestOK(p)', pc[p] # "idle",
         keys' = [keys EXCEPT ![req[p].client] = NoRow],
         UNCHANGED <<pending, drawn, displayed, spent>>,
         overlap' \in [Client -> SUBSET Proc],
         \A c \in Client : overlap'[c] = overlap[c] \/ overlap'[c] = overlap[c] \ {p},
         pc'[p] \in {"idle", "getPending"}
  PROVE  IInv'
<1>1. req[p].client \in Client
  BY RequestClient DEF IInv
<1>2. \A c \in Client : keys'[c] = IF c = req[p].client THEN NoRow ELSE keys[c]
  BY DEF IInv, TypeOK
<1>3. TypeOK'
  <2>1. TablesOK'
    BY <1>1 DEF IInv, TypeOK, TablesOK
  <2> QED
    BY <2>1, MoveType DEF IInv
<1>4. CodesDisplayed'
  BY <1>3, CodesKept DEF CompleteSteps
<1>5. CodesSpent' /\ KeysWereConfirmed'
  BY <1>2 DEF IInv, CodesSpent, KeysWereConfirmed
<1>6. DeletersKnow'
  BY <1>2, DeletersKept DEF Deleters
<1> QED
  BY <1>3, <1>4, <1>5, <1>6 DEF IInv

LEMMA DropKeyStep ==
  ASSUME IInv, NEW p \in Proc, DropKey(p)
  PROVE  IInv'
<1>1. CASE pc[p] = "getDropKey"
  <2>1. Goto(p, "getPending") /\ UNCHANGED <<req, overlap, pending, drawn, displayed, spent>>
    BY <1>1 DEF DropKey
  <2>2. Moves(p) /\ pc'[p] = "getPending" /\ req'[p] = req[p]
    BY <2>1, Goes DEF IInv
  <2>3. RequestOK(p)'
    BY <1>1, <2>2 DEF RequestOK, Step, GetSteps, CompleteSteps, RevokeSteps, IInv, TypeOK
  <2>4. overlap' \in [Client -> SUBSET Proc] /\ overlap' = overlap
    BY <2>1 DEF IInv, TypeOK
  <2> QED
    BY <1>1, <2>1, <2>2, <2>3, <2>4, NoKeyStep DEF DropKey
<1>2. CASE pc[p] = "dropKey"
  <2>1. End(p) /\ UNCHANGED <<pending, drawn, displayed, spent>>
    BY <1>2 DEF DropKey
  <2> QED
    BY <1>2, <2>1, Ends, NoKeyStep DEF DropKey, IInv
<1> QED
  BY <1>1, <1>2 DEF DropKey

LEMMA RevokeKeyStep ==
  ASSUME IInv, NEW p \in Proc, RevokeKey(p)
  PROVE  IInv'
<1>1. /\ Moves(p) /\ pc'[p] = "idle" /\ RequestOK(p)'
      /\ overlap' \in [Client -> SUBSET Proc]
      /\ \A c \in Client : overlap'[c] = overlap[c] \ {p}
  BY Ends DEF IInv, RevokeKey
<1> QED
  BY <1>1, NoKeyStep DEF RevokeKey

\* The requests in flight when a key is stored are allowed to delete it.
LEMMA StoreKeyStep ==
  ASSUME IInv, NEW p \in Proc, StoreKey(p)
  PROVE  IInv'
<1> DEFINE c == req[p].client
           new == [user |-> req[p].user, code |-> req[p].code, expired |-> FALSE]
<1>1. Goto(p, "deletePending") /\ UNCHANGED <<pending, drawn, req, displayed, spent>>
  BY DEF StoreKey
<1>2. Moves(p) /\ pc'[p] = "deletePending" /\ req'[p] = req[p] /\ pc[p] = "storeKey"
  BY <1>1, Goes DEF StoreKey, IInv
<1>3. req[p] \in CompleteRequest
  BY <1>2 DEF IInv, TypeOK, CompleteSteps
<1>4. c \in Client /\ new \in KeyRow
  BY <1>3 DEF CompleteRequest, KeyRow
<1>5. \A d \in Client : keys'[d] = IF d = c THEN new ELSE keys[d]
  BY <1>4 DEF StoreKey, IInv, TypeOK
<1>6. \A d \in Client :
        overlap'[d] = IF d = c THEN {o \in Proc \ {p} : pc[o] # "idle"} ELSE overlap[d]
  BY <1>4 DEF StoreKey, IInv, TypeOK
<1>7. TypeOK'
  <2>1. RequestOK(p)'
    BY <1>2, <1>3 DEF RequestOK, Step, GetSteps, CompleteSteps, RevokeSteps
  <2>2. keys' \in [Client -> KeyRow \cup {NoRow}] /\ overlap' \in [Client -> SUBSET Proc]
    BY <1>4 DEF StoreKey, IInv, TypeOK
  <2>3. TablesOK'
    BY <1>1, <2>2 DEF IInv, TypeOK, TablesOK
  <2> QED
    BY <1>2, <2>1, <2>3, MoveType DEF IInv
<1>8. req[p].code \in displayed[c]
  BY <1>2 DEF IInv, CodesDisplayed, CompleteSteps
<1>9. CodesDisplayed'
  BY <1>1, <1>2, <1>7, <1>8, CodesKept
<1>10. KeysWereConfirmed' /\ CodesSpent'
  BY <1>1, <1>5, <1>8 DEF IInv, KeysWereConfirmed, CodesSpent
<1>11. DeletersKnow'
  <2> SUFFICES ASSUME NEW o \in Proc PROVE Deleters(o)'
    BY DEF DeletersKnow
  <2>1. CASE o = p
    BY <1>2, <2>1 DEF Deleters
  <2>2. CASE o # p
    <3>1. pc'[o] = pc[o] /\ req'[o] = req[o]
      BY <1>2, <2>2 DEF IInv, TypeOK, Moves
    <3>2. Deleters(o)
      BY DEF IInv, DeletersKnow
    <3>3. CASE pc[o] = "idle"
      BY <3>1, <3>3 DEF Deleters
    <3>4. CASE pc[o] # "idle"
      <4>1. req[o].client \in Client
        BY <3>4, RequestClient DEF IInv
      <4> QED
        BY <1>5, <1>6, <2>2, <3>1, <3>2, <3>4, <4>1 DEF Deleters
    <3> QED
      BY <3>3, <3>4
  <2> QED
    BY <2>1, <2>2
<1> QED
  BY <1>7, <1>9, <1>10, <1>11 DEF IInv

-----------------------------------------------------------------------------
(* The invariant holds. *)

LEMMA InitInv == Init => IInv
<1> SUFFICES ASSUME Init PROVE IInv
  OBVIOUS
<1>1. TypeOK
  BY DEF Init, TypeOK, Step, GetSteps, CompleteSteps, RevokeSteps
<1>2. CodesDisplayed
  BY DEF Init, CodesDisplayed, CompleteSteps
<1>3. KeysWereConfirmed /\ CodesSpent
  BY DEF Init, KeysWereConfirmed, CodesSpent
<1>4. DeletersKnow
  BY DEF Init, DeletersKnow, Deleters
<1> QED
  BY <1>1, <1>2, <1>3, <1>4 DEF IInv

LEMMA NextInv == IInv /\ [Next]_vars => IInv'
<1> SUFFICES ASSUME IInv, [Next]_vars PROVE IInv'
  OBVIOUS
<1>1. ASSUME NEW c \in Client, NEW k \in Code, InitClient(c, k) PROVE IInv'
  BY <1>1, InitClientStep
<1>2. ASSUME NEW c \in Client, Expire(c) PROVE IInv'
  BY <1>2, ExpireStep
<1>3. ASSUME NEW p \in Proc, Receive(p) PROVE IInv'
  BY <1>3, GetKeyStep, CheckCodeStep, FindKeyStep DEF Receive
<1>4. ASSUME NEW p \in Proc, Handle(p) PROVE IInv'
  <2>1. CASE GetPending(p)
    BY <2>1, GetPendingStep
  <2>2. CASE DropPending(p)
    <3>1. /\ pc[p] # "idle" /\ End(p) /\ UNCHANGED <<keys, drawn, displayed>>
          /\ pending' = [pending EXCEPT ![req[p].client] = NoRow] /\ spent' = spent
      BY <2>2 DEF DropPending
    <3> QED
      BY <3>1, DropPendingStep
  <2>3. CASE DropKey(p)
    BY <2>3, DropKeyStep
  <2>4. CASE StoreKey(p)
    BY <2>4, StoreKeyStep
  <2>5. CASE DeletePending(p)
    BY <2>5, DropPendingStep DEF DeletePending
  <2>6. CASE RevokeKey(p)
    BY <2>6, RevokeKeyStep
  <2> QED
    BY <1>4, <2>1, <2>2, <2>3, <2>4, <2>5, <2>6 DEF Handle
<1>5. ASSUME NEW p \in Proc, Die(p) PROVE IInv'
  BY <1>5, EndStep DEF Die
<1>6. CASE UNCHANGED vars
  <2>1. TypeOK'
    BY <1>6 DEF IInv, TypeOK, vars, tables, ghosts
  <2>2. CodesDisplayed' /\ KeysWereConfirmed' /\ CodesSpent'
    BY <1>6 DEF IInv, CodesDisplayed, KeysWereConfirmed, CodesSpent, vars, tables, ghosts
  <2>3. DeletersKnow'
    BY <1>6 DEF IInv, DeletersKnow, Deleters, vars, tables, ghosts
  <2> QED
    BY <2>1, <2>2, <2>3 DEF IInv
<1> QED
  BY <1>1, <1>2, <1>3, <1>4, <1>5, <1>6 DEF Next

\* Where codes come from, and what requests about to delete a key know, in every
\* reachable state.
THEOREM Inductive == Spec => []IInv
BY InitInv, NextInv, PTL DEF Spec

\* The tables and the requests in flight are well typed.
THEOREM TypeCorrect == Spec => []TypeOK
<1>1. IInv => TypeOK
  BY DEF IInv
<1> QED
  BY <1>1, Inductive, PTL

\* A client's key was authorised with a code that the client was given.
THEOREM Confirmed == Spec => []KeysWereConfirmed
<1>1. IInv => KeysWereConfirmed
  BY DEF IInv
<1> QED
  BY <1>1, Inductive, PTL

\* A code whose completion was answered is never pending again.
THEOREM SpentOnce == Spec => []CodesSpent
<1>1. IInv => CodesSpent
  BY DEF IInv
<1> QED
  BY <1>1, Inductive, PTL

-----------------------------------------------------------------------------
(* LiveKeysStay. *)

\* Who takes a live key away in one step.
LEMMA KeyTaken ==
  ASSUME IInv, [Next]_vars, NEW c \in Client, Live(keys[c]), keys'[c] = NoRow
  PROVE  \E p \in Proc :
           /\ pc'[p] # pc[p] /\ req[p].client = c
           /\ \/ p \in overlap[c]
              \/ pc[p] = "revokeKey" /\ req[p].user = keys[c].user
<1>1. keys' # keys
  BY DEF Live
<1>2. ASSUME NEW d \in Client, Expire(d) PROVE FALSE
  <2>1. keys' = [keys EXCEPT ![d].expired = TRUE] /\ Live(keys[d])
    BY <1>1, <1>2 DEF Expire
  <2>2. keys'[c] \in KeyRow
    BY <2>1 DEF IInv, TypeOK, Live, KeyRow
  <2> QED
    BY <2>2, RowAssumption
<1>3. ASSUME NEW p \in Proc, StoreKey(p) PROVE FALSE
  <2>1. req[p] \in CompleteRequest
    BY <1>3 DEF StoreKey, IInv, TypeOK, CompleteSteps
  <2>2. keys'[c] \in KeyRow
    BY <1>3, <2>1 DEF StoreKey, IInv, TypeOK, CompleteRequest, KeyRow, Live
  <2> QED
    BY <2>2, RowAssumption
<1>4. PICK p \in Proc : DropKey(p) \/ RevokeKey(p)
  <2>1. PICK p \in Proc : Handle(p)
    <3>1. ASSUME NEW d \in Client, NEW k \in Code, InitClient(d, k) PROVE FALSE
      BY <1>1, <3>1 DEF InitClient
    <3>2. ASSUME NEW p \in Proc, Receive(p) \/ Die(p) PROVE FALSE
      BY <1>1, <3>2 DEF Receive, GetKey, CheckCode, FindKey, Die, tables
    <3> QED
      BY <1>1, <1>2, <3>1, <3>2 DEF Next, vars, tables
  <2>2. ~GetPending(p) /\ ~DropPending(p) /\ ~DeletePending(p)
    BY <1>1 DEF GetPending, DropPending, DeletePending, tables
  <2> QED
    BY <1>3, <2>1, <2>2 DEF Handle
<1>5. pc[p] \in {"getDropKey", "dropKey", "revokeKey"}
  BY <1>4 DEF DropKey, RevokeKey
<1>6. keys' = [keys EXCEPT ![req[p].client] = NoRow]
  BY <1>4 DEF DropKey, RevokeKey
<1>7. c = req[p].client
  BY <1>6 DEF IInv, TypeOK, Live
<1>8. pc'[p] # pc[p]
  BY <1>4 DEF DropKey, RevokeKey, End, Goto, IInv, TypeOK
<1>9. Deleters(p)
  BY DEF IInv, DeletersKnow
<1> QED
  BY <1>5, <1>7, <1>8, <1>9 DEF Deleters

\* A live key is removed by its user's revocation, or by a request that was in
\* flight when the key was stored.
THEOREM KeysStay == Spec => LiveKeysStay
<1>1. IInv /\ [Next]_vars =>
        [\A c \in Client :
           Live(keys[c]) /\ keys'[c] = NoRow =>
             \E p \in Proc :
               /\ pc'[p] # pc[p] /\ req[p].client = c
               /\ \/ p \in overlap[c]
                  \/ pc[p] = "revokeKey" /\ req[p].user = keys[c].user]_vars
  BY KeyTaken
<1> QED
  BY <1>1, Inductive, PTL DEF Spec, LiveKeysStay
=============================================================================
