--------------------------- MODULE ClientPairing ---------------------------
(***************************************************************************)
(* The pairing of clients with users in the casfa-v2 backend               *)
(* (controllers/auth-clients.ts over db/client-pending.ts and              *)
(* db/client-pubkeys.ts).  A client asks to be paired and displays a code; *)
(* a user who enters the code authorises the client's public key.          *)
(*                                                                         *)
(* A process is one HTTP request in flight; every await is one step, and   *)
(* what a handler does before its first await is part of that step.  A     *)
(* request that ends at its first await changes nothing and has no step.   *)
(* A read that finds its row expired deletes it, by a second command.      *)
(*                                                                         *)
(* A client is identified with its public key, of which clientId is a      *)
(* hash.  list only reads, and lookupByPubkey has no callers.              *)
(***************************************************************************)

CONSTANTS
  Client,      \* clients, each identified with its public key
  Code,        \* verification codes; drawn at random, taken as never repeated
  User,        \* users
  Proc,        \* request slots
  NoRow,       \* no item in the table
  NoRequest    \* the locals of a slot that serves no request

VARIABLES
  pending,   \* Client -> its CLIENT_PENDING# item
  keys,      \* Client -> its CLIENT# item
  drawn,     \* codes already drawn
  pc,        \* Proc -> the await the request is at
  req        \* Proc -> the handler's local variables

\* History variables: no action's guard reads them.
VARIABLES
  displayed, \* Client -> codes a reply to init told it
  spent,     \* codes of completions answered 200
  overlap    \* Client -> requests that were in flight, and still are, when
             \* its key was last stored

tables == <<pending, keys, drawn>>
ghosts == <<displayed, spent, overlap>>
vars   == <<tables, pc, req, ghosts>>

-----------------------------------------------------------------------------
(* Rows and requests. *)

\* expired: expiresAt has passed.  code: the one the user entered (history).
PendingRow == [code : Code, expired : BOOLEAN]
KeyRow     == [user : User, code : Code, expired : BOOLEAN]

ASSUME RowAssumption == NoRow \notin KeyRow

Live(row) == row # NoRow /\ ~row.expired
Stale(row) == row # NoRow /\ row.expired

GetSteps == {"getDropKey", "getPending"}
CompleteSteps == {"storeKey", "deletePending"}
RevokeSteps == {"dropKey", "revokeKey"}
Step == {"idle", "dropPending"} \cup GetSteps \cup CompleteSteps \cup RevokeSteps

ClientRequest == [client : Client]
CompleteRequest == [client : Client, user : User, code : Code]
RevokeRequest == [client : Client, user : User]

Goto(p, label) == pc' = [pc EXCEPT ![p] = label]
Begin(p, label, q) ==
  pc[p] = "idle" /\ Goto(p, label) /\ req' = [req EXCEPT ![p] = q] /\ UNCHANGED overlap
End(p) ==
  /\ Goto(p, "idle")
  /\ req' = [req EXCEPT ![p] = NoRequest]
  /\ overlap' = [c \in Client |-> overlap[c] \ {p}]

Init ==
  /\ pending = [c \in Client |-> NoRow]
  /\ keys = [c \in Client |-> NoRow]
  /\ drawn = {}
  /\ pc = [p \in Proc |-> "idle"]
  /\ req = [p \in Proc |-> NoRequest]
  /\ displayed = [c \in Client |-> {}]
  /\ spent = {}
  /\ overlap = [c \in Client |-> {}]

-----------------------------------------------------------------------------
(* POST /auth/clients/init: one Put, which replaces what was pending. *)

InitClient(c, k) ==
  /\ k \notin drawn
  /\ drawn' = drawn \cup {k}
  /\ pending' = [pending EXCEPT ![c] = [code |-> k, expired |-> FALSE]]
  /\ displayed' = [displayed EXCEPT ![c] = @ \cup {k}]
  /\ UNCHANGED <<keys, pc, req, spent, overlap>>

\* Ten minutes after init, and thirty days after the authorisation.
Expire(c) ==
  /\ \/ /\ Live(pending[c])
        /\ pending' = [pending EXCEPT ![c].expired = TRUE]
        /\ UNCHANGED keys
     \/ /\ Live(keys[c])
        /\ keys' = [keys EXCEPT ![c].expired = TRUE]
        /\ UNCHANGED pending
  /\ UNCHANGED <<drawn, pc, req, ghosts>>

-----------------------------------------------------------------------------
(* The second command of a read that found its row expired; it deletes what *)
(* is there by then.                                                        *)

DropPending(p) ==
  /\ pc[p] = "dropPending"
  /\ pending' = [pending EXCEPT ![req[p].client] = NoRow]
  /\ End(p)
  /\ UNCHANGED <<keys, drawn, displayed, spent>>

\* Faulty variant: a revocation that found an expired key goes on like a poll.
DropKey_GoesOn(p) ==
  /\ pc[p] \in {"getDropKey", "dropKey"}
  /\ keys' = [keys EXCEPT ![req[p].client] = NoRow]
  /\ Goto(p, "getPending")
  /\ UNCHANGED <<pending, drawn, req, ghosts>>

\* get goes on to the pending row, revoke answers 404.
DropKey(p) ==
  /\ pc[p] \in {"getDropKey", "dropKey"}
  /\ keys' = [keys EXCEPT ![req[p].client] = NoRow]
  /\ IF pc[p] = "getDropKey"
       THEN Goto(p, "getPending") /\ UNCHANGED <<req, overlap>>
       ELSE End(p)
  /\ UNCHANGED <<pending, drawn, displayed, spent>>

-----------------------------------------------------------------------------
(* GET /auth/clients/:clientId, by which a client polls: the key, and when   *)
(* there is none the pending row.                                            *)

\* Faulty variant: the key is taken for expired whenever it is there.
GetKey_AnyKey(p, c) ==
  /\ Begin(p, IF keys[c] # NoRow THEN "getDropKey" ELSE "getPending", [client |-> c])
  /\ UNCHANGED <<tables, displayed, spent>>

GetKey(p, c) ==
  /\ ~Live(keys[c])                        \* otherwise "authorized" at once
  /\ Begin(p, IF Stale(keys[c]) THEN "getDropKey" ELSE "getPending", [client |-> c])
  /\ UNCHANGED <<tables, displayed, spent>>

\* "pending", or 404 "not_found".
GetPending(p) ==
  /\ pc[p] = "getPending"
  /\ IF Stale(pending[req[p].client])
       THEN Goto(p, "dropPending") /\ UNCHANGED <<req, overlap>>
       ELSE End(p)
  /\ UNCHANGED <<tables, displayed, spent>>

-----------------------------------------------------------------------------
(* POST /auth/clients/complete, by a user. *)

\* Faulty variant: the code entered is not compared.
CheckCode_AnyCode(p, c, u, k) ==
  LET q == [client |-> c, user |-> u, code |-> k] IN
  /\ \/ Stale(pending[c]) /\ Begin(p, "dropPending", q)
     \/ Live(pending[c]) /\ Begin(p, "storeKey", q)
  /\ UNCHANGED <<tables, displayed, spent>>

\* 400 when nothing is pending, when it has expired, or for another code.
CheckCode(p, c, u, k) ==
  LET q == [client |-> c, user |-> u, code |-> k] IN
  /\ \/ Stale(pending[c]) /\ Begin(p, "dropPending", q)
     \/ Live(pending[c]) /\ pending[c].code = k /\ Begin(p, "storeKey", q)
  /\ UNCHANGED <<tables, displayed, spent>>

\* A Put, whoever the key belongs to by now.
StoreKey(p) ==
  LET q == req[p] IN
  /\ pc[p] = "storeKey"
  /\ keys' = [keys EXCEPT ![q.client] =
                [user |-> q.user, code |-> q.code, expired |-> FALSE]]
  /\ overlap' = [overlap EXCEPT ![q.client] = {o \in Proc \ {p} : pc[o] # "idle"}]
  /\ Goto(p, "deletePending")
  /\ UNCHANGED <<pending, drawn, req, displayed, spent>>

\* Faulty variant: the pending row is left to expire.
DeletePending_Skipped(p) ==
  /\ pc[p] = "deletePending"
  /\ spent' = spent \cup {req[p].code}
  /\ End(p)
  /\ UNCHANGED <<tables, displayed>>

\* The delete, whichever code is pending by now, and the 200.
DeletePending(p) ==
  /\ pc[p] = "deletePending"
  /\ pending' = [pending EXCEPT ![req[p].client] = NoRow]
  /\ spent' = spent \cup {req[p].code}
  /\ End(p)
  /\ UNCHANGED <<keys, drawn, displayed>>

-----------------------------------------------------------------------------
(* DELETE /auth/clients/:clientId, by a user; 404 for a key of another user. *)

FindKey(p, c, u) ==
  LET q == [client |-> c, user |-> u] IN
  /\ \/ Stale(keys[c]) /\ Begin(p, "dropKey", q)
     \/ Live(keys[c]) /\ keys[c].user = u /\ Begin(p, "revokeKey", q)
  /\ UNCHANGED <<tables, displayed, spent>>

RevokeKey(p) ==
  /\ pc[p] = "revokeKey"
  /\ keys' = [keys EXCEPT ![req[p].client] = NoRow]
  /\ End(p)
  /\ UNCHANGED <<pending, drawn, displayed, spent>>

-----------------------------------------------------------------------------

\* A request that dies between two awaits.
Die(p) ==
  /\ pc[p] # "idle"
  /\ End(p)
  /\ UNCHANGED <<tables, displayed, spent>>

Receive(p) ==
  \E c \in Client :
    \/ GetKey(p, c)
    \/ \E u \in User : FindKey(p, c, u) \/ \E k \in Code : CheckCode(p, c, u, k)

Handle(p) ==
  \/ GetPending(p) \/ DropPending(p) \/ DropKey(p)
  \/ StoreKey(p) \/ DeletePending(p)
  \/ RevokeKey(p)

Next ==
  \/ \E c \in Client : Expire(c) \/ \E k \in Code : InitClient(c, k)
  \/ \E p \in Proc : Receive(p) \/ Handle(p) \/ Die(p)

Spec == Init /\ [][Next]_vars

-----------------------------------------------------------------------------
(* Properties. *)

TypeOK ==
  /\ pending \in [Client -> PendingRow \cup {NoRow}]
  /\ keys \in [Client -> KeyRow \cup {NoRow}]
  /\ drawn \subseteq Code
  /\ pc \in [Proc -> Step]
  /\ req \in [Proc -> ClientRequest \cup CompleteRequest \cup RevokeRequest \cup {NoRequest}]
  /\ \A p \in Proc :
       /\ pc[p] = "idle" => req[p] = NoRequest
       /\ pc[p] \in GetSteps => req[p] \in ClientRequest
       /\ pc[p] \in CompleteSteps => req[p] \in CompleteRequest
       /\ pc[p] \in RevokeSteps => req[p] \in RevokeRequest
       /\ pc[p] = "dropPending" => req[p].client \in Client
  /\ displayed \in [Client -> SUBSET drawn]
  /\ spent \subseteq drawn
  /\ overlap \in [Client -> SUBSET Proc]

\* Whatever inits, completions and expiries race, a client's key is only ever
\* authorised by a user who entered a code that this client was given.
KeysWereConfirmed ==
  \A c \in Client : keys[c] # NoRow => keys[c].code \in displayed[c]

\* Once a completion was answered 200, its code is not pending again: it can
\* only authorise once more, a revocation in between or not, by a completion that
\* had checked it before.
CodesSpent == \A c \in Client : pending[c] # NoRow => pending[c].code \notin spent

\* A live key is removed only by a revocation of the user it belongs to, or by
\* a request that was already in flight when the key was stored.  (Such a
\* request may remove the key of a user who never asked for it.)
LiveKeysStay ==
  [][\A c \in Client :
       Live(keys[c]) /\ keys'[c] = NoRow =>
         \E p \in Proc :
           /\ pc'[p] # pc[p] /\ req[p].client = c
           /\ \/ p \in overlap[c]
              \/ pc[p] = "revokeKey" /\ req[p].user = keys[c].user]_vars
=============================================================================
