------------------------------ MODULE AwpAuth ------------------------------
(***************************************************************************)
(* The pairing of AWP clients with an AWP server: the requests of          *)
(* packages/client (client.ts, and packages/awp-client-core/client.ts,     *)
(* which is the same), the key handling they share (client/src/auth), and  *)
(* the server's auth endpoints (packages/auth).                            *)
(*                                                                         *)
(* A client is one AwpAuth object; several of them, tabs of a browser for  *)
(* instance, share one KeyStorage.  There is one server endpoint.  A flow  *)
(* is one request in flight with the pairing it may start, or a login: of  *)
(* the React hook (packages/client-react, and usePortalAuth of             *)
(* apps/example-webui), or of the page CasConfigManager of apps/agent,     *)
(* which pair by themselves and put their keys into the storage.  Every    *)
(* await of a store, of the network or of the callback ends a step.        *)
(* AwpAuth objects are made with empty caches, by a login among others:    *)
(* that is Close.                                                          *)
(*                                                                         *)
(* A key pair is its public key.  The clock of the clients says when the   *)
(* expiresAt of a stored key is past, that of the server when an           *)
(* authorisation is; they need not agree, and the server may also find     *)
(* the timestamp of a signature out of range.                              *)
(*                                                                         *)
(* The storage is IndexedDB's: an entry is written or deleted in one step, *)
(* and a load that finds it expired deletes it in another.  The check the  *)
(* hook makes on mount is the load of a request that is not sent.          *)
(* rotateKey is left out: no server here has the endpoint it calls.        *)
(***************************************************************************)
EXTENDS Naturals

CONSTANTS
  Flow,      \* slots of requests and logins
  Client,    \* AwpAuth objects
  NoClient,  \* the client of a login, and of a slot that is not in use
  MaxKeys    \* bound on the number of key pairs generated

ASSUME AuthAssumption == NoClient \notin Client /\ MaxKeys \in Nat

VARIABLES
  stored,      \* the key in the KeyStorage, 0 for none
  expiry,      \* whether expiresAt is stored with it: none, set, or past
  cache,       \* Client -> cachedKeyPair, 0 for none
  generated,   \* number of key pairs generated
  pending,     \* keys in the PendingAuthStore
  granted,     \* keys in the PubkeyStore
  pc,          \* Flow -> the await the request is at
  loc          \* Flow -> its local variables

\* History variables: no action's guard reads them.
VARIABLES
  disturbed,  \* Flow -> one of the same client was in flight, since it stored its key
  view        \* Flow -> how it stands to what is stored: right about it, misled,
              \* or refused, with what is stored

server == <<pending, granted>>
ghosts == <<disturbed, view>>
vars == <<stored, expiry, cache, generated, server, pc, loc, ghosts>>

-----------------------------------------------------------------------------

Key == 1..MaxKeys

\* signed: the key the next request is signed with.  got: the key just loaded.
\* own: the key generated.  retry: the request is the one after the pairing.
Locals == [client : Client \cup {NoClient}, signed : 0..MaxKeys, got : 0..MaxKeys,
           own : 0..MaxKeys, retry : BOOLEAN]
NoLocals == [client |-> NoClient, signed |-> 0, got |-> 0, own |-> 0, retry |-> FALSE]

Pairing == {"ask", "save", "saved", "poll", "confirm", "keep", "connect"}
Label == {"idle", "check", "sign", "load", "loaded", "expired", "expiredKey", "send", "init",
          "clear", "cleared", "warn"} \cup Pairing

\* Between these a request goes by what it knows of the storage.
Relying == {"expired", "expiredKey", "send", "init", "ask", "save", "saved", "poll", "clear"}
View == {"right", "refused", "misled"}

InFlight(f) == pc[f] # "idle"

\* The storage with key k, or with none.
Store(k, expires) == stored' = k /\ expiry' = expires
Delete == Store(0, "none")

Goto(f, label) == pc' = [pc EXCEPT ![f] = label] /\ UNCHANGED loc
GotoWith(f, label, q) == pc' = [pc EXCEPT ![f] = label] /\ loc' = [loc EXCEPT ![f] = q]
GotoBare(f, label) == GotoWith(f, label, [NoLocals EXCEPT !.client = loc[f].client])
End(f) == GotoWith(f, "idle", NoLocals)

Init ==
  /\ stored = 0
  /\ expiry = "none"
  /\ cache = [c \in Client |-> 0]
  /\ generated = 0
  /\ pending = {} /\ granted = {}
  /\ pc = [f \in Flow |-> "idle"]
  /\ loc = [f \in Flow |-> NoLocals]
  /\ disturbed = [f \in Flow |-> FALSE]
  /\ view = [f \in Flow |-> "right"]

-----------------------------------------------------------------------------
(* The request: signed if there is a key, and sent.                          *)

Begin(f) ==
  /\ pc[f] = "idle"
  /\ \E c \in Client : GotoWith(f, "check", [NoLocals EXCEPT !.client = c])
  /\ UNCHANGED <<stored, expiry, cache, generated, server>>

\* The clock of the clients is past the expiresAt of what is stored.
StoredExpired == stored # 0 /\ expiry = "past"

\* Faulty variant: a key counts as expired until it is.
Check_Inverted(f) ==
  /\ pc[f] = "check"
  /\ \/ stored = 0 /\ Goto(f, "send")
     \/ stored # 0 /\ expiry = "set" /\ Goto(f, "expired")
     \/ stored # 0 /\ expiry # "set" /\ Goto(f, "sign")
  /\ UNCHANGED <<stored, expiry, cache, generated, server>>

\* hasValidKey: whether there is a key in the storage that has not expired.
Check(f) ==
  /\ pc[f] = "check"
  /\ \/ stored = 0 /\ Goto(f, "send")
     \/ StoredExpired /\ Goto(f, "expired")
     \/ stored # 0 /\ ~StoredExpired /\ Goto(f, "sign")
  /\ UNCHANGED <<stored, expiry, cache, generated, server>>

\* sign: the cached key, whatever is stored.
Sign(f) ==
  LET key == cache[loc[f].client] IN
  /\ pc[f] = "sign"
  /\ \/ key # 0 /\ GotoWith(f, "send", [loc[f] EXCEPT !.signed = key])
     \/ key = 0 /\ Goto(f, "load")
  /\ UNCHANGED <<stored, expiry, cache, generated, server>>

Load(f) ==
  /\ pc[f] = "load"
  /\ \/ StoredExpired /\ GotoBare(f, "expiredKey")
     \/ ~StoredExpired /\ GotoWith(f, "loaded", [loc[f] EXCEPT !.got = stored])
  /\ UNCHANGED <<stored, expiry, cache, generated, server>>

\* load has read an expired key: it deletes whichever key is stored by now, and
\* answers that there is none.  The request is sent unsigned; sign throws.
DropExpired(f) ==
  /\ pc[f] \in {"expired", "expiredKey"}
  /\ Delete
  /\ \/ pc[f] = "expired" /\ Goto(f, "send")
     \/ pc[f] = "expiredKey" /\ End(f)
  /\ UNCHANGED <<cache, generated, server>>

\* The answer of the storage, cached even if another key has been since; sign
\* throws when there is none.
Loaded(f) ==
  LET got == loc[f].got IN
  /\ pc[f] = "loaded"
  /\ \/ got = 0 /\ End(f) /\ UNCHANGED cache
     \/ /\ got # 0
        /\ cache' = [cache EXCEPT ![loc[f].client] = got]
        /\ GotoWith(f, "send", [loc[f] EXCEPT !.signed = got, !.got = 0])
  /\ UNCHANGED <<stored, expiry, generated, server>>

\* verify: the server lets pass what is signed with a key it knows.  It may still
\* refuse the timestamp, as too old or too new.
Passes(f) == loc[f].signed \in granted

\* 200, or 401: the first 401 starts the pairing, the second one ends it.
Send(f) ==
  /\ pc[f] = "send"
  /\ \/ /\ Passes(f)
        /\ \/ ~loc[f].retry /\ End(f)
           \/ loc[f].retry /\ GotoBare(f, "warn")
     \/ GotoWith(f, IF loc[f].retry THEN "clear" ELSE "init", [loc[f] EXCEPT !.signed = 0])
  /\ UNCHANGED <<stored, expiry, cache, generated, server>>

\* checkExpiration after the retry, of which the request does not wait for the
\* end: one more load of the key.
Warn(f) ==
  /\ pc[f] = "warn"
  /\ \/ StoredExpired /\ Goto(f, "expiredKey")
     \/ ~StoredExpired /\ End(f)
  /\ UNCHANGED <<stored, expiry, cache, generated, server>>

-----------------------------------------------------------------------------
(* handleUnauthorized.                                                       *)

\* POST /auth/init with a new key.
Announce(f, label) ==
  /\ generated < MaxKeys
  /\ generated' = generated + 1
  /\ pending' = pending \cup {generated'}
  /\ GotoWith(f, label, [loc[f] EXCEPT !.own = generated'])

\* Faulty variant: the key announced is not the one that is kept.
InitAuth_Former(f) ==
  /\ pc[f] = "init" /\ generated < MaxKeys
  /\ generated' = generated + 1
  /\ pending' = pending \cup {generated'}
  /\ GotoWith(f, "ask", [loc[f] EXCEPT !.own = generated])
  /\ UNCHANGED <<stored, expiry, cache, granted>>

InitAuth(f) ==
  /\ pc[f] = "init"
  /\ Announce(f, "ask")
  /\ UNCHANGED <<stored, expiry, cache, granted>>

\* The answer of onAuthRequired; the code does not look whether the user has
\* done anything.
Asked(f) ==
  /\ pc[f] = "ask"
  /\ Goto(f, "save") \/ End(f)
  /\ UNCHANGED <<stored, expiry, cache, generated, server>>

Save(f) ==
  /\ pc[f] = "save"
  /\ Store(loc[f].own, "none")
  /\ Goto(f, "saved")
  /\ UNCHANGED <<cache, generated, server>>

\* The request is made again, with the new key.
Retry(f) == GotoWith(f, "sign", [loc[f] EXCEPT !.retry = TRUE])

\* Faulty variant: the key is stored and not cached.
Saved_Uncached(f) ==
  /\ pc[f] = "saved"
  /\ Goto(f, "poll") \/ Retry(f)
  /\ UNCHANGED <<stored, expiry, cache, generated, server>>

\* Whether to poll is an option of handleUnauthorized.
Saved(f) ==
  /\ pc[f] = "saved"
  /\ cache' = [cache EXCEPT ![loc[f].client] = loc[f].own]
  /\ Goto(f, "poll") \/ Retry(f)
  /\ UNCHANGED <<stored, expiry, generated, server>>

\* Faulty variant: the polling has no time limit.
Poll_Endless(f) ==
  /\ pc[f] = "poll"
  /\ loc[f].own \in granted /\ Retry(f)
  /\ UNCHANGED <<stored, expiry, cache, generated, server>>

\* GET /auth/status until it answers that the key is authorised, or the time is
\* up: errors are ignored, so the key may be authorised by then.
Poll(f) ==
  /\ pc[f] = "poll"
  /\ \/ loc[f].own \in granted /\ Retry(f)
     \/ Goto(f, "clear")
  /\ UNCHANGED <<stored, expiry, cache, generated, server>>

\* clearKey, whichever key is stored and cached by now.  The request itself has
\* failed already: notifyAuthFailed does not wait.
Clear(f) ==
  /\ pc[f] = "clear"
  /\ Delete
  /\ GotoBare(f, "cleared")
  /\ UNCHANGED <<cache, generated, server>>

Cleared(f) ==
  /\ pc[f] = "cleared"
  /\ cache' = [cache EXCEPT ![loc[f].client] = 0]
  /\ End(f)
  /\ UNCHANGED <<stored, expiry, generated, server>>

\* An error of the network; polling ignores them.
RequestFails(f) ==
  /\ pc[f] \in {"send", "init"}
  /\ End(f)
  /\ UNCHANGED <<stored, expiry, cache, generated, server>>

\* The tab is closed, and opened again.
Close(c) ==
  /\ cache' = [cache EXCEPT ![c] = 0]
  /\ pc' = [f \in Flow |-> IF loc[f].client = c THEN "idle" ELSE pc[f]]
  /\ loc' = [f \in Flow |-> IF loc[f].client = c THEN NoLocals ELSE loc[f]]
  /\ UNCHANGED <<stored, expiry, generated, server>>

-----------------------------------------------------------------------------
(* Logins and logouts.                                                       *)

\* A new key is announced.  The hook waits until it is confirmed, the page of the
\* agent does not.
Login(f) ==
  /\ pc[f] = "idle"
  /\ Announce(f, "confirm") \/ Announce(f, "connect")
  /\ UNCHANGED <<stored, expiry, cache, granted>>

\* The authorisation page or /auth/status tells of the key; or the login is
\* cancelled, started anew, or its time is up, and then the storage is left alone.
Confirmed(f) ==
  /\ pc[f] = "confirm"
  /\ \/ loc[f].own \in granted /\ Goto(f, "keep")
     \/ End(f)
  /\ UNCHANGED <<stored, expiry, cache, generated, server>>

\* handleAuthSuccess: the key is stored, with its expiresAt (if that was not told,
\* it is as one that never comes).  It cannot be cancelled any more, but the page
\* may be closed.
Keep(f) ==
  /\ pc[f] = "keep"
  /\ Store(loc[f].own, "set") \/ UNCHANGED <<stored, expiry>>
  /\ End(f)
  /\ UNCHANGED <<cache, generated, server>>

\* The page stores its key at once, unless it is closed; it polls to show the answer.
Connect(f) ==
  /\ pc[f] = "connect"
  /\ Store(loc[f].own, "none") \/ UNCHANGED <<stored, expiry>>
  /\ End(f)
  /\ UNCHANGED <<cache, generated, server>>

Logout ==
  /\ stored # 0
  /\ Delete
  /\ UNCHANGED <<cache, generated, server, pc, loc>>

\* The expiresAt of the stored key is past, on the clock of the clients.
Lapse ==
  /\ expiry = "set"
  /\ expiry' = "past"
  /\ UNCHANGED <<stored, cache, generated, server, pc, loc>>

-----------------------------------------------------------------------------
(* The server, and the user on its page.                                     *)

\* completeAuthorization, with the right code: the key is stored, and no longer
\* pending.
Complete(k) ==
  /\ k \in pending
  /\ granted' = granted \cup {k}
  /\ pending' = pending \ {k}
  /\ UNCHANGED <<stored, expiry, cache, generated, pc, loc>>

\* The code expires; the authorisation expires or is revoked.
Expire(k) ==
  /\ \/ k \in pending /\ pending' = pending \ {k} /\ UNCHANGED granted
     \/ k \in granted /\ granted' = granted \ {k} /\ UNCHANGED pending
  /\ UNCHANGED <<stored, expiry, cache, generated, pc, loc>>

-----------------------------------------------------------------------------

Step(f) ==
  \/ Check(f) \/ Sign(f) \/ Load(f) \/ Loaded(f) \/ DropExpired(f)
  \/ Send(f) \/ Warn(f)
  \/ InitAuth(f) \/ Asked(f) \/ Save(f) \/ Saved(f) \/ Poll(f)
  \/ Clear(f) \/ Cleared(f)
  \/ RequestFails(f)
  \/ Confirmed(f) \/ Keep(f) \/ Connect(f)

\* The request of f is answered with a 401.
Refuses(f) == pc[f] = "send" /\ pc'[f] \in {"init", "clear"}

\* The request of f has read the storage, has signed, or has stored its key.
Looks(f) == pc'[f] # pc[f] /\ pc'[f] \in {"expired", "expiredKey", "send", "saved"}

\* A request is misled by a change of the storage that is not its own, when it
\* signs with a key that is not the stored one, and when it is refused with a key
\* that is granted.
Misleads(f) ==
  \/ <<stored, expiry>>' # <<stored, expiry>> /\ pc'[f] = pc[f]
  \/ Looks(f) /\ pc'[f] = "send" /\ loc'[f].signed # stored'
  \/ Refuses(f) /\ Passes(f)

\* The history variables follow the others.
Track ==
  /\ disturbed' = [f \in Flow |->
       /\ pc'[f] \in {"saved", "poll"} \/ loc'[f].retry
       /\ \/ disturbed[f]
          \/ \E g \in Flow : g # f /\ pc'[g] # "idle" /\ loc'[g].client = loc'[f].client]
  /\ view' = [f \in Flow |->
       IF pc'[f] \notin Relying THEN "right"
       ELSE IF Misleads(f) THEN "misled"
       ELSE IF Looks(f) THEN "right"
       ELSE IF Refuses(f) /\ view[f] = "right" /\ stored \notin granted THEN "refused"
       ELSE view[f]]

Next ==
  /\ \/ \E f \in Flow : Begin(f) \/ Login(f) \/ Step(f)
     \/ \E c \in Client : Close(c)
     \/ \E k \in Key : Complete(k) \/ Expire(k)
     \/ Logout \/ Lapse
  /\ Track

Spec == Init /\ [][Next]_vars

\* The client's steps are callbacks of an event loop, its calls return, the
\* host answers onAuthRequired and polling has a time limit.  Nothing is assumed
\* of the user, of tabs or of expiry.
FairSpec == Spec /\ \A f \in Flow : WF_vars(Step(f) /\ Track)

-----------------------------------------------------------------------------
(* Properties. *)

TypeOK ==
  /\ stored \in 0..generated /\ expiry \in {"none", "set", "past"}
  /\ cache \in [Client -> 0..generated]
  /\ generated \in 0..MaxKeys
  /\ pending \subseteq 1..generated /\ granted \subseteq 1..generated
  /\ pc \in [Flow -> Label] /\ loc \in [Flow -> Locals]
  /\ \A f \in Flow : pc[f] \in Pairing \/ loc[f].retry => loc[f].own # 0
  /\ disturbed \in [Flow -> BOOLEAN] /\ view \in [Flow -> View]

\* The retry of a request whose own key the user has confirmed is signed with it,
\* so that only its timestamp can have it refused, unless another request of the
\* same client was in flight since the key was stored.  (Logins, and the requests
\* of other clients, which share the storage, do no harm.)
ConfirmedPairingsServe ==
  [][\A f \in Flow :
       pc[f] = "send" /\ loc[f].retry /\ loc[f].own \in granted /\ pc'[f] = "clear" =>
         disturbed[f] \/ loc[f].signed = loc[f].own]_vars

\* A key that is authorised, and has not expired for the clients either, leaves
\* the storage only by a login, by a logout, by the request that paired it, when
\* its time for polling is up, by a request that was refused before the user
\* confirmed the key, or by one that was misled: the storage has changed since it
\* looked, it had signed with a cached key that is not the stored one, or it was
\* refused for its timestamp.
GrantedKeysKept ==
  [][(stored \in granted) /\ expiry # "past" /\ stored' # stored =>
       \/ Logout
       \/ \E f \in Flow :
            /\ pc'[f] # pc[f]
            /\ \/ pc[f] \in {"keep", "connect"}
               \/ pc[f] = "clear" /\ ~loc[f].retry /\ stored = loc[f].own
               \/ /\ pc[f] \in {"save", "clear", "expired", "expiredKey"}
                  /\ view[f] # "right"]_vars

\* Every request ends: with an answer, or with an error once the pairing failed.
RequestsEnd == \A f \in Flow : InFlight(f) ~> ~InFlight(f)
=============================================================================
