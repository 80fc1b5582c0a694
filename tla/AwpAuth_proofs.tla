--------------------------- MODULE AwpAuth_proofs ---------------------------
(***************************************************************************)
(* Proofs about AwpAuth, for any clients and any number of requests.       *)
(* (RequestsEnd, a liveness property, is left to TLC.)                     *)
(***************************************************************************)
EXTENDS AwpAuth, TLAPS

-----------------------------------------------------------------------------
(* The inductive invariant. *)

\* What the local variables of a request, or of a login, are at its steps.
LocalsOK(f) ==
  /\ pc[f] = "idle" => loc[f] = NoLocals
  /\ pc[f] \notin {"idle", "confirm", "keep", "connect"} => loc[f].client \in Client
  /\ loc[f].signed \in 0..generated /\ loc[f].got \in 0..generated /\ loc[f].own \in 0..generated
  /\ pc[f] # "send" => loc[f].signed = 0
  /\ loc[f].retry => pc[f] \in {"sign", "load", "loaded", "send", "clear"}

LocalsTyped == \A f \in Flow : LocalsOK(f)

\* A request that is not misled knows what is stored: the key it signed with, one
\* that was not granted when it was refused, its own, or one that has expired.
Knows(f) ==
  /\ pc[f] \in {"init", "ask", "save"} => view[f] # "right"
  /\ pc[f] = "clear" /\ loc[f].retry => view[f] # "right"
  /\ view[f] # "misled" =>
       /\ pc[f] = "send" => loc[f].signed = stored
       /\ pc[f] \in {"saved", "poll"} => stored = loc[f].own
       /\ pc[f] = "clear" /\ ~loc[f].retry => stored = loc[f].own
       /\ pc[f] \in {"expired", "expiredKey"} => StoredExpired

StorageKnown == \A f \in Flow : Knows(f)

\* A request that has stored its key, undisturbed by its client's other
\* requests, is its client's only one; once it polls, its key is the cached one,
\* and the one it signs with.
Paired(f) == (pc[f] \in {"saved", "poll"} \/ loc[f].retry) /\ ~disturbed[f]

Serves(f) ==
  Paired(f) =>
    /\ \A g \in Flow : g # f /\ InFlight(g) => loc[g].client # loc[f].client
    /\ pc[f] \notin {"saved", "clear"} => cache[loc[f].client] = loc[f].own
    /\ pc[f] \notin {"load", "loaded"}
    /\ pc[f] = "send" => loc[f].signed = loc[f].own

PairedServe == \A f \in Flow : Serves(f)

IInv == TypeOK /\ LocalsTyped /\ StorageKnown /\ PairedServe

\* The steps, without the history variables: of a request or a login, of a tab,
\* and those that concern none in particular.
Acts(f) == Begin(f) \/ Login(f) \/ Step(f)
Outside == Logout \/ Lapse \/ \E k \in Key : Complete(k) \/ Expire(k)

Move ==
  \/ \E f \in Flow : Acts(f)
  \/ \E c \in Client : Close(c)
  \/ Outside

\* f goes to a label with some local variables, and the other requests stay.
Moves(f) ==
  /\ pc' = [pc EXCEPT ![f] = pc'[f]]
  /\ loc' = [loc EXCEPT ![f] = loc'[f]]

\* The part of TypeOK about the local variables of a request.
FlowOK(f) ==
  /\ pc[f] \in Label /\ loc[f] \in Locals
  /\ pc[f] \in Pairing \/ loc[f].retry => loc[f].own # 0

\* The parts of TypeOK about keys and about the history variables.
KeysOK ==
  /\ stored \in 0..generated /\ expiry \in {"none", "set", "past"}
  /\ cache \in [Client -> 0..generated]
  /\ generated \in 0..MaxKeys
  /\ pending \subseteq 1..generated /\ granted \subseteq 1..generated

GhostsOK ==
  /\ disturbed \in [Flow -> BOOLEAN] /\ view \in [Flow -> View]

-----------------------------------------------------------------------------
(* Type correctness. *)

LEMMA Goes ==
  ASSUME TypeOK, NEW f \in Flow, NEW label, NEW q, GotoWith(f, label, q)
  PROVE  Moves(f) /\ pc'[f] = label /\ loc'[f] = q
BY DEF TypeOK, GotoWith, Moves

LEMMA GoesOn ==
  ASSUME TypeOK, NEW f \in Flow, NEW label, Goto(f, label)
  PROVE  Moves(f) /\ pc'[f] = label /\ loc'[f] = loc[f]
BY DEF TypeOK, Goto, Moves

LEMMA Ends ==
  ASSUME TypeOK, NEW f \in Flow, End(f)
  PROVE  Moves(f) /\ pc'[f] = "idle" /\ loc'[f] = NoLocals
BY Goes DEF End

LEMMA GoesBare ==
  ASSUME TypeOK, NEW f \in Flow, NEW label, GotoBare(f, label)
  PROVE  Moves(f) /\ pc'[f] = label /\ loc'[f] = [NoLocals EXCEPT !.client = loc[f].client]
BY Goes DEF GotoBare

\* What a step of a request leaves to be shown of its types.
LEMMA MoveType ==
  ASSUME TypeOK, LocalsTyped, NEW f \in Flow, Moves(f), FlowOK(f)', LocalsOK(f)', KeysOK',
         generated' \in Nat, generated <= generated', GhostsOK'
  PROVE  TypeOK' /\ LocalsTyped'
<1>1. \A g \in Flow \ {f} : pc'[g] = pc[g] /\ loc'[g] = loc[g]
  BY DEF TypeOK, Moves
<1>2. \A g \in Flow : FlowOK(g)'
  BY <1>1 DEF TypeOK, FlowOK
<1>3. generated \in Nat
  BY AuthAssumption DEF TypeOK
<1>4. \A g \in Flow : LocalsOK(g)'
  BY <1>1, <1>3 DEF LocalsTyped, LocalsOK
<1>5. pc' \in [Flow -> Label] /\ loc' \in [Flow -> Locals]
  BY <1>2 DEF TypeOK, Moves, FlowOK
<1> QED
  BY <1>2, <1>4, <1>5 DEF TypeOK, FlowOK, KeysOK, GhostsOK, LocalsTyped

\* The history variables keep their types.
LEMMA TrackType ==
  ASSUME TypeOK, Track
  PROVE  GhostsOK'
<1>1. disturbed' \in [Flow -> BOOLEAN]
  BY DEF Track, TypeOK
<1>2. \A f \in Flow : view[f] \in View
  BY DEF TypeOK
<1>3. view' \in [Flow -> View]
  BY <1>2, Zenon DEF Track, View
<1> QED
  BY <1>1, <1>3 DEF GhostsOK

\* Each step of a request or a login keeps the types of what it changes.
LEMMA StepType ==
  ASSUME TypeOK, LocalsTyped, NEW f \in Flow, Acts(f)
  PROVE  /\ Moves(f) /\ FlowOK(f)' /\ LocalsOK(f)' /\ KeysOK'
         /\ generated' \in Nat /\ generated <= generated'
<1> USE AuthAssumption
<1>0. /\ generated \in Nat /\ generated <= MaxKeys
      /\ FlowOK(f) /\ LocalsOK(f) /\ KeysOK
  BY DEF TypeOK, FlowOK, LocalsTyped, KeysOK
<1> DEFINE Same == UNCHANGED <<stored, expiry, cache, generated, server>>
           Fits == Moves(f) /\ FlowOK(f)' /\ LocalsOK(f)'
<1>1. ASSUME UNCHANGED <<cache, generated, server>>,
             UNCHANGED <<stored, expiry>> \/ Delete \/ \E e \in {"none", "set"} : Store(loc[f].own, e)
      PROVE  KeysOK' /\ generated' \in Nat /\ generated <= generated'
  <2>1. stored' \in 0..generated /\ expiry' \in {"none", "set", "past"}
    BY <1>0, <1>1 DEF KeysOK, LocalsOK, Delete, Store
  <2> QED
    BY <1>0, <1>1, <2>1 DEF KeysOK, server
<1>2. ASSUME End(f), generated' = generated
      PROVE  Fits
  <2>1. Moves(f) /\ pc'[f] = "idle" /\ loc'[f] = NoLocals
    BY <1>2, Ends
  <2> QED
    BY <1>0, <1>2, <2>1 DEF FlowOK, LocalsOK, Label, Locals, NoLocals, Pairing
<1>3. ASSUME NEW label \in {"expiredKey", "cleared", "warn"}, GotoBare(f, label),
             pc[f] \notin {"idle", "confirm", "keep", "connect"}, generated' = generated
      PROVE  Fits
  <2>1. /\ Moves(f) /\ pc'[f] = label
        /\ loc'[f] = [NoLocals EXCEPT !.client = loc[f].client]
    BY <1>3, GoesBare
  <2>2. loc[f].client \in Client /\ label \in Label /\ label \notin Pairing /\ label # "send"
    BY <1>0, <1>3 DEF LocalsOK, Label, Pairing
  <2>3. loc'[f] = [client |-> loc[f].client, signed |-> 0, got |-> 0, own |-> 0, retry |-> FALSE]
    BY <2>1 DEF NoLocals
  <2>4. FlowOK(f)'
    <3>1. loc'[f] \in Locals /\ ~loc'[f].retry
      BY <1>0, <2>2, <2>3 DEF Locals
    <3> QED
      BY <2>1, <2>2, <3>1 DEF FlowOK
  <2>5. LocalsOK(f)'
    BY <1>0, <1>3, <2>1, <2>2, <2>3 DEF LocalsOK
  <2> QED
    BY <2>1, <2>4, <2>5
<1>4. ASSUME NEW label \in Label, Goto(f, label), pc[f] \notin {"idle", "send"},
             label # "idle", generated' = generated,
             pc[f] \in {"confirm", "keep", "connect"} => label = "keep",
             pc[f] \in Pairing \/ label \notin Pairing,
             loc[f].retry => label \in {"load", "loaded", "send"}
      PROVE  Fits
  <2>1. Moves(f) /\ pc'[f] = label /\ loc'[f] = loc[f]
    BY <1>4, GoesOn
  <2> QED
    BY <1>0, <1>4, <2>1 DEF FlowOK, LocalsOK
<1>5. CASE Begin(f)
  <2>1. PICK c \in Client : GotoWith(f, "check", [NoLocals EXCEPT !.client = c])
    BY <1>5 DEF Begin
  <2>2. Moves(f) /\ pc'[f] = "check" /\ loc'[f] = [NoLocals EXCEPT !.client = c]
    BY <2>1, Goes
  <2> QED
    BY <1>0, <1>1, <1>5, <2>2 DEF Begin, FlowOK, LocalsOK, Label, Locals, NoLocals, Pairing
<1>6. CASE Check(f)
  <2>1. ~loc[f].retry /\ Same
    BY <1>0, <1>6 DEF Check, LocalsOK
  <2>2. PICK label \in {"send", "expired", "sign"} : Goto(f, label)
    BY <1>6 DEF Check
  <2> QED
    BY <1>1, <1>4, <1>6, <2>1, <2>2 DEF Check, Label, Pairing
<1>7. CASE Sign(f)
  <2>1. CASE Goto(f, "load")
    BY <1>1, <1>4, <1>7, <2>1 DEF Sign, Label, Pairing
  <2>2. CASE GotoWith(f, "send", [loc[f] EXCEPT !.signed = cache[loc[f].client]])
    <3>1. /\ Moves(f) /\ pc'[f] = "send"
          /\ loc'[f] = [loc[f] EXCEPT !.signed = cache[loc[f].client]]
      BY <2>2, Goes
    <3>2. cache[loc[f].client] \in 0..generated /\ cache[loc[f].client] \in 0..MaxKeys
      BY <1>0, <1>7 DEF Sign, LocalsOK, KeysOK
    <3> QED
      BY <1>0, <1>1, <1>7, <3>1, <3>2 DEF Sign, FlowOK, LocalsOK, Label, Locals, Pairing
  <2> QED
    BY <1>7, <2>1, <2>2 DEF Sign
<1>8. CASE Load(f)
  <2>1. CASE GotoBare(f, "expiredKey")
    BY <1>1, <1>3, <1>8, <2>1 DEF Load
  <2>2. CASE GotoWith(f, "loaded", [loc[f] EXCEPT !.got = stored])
    <3>1. Moves(f) /\ pc'[f] = "loaded" /\ loc'[f] = [loc[f] EXCEPT !.got = stored]
      BY <2>2, Goes
    <3>2. stored \in 0..generated /\ stored \in 0..MaxKeys
      BY <1>0 DEF KeysOK
    <3> QED
      BY <1>0, <1>1, <1>8, <3>1, <3>2 DEF Load, FlowOK, LocalsOK, Label, Locals, Pairing
  <2> QED
    BY <1>8, <2>1, <2>2 DEF Load
<1>9. CASE Loaded(f)
  <2>1. CASE loc[f].got = 0
    BY <1>1, <1>2, <1>9, <2>1 DEF Loaded
  <2>2. CASE loc[f].got # 0
    <3>1. Moves(f) /\ pc'[f] = "send" /\ loc'[f] = [loc[f] EXCEPT !.signed = loc[f].got, !.got = 0]
      BY <1>9, <2>2, Goes DEF Loaded
    <3>2. FlowOK(f)' /\ LocalsOK(f)'
      BY <1>0, <1>9, <3>1 DEF Loaded, FlowOK, LocalsOK, Label, Locals, Pairing
    <3>3. loc[f].client \in Client /\ loc[f].got \in 0..generated
      BY <1>0, <1>9 DEF Loaded, LocalsOK
    <3>4. cache' \in [Client -> 0..generated]
      BY <1>0, <1>9, <2>2, <3>3 DEF Loaded, KeysOK
    <3> QED
      BY <1>0, <1>9, <3>1, <3>2, <3>4 DEF Loaded, KeysOK, server
  <2> QED
    BY <2>1, <2>2
<1>10. CASE DropExpired(f)
  <2>1. ~loc[f].retry /\ Delete /\ UNCHANGED <<cache, generated, server>>
    BY <1>0, <1>10 DEF DropExpired, LocalsOK
  <2> QED
    BY <1>1, <1>2, <1>4, <1>10, <2>1 DEF DropExpired, Label, Pairing
<1>11. CASE Send(f)
  <2>1. CASE End(f)
    BY <1>1, <1>2, <1>11, <2>1 DEF Send
  <2>2. CASE GotoBare(f, "warn")
    BY <1>1, <1>3, <1>11, <2>2 DEF Send
  <2>3. CASE GotoWith(f, IF loc[f].retry THEN "clear" ELSE "init", [loc[f] EXCEPT !.signed = 0])
    <3>1. /\ Moves(f) /\ pc'[f] = (IF loc[f].retry THEN "clear" ELSE "init")
          /\ loc'[f] = [loc[f] EXCEPT !.signed = 0]
      BY <2>3, Goes
    <3> QED
      BY <1>0, <1>1, <1>11, <3>1 DEF Send, FlowOK, LocalsOK, Label, Locals, Pairing
  <2> QED
    BY <1>11, <2>1, <2>2, <2>3 DEF Send
<1>12. CASE Warn(f)
  <2>1. ~loc[f].retry /\ Same
    BY <1>0, <1>12 DEF Warn, LocalsOK
  <2> QED
    BY <1>1, <1>2, <1>4, <1>12, <2>1 DEF Warn, Label, Pairing
<1>13. ASSUME NEW label \in {"ask", "confirm", "connect"}, Announce(f, label), UNCHANGED <<stored, expiry, cache, granted>>,
              \/ pc[f] = "init" /\ label = "ask"
              \/ pc[f] = "idle" /\ label \in {"confirm", "connect"}
       PROVE  Fits /\ KeysOK' /\ generated' \in Nat /\ generated <= generated'
  <2>1. Moves(f) /\ pc'[f] = label /\ loc'[f] = [loc[f] EXCEPT !.own = generated']
    BY <1>13, Goes DEF Announce
  <2>2. generated' = generated + 1 /\ generated' \in 0..MaxKeys
    BY <1>0, <1>13 DEF Announce
  <2>3. ~loc[f].retry
    BY <1>0, <1>13 DEF LocalsOK
  <2>4. FlowOK(f)' /\ LocalsOK(f)'
    BY <1>0, <1>13, <2>1, <2>2, <2>3 DEF FlowOK, LocalsOK, Label, Locals, Pairing
  <2>5. KeysOK'
    BY <1>0, <1>13, <2>2 DEF Announce, KeysOK
  <2> QED
    BY <1>0, <2>1, <2>2, <2>4, <2>5
<1>14. CASE InitAuth(f) \/ Login(f)
  BY <1>13, <1>14 DEF InitAuth, Login
<1>15. CASE Asked(f)
  <2>1. ~loc[f].retry /\ Same
    BY <1>0, <1>15 DEF Asked, LocalsOK
  <2> QED
    BY <1>1, <1>2, <1>4, <1>15, <2>1 DEF Asked, Label, Pairing
<1>16. CASE Save(f)
  <2>1. ~loc[f].retry /\ Store(loc[f].own, "none") /\ UNCHANGED <<cache, generated, server>>
    BY <1>0, <1>16 DEF Save, LocalsOK
  <2> QED
    BY <1>1, <1>4, <1>16, <2>1 DEF Save, Label, Pairing
<1>17. ASSUME pc[f] \in {"saved", "poll"}, generated' = generated,
              Retry(f) \/ \E label \in {"poll", "clear"} : Goto(f, label)
       PROVE  Fits
  <2>1. CASE Retry(f)
    <3>1. Moves(f) /\ pc'[f] = "sign" /\ loc'[f] = [loc[f] EXCEPT !.retry = TRUE]
      BY <2>1, Goes DEF Retry
    <3> QED
      BY <1>0, <1>17, <3>1 DEF FlowOK, LocalsOK, Label, Locals, Pairing
  <2>2. CASE \E label \in {"poll", "clear"} : Goto(f, label)
    <3>1. ~loc[f].retry
      BY <1>0, <1>17 DEF LocalsOK
    <3> QED
      BY <1>4, <1>17, <2>2, <3>1 DEF Label, Pairing
  <2> QED
    BY <1>17, <2>1, <2>2
<1>18. CASE Saved(f)
  <2>1. loc[f].client \in Client /\ loc[f].own \in 0..generated
    BY <1>0, <1>18 DEF Saved, LocalsOK
  <2>2. KeysOK'
    BY <1>0, <1>18, <2>1 DEF Saved, KeysOK, server
  <2> QED
    BY <1>0, <1>17, <1>18, <2>2 DEF Saved
<1>19. CASE Poll(f)
  BY <1>1, <1>17, <1>19 DEF Poll
<1>20. CASE Clear(f)
  BY <1>1, <1>3, <1>20 DEF Clear
<1>21. CASE Cleared(f)
  <2>1. cache' = [cache EXCEPT ![loc[f].client] = 0]
    BY <1>21 DEF Cleared
  <2>2. cache \in [Client -> 0..generated] /\ 0 \in 0..generated
    BY <1>0 DEF KeysOK
  <2>3. cache' \in [Client -> 0..generated]
    BY <2>1, <2>2
  <2>4. KeysOK'
    BY <1>0, <1>21, <2>3 DEF Cleared, KeysOK, server
  <2> QED
    BY <1>0, <1>2, <1>21, <2>4 DEF Cleared
<1>22. CASE RequestFails(f)
  BY <1>1, <1>2, <1>22 DEF RequestFails
<1>23. CASE Confirmed(f)
  <2>1. ~loc[f].retry /\ Same
    BY <1>0, <1>23 DEF Confirmed, LocalsOK
  <2> QED
    BY <1>1, <1>2, <1>4, <1>23, <2>1 DEF Confirmed, Label, Pairing
<1>24. CASE Keep(f) \/ Connect(f)
  BY <1>1, <1>2, <1>24 DEF Keep, Connect
<1> QED
  BY <1>5, <1>6, <1>7, <1>8, <1>9, <1>10, <1>11, <1>12, <1>14, <1>15, <1>16, <1>18, <1>19, <1>20,
     <1>21, <1>22, <1>23, <1>24 DEF Acts, Step

\* Closing a tab, and what the server and its users do.
LEMMA CloseType ==
  ASSUME TypeOK, LocalsTyped, GhostsOK', NEW c \in Client, Close(c)
  PROVE  TypeOK' /\ LocalsTyped'
<1> USE AuthAssumption
<1>1. KeysOK'
  BY DEF TypeOK, KeysOK, Close, server
<1>2. NoLocals \in Locals /\ "idle" \in Label
  BY DEF NoLocals, Locals, Label
<1>3. pc' \in [Flow -> Label] /\ loc' \in [Flow -> Locals]
  BY <1>2 DEF TypeOK, Close
<1>4. \A f \in Flow : \/ pc'[f] = "idle" /\ loc'[f] = NoLocals
                      \/ pc'[f] = pc[f] /\ loc'[f] = loc[f]
  BY DEF Close
<1>5. generated' = generated /\ generated \in Nat
  BY DEF TypeOK, Close
<1>6. ASSUME NEW f \in Flow PROVE LocalsOK(f)'
  <2>1. CASE pc'[f] = "idle" /\ loc'[f] = NoLocals
    BY <1>5, <2>1 DEF LocalsOK, NoLocals
  <2>2. CASE pc'[f] = pc[f] /\ loc'[f] = loc[f]
    BY <1>5, <2>2 DEF LocalsTyped, LocalsOK
  <2> QED
    BY <1>4, <2>1, <2>2
<1>7. \A f \in Flow : pc'[f] \in Pairing \/ loc'[f].retry => loc'[f].own # 0
  BY <1>4 DEF TypeOK, NoLocals, Pairing
<1> QED
  BY <1>1, <1>3, <1>6, <1>7 DEF TypeOK, KeysOK, GhostsOK, LocalsTyped

LEMMA OutsideType ==
  ASSUME TypeOK, LocalsTyped, GhostsOK', Outside
  PROVE  TypeOK' /\ LocalsTyped'
<1>1. UNCHANGED <<cache, generated, pc, loc>>
  BY DEF Outside, Logout, Lapse, Complete, Expire
<1>2. pending' \subseteq 1..generated /\ granted' \subseteq 1..generated
  BY DEF TypeOK, Outside, Logout, Lapse, Complete, Expire, server
<1>3. stored' \in 0..generated /\ expiry' \in {"none", "set", "past"}
  BY AuthAssumption DEF TypeOK, Outside, Logout, Delete, Store, Lapse, Complete, Expire
<1> QED
  BY <1>1, <1>2, <1>3 DEF TypeOK, GhostsOK, LocalsTyped, LocalsOK

LEMMA NextType ==
  ASSUME TypeOK, LocalsTyped, Move, Track
  PROVE  TypeOK' /\ LocalsTyped'
<1>1. GhostsOK'
  BY TrackType
<1>2. CASE \E f \in Flow : Acts(f)
  BY <1>1, <1>2, StepType, MoveType
<1>3. CASE \E c \in Client : Close(c)
  BY <1>1, <1>3, CloseType
<1>4. CASE Outside
  BY <1>1, <1>4, OutsideType
<1> QED
  BY <1>2, <1>3, <1>4 DEF Move

-----------------------------------------------------------------------------
(* What requests know of the storage. *)

\* How what a request knows follows a step of its own.
LEMMA OwnHistory ==
  ASSUME IInv, Track, NEW f \in Flow, pc'[f] # pc[f]
  PROVE  /\ pc'[f] \in {"send", "saved", "expired", "expiredKey"} =>
              view'[f] \in {"right", "misled"}
         /\ pc'[f] = "send" /\ view'[f] # "misled" => loc'[f].signed = stored'
         /\ pc'[f] \in {"ask", "save", "poll"} => view'[f] = view[f]
         /\ pc[f] = "poll" /\ pc'[f] = "clear" => view'[f] = view[f]
         /\ pc[f] = "send" /\ pc'[f] \in {"init", "clear"} =>
              \/ view'[f] = "misled"
              \/ loc[f].signed \notin granted /\ view[f] = "right" /\ stored \in granted
              \/ view'[f] = "refused"
              \/ view'[f] = view[f] /\ view[f] # "right"
BY DEF IInv, TypeOK, Track, Relying, Misleads, Passes, Looks, Refuses, View

\* What a request knows of the storage it still knows after a step of its own.
LEMMA KnowsOwn ==
  ASSUME IInv, Track, NEW f \in Flow, Acts(f)
  PROVE  Knows(f)'
<1>0. TypeOK /\ LocalsOK(f) /\ Knows(f)
  BY DEF IInv, LocalsTyped, StorageKnown
<1>1. ASSUME pc'[f] \notin {"send", "init", "ask", "save", "saved", "poll", "clear", "expired", "expiredKey"}
      PROVE  Knows(f)'
  BY <1>1 DEF Knows
<1>2. ASSUME pc[f] # "send", pc'[f] = "send"
      PROVE  Knows(f)'
  BY <1>2, OwnHistory DEF Knows
<1>3. CASE Begin(f) \/ Login(f)
  <2>1. pc'[f] \in {"check", "confirm", "connect"}
    BY <1>0, <1>3, Goes DEF Begin, Login, Announce
  <2> QED
    BY <1>1, <2>1
<1>4. ASSUME pc[f] \notin {"expired", "expiredKey"}, pc'[f] \in {"expired", "expiredKey"},
             StoredExpired, UNCHANGED <<stored, expiry>>
      PROVE  Knows(f)'
  <2>1. StoredExpired'
    BY <1>4 DEF StoredExpired
  <2> QED
    BY <1>4, <2>1 DEF Knows
<1>5. CASE Check(f)
  <2>1. \/ pc'[f] \in {"send", "sign"}
        \/ pc'[f] = "expired" /\ StoredExpired
    BY <1>0, <1>5, GoesOn DEF Check
  <2> QED
    BY <1>1, <1>2, <1>4, <1>5, <2>1 DEF Check
<1>6. CASE Sign(f)
  <2>1. pc'[f] \in {"load", "send"}
    BY <1>0, <1>6, Goes, GoesOn DEF Sign
  <2> QED
    BY <1>1, <1>2, <1>6, <2>1 DEF Sign
<1>7. CASE Load(f)
  <2>1. \/ pc'[f] = "loaded"
        \/ pc'[f] = "expiredKey" /\ StoredExpired
    BY <1>0, <1>7, Goes, GoesBare DEF Load
  <2> QED
    BY <1>1, <1>4, <1>7, <2>1 DEF Load
<1>8. CASE Loaded(f)
  <2>1. pc'[f] \in {"idle", "send"}
    BY <1>0, <1>8, Goes, Ends DEF Loaded
  <2> QED
    BY <1>1, <1>2, <1>8, <2>1 DEF Loaded
<1>9. CASE DropExpired(f)
  <2>1. pc'[f] \in {"idle", "send"}
    BY <1>0, <1>9, GoesOn, Ends DEF DropExpired
  <2> QED
    BY <1>1, <1>2, <1>9, <2>1 DEF DropExpired
<1>10. CASE Send(f)
  <2>1. \/ pc'[f] \in {"idle", "warn"}
        \/ pc'[f] = "init"
        \/ pc'[f] = "clear" /\ loc[f].retry /\ loc'[f] = [loc[f] EXCEPT !.signed = 0]
    BY <1>0, <1>10, Goes, GoesBare, Ends DEF Send
  <2>2. ASSUME pc'[f] \in {"init", "clear"} PROVE view'[f] # "right"
    BY <1>0, <1>10, <2>2, OwnHistory DEF Send, Knows
  <2>3. pc'[f] = "clear" => loc'[f].retry
    BY <1>0, <2>1 DEF TypeOK, Locals
  <2> QED
    BY <1>1, <2>1, <2>2, <2>3 DEF Knows
<1>11. CASE Warn(f)
  <2>1. \/ pc'[f] = "idle"
        \/ pc'[f] = "expiredKey" /\ StoredExpired
    BY <1>0, <1>11, GoesOn, Ends DEF Warn
  <2> QED
    BY <1>1, <1>4, <1>11, <2>1 DEF Warn
<1>12. CASE InitAuth(f)
  <2>1. pc'[f] = "ask"
    BY <1>0, <1>12, Goes DEF InitAuth, Announce
  <2> QED
    BY <1>0, <1>12, <2>1, OwnHistory DEF InitAuth, Knows
<1>13. CASE Asked(f)
  <2>1. pc'[f] \in {"idle", "save"}
    BY <1>0, <1>13, GoesOn, Ends DEF Asked
  <2> QED
    BY <1>0, <1>1, <1>13, <2>1, OwnHistory DEF Asked, Knows
<1>14. CASE Save(f)
  <2>1. pc'[f] = "saved" /\ loc'[f] = loc[f] /\ stored' = loc[f].own
    BY <1>0, <1>14, GoesOn DEF Save, Store
  <2> QED
    BY <2>1 DEF Knows
<1>15. CASE Saved(f)
  <2>1. \/ pc'[f] = "poll" /\ loc'[f] = loc[f]
        \/ pc'[f] = "sign"
    BY <1>0, <1>15, Goes, GoesOn DEF Saved, Retry
  <2>2. pc'[f] = "poll" => view'[f] = view[f]
    BY <1>15, OwnHistory DEF Saved
  <2> QED
    BY <1>0, <1>1, <1>15, <2>1, <2>2 DEF Saved, Knows
<1>16. CASE Poll(f)
  <2>1. \/ pc'[f] = "clear" /\ loc'[f] = loc[f]
        \/ pc'[f] = "sign"
    BY <1>0, <1>16, Goes, GoesOn DEF Poll, Retry
  <2>2. pc'[f] = "clear" => view'[f] = view[f] /\ ~loc[f].retry
    BY <1>0, <1>16, OwnHistory DEF Poll, LocalsOK
  <2> QED
    BY <1>0, <1>1, <1>16, <2>1, <2>2 DEF Poll, Knows
<1>17. CASE Clear(f)
  <2>1. pc'[f] = "cleared"
    BY <1>0, <1>17, GoesBare DEF Clear
  <2> QED
    BY <1>1, <2>1
<1>18. CASE Cleared(f) \/ RequestFails(f) \/ Keep(f) \/ Connect(f)
  BY <1>0, <1>1, <1>18, Ends DEF Cleared, RequestFails, Keep, Connect
<1>19. CASE Confirmed(f)
  BY <1>0, <1>1, <1>19, GoesOn, Ends DEF Confirmed
<1> QED
  BY <1>3, <1>5, <1>6, <1>7, <1>8, <1>9, <1>10, <1>11, <1>12, <1>13, <1>14, <1>15, <1>16, <1>17,
     <1>18, <1>19 DEF Acts, Step

\* And after a step that leaves the request as it is: it is misled if the storage
\* is not as it was.
LEMMA KnowsStill ==
  ASSUME IInv, Track, NEW f \in Flow, pc'[f] = pc[f], loc'[f] = loc[f]
  PROVE  Knows(f)'
<1>1. Knows(f)
  BY DEF IInv, StorageKnown
<1>2. ~Looks(f) /\ ~Refuses(f)
  BY DEF Looks, Refuses
<1>3. CASE pc[f] \notin Relying
  BY <1>3 DEF Knows, Relying
<1>4. CASE pc[f] \in Relying /\ <<stored, expiry>>' = <<stored, expiry>>
  <2>1. ~Misleads(f)
    BY <1>2, <1>4 DEF Misleads
  <2>2. view'[f] = view[f]
    BY <1>2, <1>4, <2>1, Zenon DEF Track
  <2> QED
    BY <1>1, <1>4, <2>2 DEF Knows, StoredExpired
<1>5. CASE pc[f] \in Relying /\ <<stored, expiry>>' # <<stored, expiry>>
  <2>1. Misleads(f)
    BY <1>5 DEF Misleads
  <2>2. view'[f] = "misled"
    BY <1>5, <2>1, Zenon DEF Track
  <2> QED
    BY <2>2 DEF Knows
<1> QED
  BY <1>3, <1>4, <1>5

LEMMA KnowsNext ==
  ASSUME IInv, Move, Track
  PROVE  StorageKnown'
<1> SUFFICES ASSUME NEW f \in Flow PROVE Knows(f)'
  BY DEF StorageKnown
<1>1. ASSUME NEW g \in Flow, Acts(g)
      PROVE  Knows(f)'
  <2>1. CASE g = f
    BY <1>1, <2>1, KnowsOwn
  <2>2. CASE g # f
    <3>1. pc'[f] = pc[f] /\ loc'[f] = loc[f]
      BY <1>1, <2>2, StepType DEF Moves, TypeOK, IInv
    <3> QED
      BY <3>1, KnowsStill
  <2> QED
    BY <2>1, <2>2
<1>2. ASSUME NEW c \in Client, Close(c)
      PROVE  Knows(f)'
  <2>1. CASE loc[f].client = c
    BY <1>2, <2>1 DEF Close, Knows
  <2>2. CASE loc[f].client # c
    BY <1>2, <2>2, KnowsStill DEF Close
  <2> QED
    BY <2>1, <2>2
<1>3. CASE Outside
  BY <1>3, KnowsStill DEF Outside, Logout, Lapse, Complete, Expire
<1> QED
  BY <1>1, <1>2, <1>3 DEF Move

-----------------------------------------------------------------------------
(* Requests that have stored their key. *)

\* A request that is undisturbed after a step is its client's only one then; it
\* was undisturbed before, unless it has stored its key in this step.
LEMMA Undisturbed ==
  ASSUME IInv, Track, LocalsTyped', NEW f \in Flow, Paired(f)'
  PROVE  /\ \A g \in Flow : g # f /\ InFlight(g)' => loc'[g].client # loc'[f].client
         /\ ~disturbed[f]
<1>1. pc'[f] # "idle"
  BY DEF LocalsTyped, LocalsOK, Paired
<1>2. \A g \in Flow : g # f /\ pc'[g] # "idle" => loc'[g].client # loc'[f].client
  BY <1>1 DEF Track, Paired
<1>3. ~disturbed[f]
  BY DEF Track, Paired
<1> QED
  BY <1>2, <1>3 DEF InFlight

\* The steps that leave a request with its key stored.
LEMMA PairedSteps ==
  ASSUME TypeOK, LocalsTyped, NEW f \in Flow, Acts(f), pc'[f] \in {"saved", "poll"} \/ loc'[f].retry
  PROVE  \/ Save(f) \/ Saved(f) \/ Poll(f)
         \/ loc[f].retry /\ (Sign(f) \/ Load(f) \/ Loaded(f) \/ Send(f))
<1>0. LocalsOK(f) /\ loc[f] \in Locals
  BY DEF LocalsTyped, TypeOK
<1>1. ~End(f)
  BY Ends DEF NoLocals
<1>2. \A label : GotoBare(f, label) => label \in {"saved", "poll"}
  BY GoesBare DEF NoLocals
<1>3. \A label : Goto(f, label) => loc[f].retry \/ label \in {"saved", "poll"}
  BY GoesOn
<1>4. ASSUME Sign(f) \/ Load(f) \/ Loaded(f) \/ Send(f)
      PROVE  loc[f].retry
  <2>1. CASE \E label \in {"load", "warn", "expiredKey"} : Goto(f, label) \/ GotoBare(f, label)
    BY <1>2, <1>3, <2>1
  <2>2. ASSUME NEW label \in {"send", "loaded", "init", "clear"}, NEW q,
               GotoWith(f, label, q), q.retry = loc[f].retry
        PROVE  loc[f].retry
    BY <2>2, Goes
  <2>3. CASE Sign(f)
    BY <1>0, <2>1, <2>2, <2>3 DEF Sign, Locals
  <2>4. CASE Load(f)
    BY <1>0, <2>1, <2>2, <2>4 DEF Load, Locals
  <2>5. CASE Loaded(f)
    BY <1>0, <1>1, <2>2, <2>5 DEF Loaded, Locals
  <2>6. CASE Send(f)
    BY <1>0, <1>1, <2>1, <2>2, <2>6 DEF Send, Locals
  <2> QED
    BY <1>4, <2>3, <2>4, <2>5, <2>6
<1>5. ~Begin(f)
  <2>1. ASSUME NEW c \in Client, GotoWith(f, "check", [NoLocals EXCEPT !.client = c])
        PROVE  FALSE
    <3>1. pc'[f] = "check" /\ loc'[f] = [NoLocals EXCEPT !.client = c]
      BY <2>1, Goes
    <3>2. ~loc'[f].retry
      BY <3>1 DEF NoLocals
    <3> QED
      BY <3>1, <3>2
  <2> QED
    BY <2>1 DEF Begin
<1>6. ~InitAuth(f) /\ ~Login(f)
  <2>1. ASSUME NEW label \in {"ask", "confirm", "connect"}, Announce(f, label), pc[f] \in {"init", "idle"}
        PROVE  FALSE
    <3>1. pc'[f] = label /\ loc'[f] = [loc[f] EXCEPT !.own = generated']
      BY <2>1, Goes DEF Announce
    <3>2. ~loc[f].retry
      BY <1>0, <2>1 DEF LocalsOK
    <3> QED
      BY <1>0, <2>1, <3>1, <3>2 DEF Locals
  <2> QED
    BY <2>1 DEF InitAuth, Login
<1>7. ~Check(f) /\ ~DropExpired(f) /\ ~Warn(f) /\ ~Asked(f) /\ ~Confirmed(f)
  <2>1. loc[f].retry => pc[f] \notin {"check", "expired", "expiredKey", "warn", "ask", "confirm"}
    BY <1>0 DEF LocalsOK
  <2> QED
    BY <1>1, <1>3, <2>1 DEF Check, DropExpired, Warn, Asked, Confirmed
<1>8. ~Clear(f) /\ ~Cleared(f) /\ ~RequestFails(f) /\ ~Keep(f) /\ ~Connect(f)
  BY <1>1, <1>2 DEF Clear, Cleared, RequestFails, Keep, Connect
<1> QED
  BY <1>4, <1>5, <1>6, <1>7, <1>8 DEF Acts, Step

LEMMA ServesOwn ==
  ASSUME IInv, Track, LocalsTyped', NEW f \in Flow, Acts(f)
  PROVE  Serves(f)'
<1> SUFFICES ASSUME Paired(f)'
             PROVE  /\ pc'[f] \notin {"saved", "clear"} => cache'[loc'[f].client] = loc'[f].own
                    /\ pc'[f] \notin {"load", "loaded"}
                    /\ pc'[f] = "send" => loc'[f].signed = loc'[f].own
  BY Undisturbed DEF Serves
<1>0. TypeOK /\ LocalsTyped /\ LocalsOK(f) /\ Serves(f) /\ ~disturbed[f]
  BY Undisturbed DEF IInv, LocalsTyped, PairedServe
<1>1. \/ Save(f) \/ Saved(f) \/ Poll(f)
      \/ loc[f].retry /\ (Sign(f) \/ Load(f) \/ Loaded(f) \/ Send(f))
  BY <1>0, PairedSteps DEF Paired
<1>2. CASE Save(f)
  <2>1. pc'[f] = "saved"
    BY <1>0, <1>2, GoesOn DEF Save
  <2> QED
    BY <2>1
<1>3. CASE Saved(f)
  <2>1. pc'[f] \in {"poll", "sign"} /\ loc'[f].client = loc[f].client /\ loc'[f].own = loc[f].own
    BY <1>0, <1>3, Goes, GoesOn DEF Saved, Retry, TypeOK, Locals
  <2>2. loc[f].client \in Client
    BY <1>0, <1>3 DEF Saved, LocalsOK
  <2> QED
    BY <1>0, <1>3, <2>1, <2>2 DEF Saved, TypeOK
<1>4. CASE Poll(f)
  <2>1. pc'[f] \in {"clear", "sign"} /\ loc'[f].client = loc[f].client /\ loc'[f].own = loc[f].own
    BY <1>0, <1>4, Goes, GoesOn DEF Poll, Retry, TypeOK, Locals
  <2> QED
    BY <1>0, <1>4, <2>1 DEF Poll, Paired, Serves
<1>5. CASE loc[f].retry /\ Sign(f)
  <2>1. cache[loc[f].client] = loc[f].own /\ loc[f].own # 0
    BY <1>0, <1>5 DEF Sign, Paired, Serves, TypeOK
  <2>2. pc'[f] = "send" /\ loc'[f] = [loc[f] EXCEPT !.signed = loc[f].own]
    BY <1>0, <1>5, <2>1, Goes DEF Sign
  <2> QED
    BY <1>0, <1>5, <2>1, <2>2 DEF Sign, TypeOK, Locals
<1>6. CASE loc[f].retry /\ (Load(f) \/ Loaded(f))
  BY <1>0, <1>6 DEF Load, Loaded, Paired, Serves
<1>7. CASE loc[f].retry /\ Send(f)
  <2>1. \/ pc'[f] = "clear"
        \/ pc'[f] = "warn" /\ ~loc'[f].retry
    BY <1>0, <1>7, Goes, GoesBare DEF Send, NoLocals
  <2> QED
    BY <2>1 DEF Paired
<1> QED
  BY <1>1, <1>2, <1>3, <1>4, <1>5, <1>6, <1>7

\* A step that leaves the request, and what its client caches, as they are.
LEMMA ServesStill ==
  ASSUME IInv, Track, LocalsTyped', NEW f \in Flow, pc'[f] = pc[f], loc'[f] = loc[f],
         Paired(f) => cache'[loc[f].client] = cache[loc[f].client]
  PROVE  Serves(f)'
<1> SUFFICES ASSUME Paired(f)' PROVE Serves(f)'
  BY DEF Serves
<1>1. Serves(f) /\ Paired(f)
  BY Undisturbed DEF IInv, PairedServe, Paired
<1> QED
  BY <1>1, Undisturbed DEF Serves, Paired

\* A request changes what its own client has cached.
LEMMA CacheOwn ==
  ASSUME TypeOK, NEW g \in Flow, Acts(g), NEW c \in Client, cache'[c] # cache[c]
  PROVE  InFlight(g) /\ loc[g].client = c
<1>1. CASE Loaded(g) \/ Saved(g) \/ Cleared(g)
  BY <1>1 DEF Loaded, Saved, Cleared, InFlight, TypeOK
<1> QED
  BY <1>1 DEF Acts, Begin, Login, Step, Check, Sign, Load, DropExpired, Send, Warn, InitAuth, Asked,
              Save, Poll, Clear, RequestFails, Confirmed, Keep, Connect

LEMMA ServesNext ==
  ASSUME IInv, Move, Track, LocalsTyped'
  PROVE  PairedServe'
<1> SUFFICES ASSUME NEW f \in Flow PROVE Serves(f)'
  BY DEF PairedServe
<1>0. TypeOK /\ Serves(f) /\ (Paired(f) => loc[f].client \in Client /\ InFlight(f))
  BY DEF IInv, PairedServe, LocalsTyped, LocalsOK, Paired, InFlight
<1>1. ASSUME NEW g \in Flow, Acts(g)
      PROVE  Serves(f)'
  <2>1. CASE g = f
    BY <1>1, <2>1, ServesOwn
  <2>2. CASE g # f
    <3>1. pc'[f] = pc[f] /\ loc'[f] = loc[f]
      BY <1>0, <1>1, <2>2, StepType DEF Moves, TypeOK, IInv
    <3>2. Paired(f) => cache'[loc[f].client] = cache[loc[f].client]
      BY <1>0, <1>1, <2>2, CacheOwn DEF Serves
    <3> QED
      BY <3>1, <3>2, ServesStill
  <2> QED
    BY <2>1, <2>2
<1>2. ASSUME NEW c \in Client, Close(c)
      PROVE  Serves(f)'
  <2>1. CASE loc[f].client = c
    <3>1. pc'[f] = "idle" /\ loc'[f] = NoLocals
      BY <1>2, <2>1 DEF Close
    <3> QED
      BY <3>1 DEF Serves, Paired, NoLocals
  <2>2. CASE loc[f].client # c
    <3>1. pc'[f] = pc[f] /\ loc'[f] = loc[f]
      BY <1>2, <2>2 DEF Close
    <3>2. Paired(f) => cache'[loc[f].client] = cache[loc[f].client]
      BY <1>0, <1>2, <2>2 DEF Close, TypeOK
    <3> QED
      BY <3>1, <3>2, ServesStill
  <2> QED
    BY <2>1, <2>2
<1>3. CASE Outside
  BY <1>3, ServesStill DEF Outside, Logout, Lapse, Complete, Expire
<1> QED
  BY <1>1, <1>2, <1>3 DEF Move

-----------------------------------------------------------------------------
(* The theorems. *)

LEMMA InitInv == Init => IInv
<1> SUFFICES ASSUME Init PROVE IInv
  OBVIOUS
<1> USE AuthAssumption
<1>1. NoLocals \in Locals /\ "idle" \in Label /\ ~NoLocals.retry
  BY DEF NoLocals, Locals, Label
<1>2. TypeOK
  BY <1>1 DEF Init, TypeOK, Pairing, View
<1>3. LocalsTyped
  <2>1. \A f \in Flow : pc[f] = "idle" /\ loc[f] = NoLocals
    BY DEF Init
  <2>2. 0 \in 0..generated
    BY DEF Init
  <2>3. NoLocals.signed = 0 /\ NoLocals.got = 0 /\ NoLocals.own = 0 /\ ~NoLocals.retry
    BY DEF NoLocals
  <2> QED
    BY <2>1, <2>2, <2>3 DEF LocalsTyped, LocalsOK
<1>4. StorageKnown
  BY DEF Init, StorageKnown, Knows
<1>5. PairedServe
  BY DEF Init, PairedServe, Serves, Paired, NoLocals
<1> QED
  BY <1>2, <1>3, <1>4, <1>5 DEF IInv

LEMMA NextInv == IInv /\ [Next]_vars => IInv'
<1> SUFFICES ASSUME IInv, [Next]_vars PROVE IInv'
  OBVIOUS
<1>1. CASE Next
  <2>1. Move /\ Track
    BY <1>1 DEF Next, Move, Acts, Outside
  <2>2. TypeOK' /\ LocalsTyped'
    BY <2>1, NextType DEF IInv
  <2> QED
    BY <2>1, <2>2, KnowsNext, ServesNext DEF IInv
<1>2. CASE UNCHANGED vars
  BY <1>2 DEF vars, server, ghosts, IInv, TypeOK, LocalsTyped, LocalsOK, StorageKnown, Knows, StoredExpired,
              PairedServe, Serves, Paired, InFlight
<1> QED
  BY <1>1, <1>2

\* In every reachable state what each request knows of the storage and of its
\* client's cache is so.
THEOREM Inductive == Spec => []IInv
BY InitInv, NextInv, PTL DEF Spec

\* The types of the storage, the caches, the server's stores and the requests
\* (client.ts, auth/middleware.ts).
THEOREM TypeCorrect == Spec => []TypeOK
<1>1. IInv => TypeOK
  BY DEF IInv
<1> QED
  BY <1>1, Inductive, PTL

\* One step of the third property, and of the second.
LEMMA KeptStep ==
  ASSUME IInv, [Next]_vars, stored \in granted, expiry # "past", stored' # stored, ~Logout
  PROVE  \E f \in Flow :
           /\ pc'[f] # pc[f]
           /\ \/ pc[f] \in {"keep", "connect"}
              \/ pc[f] = "clear" /\ ~loc[f].retry /\ stored = loc[f].own
              \/ /\ pc[f] \in {"save", "clear", "expired", "expiredKey"}
                 /\ view[f] # "right"
<1>0. TypeOK /\ ~StoredExpired
  BY DEF IInv, StoredExpired
<1>1. PICK f \in Flow : Save(f) \/ Clear(f) \/ DropExpired(f) \/ Keep(f) \/ Connect(f)
  BY DEF vars, Next, Close, Complete, Expire, Lapse, Begin, Login, Step, Check, Sign, Load, Loaded,
         Send, Warn, InitAuth, Asked, Saved, Poll, Cleared, RequestFails, Confirmed
<1>2. pc'[f] # pc[f]
  <2>1. CASE Save(f)
    BY <1>0, <2>1, GoesOn DEF Save
  <2>2. CASE Clear(f)
    <3>1. pc[f] = "clear" /\ GotoBare(f, "cleared")
      BY <2>2 DEF Clear
    <3>2. pc'[f] = "cleared"
      BY <1>0, <3>1, GoesBare
    <3> QED
      BY <3>1, <3>2
  <2>3. CASE DropExpired(f)
    BY <1>0, <2>3, GoesOn, Ends DEF DropExpired
  <2>4. CASE Keep(f) \/ Connect(f)
    BY <1>0, <2>4, Ends DEF Keep, Connect
  <2> QED
    BY <1>1, <2>1, <2>2, <2>3, <2>4
<1>3. loc[f].retry \in BOOLEAN
  BY <1>0 DEF TypeOK, Locals
<1>4. \/ pc[f] \in {"keep", "connect"}
      \/ pc[f] = "clear" /\ ~loc[f].retry /\ stored = loc[f].own
      \/ pc[f] \in {"save", "clear", "expired", "expiredKey"} /\ view[f] # "right"
  BY <1>0, <1>1, <1>3 DEF IInv, StorageKnown, Knows, Save, Clear, DropExpired, Keep, Connect
<1> QED
  BY <1>2, <1>4

LEMMA ServesStep ==
  ASSUME IInv, [Next]_vars, NEW f \in Flow,
         pc[f] = "send", loc[f].retry, loc[f].own \in granted, pc'[f] = "clear"
  PROVE  disturbed[f] \/ loc[f].signed = loc[f].own
BY DEF IInv, PairedServe, Serves, Paired

\* A key the user has authorised, and that has not expired, leaves the storage
\* only by a login or a logout (use-awp-auth.ts), by the request that paired it,
\* when polling is over, or by one that was refused before the user confirmed, or
\* was misled: handleUnauthorized, clearKey and the load of an expired key
\* (auth.ts, indexed-db-storage.ts).
THEOREM Kept == Spec => GrantedKeysKept
<1>1. IInv /\ [Next]_vars =>
        [(stored \in granted) /\ expiry # "past" /\ stored' # stored =>
           \/ Logout
           \/ \E f \in Flow :
                /\ pc'[f] # pc[f]
                /\ \/ pc[f] \in {"keep", "connect"}
                   \/ pc[f] = "clear" /\ ~loc[f].retry /\ stored = loc[f].own
                   \/ /\ pc[f] \in {"save", "clear", "expired", "expiredKey"}
                      /\ view[f] # "right"]_vars
  BY KeptStep
<1> QED
  BY <1>1, Inductive, PTL DEF Spec, GrantedKeysKept

\* The retry after a confirmed pairing is signed with the key it paired, unless
\* other requests of the same client were in flight (handleUnauthorized and sign in
\* auth.ts).
THEOREM ConfirmedServe == Spec => ConfirmedPairingsServe
<1>1. IInv /\ [Next]_vars =>
        [\A f \in Flow :
           pc[f] = "send" /\ loc[f].retry /\ loc[f].own \in granted /\ pc'[f] = "clear" =>
             disturbed[f] \/ loc[f].signed = loc[f].own]_vars
  BY ServesStep
<1> QED
  BY <1>1, Inductive, PTL DEF Spec, ConfirmedPairingsServe
=============================================================================
