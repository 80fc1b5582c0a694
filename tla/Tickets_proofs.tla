--------------------------- MODULE Tickets_proofs ---------------------------
(***************************************************************************)
(* Proofs about Tickets, for any tickets, outputs, callers and slots.      *)
(***************************************************************************)
EXTENDS Tickets, FiniteSetTheorems, TLAPS

-----------------------------------------------------------------------------
(* The inductive invariant.  What it adds to the properties is that nothing *)
(* is known of a ticket before its id is drawn.                             *)

\* Ids that are not drawn have no row, no answer and no request.
OnlyCreated ==
  /\ \A t \in Ticket : row[t] # NoRow => t \in created
  /\ \A c \in commits : c[1] \in created
  /\ \A v \in revocations : v[1] \in created
  /\ deletions \subseteq created
  /\ \A p \in Proc : pc[p] # "idle" => req[p].ticket \in created

Answers == CommitAnswersAgree /\ RevocationsDurable /\ DeletionsDurable

IInv == TypeOK /\ OnlyCreated /\ Answers

\* A step that changes no row and gives no answer.
NoAnswer == UNCHANGED <<row, commits, revocations, deletions>>

\* The part of TypeOK and OnlyCreated about one request.
RequestInv(p) ==
  /\ pc[p] \in Step
  /\ req[p] \in CommitRequest \cup RevokeRequest \cup OtherRequest \cup {NoRequest}
  /\ pc[p] = "idle" => req[p] = NoRequest
  /\ pc[p] \in CommitSteps => req[p] \in CommitRequest
  /\ pc[p] \in RevokeSteps => req[p] \in RevokeRequest
  /\ pc[p] \in UploadSteps \cup DeleteSteps => req[p] \in OtherRequest
  /\ pc[p] # "idle" => req[p].ticket \in created

Moves(p) ==
  /\ pc' = [pc EXCEPT ![p] = pc'[p]]
  /\ req' = [req EXCEPT ![p] = req'[p]]

-----------------------------------------------------------------------------
(* Rows. *)

\* An item that is a ticket has a ticket's attributes.
LEMMA TicketRow ==
  ASSUME TypeOK, NEW t \in Ticket, IsTicket(t)
  PROVE  row[t] \in Row
BY DEF TypeOK, IsTicket

\* A request's ticket is a ticket id.
LEMMA RequestTicket ==
  ASSUME TypeOK, NEW p \in Proc, pc[p] # "idle"
  PROVE  req[p].ticket \in Ticket
BY DEF TypeOK, Step, UploadSteps, CommitSteps, RevokeSteps, DeleteSteps, CommitRequest,
       RevokeRequest, OtherRequest

\* Answers stay true while rows do.
LEMMA AnswersKept ==
  ASSUME Answers, NoAnswer
  PROVE  Answers'
BY DEF Answers, NoAnswer, CommitAnswersAgree, RevocationsDurable, DeletionsDurable, IsTicket

-----------------------------------------------------------------------------
(* Steps of one request that touch no row. *)

\* The requests after a step of one of them.
LEMMA RequestsKept ==
  ASSUME IInv, NEW p \in Proc, Moves(p), RequestInv(p)', created \subseteq created'
  PROVE  \A o \in Proc : RequestInv(o)'
<1>1. ASSUME NEW o \in Proc \ {p}
      PROVE  pc'[o] = pc[o] /\ req'[o] = req[o]
  BY DEF IInv, TypeOK, Moves
<1>2. \A o \in Proc \ {p} : RequestInv(o)
  BY DEF IInv, TypeOK, OnlyCreated, RequestInv
<1>3. \A o \in Proc \ {p} : RequestInv(o)'
  BY <1>1, <1>2 DEF RequestInv
<1> QED
  BY <1>3

\* A step that only moves a request, an upload included, keeps the invariant.
LEMMA QuietStep ==
  ASSUME IInv, NEW p \in Proc, Moves(p), RequestInv(p)',
         NoAnswer, UNCHANGED <<created, expired>>,
         late' \in [Ticket -> Nat]
  PROVE  IInv'
<1>1. \A o \in Proc : RequestInv(o)'
  BY RequestsKept
<1>2. TypeOK'
  <2>1. pc' \in [Proc -> Step]
    BY <1>1 DEF IInv, TypeOK, Moves, RequestInv
  <2>2. req' \in [Proc -> CommitRequest \cup RevokeRequest \cup OtherRequest \cup {NoRequest}]
    BY <1>1 DEF IInv, TypeOK, Moves, RequestInv
  <2> QED
    BY <1>1, <2>1, <2>2 DEF IInv, TypeOK, NoAnswer, RequestInv
<1>3. OnlyCreated'
  BY <1>1 DEF IInv, OnlyCreated, NoAnswer, RequestInv
<1> QED
  BY <1>2, <1>3, AnswersKept DEF IInv

\* Where End and Goto leave the request that takes them.
LEMMA Control ==
  ASSUME TypeOK, NEW p \in Proc
  PROVE  /\ End(p) => Moves(p) /\ pc'[p] = "idle" /\ req'[p] = NoRequest
         /\ \A l \in Step : Goto(p, l) /\ req' = [req EXCEPT ![p] = req'[p]] => Moves(p) /\ pc'[p] = l
BY DEF TypeOK, End, Goto, Moves

-----------------------------------------------------------------------------
(* Requests that read. *)

\* A new request knows a ticket whose id is drawn.
LEMMA BeginInv ==
  ASSUME IInv, NEW p \in Proc, NEW l, NEW q, Begin(p, l, q), UNCHANGED <<table, ghosts>>,
         q.ticket \in created,
         \/ l = "authUpload" /\ q \in OtherRequest
         \/ l = "authCommit" /\ q \in CommitRequest
         \/ l = "readRevoke" /\ q \in RevokeRequest
         \/ l = "readDelete" /\ q \in OtherRequest
  PROVE  IInv'
<1>1. Moves(p) /\ pc'[p] = l /\ req'[p] = q
  BY DEF IInv, TypeOK, Begin, Goto, Moves
<1>2. RequestInv(p)'
  BY <1>1 DEF RequestInv, Step, UploadSteps, CommitSteps, RevokeSteps, DeleteSteps, table
<1> QED
  BY <1>1, <1>2, QuietStep DEF IInv, TypeOK, NoAnswer, table, ghosts

\* The entries of the four requests.
LEMMA ReceiveInv ==
  ASSUME IInv, NEW p \in Proc, Receive(p)
  PROVE  IInv'
<1>1. ASSUME NEW t \in Ticket, ReceiveUpload(p, t) PROVE IInv'
  <2>1. [ticket |-> t] \in OtherRequest
    BY DEF OtherRequest
  <2> QED
    BY <1>1, <2>1, BeginInv DEF ReceiveUpload
<1>2. ASSUME NEW t \in Ticket, NEW x \in Root, ReceiveCommit(p, t, x) PROVE IInv'
  <2>1. [ticket |-> t, output |-> x] \in CommitRequest
    BY DEF CommitRequest
  <2> QED
    BY <1>2, <2>1, BeginInv DEF ReceiveCommit
<1>3. ASSUME NEW t \in Ticket, NEW c \in Caller, ReceiveRevoke(p, t, c) PROVE IInv'
  <2>1. [ticket |-> t, caller |-> c, seen |-> NoRoot] \in RevokeRequest
    BY DEF RevokeRequest
  <2> QED
    BY <1>3, <2>1, BeginInv DEF ReceiveRevoke
<1>4. ASSUME NEW t \in Ticket, ReceiveDelete(p, t) PROVE IInv'
  <2>1. [ticket |-> t] \in OtherRequest
    BY DEF OtherRequest
  <2> QED
    BY <1>4, <2>1, BeginInv DEF ReceiveDelete
<1> QED
  BY <1>1, <1>2, <1>3, <1>4 DEF Receive

\* A request that ends without an answer, dead or refused.
LEMMA EndInv ==
  ASSUME IInv, NEW p \in Proc, End(p), UNCHANGED <<table, ghosts>>
  PROVE  IInv'
<1>1. Moves(p) /\ pc'[p] = "idle" /\ req'[p] = NoRequest
  BY Control DEF IInv
<1>2. RequestInv(p)'
  BY <1>1 DEF RequestInv, Step, UploadSteps, CommitSteps, RevokeSteps, DeleteSteps
<1> QED
  BY <1>1, <1>2, QuietStep DEF IInv, TypeOK, NoAnswer, table, ghosts

\* A request that goes on to the next await with the same kind of locals.
LEMMA GoOnInv ==
  ASSUME IInv, NEW p \in Proc, NEW l, Goto(p, l), UNCHANGED <<table, req, ghosts>>,
         \/ pc[p] \in UploadSteps /\ l \in UploadSteps
         \/ pc[p] \in CommitSteps /\ l \in CommitSteps
         \/ pc[p] \in RevokeSteps /\ l \in RevokeSteps
         \/ pc[p] \in DeleteSteps /\ l \in DeleteSteps
  PROVE  IInv'
<1> USE DEF UploadSteps, CommitSteps, RevokeSteps, DeleteSteps
<1>1. Moves(p) /\ pc'[p] = l
  BY DEF IInv, TypeOK, Goto, Moves
<1>2. RequestInv(p)
  BY DEF IInv, TypeOK, OnlyCreated, RequestInv
<1>3. RequestInv(p)'
  BY <1>1, <1>2 DEF RequestInv, Step, table
<1> QED
  BY <1>1, <1>3, QuietStep DEF IInv, TypeOK, NoAnswer, table, ghosts

\* The controller's read of revoke, which keeps the root for the reply.
LEMMA ReadRevokeInv ==
  ASSUME IInv, NEW p \in Proc, ReadRevoke(p)
  PROVE  IInv'
<1> DEFINE t == req[p].ticket
<1>1. CASE Found(t) /\ ~row[t].revoked
  <2>1. row[t].root \in Root \cup {NoRoot}
    BY <1>1, TicketRow, RequestTicket DEF ReadRevoke, IInv, Found, Row
  <2>2. Goto(p, "checkRevoke") /\ req' = [req EXCEPT ![p].seen = row[t].root]
    BY <1>1 DEF ReadRevoke
  <2>3. Moves(p) /\ pc'[p] = "checkRevoke" /\ req'[p] = [req[p] EXCEPT !.seen = row[t].root]
    BY <2>2 DEF IInv, TypeOK, Goto, Moves
  <2>4. req[p] \in RevokeRequest /\ t \in created
    BY DEF ReadRevoke, IInv, TypeOK, OnlyCreated, RevokeSteps
  <2>5. req'[p] \in RevokeRequest /\ req'[p].ticket = t
    BY <2>1, <2>3, <2>4 DEF RevokeRequest
  <2>6. RequestInv(p)'
    BY <2>3, <2>4, <2>5
       DEF RequestInv, ReadRevoke, Step, UploadSteps, CommitSteps, RevokeSteps, DeleteSteps, table
  <2> QED
    BY <2>3, <2>6, QuietStep DEF ReadRevoke, IInv, TypeOK, NoAnswer, table, ghosts
<1>2. CASE ~(Found(t) /\ ~row[t].revoked)
  BY <1>2, EndInv DEF ReadRevoke
<1> QED
  BY <1>1, <1>2

\* The other reads end the request or only send it on.
LEMMA ReadInv ==
  ASSUME IInv, NEW p \in Proc,
         AuthUpload(p) \/ AuthCommit(p) \/ ReadCommit(p) \/ CheckRevoke(p) \/ ReadDelete(p)
  PROVE  IInv'
<1> USE DEF UploadSteps, CommitSteps, RevokeSteps, DeleteSteps
<1>1. UNCHANGED <<table, ghosts>>
  BY DEF AuthUpload, AuthCommit, ReadCommit, CheckRevoke, ReadDelete
<1>2. CASE End(p)
  BY <1>1, <1>2, EndInv
<1>3. CASE ~End(p)
  <2>1. PICK l :
          /\ Goto(p, l) /\ UNCHANGED req
          /\ \/ pc[p] \in UploadSteps /\ l \in UploadSteps
             \/ pc[p] \in CommitSteps /\ l \in CommitSteps
             \/ pc[p] \in RevokeSteps /\ l \in RevokeSteps
             \/ pc[p] \in DeleteSteps /\ l \in DeleteSteps
    <3>1. CASE AuthUpload(p)
      <4>1. pc[p] = "authUpload" /\ Goto(p, "upload") /\ UNCHANGED req
        BY <1>3, <3>1 DEF AuthUpload
      <4> QED
        BY <4>1
    <3>2. CASE AuthCommit(p)
      <4>1. pc[p] = "authCommit" /\ Goto(p, "readCommit") /\ UNCHANGED req
        BY <1>3, <3>2 DEF AuthCommit
      <4> QED
        BY <4>1
    <3>3. CASE ReadCommit(p)
      <4>1. pc[p] = "readCommit" /\ Goto(p, "markCommitted") /\ UNCHANGED req
        BY <1>3, <3>3 DEF ReadCommit
      <4> QED
        BY <4>1
    <3>4. CASE CheckRevoke(p)
      <4>1. pc[p] = "checkRevoke" /\ Goto(p, "markRevoked") /\ UNCHANGED req
        BY <1>3, <3>4 DEF CheckRevoke
      <4> QED
        BY <4>1
    <3>5. CASE ReadDelete(p)
      <4>1. pc[p] = "readDelete" /\ Goto(p, "deleteRow") /\ UNCHANGED req
        BY <1>3, <3>5 DEF ReadDelete
      <4> QED
        BY <4>1
    <3> QED
      BY <3>1, <3>2, <3>3, <3>4, <3>5
  <2> QED
    BY <1>1, <2>1, GoOnInv
<1> QED
  BY <1>2, <1>3

\* An upload that lands changes no ticket.
LEMMA UploadInv ==
  ASSUME IInv, NEW p \in Proc, Upload(p)
  PROVE  IInv'
<1>1. Moves(p) /\ pc'[p] = "idle" /\ req'[p] = NoRequest
  BY Control DEF IInv, Upload
<1>2. RequestInv(p)'
  BY <1>1 DEF RequestInv, Step, UploadSteps, CommitSteps, RevokeSteps, DeleteSteps
<1>3. late' \in [Ticket -> Nat]
  <2>1. late \in [Ticket -> Nat]
    BY DEF IInv, TypeOK
  <2> DEFINE t == req[p].ticket
  <2>2. late' = [late EXCEPT ![t] = IF StatusOf(t) = "issued" THEN late[t] ELSE late[t] + 1]
    BY DEF Upload
  <2>3. t \in Ticket
    BY RequestTicket DEF Upload, IInv
  <2>4. (IF StatusOf(t) = "issued" THEN late[t] ELSE late[t] + 1) \in Nat
    BY <2>1, <2>3
  <2> QED
    BY <2>1, <2>2, <2>4
<1> QED
  BY <1>1, <1>2, <1>3, QuietStep DEF Upload, NoAnswer, table

-----------------------------------------------------------------------------
(* Steps that write a row. *)

\* The reply that a writing step gives ends its request; the rest is about rows.
LEMMA WriteEnd ==
  ASSUME IInv, NEW p \in Proc, End(p), UNCHANGED <<created, expired, late>>,
         row' \in [Ticket -> Row \cup {NoRow, Stray}],
         commits' \subseteq Ticket \X Root,
         revocations' \subseteq Ticket \X {"revoked", "archived"},
         deletions' \subseteq Ticket
  PROVE  TypeOK' /\ \A o \in Proc : RequestInv(o)'
<1>1. Moves(p) /\ pc'[p] = "idle" /\ req'[p] = NoRequest
  BY Control DEF IInv
<1>2. RequestInv(p)'
  BY <1>1 DEF RequestInv, Step, UploadSteps, CommitSteps, RevokeSteps, DeleteSteps
<1>3. \A o \in Proc : RequestInv(o)'
  BY <1>1, <1>2, RequestsKept
<1>4. pc' \in [Proc -> Step]
  BY <1>1, <1>3 DEF IInv, TypeOK, Moves, RequestInv
<1>5. req' \in [Proc -> CommitRequest \cup RevokeRequest \cup OtherRequest \cup {NoRequest}]
  BY <1>1, <1>3 DEF IInv, TypeOK, Moves, RequestInv
<1> QED
  BY <1>3, <1>4, <1>5 DEF IInv, TypeOK, RequestInv

\* A commit writes only a ticket without a root, so no earlier answer speaks of it.
LEMMA MarkCommittedInv ==
  ASSUME IInv, NEW p \in Proc, MarkCommitted(p)
  PROVE  IInv'
<1> DEFINE t == req[p].ticket
           x == req[p].output
<1>1. End(p) /\ UNCHANGED <<created, expired, revocations, deletions, late>>
  BY DEF MarkCommitted
<1>2. t \in Ticket /\ x \in Root /\ t \in created
  BY DEF MarkCommitted, IInv, TypeOK, OnlyCreated, CommitSteps, CommitRequest
<1>3. CASE IsTicket(t) /\ row[t].root = NoRoot
  <2>1. /\ row' = [row EXCEPT ![t] = [row[t] EXCEPT !.root = x]]
        /\ commits' = commits \cup {<<t, x>>}
    BY <1>3 DEF MarkCommitted
  <2>2. row[t] \in Row
    BY <1>2, <1>3, TicketRow DEF IInv
  <2>3. row'[t] \in Row /\ row'[t].root = x /\ row'[t].revoked = row[t].revoked
    BY <1>2, <2>1, <2>2 DEF IInv, TypeOK, Row
  <2>4. \A u \in Ticket \ {t} : row'[u] = row[u]
    BY <2>1 DEF IInv, TypeOK
  <2>5. TypeOK' /\ \A o \in Proc : RequestInv(o)'
    <3>1. row' \in [Ticket -> Row \cup {NoRow, Stray}]
      BY <1>2, <2>1, <2>3 DEF IInv, TypeOK
    <3>2. commits' \subseteq Ticket \X Root
      BY <1>2, <2>1 DEF IInv, TypeOK
    <3> QED
      BY <1>1, <3>1, <3>2, WriteEnd DEF IInv, TypeOK
  <2>6. OnlyCreated'
    <3>1. \A u \in Ticket : row'[u] # NoRow => u \in created
      BY <1>2, <2>4 DEF IInv, OnlyCreated
    <3>2. \A c \in commits' : c[1] \in created
      BY <1>2, <2>1 DEF IInv, OnlyCreated
    <3> QED
      BY <1>1, <2>5, <3>1, <3>2 DEF IInv, OnlyCreated, RequestInv
  <2>7. \A c \in commits : c[1] # t
    BY <1>2, <1>3, TicketAssumption DEF IInv, Answers, CommitAnswersAgree, TypeOK
  <2>8. CommitAnswersAgree'
    BY <1>2, <2>1, <2>3, <2>4, <2>7 DEF IInv, Answers, CommitAnswersAgree, IsTicket, TypeOK
  <2>9. RevocationsDurable'
    BY <1>1, <1>3, <2>3, <2>4 DEF IInv, Answers, RevocationsDurable, IsTicket, TypeOK
  <2>10. DeletionsDurable'
    BY <1>1, <1>3, <2>4 DEF IInv, Answers, DeletionsDurable, IsTicket, TypeOK
  <2> QED
    BY <2>5, <2>6, <2>8, <2>9, <2>10 DEF IInv, Answers
<1>4. CASE ~(IsTicket(t) /\ row[t].root = NoRoot)
  BY <1>1, <1>4, EndInv DEF MarkCommitted, table, ghosts
<1> QED
  BY <1>3, <1>4

\* A revocation sets the flag of a ticket, or leaves what is no ticket.
LEMMA MarkRevokedInv ==
  ASSUME IInv, NEW p \in Proc, MarkRevoked(p)
  PROVE  IInv'
<1>t. PICK t \in Ticket : t = req[p].ticket
  BY RequestTicket DEF MarkRevoked, IInv
<1> DEFINE s == IF req[p].seen = NoRoot THEN "revoked" ELSE "archived"
<1>1. End(p) /\ UNCHANGED <<created, expired, commits, deletions, late>>
  BY DEF MarkRevoked
<1>2. t \in Ticket /\ t \in created
  BY <1>t DEF MarkRevoked, IInv, OnlyCreated
<1>3. /\ row' = [row EXCEPT ![t] =
                   IF IsTicket(t) THEN [row[t] EXCEPT !.revoked = TRUE] ELSE Stray]
      /\ revocations' = revocations \cup {<<t, s>>}
  BY <1>t DEF MarkRevoked
<1>4. \A u \in Ticket \ {t} : row'[u] = row[u]
  BY <1>3 DEF IInv, TypeOK
<1>5. /\ row'[t] \in Row \cup {Stray}
      /\ IsTicket(t)' => IsTicket(t) /\ row'[t].root = row[t].root /\ row'[t].revoked
  <2>1. CASE IsTicket(t)
    <3>1. row[t] \in Row
      BY <1>2, <2>1, TicketRow DEF IInv
    <3>2. row'[t] = [row[t] EXCEPT !.revoked = TRUE]
      BY <1>2, <1>3, <2>1 DEF IInv, TypeOK
    <3> QED
      BY <2>1, <3>1, <3>2 DEF Row
  <2>2. CASE ~IsTicket(t)
    BY <1>2, <1>3, <2>2 DEF IInv, TypeOK, IsTicket, Stray
  <2> QED
    BY <2>1, <2>2
<1>6. TypeOK' /\ \A o \in Proc : RequestInv(o)'
  <2>1. row' \in [Ticket -> Row \cup {NoRow, Stray}]
    BY <1>2, <1>3, <1>5 DEF IInv, TypeOK
  <2>2. revocations' \subseteq Ticket \X {"revoked", "archived"}
    BY <1>2, <1>3 DEF IInv, TypeOK
  <2> QED
    BY <1>1, <2>1, <2>2, WriteEnd DEF IInv, TypeOK
<1>7. OnlyCreated'
  <2>1. \A u \in Ticket : row'[u] # NoRow => u \in created
    BY <1>2, <1>4 DEF IInv, OnlyCreated
  <2>2. \A v \in revocations' : v[1] \in created
    BY <1>2, <1>3 DEF IInv, OnlyCreated
  <2> QED
    BY <1>1, <1>6, <2>1, <2>2 DEF IInv, OnlyCreated, RequestInv
<1>8. CommitAnswersAgree'
  BY <1>1, <1>4, <1>5 DEF IInv, Answers, CommitAnswersAgree, IsTicket, TypeOK
<1>9. RevocationsDurable'
  BY <1>2, <1>3, <1>4, <1>5 DEF IInv, Answers, RevocationsDurable, IsTicket, TypeOK
<1>10. DeletionsDurable'
  BY <1>1, <1>4, <1>5 DEF IInv, Answers, DeletionsDurable, IsTicket, TypeOK
<1> QED
  BY <1>6, <1>7, <1>8, <1>9, <1>10 DEF IInv, Answers

\* A deletion leaves nothing for an answer to be wrong about.
LEMMA DeleteRowInv ==
  ASSUME IInv, NEW p \in Proc, DeleteRow(p)
  PROVE  IInv'
<1>t. PICK t \in Ticket : t = req[p].ticket
  BY RequestTicket DEF DeleteRow, IInv
<1>1. End(p) /\ UNCHANGED <<created, expired, commits, revocations, late>>
  BY DEF DeleteRow
<1>2. t \in Ticket /\ t \in created
  BY <1>t DEF DeleteRow, IInv, OnlyCreated
<1>3. row' = [row EXCEPT ![t] = NoRow] /\ deletions' = deletions \cup {t}
  BY <1>t DEF DeleteRow
<1>4. /\ \A u \in Ticket \ {t} : row'[u] = row[u]
      /\ row'[t] = NoRow /\ ~IsTicket(t)'
  BY <1>2, <1>3 DEF IInv, TypeOK, IsTicket
<1>5. TypeOK' /\ \A o \in Proc : RequestInv(o)'
  <2>1. row' \in [Ticket -> Row \cup {NoRow, Stray}]
    BY <1>2, <1>3 DEF IInv, TypeOK
  <2> QED
    BY <1>1, <1>2, <1>3, <2>1, WriteEnd DEF IInv, TypeOK
<1>6. OnlyCreated'
  BY <1>1, <1>2, <1>3, <1>4, <1>5 DEF IInv, OnlyCreated, RequestInv
<1>7. CommitAnswersAgree'
  BY <1>1, <1>4 DEF IInv, Answers, CommitAnswersAgree, IsTicket, TypeOK
<1>8. RevocationsDurable'
  BY <1>1, <1>4 DEF IInv, Answers, RevocationsDurable, IsTicket, TypeOK
<1>9. DeletionsDurable'
  BY <1>3, <1>4 DEF IInv, Answers, DeletionsDurable, IsTicket, TypeOK
<1> QED
  BY <1>5, <1>6, <1>7, <1>8, <1>9 DEF IInv, Answers

\* A new ticket has an id that no answer mentions.
LEMMA CreateInv ==
  ASSUME IInv, NEW t \in Ticket, NEW w \in BOOLEAN, NEW c \in Caller, Create(t, w, c)
  PROVE  IInv'
<1>1. /\ t \notin created
      /\ row' = [row EXCEPT ![t] = NewRow(w, c)]
      /\ created' = created \cup {t}
      /\ UNCHANGED <<expired, pc, req, ghosts>>
  BY DEF Create
<1>2. NewRow(w, c) \in Row
  BY DEF NewRow, Row
<1>3. TypeOK'
  <2>1. row' \in [Ticket -> Row \cup {NoRow, Stray}]
    BY <1>1, <1>2 DEF IInv, TypeOK
  <2> QED
    BY <1>1, <2>1 DEF IInv, TypeOK, ghosts
<1>4. \A u \in Ticket \ {t} : row'[u] = row[u]
  BY <1>1 DEF IInv, TypeOK
<1>5. OnlyCreated'
  BY <1>1, <1>4 DEF IInv, OnlyCreated, ghosts
<1>6. Answers'
  BY <1>1, <1>4 DEF IInv, Answers, OnlyCreated, CommitAnswersAgree, RevocationsDurable,
                    DeletionsDurable, IsTicket, TypeOK, ghosts
<1> QED
  BY <1>3, <1>5, <1>6 DEF IInv

\* No property looks at the clock.
LEMMA ExpireInv ==
  ASSUME IInv, NEW t \in Ticket, Expire(t)
  PROVE  IInv'
<1>1. TypeOK'
  BY DEF Expire, IInv, TypeOK, ghosts
<1>2. OnlyCreated'
  BY DEF Expire, IInv, OnlyCreated, ghosts
<1> QED
  BY <1>1, <1>2, AnswersKept DEF Expire, IInv, NoAnswer, ghosts

-----------------------------------------------------------------------------
(* The theorems. *)

\* The invariant holds before any request.
LEMMA InitInv == Init => IInv
<1> SUFFICES ASSUME Init PROVE IInv
  OBVIOUS
<1>1. TypeOK
  BY DEF Init, TypeOK, Step, UploadSteps, CommitSteps, RevokeSteps, DeleteSteps
<1> QED
  BY <1>1 DEF Init, IInv, OnlyCreated, Answers, CommitAnswersAgree, RevocationsDurable,
              DeletionsDurable

\* Every step keeps it.
LEMMA StepInv == IInv /\ [Next]_vars => IInv'
<1> SUFFICES ASSUME IInv, [Next]_vars PROVE IInv'
  OBVIOUS
<1>1. CASE \E t \in Ticket : \E w \in BOOLEAN, c \in Caller : Create(t, w, c)
  BY <1>1, CreateInv
<1>2. CASE \E t \in Ticket : Expire(t)
  BY <1>2, ExpireInv
<1>3. ASSUME NEW p \in Proc, Receive(p) \/ Handle(p) \/ Die(p)
      PROVE  IInv'
  <2>1. CASE Receive(p)
    BY <2>1, ReceiveInv
  <2>2. CASE AuthUpload(p) \/ AuthCommit(p) \/ ReadCommit(p) \/ CheckRevoke(p) \/ ReadDelete(p)
    BY <2>2, ReadInv
  <2>3. CASE ReadRevoke(p)
    BY <2>3, ReadRevokeInv
  <2>4. CASE Upload(p)
    BY <2>4, UploadInv
  <2>5. CASE MarkCommitted(p)
    BY <2>5, MarkCommittedInv
  <2>6. CASE MarkRevoked(p)
    BY <2>6, MarkRevokedInv
  <2>7. CASE DeleteRow(p)
    BY <2>7, DeleteRowInv
  <2>8. CASE Die(p)
    BY <2>8, EndInv DEF Die
  <2> QED
    BY <1>3, <2>1, <2>2, <2>3, <2>4, <2>5, <2>6, <2>7, <2>8 DEF Handle
<1>4. CASE UNCHANGED vars
  <2>1. TypeOK'
    BY <1>4 DEF IInv, TypeOK, vars, table, ghosts
  <2>2. OnlyCreated'
    BY <1>4 DEF IInv, OnlyCreated, vars, table, ghosts
  <2> QED
    BY <1>4, <2>1, <2>2, AnswersKept DEF IInv, NoAnswer, vars, table, ghosts
<1> QED
  BY <1>1, <1>2, <1>3, <1>4 DEF Next

\* The strengthening is an invariant: ids not drawn are unknown, and every
\* answer given agrees with the rows.
THEOREM Inductive == Spec => []IInv
BY InitInv, StepInv, PTL DEF Spec

\* Type correctness of the ticket endpoints.
THEOREM TypeCorrect == Spec => []TypeOK
<1>1. IInv => TypeOK
  BY DEF IInv
<1> QED
  BY Inductive, <1>1, PTL

\* Two commits of one ticket are never both answered 200, and the output of the
\* one that was is what the ticket shows while it exists.
THEOREM CommitsAgree == Spec => []CommitAnswersAgree
<1>1. IInv => CommitAnswersAgree
  BY DEF IInv, Answers
<1> QED
  BY Inductive, <1>1, PTL

\* A revocation answered 200 is not undone by a commit in flight.
THEOREM RevocationsHold == Spec => []RevocationsDurable
<1>1. IInv => RevocationsDurable
  BY DEF IInv, Answers
<1> QED
  BY Inductive, <1>1, PTL

\* A ticket whose deletion was answered 200 does not come back.
THEOREM DeletionsHold == Spec => []DeletionsDurable
<1>1. IInv => DeletionsDurable
  BY DEF IInv, Answers
<1> QED
  BY Inductive, <1>1, PTL

-----------------------------------------------------------------------------
(* The life cycle. *)

Output(t) == IF IsTicket(t) THEN row[t].root ELSE NoRoot

\* A ticket's attributes are not those of what is no ticket.
LEMMA RowsAreTickets ==
  ASSUME NEW r \in Row
  PROVE  r # NoRow /\ r # Stray
<1>1. "writable" \in DOMAIN r
  BY DEF Row
<1>2. "writable" \notin DOMAIN NoRow /\ "writable" \notin DOMAIN Stray
  BY DEF NoRow, Stray
<1> QED
  BY <1>1, <1>2

\* The status of a ticket, case by case.
LEMMA Statuses ==
  ASSUME OnlyCreated, NEW t \in Ticket
  PROVE  /\ t \notin created => StatusOf(t) = "none"
         /\ t \in created /\ ~IsTicket(t) => StatusOf(t) = "deleted"
         /\ t \in created /\ IsTicket(t) =>
              StatusOf(t) = IF row[t].revoked
                              THEN IF row[t].root = NoRoot THEN "revoked" ELSE "archived"
                              ELSE IF row[t].root = NoRoot THEN "issued" ELSE "committed"
<1>1. CASE t \notin created
  <2>1. ~IsTicket(t)
    BY <1>1 DEF OnlyCreated, IsTicket
  <2> QED
    BY <1>1, <2>1 DEF StatusOf
<1>2. CASE t \in created /\ ~IsTicket(t)
  BY <1>2 DEF StatusOf
<1>3. CASE t \in created /\ IsTicket(t)
  BY <1>3 DEF StatusOf
<1> QED
  BY <1>1, <1>2, <1>3

\* What an action of the life cycle says of Tickets' rows, when one row changes.
LEMMA OneTicket ==
  ASSUME NEW t \in Ticket,
         \A u \in Ticket \ {t} : StatusOf(u)' = StatusOf(u) /\ Output(u)' = Output(u)
  PROVE  /\ [u \in Ticket |-> StatusOf(u)]' =
              [[u \in Ticket |-> StatusOf(u)] EXCEPT ![t] = StatusOf(t)']
         /\ [u \in Ticket |-> Output(u)]' = [[u \in Ticket |-> Output(u)] EXCEPT ![t] = Output(t)']
OBVIOUS

\* A row that is as it was has the same status and the same output.
LEMMA SameTicket ==
  ASSUME NEW t, row'[t] = row[t], t \in created' <=> t \in created
  PROVE  StatusOf(t)' = StatusOf(t) /\ Output(t)' = Output(t)
BY DEF StatusOf, Output, IsTicket

\* A new ticket is issued.
LEMMA CreateMaps ==
  ASSUME IInv, IInv', NEW t \in Ticket, NEW w \in BOOLEAN, NEW c \in Caller, Create(t, w, c)
  PROVE  Lifecycle!Issue(t)
<1>1. /\ t \notin created /\ row' = [row EXCEPT ![t] = NewRow(w, c)] /\ created' = created \cup {t}
  BY DEF Create
<1>2. row'[t] = NewRow(w, c) /\ NewRow(w, c) \in Row
  BY <1>1 DEF IInv, TypeOK, NewRow, Row
<1>3. ~IsTicket(t) /\ IsTicket(t)' /\ row'[t].root = NoRoot /\ ~row'[t].revoked
  <2>1. ~IsTicket(t)
    BY <1>1 DEF IInv, OnlyCreated, IsTicket
  <2>2. IsTicket(t)'
    BY <1>2, RowsAreTickets DEF IsTicket
  <2> QED
    BY <1>2, <2>1, <2>2 DEF NewRow
<1>4. StatusOf(t) = "none" /\ StatusOf(t)' = "issued"
  <2>1. StatusOf(t) = "none"
    BY <1>1, Statuses DEF IInv
  <2>2. OnlyCreated' /\ t \in created'
    BY <1>1 DEF IInv
  <2>3. StatusOf(t)' = "issued"
    BY <1>3, <2>2 DEF StatusOf
  <2> QED
    BY <2>1, <2>3
<1>5. Output(t)' = Output(t)
  BY <1>3 DEF Output
<1>6. \A u \in Ticket \ {t} : StatusOf(u)' = StatusOf(u) /\ Output(u)' = Output(u)
  BY <1>1, SameTicket DEF IInv, TypeOK
<1> QED
  BY <1>4, <1>5, <1>6, OneTicket DEF Lifecycle!Issue, Output

\* A commit that finds no root moves an issued ticket, or a revoked one.
LEMMA CommitMaps ==
  ASSUME IInv, IInv', NEW p \in Proc, MarkCommitted(p), row' # row
  PROVE  \E t \in Ticket, x \in Root : Lifecycle!Commit(t, x) \/ Lifecycle!LateCommit(t, x)
<1>t. PICK t \in Ticket, x \in Root : t = req[p].ticket /\ x = req[p].output
  BY DEF MarkCommitted, IInv, TypeOK, CommitSteps, CommitRequest
<1>1. t \in created /\ created' = created
  BY <1>t DEF MarkCommitted, IInv, OnlyCreated
<1>2. /\ IsTicket(t) /\ row[t].root = NoRoot
      /\ row' = [row EXCEPT ![t] = [row[t] EXCEPT !.root = x]]
  BY <1>t DEF MarkCommitted
<1>3. row[t] \in Row
  BY <1>1, <1>2, TicketRow DEF IInv
<1>4. row'[t] \in Row /\ row'[t].root = x /\ row'[t].revoked = row[t].revoked
  BY <1>1, <1>2, <1>3 DEF IInv, TypeOK, Row
<1>5. IsTicket(t)' /\ x # NoRoot
  BY <1>1, <1>4, RowsAreTickets, TicketAssumption DEF IsTicket
<1>6. /\ StatusOf(t) = IF row[t].revoked THEN "revoked" ELSE "issued"
      /\ StatusOf(t)' = IF row[t].revoked THEN "archived" ELSE "committed"
  BY <1>1, <1>2, <1>3, <1>4, <1>5 DEF StatusOf, Row
<1>7. Output(t)' = x
  BY <1>4, <1>5 DEF Output
<1>8. \A u \in Ticket \ {t} : StatusOf(u)' = StatusOf(u) /\ Output(u)' = Output(u)
  BY <1>1, <1>2, SameTicket DEF IInv, TypeOK
<1>9. Lifecycle!Commit(t, x) \/ Lifecycle!LateCommit(t, x)
  BY <1>6, <1>7, <1>8, OneTicket DEF Lifecycle!Commit, Lifecycle!LateCommit, Output
<1> QED
  BY <1>9

\* A revocation moves a ticket that is not revoked yet, and nothing else.
LEMMA RevokeMaps ==
  ASSUME IInv, IInv', NEW p \in Proc, MarkRevoked(p)
  PROVE  \/ \E t \in Ticket : Lifecycle!Revoke(t)
         \/ UNCHANGED Lifecycle!vars
<1>t. PICK t \in Ticket : t = req[p].ticket
  BY RequestTicket DEF MarkRevoked, IInv
<1>1. /\ t \in created /\ created' = created
      /\ row' = [row EXCEPT ![t] = IF IsTicket(t) THEN [row[t] EXCEPT !.revoked = TRUE] ELSE Stray]
  BY <1>t DEF MarkRevoked, IInv, OnlyCreated
<1>2. \A u \in Ticket \ {t} : StatusOf(u)' = StatusOf(u) /\ Output(u)' = Output(u)
  BY <1>1, SameTicket DEF IInv, TypeOK
<1>3. CASE IsTicket(t)
  <2>1. row[t] \in Row
    BY <1>3, TicketRow DEF IInv
  <2>2. row'[t] \in Row /\ row'[t].root = row[t].root /\ row'[t].revoked
    BY <1>1, <1>3, <2>1 DEF IInv, TypeOK, Row
  <2>3. IsTicket(t)'
    BY <2>2, RowsAreTickets DEF IsTicket
  <2>4. Output(t)' = Output(t)
    BY <1>3, <2>2, <2>3 DEF Output
  <2>5. CASE ~row[t].revoked
    <3>1. \/ StatusOf(t) = "issued" /\ StatusOf(t)' = "revoked"
          \/ StatusOf(t) = "committed" /\ StatusOf(t)' = "archived"
      BY <1>1, <1>3, <2>1, <2>2, <2>3, <2>5 DEF StatusOf
    <3>2. Lifecycle!Revoke(t)
      BY <1>2, <2>4, <3>1, OneTicket DEF Lifecycle!Revoke, Output
    <3> QED
      BY <3>2
  <2>6. CASE row[t].revoked
    <3>1. StatusOf(t)' = StatusOf(t)
      BY <1>1, <1>3, <2>1, <2>2, <2>3, <2>6 DEF StatusOf
    <3> QED
      BY <1>2, <2>4, <3>1, OneTicket DEF Lifecycle!vars, Output
  <2> QED
    BY <2>1, <2>5, <2>6 DEF Row
<1>4. CASE ~IsTicket(t)
  <2>1. ~IsTicket(t)'
    BY <1>1, <1>4 DEF IsTicket, IInv, TypeOK
  <2>2. StatusOf(t)' = StatusOf(t) /\ Output(t)' = Output(t)
    BY <1>1, <1>4, <2>1 DEF StatusOf, Output
  <2> QED
    BY <1>2, <2>2, OneTicket DEF Lifecycle!vars, Output
<1> QED
  BY <1>3, <1>4

\* A deletion deletes a ticket, or finds none.
LEMMA DeleteMaps ==
  ASSUME IInv, IInv', NEW p \in Proc, DeleteRow(p)
  PROVE  \/ \E t \in Ticket : Lifecycle!Delete(t)
         \/ UNCHANGED Lifecycle!vars
<1>t. PICK t \in Ticket : t = req[p].ticket
  BY RequestTicket DEF DeleteRow, IInv
<1>1. t \in created /\ created' = created /\ row' = [row EXCEPT ![t] = NoRow]
  BY <1>t DEF DeleteRow, IInv, OnlyCreated
<1>2. \A u \in Ticket \ {t} : StatusOf(u)' = StatusOf(u) /\ Output(u)' = Output(u)
  BY <1>1, SameTicket DEF IInv, TypeOK
<1>3. ~IsTicket(t)'
  BY <1>1 DEF IsTicket, IInv, TypeOK
<1>4. StatusOf(t)' = "deleted" /\ Output(t)' = NoRoot
  BY <1>1, <1>3 DEF StatusOf, Output
<1>5. CASE IsTicket(t)
  <2>1. StatusOf(t) \notin {"none", "deleted"}
    <3>1. row[t].revoked \in BOOLEAN
      BY <1>5, TicketRow DEF IInv, Row
    <3> QED
      BY <1>1, <1>5, <3>1, Statuses DEF IInv
  <2>2. Lifecycle!Delete(t)
    BY <1>2, <1>4, <2>1, OneTicket DEF Lifecycle!Delete, Output
  <2> QED
    BY <2>2
<1>6. CASE ~IsTicket(t)
  <2>1. StatusOf(t)' = StatusOf(t) /\ Output(t)' = Output(t)
    BY <1>1, <1>4, <1>6 DEF StatusOf, Output
  <2> QED
    BY <1>2, <2>1, OneTicket DEF Lifecycle!vars, Output
<1> QED
  BY <1>5, <1>6

\* Every other step leaves what the holders observe.
LEMMA QuietMaps ==
  ASSUME UNCHANGED <<row, created>>
  PROVE  UNCHANGED Lifecycle!vars
<1>1. \A t \in Ticket : StatusOf(t)' = StatusOf(t) /\ Output(t)' = Output(t)
  BY SameTicket
<1> QED
  BY <1>1 DEF Lifecycle!vars, Output

LEMMA InitMaps == Init => Lifecycle!Init
<1> SUFFICES ASSUME Init PROVE Lifecycle!Init
  OBVIOUS
<1>1. \A t \in Ticket : ~IsTicket(t) /\ StatusOf(t) = "none"
  <2>1. \A t \in Ticket : ~IsTicket(t)
    BY DEF Init, IsTicket
  <2> QED
    BY <2>1, InitInv, Statuses DEF Init, IInv
<1> QED
  BY <1>1 DEF Lifecycle!Init

LEMMA NextMaps ==
  IInv /\ IInv' /\ [Next]_vars => [Lifecycle!Next]_(Lifecycle!vars)
<1> SUFFICES ASSUME IInv, IInv', [Next]_vars PROVE [Lifecycle!Next]_(Lifecycle!vars)
  OBVIOUS
<1>1. CASE \E t \in Ticket, w \in BOOLEAN, c \in Caller : Create(t, w, c)
  BY <1>1, CreateMaps DEF Lifecycle!Next
<1>2. ASSUME NEW p \in Proc, MarkCommitted(p)
      PROVE  [Lifecycle!Next]_(Lifecycle!vars)
  <2>1. CASE row' = row
    BY <1>2, <2>1, QuietMaps DEF MarkCommitted
  <2>2. CASE row' # row
    BY <1>2, <2>2, CommitMaps DEF Lifecycle!Next
  <2> QED
    BY <2>1, <2>2
<1>3. ASSUME NEW p \in Proc, MarkRevoked(p) \/ DeleteRow(p)
      PROVE  [Lifecycle!Next]_(Lifecycle!vars)
  BY <1>3, RevokeMaps, DeleteMaps DEF Lifecycle!Next
<1>4. CASE UNCHANGED <<row, created>>
  BY <1>4, QuietMaps
<1> QED
  BY <1>1, <1>2, <1>3, <1>4
     DEF Next, Expire, Receive, ReceiveUpload, ReceiveCommit, ReceiveRevoke, ReceiveDelete, Handle,
         AuthUpload, Upload, AuthCommit, ReadCommit, ReadRevoke, CheckRevoke, ReadDelete, Die, vars,
         table

\* Under any interleaving of the handlers a ticket moves along the edges of the
\* documented life cycle, and of a late commit, only.
THEOREM Implements == Spec => ImplementsLifecycle
<1>1. Spec => Lifecycle!Init /\ [][Lifecycle!Next]_(Lifecycle!vars)
  BY InitMaps, NextMaps, InitInv, StepInv, PTL DEF Spec
<1> QED
  BY <1>1, PTL DEF ImplementsLifecycle, Lifecycle!Spec

-----------------------------------------------------------------------------
(* Late uploads.  What bounds them is the slots: each upload still to land   *)
(* on a ticket that has ended holds one, and none is admitted any more.      *)

Uploading(t) == {p \in Proc : pc[p] = "upload" /\ req[p].ticket = t}

LateBound(t) ==
  IF t \in created /\ StatusOf(t) # "issued"
    THEN late[t] + Cardinality(Uploading(t)) <= Cardinality(Proc) - 1
    ELSE late[t] = 0

LateInv == IInv /\ \A t \in Ticket : LateBound(t)

LEMMA UploadingFinite ==
  ASSUME NEW S \in SUBSET Proc, NEW T \in SUBSET S
  PROVE  Cardinality(S) \in Nat /\ Cardinality(T) \in Nat /\ Cardinality(T) <= Cardinality(S)
<1>1. IsFiniteSet(S)
  BY TicketAssumption, FS_Subset
<1>2. IsFiniteSet(T) /\ Cardinality(T) <= Cardinality(S)
  BY <1>1, FS_Subset
<1> QED
  BY <1>1, <1>2, FS_CardinalityType

\* A ticket on which no upload lands in a step, and none is admitted; when it
\* ends in the step, the request that ends it is no upload.
LEMMA BoundKept ==
  ASSUME TypeOK, NEW t \in Ticket, LateBound(t), created' = created, late'[t] = late[t],
         Uploading(t)' \subseteq Uploading(t),
         \/ StatusOf(t)' = StatusOf(t)
         \/ StatusOf(t)' # "issued" /\ \E p \in Proc : p \notin Uploading(t)'
  PROVE  LateBound(t)'
<1>1. Uploading(t) \in SUBSET Proc /\ Uploading(t)' \in SUBSET Uploading(t)
  BY DEF Uploading
<1>2. /\ Cardinality(Uploading(t)) \in Nat /\ Cardinality(Uploading(t)') \in Nat
      /\ Cardinality(Uploading(t)') <= Cardinality(Uploading(t))
      /\ Cardinality(Proc) \in Nat
  BY <1>1, UploadingFinite
<1>3. late[t] \in Nat
  BY DEF TypeOK
<1>4. CASE t \notin created \/ StatusOf(t)' = StatusOf(t)
  BY <1>2, <1>3, <1>4 DEF LateBound
<1>5. CASE t \in created /\ StatusOf(t)' # StatusOf(t)
  <2>1. PICK p \in Proc : p \notin Uploading(t)'
    BY <1>5
  <2>2. Cardinality(Uploading(t)') <= Cardinality(Proc) - 1
    <3>1. Uploading(t)' \in SUBSET (Proc \ {p})
      BY <1>1, <2>1
    <3>2. Cardinality(Proc \ {p}) = Cardinality(Proc) - 1 /\ IsFiniteSet(Proc \ {p})
      BY TicketAssumption, FS_RemoveElement
    <3>3. Cardinality(Uploading(t)') <= Cardinality(Proc \ {p})
      BY <3>1, <3>2, FS_Subset
    <3> QED
      BY <3>2, <3>3
  <2>3. CASE StatusOf(t) = "issued"
    BY <1>2, <1>3, <1>5, <2>2, <2>3 DEF LateBound
  <2>4. CASE StatusOf(t) # "issued"
    BY <1>2, <1>3, <1>5, <2>4 DEF LateBound
  <2> QED
    BY <2>3, <2>4
<1> QED
  BY <1>4, <1>5

\* A step of p that is not the admission of an upload leaves no new upload.
LEMMA NoUploadBegun ==
  ASSUME TypeOK, NEW p \in Proc, Moves(p), pc'[p] # "upload", NEW t
  PROVE  Uploading(t)' \subseteq Uploading(t) /\ p \notin Uploading(t)'
<1>1. \A o \in Proc \ {p} : pc'[o] = pc[o] /\ req'[o] = req[o]
  BY DEF TypeOK, Moves
<1> QED
  BY <1>1 DEF Uploading

LEMMA StepBounds ==
  ASSUME LateInv, IInv', NEW p \in Proc, Receive(p) \/ Handle(p) \/ Die(p), NEW t \in Ticket
  PROVE  LateBound(t)'
<1>0. IInv /\ TypeOK /\ LateBound(t) /\ created' = created
  BY DEF LateInv, IInv, Receive, ReceiveUpload, ReceiveCommit, ReceiveRevoke, ReceiveDelete, Handle,
         AuthUpload, Upload, AuthCommit, ReadCommit, MarkCommitted, ReadRevoke, CheckRevoke,
         MarkRevoked, ReadDelete, DeleteRow, Die, table
<1>1. CASE AuthUpload(p)
  <2>1. row' = row /\ late' = late
    BY <1>1 DEF AuthUpload, table, ghosts
  <2>2. StatusOf(t)' = StatusOf(t)
    BY <1>0, <2>1, SameTicket
  <2>3. CASE End(p)
    <3>1. Moves(p) /\ pc'[p] # "upload"
      BY <1>0, <2>3, Control
    <3> QED
      BY <1>0, <2>1, <2>2, <3>1, NoUploadBegun, BoundKept
  <2>4. CASE ~End(p)
    <3>1. Admitted(req[p].ticket) /\ MayWrite(req[p].ticket) /\ Goto(p, "upload") /\ UNCHANGED req
      BY <1>1, <2>4 DEF AuthUpload
    <3>2. CASE req[p].ticket = t
      <4>1. StatusOf(t) = "issued"
        BY <3>1, <3>2, <1>0, <1>1, Statuses DEF Admitted, MayWrite, Found, IInv, OnlyCreated, AuthUpload
      <4> QED
        BY <1>0, <2>1, <2>2, <4>1 DEF LateBound
    <3>3. CASE req[p].ticket # t
      <4>1. Uploading(t)' \subseteq Uploading(t)
        BY <1>0, <3>1, <3>3 DEF Uploading, TypeOK, Goto
      <4> QED
        BY <1>0, <2>1, <2>2, <4>1, BoundKept
    <3> QED
      BY <3>2, <3>3
  <2> QED
    BY <2>3, <2>4
<1>2. CASE Upload(p)
  <2>0. UNCHANGED table /\ End(p) /\ pc[p] = "upload"
    BY <1>2 DEF Upload
  <2>1. Moves(p) /\ pc'[p] # "upload" /\ StatusOf(t)' = StatusOf(t)
    BY <1>0, <2>0, Control, SameTicket DEF table
  <2>2. Uploading(t)' \subseteq Uploading(t) /\ p \notin Uploading(t)'
    BY <1>0, <2>1, NoUploadBegun
  <2>3. CASE req[p].ticket # t \/ StatusOf(t) = "issued"
    <3>1. late'[t] = late[t]
      BY <1>0, <1>2, <2>3 DEF Upload, TypeOK
    <3> QED
      BY <1>0, <2>1, <2>2, <3>1, BoundKept
  <2>4. CASE req[p].ticket = t /\ StatusOf(t) # "issued"
    <3>1. late'[t] = late[t] + 1 /\ late[t] \in Nat
      BY <1>0, <1>2, <2>4 DEF Upload, TypeOK
    <3>2. t \in created
      BY <1>0, <2>0, <2>4 DEF IInv, OnlyCreated
    <3>3. p \in Uploading(t) /\ Uploading(t)' \in SUBSET (Uploading(t) \ {p})
      BY <2>0, <2>2, <2>4 DEF Uploading
    <3>4. IsFiniteSet(Uploading(t))
      BY TicketAssumption, FS_Subset DEF Uploading
    <3>5. /\ IsFiniteSet(Uploading(t) \ {p})
          /\ Cardinality(Uploading(t) \ {p}) = Cardinality(Uploading(t)) - 1
      BY <3>3, <3>4, FS_RemoveElement
    <3>6. Cardinality(Uploading(t)') <= Cardinality(Uploading(t)) - 1 /\ IsFiniteSet(Uploading(t)')
      BY <3>3, <3>5, FS_Subset
    <3>7. /\ Cardinality(Uploading(t)') \in Nat /\ Cardinality(Uploading(t)) \in Nat
          /\ Cardinality(Proc) \in Nat
      BY <3>4, <3>6, TicketAssumption, FS_CardinalityType
    <3>8. late[t] + Cardinality(Uploading(t)) <= Cardinality(Proc) - 1
      BY <1>0, <2>4, <3>2 DEF LateBound
    <3>9. late'[t] + Cardinality(Uploading(t)') <= Cardinality(Proc) - 1
      BY <3>1, <3>6, <3>7, <3>8
    <3> QED
      BY <1>0, <2>1, <2>4, <3>2, <3>9 DEF LateBound
  <2> QED
    BY <2>3, <2>4
<1>3. ASSUME Moves(p), pc'[p] # "upload", late' = late,
             StatusOf(t)' = StatusOf(t) \/ StatusOf(t)' # "issued"
      PROVE  LateBound(t)'
  <2>1. Uploading(t)' \subseteq Uploading(t) /\ p \notin Uploading(t)'
    BY <1>0, <1>3, NoUploadBegun
  <2> QED
    BY <1>0, <1>3, <2>1, BoundKept
<1>4. CASE MarkCommitted(p) \/ MarkRevoked(p) \/ DeleteRow(p)
  <2>0. End(p) /\ late' = late /\ pc[p] # "idle"
    BY <1>4 DEF MarkCommitted, MarkRevoked, DeleteRow
  <2>1. Moves(p) /\ pc'[p] # "upload"
    BY <1>0, <2>0, Control
  <2>2. row'[t] = row[t] \/ req[p].ticket = t
    BY <1>0, <1>4 DEF MarkCommitted, MarkRevoked, DeleteRow, TypeOK
  <2>3. CASE row'[t] = row[t]
    BY <1>0, <1>3, <2>0, <2>1, <2>3, SameTicket
  <2>4. CASE req[p].ticket = t /\ row'[t] # row[t]
    <3>1. t \in created /\ t \in created' /\ OnlyCreated'
      BY <1>0, <2>0, <2>4 DEF IInv, OnlyCreated
    <3>2. IsTicket(t)' => row'[t].root # NoRoot \/ row'[t].revoked
      <4>1. CASE MarkCommitted(p)
        <5>1. req[p].output \in Root /\ IsTicket(t)
          BY <1>0, <2>4, <4>1 DEF MarkCommitted, TypeOK, CommitSteps, CommitRequest
        <5>2. row[t] \in Row
          BY <1>0, <5>1, TicketRow
        <5>3. row'[t] = [row[t] EXCEPT !.root = req[p].output]
          BY <1>0, <2>4, <4>1 DEF MarkCommitted, TypeOK
        <5> QED
          BY <5>1, <5>2, <5>3, TicketAssumption DEF Row
      <4>2. CASE MarkRevoked(p)
        <5>1. row'[t] = IF IsTicket(t) THEN [row[t] EXCEPT !.revoked = TRUE] ELSE Stray
          BY <1>0, <2>4, <4>2 DEF MarkRevoked, TypeOK
        <5>2. IsTicket(t) => row[t] \in Row
          BY <1>0, TicketRow
        <5> QED
          BY <5>1, <5>2 DEF IsTicket, Row
      <4>3. CASE DeleteRow(p)
        BY <1>0, <2>4, <4>3 DEF DeleteRow, TypeOK, IsTicket
      <4> QED
        BY <1>4, <4>1, <4>2, <4>3
    <3>3. StatusOf(t)' # "issued"
      BY <3>1, <3>2 DEF StatusOf
    <3> QED
      BY <1>3, <2>0, <2>1, <3>3
  <2> QED
    BY <2>2, <2>3, <2>4
<1>5. CASE \/ Receive(p) \/ AuthCommit(p) \/ ReadCommit(p) \/ ReadRevoke(p) \/ CheckRevoke(p)
           \/ ReadDelete(p) \/ Die(p)
  <2>1. row' = row /\ late' = late
    BY <1>5 DEF Receive, ReceiveUpload, ReceiveCommit, ReceiveRevoke, ReceiveDelete, AuthCommit,
       ReadCommit, ReadRevoke, CheckRevoke, ReadDelete, Die, table, ghosts
  <2>2. StatusOf(t)' = StatusOf(t)
    BY <1>0, <2>1, SameTicket
  <2>3. Moves(p) /\ pc'[p] # "upload"
    <3>1. CASE Receive(p)
      BY <1>0, <3>1 DEF Receive, ReceiveUpload, ReceiveCommit, ReceiveRevoke, ReceiveDelete, Begin,
         Goto, Moves, TypeOK
    <3>2. CASE AuthCommit(p) \/ ReadCommit(p) \/ CheckRevoke(p) \/ ReadDelete(p) \/ Die(p)
      BY <1>0, <3>2 DEF AuthCommit, ReadCommit, CheckRevoke, ReadDelete, Die, End, Goto, Moves, TypeOK
    <3>3. CASE ReadRevoke(p)
      BY <1>0, <3>3 DEF ReadRevoke, End, Goto, Moves, TypeOK
    <3> QED
      BY <1>5, <3>1, <3>2, <3>3
  <2> QED
    BY <1>3, <2>1, <2>2, <2>3
<1> QED
  BY <1>1, <1>2, <1>4, <1>5 DEF Handle

LEMMA LateNext == LateInv /\ [Next]_vars => LateInv'
<1> SUFFICES ASSUME LateInv, [Next]_vars PROVE LateInv'
  OBVIOUS
<1>1. IInv' /\ IInv /\ TypeOK
  BY StepInv DEF LateInv, IInv
<1> SUFFICES ASSUME NEW t \in Ticket PROVE LateBound(t)'
  BY <1>1 DEF LateInv
<1>2. LateBound(t)
  BY DEF LateInv
<1>3. ASSUME NEW p \in Proc, Receive(p) \/ Handle(p) \/ Die(p)
      PROVE  LateBound(t)'
  BY <1>1, <1>3, StepBounds
<1>4. ASSUME NEW u \in Ticket, NEW w \in BOOLEAN, NEW c \in Caller, Create(u, w, c)
      PROVE  LateBound(t)'
  <2>1. late' = late /\ Uploading(t)' = Uploading(t)
    BY <1>4 DEF Create, ghosts, Uploading
  <2>2. CASE u = t
    <3>1. Lifecycle!Issue(t)
      BY <1>1, <1>4, <2>2, CreateMaps
    <3>2. StatusOf(t)' = "issued"
      BY <3>1 DEF Lifecycle!Issue
    <3> QED
      BY <1>2, <1>4, <2>1, <2>2, <3>2 DEF LateBound, Create
  <2>3. CASE u # t
    <3>1. row'[t] = row[t] /\ (t \in created' <=> t \in created)
      BY <1>1, <1>4, <2>3 DEF Create, TypeOK
    <3>2. StatusOf(t)' = StatusOf(t)
      BY <3>1, SameTicket
    <3> QED
      BY <1>2, <2>1, <3>1, <3>2 DEF LateBound
  <2> QED
    BY <2>2, <2>3
<1>5. CASE UNCHANGED <<row, created, pc, req, late>>
  <2>1. StatusOf(t)' = StatusOf(t) /\ Uploading(t)' = Uploading(t)
    BY <1>5, SameTicket DEF Uploading
  <2> QED
    BY <1>2, <1>5, <2>1 DEF LateBound
<1> QED
  BY <1>3, <1>4, <1>5 DEF Next, Expire, vars, table, ghosts

LEMMA LateInit == Init => LateInv
BY InitInv DEF LateInv, LateBound, Init

\* However many uploads race with the end of a ticket, those that land after it
\* were admitted before, at most one in every slot but the one that ended it.
THEOREM LateBounded == Spec => []LateUploadsBounded
<1>1. LateInv => LateUploadsBounded
  <2> SUFFICES ASSUME LateInv, NEW t \in Ticket PROVE late[t] <= Cardinality(Proc) - 1
    BY DEF LateUploadsBounded
  <2>1. late[t] \in Nat /\ LateBound(t)
    BY DEF LateInv, IInv, TypeOK
  <2>2. Cardinality(Proc) \in Nat /\ Cardinality(Proc) # 0 /\ Cardinality(Uploading(t)) \in Nat
    <3>1. Uploading(t) \in SUBSET Proc
      BY DEF Uploading
    <3> QED
      BY <3>1, UploadingFinite, TicketAssumption, FS_EmptySet
  <2> QED
    BY <2>1, <2>2 DEF LateBound
<1> QED
  BY <1>1, LateInit, LateNext, PTL DEF Spec
=============================================================================
