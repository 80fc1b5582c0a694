------------------------------ MODULE Tickets ------------------------------
(***************************************************************************)
(* Tickets of the casfa-v2 backend: controllers/tickets.ts over the token  *)
(* table (db/tokens.ts), the ticket scheme of middleware/auth.ts, and the  *)
(* part of PUT /nodes/:key that depends on the ticket.                     *)
(*                                                                         *)
(* A process is one HTTP request in flight; every await of a handler is    *)
(* one step.  A request acts on what it read before its last await: the    *)
(* row may have been committed, revoked, deleted or have expired since.    *)
(***************************************************************************)
EXTENDS Naturals, FiniteSets

CONSTANTS
  Ticket,      \* ticket ids; an id is drawn at random and never used again
  Root,        \* keys that can be committed
  NoRoot,      \* commit.root of a ticket not committed
  Agent,       \* issuer ids of agents and clients
  User,        \* the realm's user
  Proc,        \* request slots
  NoRequest    \* the locals of a slot that serves no request

Caller == Agent \cup {User}

ASSUME TicketAssumption ==
  /\ IsFiniteSet(Proc) /\ Proc # {}
  /\ NoRoot \notin Root
  /\ User \notin Agent

VARIABLES
  row,       \* Ticket -> the item of the token table
  created,   \* ids already drawn
  expired,   \* ids whose expiresAt has passed
  pc,        \* Proc -> the await the request is at
  req        \* Proc -> the handler's local variables

\* History variables: no action's guard reads them.
VARIABLES
  commits,     \* <<ticket, root>>: commits answered 200
  revocations, \* <<ticket, status>>: revocations answered 200, with their status
  deletions,   \* tickets whose deletion was answered 200
  late         \* Ticket -> node uploads landed when it was no longer issued

table   == <<row, created, expired>>
ghosts  == <<commits, revocations, deletions, late>>
vars    == <<table, pc, req, ghosts>>

-----------------------------------------------------------------------------
(* Rows. *)

\* writable: the ticket has a commit attribute.
Row == [writable : BOOLEAN, issuer : Caller, root : Root \cup {NoRoot}, revoked : BOOLEAN]

\* What an unconditional update leaves where no item was: no type, no expiry,
\* no realm index.  No read takes it for a ticket and no list shows it.
NoRow == [kind |-> "none"]
Stray == [kind |-> "stray"]

IsTicket(t) == row[t] \notin {NoRow, Stray}

\* Faulty variant: the revocation flag is not initialised.
NewRow_NoFlag(w, c) == [writable |-> w, issuer |-> c, root |-> NoRoot]

NewRow(w, c) == [writable |-> w, issuer |-> c, root |-> NoRoot, revoked |-> FALSE]

\* tokensDb.getTicket finds the row; getTicketRaw also finds an expired one.
Found(t) == IsTicket(t) /\ t \notin expired

\* deriveTicketStatus, with the two states in which there is no row.
StatusOf(t) ==
  CASE t \notin created -> "none"
    [] t \in created /\ ~IsTicket(t) -> "deleted"
    [] IsTicket(t) /\ row[t].root # NoRoot /\ row[t].revoked -> "archived"
    [] IsTicket(t) /\ row[t].root # NoRoot /\ ~row[t].revoked -> "committed"
    [] IsTicket(t) /\ row[t].root = NoRoot /\ row[t].revoked -> "revoked"
    [] IsTicket(t) /\ row[t].root = NoRoot /\ ~row[t].revoked -> "issued"

-----------------------------------------------------------------------------
(* Requests. *)

UploadSteps == {"authUpload", "upload"}
CommitSteps == {"authCommit", "readCommit", "markCommitted"}
RevokeSteps == {"readRevoke", "checkRevoke", "markRevoked"}
DeleteSteps == {"readDelete", "deleteRow"}
Step == {"idle"} \cup UploadSteps \cup CommitSteps \cup RevokeSteps \cup DeleteSteps

CommitRequest == [ticket : Ticket, output : Root]
\* seen: the root in the controller's copy of the row, used in the reply.
RevokeRequest == [ticket : Ticket, caller : Caller, seen : Root \cup {NoRoot}]
OtherRequest  == [ticket : Ticket]

Goto(p, label) == pc' = [pc EXCEPT ![p] = label]
Begin(p, label, q) == pc[p] = "idle" /\ Goto(p, label) /\ req' = [req EXCEPT ![p] = q]
End(p) == Goto(p, "idle") /\ req' = [req EXCEPT ![p] = NoRequest]

Init ==
  /\ row = [t \in Ticket |-> NoRow]
  /\ created = {}
  /\ expired = {}
  /\ pc = [p \in Proc |-> "idle"]
  /\ req = [p \in Proc |-> NoRequest]
  /\ commits = {}
  /\ revocations = {}
  /\ deletions = {}
  /\ late = [t \in Ticket |-> 0]

-----------------------------------------------------------------------------
(* POST /tickets: one Put under a fresh id.  The holder knows the id only    *)
(* from the reply, so no request names a ticket before this step.            *)

Create(t, w, c) ==
  /\ t \notin created
  /\ row' = [row EXCEPT ![t] = NewRow(w, c)]
  /\ created' = created \cup {t}
  /\ UNCHANGED <<expired, pc, req, ghosts>>

\* The clock passes expiresAt, which no operation changes.
Expire(t) ==
  /\ t \in created \ expired
  /\ expired' = expired \cup {t}
  /\ UNCHANGED <<row, created, pc, req, ghosts>>

-----------------------------------------------------------------------------
(* The ticket scheme of the auth middleware, in front of the two requests a  *)
(* ticket holder makes that change anything.                                 *)

\* 401 for a missing row, 410 for an expired or revoked ticket.
Admitted(t) == Found(t) /\ ~row[t].revoked

\* Faulty variant: a committed ticket may still write.
MayWrite_AnyWritable(t) == row[t].writable

\* auth.canWrite, and checkTicketWriteQuota on the same copy of the row.
MayWrite(t) == row[t].writable /\ row[t].root = NoRoot

ReceiveUpload(p, t) ==
  /\ t \in created
  /\ Begin(p, "authUpload", [ticket |-> t])
  /\ UNCHANGED <<table, ghosts>>

AuthUpload(p) ==
  LET t == req[p].ticket IN
  /\ pc[p] = "authUpload"
  /\ IF Admitted(t) /\ MayWrite(t)
       THEN Goto(p, "upload") /\ UNCHANGED req
       ELSE End(p)
  /\ UNCHANGED <<table, ghosts>>

\* The rest of the PUT (module NodeStore); it does not read the ticket again.
Upload(p) ==
  LET t == req[p].ticket IN
  /\ pc[p] = "upload"
  /\ late' = [late EXCEPT ![t] = IF StatusOf(t) = "issued" THEN @ ELSE @ + 1]
  /\ End(p)
  /\ UNCHANGED <<table, commits, revocations, deletions>>

-----------------------------------------------------------------------------
(* POST /tickets/:id/commit, by the ticket itself. *)

ReceiveCommit(p, t, x) ==
  /\ t \in created
  /\ Begin(p, "authCommit", [ticket |-> t, output |-> x])
  /\ UNCHANGED <<table, ghosts>>

AuthCommit(p) ==
  /\ pc[p] = "authCommit"
  /\ IF Admitted(req[p].ticket)
       THEN Goto(p, "readCommit") /\ UNCHANGED req
       ELSE End(p)
  /\ UNCHANGED <<table, ghosts>>

\* 404, 403 read-only, 409 already committed, 410 revoked.
ReadCommit(p) ==
  LET t == req[p].ticket IN
  /\ pc[p] = "readCommit"
  /\ IF Found(t) /\ row[t].writable /\ row[t].root = NoRoot /\ ~row[t].revoked
       THEN Goto(p, "markCommitted") /\ UNCHANGED req
       ELSE End(p)
  /\ UNCHANGED <<table, ghosts>>

\* Faulty variant: the update has no condition on an earlier root.
MarkCommitted_Unconditional(p) ==
  LET q == req[p] IN
  /\ pc[p] = "markCommitted"
  /\ IF IsTicket(q.ticket)
       THEN /\ row' = [row EXCEPT ![q.ticket].root = q.output]
            /\ commits' = commits \cup {<<q.ticket, q.output>>}
       ELSE UNCHANGED <<row, commits>>
  /\ End(p)
  /\ UNCHANGED <<created, expired, revocations, deletions, late>>

\* Faulty variant: the whole item is put back, as the handler had read it.
MarkCommitted_WholeItem(p) ==
  LET q == req[p] IN
  /\ pc[p] = "markCommitted"
  /\ row' = [row EXCEPT ![q.ticket] = [NewRow(TRUE, User) EXCEPT !.root = q.output]]
  /\ commits' = commits \cup {<<q.ticket, q.output>>}
  /\ End(p)
  /\ UNCHANGED <<created, expired, revocations, deletions, late>>

\* markTicketCommitted: sets commit.root if there is none, whatever isRevoked
\* and expiresAt are by now.  409 when there is one; where the row has been
\* deleted the path commit.root is invalid, and the exception is a 500.
MarkCommitted(p) ==
  LET q == req[p] IN
  /\ pc[p] = "markCommitted"
  /\ IF IsTicket(q.ticket) /\ row[q.ticket].root = NoRoot
       THEN /\ row' = [row EXCEPT ![q.ticket].root = q.output]
            /\ commits' = commits \cup {<<q.ticket, q.output>>}
       ELSE UNCHANGED <<row, commits>>
  /\ End(p)
  /\ UNCHANGED <<created, expired, revocations, deletions, late>>

-----------------------------------------------------------------------------
(* POST /tickets/:id/revoke. *)

ReceiveRevoke(p, t, c) ==
  /\ t \in created
  /\ Begin(p, "readRevoke", [ticket |-> t, caller |-> c, seen |-> NoRoot])
  /\ UNCHANGED <<table, ghosts>>

\* 404, or 409 already revoked.
ReadRevoke(p) ==
  LET t == req[p].ticket IN
  /\ pc[p] = "readRevoke"
  /\ IF Found(t) /\ ~row[t].revoked
       THEN Goto(p, "checkRevoke") /\ req' = [req EXCEPT ![p].seen = row[t].root]
       ELSE End(p)
  /\ UNCHANGED <<table, ghosts>>

\* revokeTicket reads the row again: an exception when it is gone, 403 for an
\* agent that did not issue it.
CheckRevoke(p) ==
  LET t == req[p].ticket IN
  /\ pc[p] = "checkRevoke"
  /\ IF Found(t) /\ req[p].caller \in {User, row[t].issuer}
       THEN Goto(p, "markRevoked") /\ UNCHANGED req
       ELSE End(p)
  /\ UNCHANGED <<table, ghosts>>

\* Faulty variant: a missing item is created whole.
MarkRevoked_Recreates(p) ==
  LET q == req[p] IN
  /\ pc[p] = "markRevoked"
  /\ row' = [row EXCEPT ![q.ticket] =
       IF IsTicket(q.ticket) THEN [@ EXCEPT !.revoked = TRUE]
       ELSE [NewRow(TRUE, q.caller) EXCEPT !.revoked = TRUE]]
  /\ revocations' = revocations \cup
       {<<q.ticket, IF q.seen = NoRoot THEN "revoked" ELSE "archived">>}
  /\ End(p)
  /\ UNCHANGED <<created, expired, commits, deletions, late>>

\* An unconditional update, which leaves a stray item where the row has been
\* deleted.  The reply's status comes from the first read.
MarkRevoked(p) ==
  LET q == req[p] IN
  /\ pc[p] = "markRevoked"
  /\ row' = [row EXCEPT ![q.ticket] =
       IF IsTicket(q.ticket) THEN [@ EXCEPT !.revoked = TRUE] ELSE Stray]
  /\ revocations' = revocations \cup
       {<<q.ticket, IF q.seen = NoRoot THEN "revoked" ELSE "archived">>}
  /\ End(p)
  /\ UNCHANGED <<created, expired, commits, deletions, late>>

-----------------------------------------------------------------------------
(* DELETE /tickets/:id, by the user; an agent is refused before any read. *)

ReceiveDelete(p, t) ==
  /\ t \in created
  /\ Begin(p, "readDelete", [ticket |-> t])
  /\ UNCHANGED <<table, ghosts>>

ReadDelete(p) ==
  /\ pc[p] = "readDelete"
  /\ IF Found(req[p].ticket)
       THEN Goto(p, "deleteRow") /\ UNCHANGED req
       ELSE End(p)
  /\ UNCHANGED <<table, ghosts>>

DeleteRow(p) ==
  LET t == req[p].ticket IN
  /\ pc[p] = "deleteRow"
  /\ row' = [row EXCEPT ![t] = NoRow]
  /\ deletions' = deletions \cup {t}
  /\ End(p)
  /\ UNCHANGED <<created, expired, commits, revocations, late>>

-----------------------------------------------------------------------------

\* A request that dies between two awaits: timeout, killed instance, failed call.
Die(p) ==
  /\ pc[p] # "idle"
  /\ End(p)
  /\ UNCHANGED <<table, ghosts>>

Receive(p) ==
  \E t \in Ticket :
    \/ ReceiveUpload(p, t)
    \/ \E x \in Root : ReceiveCommit(p, t, x)
    \/ \E c \in Caller : ReceiveRevoke(p, t, c)
    \/ ReceiveDelete(p, t)

Handle(p) ==
  \/ AuthUpload(p) \/ Upload(p)
  \/ AuthCommit(p) \/ ReadCommit(p) \/ MarkCommitted(p)
  \/ ReadRevoke(p) \/ CheckRevoke(p) \/ MarkRevoked(p)
  \/ ReadDelete(p) \/ DeleteRow(p)

Next ==
  \/ \E t \in Ticket :
       \/ \E w \in BOOLEAN, c \in Caller : Create(t, w, c)
       \/ Expire(t)
  \/ \E p \in Proc : Receive(p) \/ Handle(p) \/ Die(p)

Spec == Init /\ [][Next]_vars
-----------------------------------------------------------------------------
(* Properties. *)

TypeOK ==
  /\ row \in [Ticket -> Row \cup {NoRow, Stray}]
  /\ created \subseteq Ticket
  /\ expired \subseteq created
  /\ pc \in [Proc -> Step]
  /\ req \in [Proc -> CommitRequest \cup RevokeRequest \cup OtherRequest \cup {NoRequest}]
  /\ \A p \in Proc :
       /\ pc[p] = "idle" => req[p] = NoRequest
       /\ pc[p] \in CommitSteps => req[p] \in CommitRequest
       /\ pc[p] \in RevokeSteps => req[p] \in RevokeRequest
       /\ pc[p] \in UploadSteps \cup DeleteSteps => req[p] \in OtherRequest
  /\ commits \subseteq Ticket \X Root
  /\ revocations \subseteq Ticket \X {"revoked", "archived"}
  /\ deletions \subseteq Ticket
  /\ late \in [Ticket -> Nat]

\* Whatever commits race, at most one is answered 200, and a reader of the
\* ticket sees that one's output for as long as the ticket exists.
CommitAnswersAgree ==
  \A c \in commits :
    /\ \A d \in commits : d[1] = c[1] => d = c
    /\ IsTicket(c[1]) => row[c[1]].root = c[2]

\* A revocation answered 200 is never undone, by a commit that had read the row
\* before it least of all.
RevocationsDurable ==
  \A v \in revocations : IsTicket(v[1]) => row[v[1]].revoked

\* No request in flight brings back a ticket whose deletion was answered 200;
\* what a racing revocation leaves in its place is not a ticket.
DeletionsDurable == \A t \in deletions : ~IsTicket(t)

\* Uploads may land after the ticket was committed, revoked or deleted, but only
\* those admitted before: at most one per request slot other than the one that
\* ended the ticket.
LateUploadsBounded == \A t \in Ticket : late[t] <= Cardinality(Proc) - 1

Lifecycle == INSTANCE TicketLifecycle WITH
  status <- [t \in Ticket |-> StatusOf(t)],
  output <- [t \in Ticket |-> IF IsTicket(t) THEN row[t].root ELSE NoRoot]

\* Every step of any interleaving moves a ticket along one edge of the life
\* cycle or leaves it where it is.
ImplementsLifecycle == Lifecycle!Spec
=============================================================================
