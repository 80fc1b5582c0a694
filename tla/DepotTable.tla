----------------------------- MODULE DepotTable -----------------------------
(***************************************************************************)
(* The depot items of one realm, as apps/casfa-v2/backend/src/db/depots.ts *)
(* keeps them: a depot is a mutable root with a bounded history of earlier *)
(* roots.  The functions of DepotsDb are called concurrently by any number *)
(* of requests; a caller is one call in flight and each DynamoDB command   *)
(* one step.  commit reads the item, computes the new history from what it *)
(* read, and writes root and history back without a condition.             *)
(*                                                                         *)
(* get, getByTitle and list are single reads; they have no step here.      *)
(***************************************************************************)
EXTENDS Naturals, Sequences, Functions

CONSTANTS
  Depot,             \* depot ids; drawn at random, never used again
  Key,               \* roots a caller can commit or create a depot with
  NoRoot,            \* root of an item that has none
  Title,             \* titles a caller can ask for
  NoTitle,           \* no title asked for; title of an item that has none
  SystemMaxHistory,  \* SYSTEM_MAX_HISTORY, the callers' bound on maxHistory
  NoLimit,           \* no maxHistory asked for; maxHistory of an item without
  Proc,              \* calls that may be in flight
  NoCall             \* the locals of a slot with no call in flight

Limit == 1 .. SystemMaxHistory

ASSUME TableAssumption ==
  /\ SystemMaxHistory \in Nat \ {0}
  /\ NoLimit \notin Nat
  /\ NoTitle \notin Title
  /\ NoRoot \notin Key

VARIABLES
  used,   \* depot ids already drawn
  row,    \* Depot -> the depot item
  call    \* Proc -> what a call carries from one command to the next

\* History variable: no action's guard reads it.
VARIABLE
  removed   \* depots a delete removed

table == <<used, row, call, removed>>

-----------------------------------------------------------------------------
(* Items. *)

\* whole: the item has its depotId and the other attributes of a created depot;
\* an item that an unconditional update made of nothing has not.
Row == [root : Key \cup {NoRoot}, history : Seq(Key), max : Limit \cup {NoLimit},
        title : Title \cup {NoTitle}, whole : BOOLEAN]

NoRow == [whole |-> FALSE]
Stray == [root |-> NoRoot, history |-> <<>>, max |-> NoLimit, title |-> NoTitle,
          whole |-> FALSE]

Present(d) == row[d] # NoRow

\* The item an update expression starts from: an empty one if there is none.
Base(d) == IF Present(d) THEN row[d] ELSE Stray

Cut(h, max) == IF max = NoLimit \/ Len(h) <= max THEN h ELSE SubSeq(h, 1, max)

\* h.filter((y) => y !== x)
Without(h, x) ==
  LET kept[i \in 0 .. Len(h)] ==
        IF i = 0 THEN <<>>
        ELSE IF h[i] = x THEN kept[i - 1] ELSE Append(kept[i - 1], h[i])
  IN  kept[Len(h)]

\* Faulty variant: the old root is taken out of the history, not put into it.
NextHistory_OldRootLost(r, x) ==
  Without(Cut(Without(r.history, r.root), r.max), NoRoot)

\* Faulty variant: the missing root of an item without one is kept.
NextHistory_NoRootKept(r, x) == Cut(<<r.root>> \o Without(r.history, x), r.max)

\* The history after a commit of x to a depot read as r.  The root an item
\* lacks is undefined: it counts for the cut, and the database client's
\* removeUndefinedValues takes it out when the list is written.
NextHistory(r, x) ==
  Without(Cut(<<r.root>> \o Without(r.history, x), r.max), NoRoot)

\* The roots an item points at, now or in its history.
Entries(r) == ({r.root} \cup Range(r.history)) \ {NoRoot}

-----------------------------------------------------------------------------
(* Calls. *)

\* An update whose first command is done, and the history its second writes.
UpdateCall == [depot : Depot, history : Seq(Key)]
\* A commit, and the item it has read.
CommitCall == [depot : Depot, root : Key, read : Row]

ASSUME NoCallAssumption == NoCall \notin UpdateCall \cup CommitCall

Free(p) == call[p] = NoCall
Carry(p, c) == call' = [call EXCEPT ![p] = c]

TableInit ==
  /\ used = {}
  /\ row = [d \in Depot |-> NoRow]
  /\ call = [p \in Proc |-> NoCall]
  /\ removed = {}

Create(p, d, t, x, m) ==
  /\ Free(p)
  /\ d \notin used
  /\ used' = used \cup {d}
  /\ row' = [row EXCEPT ![d] = [root |-> x, history |-> <<>>, max |-> m, title |-> t,
                                whole |-> TRUE]]
  /\ UNCHANGED <<call, removed>>

\* The first command of update and, when it leaves a history longer than the
\* new limit, the cut of it, taken from what the command returned.
SetFields(p, d, t, m) ==
  LET h == Base(d).history IN
  /\ row' = [row EXCEPT ![d] = [Base(d) EXCEPT
                !.title = IF t = NoTitle THEN @ ELSE t,
                !.max = IF m = NoLimit THEN @ ELSE m]]
  /\ IF Cut(h, m) # h
       THEN Carry(p, [depot |-> d, history |-> Cut(h, m)])
       ELSE UNCHANGED call
  /\ UNCHANGED <<used, removed>>

\* Faulty variant: the update has no condition.
Update_Unconditional(p, d, t, m) == Free(p) /\ SetFields(p, d, t, m)

\* Conditional on the item: null, and nothing changed, when there is none.
Update(p, d, t, m) ==
  /\ Free(p)
  /\ IF Present(d) THEN SetFields(p, d, t, m) ELSE UNCHANGED table

\* The second command of update, unconditional.
Truncate(p) ==
  LET d == call[p].depot IN
  /\ call[p] \in UpdateCall
  /\ row' = [row EXCEPT ![d] = [Base(d) EXCEPT !.history = call[p].history]]
  /\ Carry(p, NoCall)
  /\ UNCHANGED <<used, removed>>

\* commit reads the item: null when there is none.
ReadDepot(p, d, x) ==
  /\ Free(p)
  /\ Present(d)
  /\ Carry(p, [depot |-> d, root |-> x, read |-> row[d]])
  /\ UNCHANGED <<used, row, removed>>

\* commit writes root and history, unconditionally.
WriteRoot(p) ==
  LET c == call[p]
      d == c.depot
      new == [Base(d) EXCEPT !.root = c.root, !.history = NextHistory(c.read, c.root)]
  IN
  /\ c \in CommitCall
  /\ row' = [row EXCEPT ![d] = new]
  /\ Carry(p, NoCall)
  /\ UNCHANGED <<used, removed>>

\* delete, conditional on the item: false when there is none.
Delete(p, d) ==
  /\ Free(p)
  /\ row' = [row EXCEPT ![d] = NoRow]
  /\ removed' = IF Present(d) THEN removed \cup {d} ELSE removed
  /\ UNCHANGED <<used, call>>

\* A call whose caller dies between two commands.
Drop(p) ==
  /\ ~Free(p)
  /\ Carry(p, NoCall)
  /\ UNCHANGED <<used, row, removed>>

Call(p) ==
  \E d \in Depot :
    \/ \E t \in Title \cup {NoTitle}, x \in Key, m \in Limit : Create(p, d, t, x, m)
    \/ \E t \in Title \cup {NoTitle}, m \in Limit \cup {NoLimit} : Update(p, d, t, m)
    \/ \E x \in Key : ReadDepot(p, d, x)
    \/ Delete(p, d)

Continue(p) == Truncate(p) \/ WriteRoot(p)

TableNext == \E p \in Proc : Call(p) \/ Continue(p) \/ Drop(p)

TableSpec == TableInit /\ [][TableNext]_table

-----------------------------------------------------------------------------
(* Properties. *)

\* Whatever new limits race with whatever commits, no depot's history is ever
\* longer than the system limit.  (It can be longer than the depot's own
\* maxHistory: a commit that read the old limit may write after the new one.)
HistoryBounded ==
  \A d \in Depot :
    Present(d) /\ row[d].whole => Len(row[d].history) <= SystemMaxHistory

TableTypeOK ==
  /\ used \subseteq Depot
  /\ row \in [Depot -> Row \cup {NoRow}]
  /\ call \in [Proc -> UpdateCall \cup CommitCall \cup {NoCall}]
  /\ removed \subseteq used
  /\ HistoryBounded

\* A commit to a depot, whose read was still current when it wrote, loses no
\* root unless the history is full.
UndisturbedCommitKeepsAll ==
  [][\A p \in Proc :
       LET d == call[p].depot IN
       /\ WriteRoot(p)
       /\ row[d].whole /\ call[p].read = row[d]
       /\ Len(row'[d].history) # row[d].max
       => Entries(row[d]) \subseteq Entries(row'[d])]_table

\* An unconditional update that outlives its depot makes an item no reader can
\* format; such an item is only ever what is left of a deleted depot, never of
\* one that is there or was never created.
StraysWereDepots == \A d \in Depot : Present(d) /\ ~row[d].whole => d \in removed
=============================================================================
