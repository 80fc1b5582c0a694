-------------------------- MODULE TicketLifecycle --------------------------
(***************************************************************************)
(* The life of a ticket as its holders observe it, with no requests in it: *)
(* the state machine of docs/casfa-api/05-realm/02-tickets.md, and the one *)
(* edge the handlers add to it, LateCommit.  Tickets implements it.        *)
(***************************************************************************)
CONSTANTS Ticket, Root, NoRoot

VARIABLES
  status,   \* Ticket -> what deriveTicketStatus computes
  output    \* Ticket -> the committed root, NoRoot before and after

vars == <<status, output>>

Init ==
  /\ status = [t \in Ticket |-> "none"]
  /\ output = [t \in Ticket |-> NoRoot]

Issue(t) ==
  /\ status[t] = "none"
  /\ status' = [status EXCEPT ![t] = "issued"]
  /\ UNCHANGED output

Commit(t, x) ==
  /\ status[t] = "issued"
  /\ status' = [status EXCEPT ![t] = "committed"]
  /\ output' = [output EXCEPT ![t] = x]

Revoke(t) ==
  /\ \/ status[t] = "issued" /\ status' = [status EXCEPT ![t] = "revoked"]
     \/ status[t] = "committed" /\ status' = [status EXCEPT ![t] = "archived"]
  /\ UNCHANGED output

\* A commit admitted before the revocation lands after it.
LateCommit(t, x) ==
  /\ status[t] = "revoked"
  /\ status' = [status EXCEPT ![t] = "archived"]
  /\ output' = [output EXCEPT ![t] = x]

Delete(t) ==
  /\ status[t] \notin {"none", "deleted"}
  /\ status' = [status EXCEPT ![t] = "deleted"]
  /\ output' = [output EXCEPT ![t] = NoRoot]

Next ==
  \E t \in Ticket :
    \/ Issue(t) \/ Revoke(t) \/ Delete(t)
    \/ \E x \in Root : Commit(t, x) \/ LateCommit(t, x)

Spec == Init /\ [][Next]_vars
=============================================================================
