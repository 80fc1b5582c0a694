---------------------------- MODULE ContentStore ----------------------------
(***************************************************************************)
(* What the node endpoints promise, with no requests in it: a shared,      *)
(* content-addressed blob store closed under children, and per realm the   *)
(* nodes it owns, references and has been charged for, each of these a     *)
(* subset of the one before.  A node is charged to a realm at most once,   *)
(* in one atomic step with the counters.  NodeStore implements it.         *)
(***************************************************************************)
EXTENDS NodeBody

CONSTANT Realm

VARIABLES
  stored,      \* keys of the blob store
  owns,        \* Realm -> keys it owns
  references,  \* Realm -> keys it holds a reference row for
  charged,     \* Realm -> keys its usage row accounts for
  usage        \* Realm -> usage row

vars == <<stored, owns, references, charged, usage>>

Init ==
  /\ stored = {}
  /\ owns = [r \in Realm |-> {}]
  /\ references = [r \in Realm |-> {}]
  /\ charged = [r \in Realm |-> {}]
  /\ usage = [r \in Realm |-> NoUsage]

Store(n) ==
  /\ ChildSet(n) \subseteq stored
  /\ stored' = stored \cup {n}
  /\ UNCHANGED <<owns, references, charged, usage>>

Own(r, n) ==
  /\ n \in stored
  /\ owns' = [owns EXCEPT ![r] = @ \cup {n}]
  /\ UNCHANGED <<stored, references, charged, usage>>

Refer(r, n) ==
  /\ n \in owns[r]
  /\ references' = [references EXCEPT ![r] = @ \cup {n}]
  /\ UNCHANGED <<stored, owns, charged, usage>>

ChargeOnce(r, n) ==
  /\ n \in references[r] \ charged[r]
  /\ charged' = [charged EXCEPT ![r] = @ \cup {n}]
  /\ usage' = [usage EXCEPT ![r] = Charge(@, n)]
  /\ UNCHANGED <<stored, owns, references>>

Next ==
  \E n \in Node :
    \/ Store(n)
    \/ \E r \in Realm : Own(r, n) \/ Refer(r, n) \/ ChargeOnce(r, n)

Spec == Init /\ [][Next]_vars
=============================================================================
