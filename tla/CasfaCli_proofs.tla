--------------------------- MODULE CasfaCli_proofs ---------------------------
(***************************************************************************)
(* Proofs about CasfaCli, for any profiles, tokens, nodes and commands.    *)
(***************************************************************************)
EXTENDS CasfaCli, TLAPS

-----------------------------------------------------------------------------
(* The inductive invariant. *)

Locals == [op : Ops \cup {"none"}, profile : Profile \cup {NoProfile}, token : Token \cup {NoToken},
           node : Node \cup {NoNode}, copy : [config : Config, credentials : Credentials],
           linked : BOOLEAN, todo : SUBSET Node]

NodeSteps == {"look", "read", "fetch", "mkdir", "openNode", "writeNode", "rmdir"}

\* What the arguments and local variables of a command are at its steps.
LocalsOK(p) ==
  /\ pc[p] \in Label /\ loc[p] \in Locals /\ meant[p] \in Profile \cup {NoProfile}
  /\ pc[p] = "config" => loc[p].op \in ConfigOps \cup CredentialOps \cup NodeOps
  /\ pc[p] = "credentials" => loc[p].op \in CredentialOps \cup NodeOps
  /\ pc[p] \in {"open", "write"} => loc[p].op \in ConfigOps \cup CredentialOps
  /\ pc[p] = "config" /\ loc[p].op \in ConfigOps => loc[p].profile \in Profile
  /\ pc[p] \in {"config", "credentials"} /\ loc[p].op \in NodeOps => loc[p].node \in Node
  /\ pc[p] \in {"credentials", "open", "write"} => loc[p].profile \in Profile /\ meant[p] \in Profile
  /\ pc[p] \in NodeSteps => loc[p].node \in Node

\* The parts of TypeOK about the files and about the cache.
FilesOK ==
  /\ DOMAIN file = File /\ DOMAIN agreed = File
  /\ file["config"] \in [text : Text, val : Config]
  /\ file["credentials"] \in [text : Text, val : Credentials]
  /\ \A f \in File : file[f].text # "whole" => file[f].val = Defaults[f]
  /\ agreed["config"] \in Config /\ agreed["credentials"] \in Credentials
  /\ disturbed \subseteq File /\ begun \in 0..MaxCommands

CacheOK ==
  /\ cache \in [Node -> {"none", "empty", "part", "whole"}]
  /\ dirs \subseteq Node /\ \A n \in Node : cache[n] # "none" => n \in dirs
  /\ hurt \subseteq Node

Typed ==
  /\ FilesOK /\ CacheOK
  /\ pc \in [Proc -> Label] /\ loc \in [Proc -> Locals] /\ meant \in [Proc -> Profile \cup {NoProfile}]
  /\ \A p \in Proc : LocalsOK(p)

\* What the file of p's command holds after it, the command being one step.
After(p, f) ==
  IF f = "config" THEN Configured(loc[p], agreed[f])
  ELSE [agreed[f] EXCEPT ![meant[p]] = loc[p].token]

\* An undisturbed file is changed by one command at a time, which is about to
\* write what the command makes of the agreed value.
Agrees(f) ==
  f \notin disturbed =>
    /\ (\A p \in Proc : ~Writing(p, f)) => file[f].val = agreed[f]
    /\ \A p, o \in Proc : Changing(p, f) /\ Changing(o, f) => p = o
    /\ \A p \in Proc : Changing(p, f) => loc[p].copy[f] = After(p, f)
    /\ \A p \in Proc : Writing(p, f) => file[f].text = "empty"

\* And is for the profile it is meant for.
MeantOK(p) ==
  pc[p] = "credentials" /\ loc[p].op \in CredentialOps /\ "credentials" \notin disturbed =>
    loc[p].profile = meant[p]

\* A file that is being written is there, until it is unlinked.
Written == \A p \in Proc, n \in Node : WritingNode(p, n) => cache[n] # "none"

IInv ==
  /\ Typed
  /\ \A f \in File : Agrees(f)
  /\ \A p \in Proc : MeantOK(p)
  /\ Written /\ TornNodesExplained

\* A step of p leaves the other commands as they are, but for linked.
Others(p) ==
  \A o \in Proc \ {p} :
    /\ pc'[o] = pc[o] /\ meant'[o] = meant[o]
    /\ loc'[o] = loc[o] \/ loc'[o] = [loc[o] EXCEPT !.linked = FALSE]

-----------------------------------------------------------------------------
(* Steps of commands. *)

LEMMA Goes ==
  ASSUME Typed, NEW p \in Proc, NEW label, NEW q, Goto(p, label, q)
  PROVE  /\ pc' = [pc EXCEPT ![p] = label] /\ loc' = [loc EXCEPT ![p] = q]
         /\ pc'[p] = label /\ loc'[p] = q
         /\ \A o \in Proc \ {p} : pc'[o] = pc[o] /\ loc'[o] = loc[o]
BY DEF Typed, Goto

LEMMA Ends ==
  ASSUME Typed, NEW p \in Proc, End(p)
  PROVE  /\ pc' = [pc EXCEPT ![p] = "idle"] /\ loc' = [loc EXCEPT ![p] = Idle]
         /\ pc'[p] = "idle" /\ loc'[p] = Idle
         /\ \A o \in Proc \ {p} : pc'[o] = pc[o] /\ loc'[o] = loc[o]
BY Goes DEF End

LEMMA IdleTyped == Idle \in Locals /\ Defaults \in [config : Config, credentials : Credentials]
<1>1. Defaults \in [config : Config, credentials : Credentials]
  BY CliAssumption DEF Defaults, Config, Credentials
<1> QED
  BY <1>1 DEF Idle, Locals

\* Type correctness of the commands after a step of p.
LEMMA CommandTypes ==
  ASSUME Typed, NEW p \in Proc, Others(p), LocalsOK(p)',
         DOMAIN pc' = Proc, pc' = [o \in Proc |-> pc'[o]],
         DOMAIN loc' = Proc, loc' = [o \in Proc |-> loc'[o]],
         meant' = [o \in Proc |-> meant'[o]], FilesOK', CacheOK'
  PROVE  Typed'
<1>1. \A o \in Proc \ {p} : LocalsOK(o)'
  <2> SUFFICES ASSUME NEW o \in Proc \ {p} PROVE LocalsOK(o)'
    OBVIOUS
  <2>1. LocalsOK(o) /\ loc[o] \in Locals
    BY DEF Typed
  <2>2. /\ pc'[o] = pc[o] /\ meant'[o] = meant[o] /\ loc'[o] \in Locals
        /\ loc'[o].op = loc[o].op /\ loc'[o].profile = loc[o].profile /\ loc'[o].node = loc[o].node
    BY <2>1 DEF Others, Locals
  <2> QED
    BY <2>1, <2>2 DEF LocalsOK
<1>2. \A o \in Proc : LocalsOK(o)'
  BY <1>1
<1>3. pc' \in [Proc -> Label] /\ loc' \in [Proc -> Locals]
      /\ meant' \in [Proc -> Profile \cup {NoProfile}]
  BY <1>2 DEF LocalsOK
<1> QED
  BY <1>2, <1>3 DEF Typed

\* The same, when p is the only command whose variables change.
LEMMA MoveTypes ==
  ASSUME Typed, NEW p \in Proc, NEW label, NEW q, Goto(p, label, q),
         \/ meant' = meant
         \/ \E x : meant' = [meant EXCEPT ![p] = x],
         LocalsOK(p)', FilesOK', CacheOK'
  PROVE  Typed' /\ Others(p)
<1>1. /\ pc' = [pc EXCEPT ![p] = label] /\ loc' = [loc EXCEPT ![p] = q]
      /\ \A o \in Proc \ {p} : pc'[o] = pc[o] /\ loc'[o] = loc[o]
  BY Goes
<1>2. (\A o \in Proc \ {p} : meant'[o] = meant[o]) /\ meant' = [o \in Proc |-> meant'[o]]
  BY DEF Typed
<1>3. Others(p)
  BY <1>1, <1>2 DEF Others
<1>4. /\ DOMAIN pc' = Proc /\ pc' = [o \in Proc |-> pc'[o]]
      /\ DOMAIN loc' = Proc /\ loc' = [o \in Proc |-> loc'[o]]
  BY <1>1 DEF Typed
<1> QED
  BY <1>2, <1>3, <1>4, CommandTypes

\* A command that has ended.
LEMMA EndTypes ==
  ASSUME Typed, NEW p \in Proc, End(p), meant' = meant, FilesOK', CacheOK'
  PROVE  Typed' /\ Others(p)
<1>1. pc'[p] = "idle" /\ loc'[p] = Idle /\ Goto(p, "idle", Idle)
  BY Ends DEF End
<1>2. LocalsOK(p)'
  BY <1>1, IdleTyped DEF Typed, LocalsOK, Label, NodeSteps
<1> QED
  BY <1>1, <1>2, MoveTypes

\* Steps that leave the files, or the cache, as they are.
LEMMA SameFiles ==
  ASSUME Typed, UNCHANGED <<file, agreed>>, disturbed' \subseteq File, begun' \in 0..MaxCommands
  PROVE  FilesOK'
BY DEF Typed, FilesOK

LEMMA SameCache ==
  ASSUME Typed, UNCHANGED <<cache, dirs, hurt>>
  PROVE  CacheOK'
BY DEF Typed, CacheOK

LEMMA BeginType ==
  ASSUME Typed, NEW p \in Proc, Begin(p)
  PROVE  Typed' /\ Others(p) /\ pc'[p] \in {"config", "clear"}
<1>1. begun' \in 0..MaxCommands /\ disturbed \subseteq File /\ dirs \subseteq Node
  <2>1. begun < MaxCommands /\ begun' = begun + 1
    BY DEF Begin
  <2> QED
    BY <2>1, CliAssumption DEF Typed, FilesOK, CacheOK
<1>2. FilesOK' /\ CacheOK'
  BY <1>1, SameFiles, SameCache DEF Begin, ghosts
<1>3. meant' = meant /\ meant[p] \in Profile \cup {NoProfile}
  BY DEF Begin, ghosts, Typed
<1>4. ASSUME NEW q \in Locals, Goto(p, "config", q), q.op \in ConfigOps \cup CredentialOps \cup NodeOps,
             q.op \in ConfigOps => q.profile \in Profile, q.op \in NodeOps => q.node \in Node
      PROVE  Typed' /\ Others(p) /\ pc'[p] \in {"config", "clear"}
  <2>1. pc'[p] = "config" /\ loc'[p] = q
    BY <1>4, Goes
  <2>2. LocalsOK(p)'
    BY <1>3, <1>4, <2>1 DEF LocalsOK, Label, NodeSteps
  <2> QED
    BY <1>2, <1>3, <1>4, <2>1, <2>2, MoveTypes
<1>5. CASE \E op \in ConfigOps, x \in Profile :
             Goto(p, "config", [Idle EXCEPT !.op = op, !.profile = x])
  <2>1. PICK op \in ConfigOps, x \in Profile : Goto(p, "config", [Idle EXCEPT !.op = op, !.profile = x])
    BY <1>5
  <2> DEFINE q == [Idle EXCEPT !.op = op, !.profile = x]
  <2>2. q \in Locals /\ q.op = op /\ q.profile = x
    BY IdleTyped DEF Locals, Ops
  <2> QED
    BY <1>4, <2>1, <2>2 DEF ConfigOps, NodeOps
<1>6. CASE \E x \in Profile \cup {NoProfile}, t \in Token :
             Goto(p, "config", [Idle EXCEPT !.op = "set", !.profile = x, !.token = t])
  <2>1. PICK x \in Profile \cup {NoProfile}, t \in Token :
          Goto(p, "config", [Idle EXCEPT !.op = "set", !.profile = x, !.token = t])
    BY <1>6
  <2> DEFINE q == [Idle EXCEPT !.op = "set", !.profile = x, !.token = t]
  <2>2. q \in Locals /\ q.op = "set"
    BY IdleTyped DEF Locals, Ops, CredentialOps
  <2> QED
    BY <1>4, <2>1, <2>2 DEF ConfigOps, CredentialOps, NodeOps
<1>7. CASE \E x \in Profile \cup {NoProfile} :
             Goto(p, "config", [Idle EXCEPT !.op = "logout", !.profile = x])
  <2>1. PICK x \in Profile \cup {NoProfile} :
          Goto(p, "config", [Idle EXCEPT !.op = "logout", !.profile = x])
    BY <1>7
  <2> DEFINE q == [Idle EXCEPT !.op = "logout", !.profile = x]
  <2>2. q \in Locals /\ q.op = "logout"
    BY IdleTyped DEF Locals, Ops, CredentialOps
  <2> QED
    BY <1>4, <2>1, <2>2 DEF ConfigOps, CredentialOps, NodeOps
<1>8. CASE \E x \in Profile \cup {NoProfile}, op \in NodeOps, n \in Node :
             Goto(p, "config", [Idle EXCEPT !.op = op, !.profile = x, !.node = n])
  <2>1. PICK x \in Profile \cup {NoProfile}, op \in NodeOps, n \in Node :
          Goto(p, "config", [Idle EXCEPT !.op = op, !.profile = x, !.node = n])
    BY <1>8
  <2> DEFINE q == [Idle EXCEPT !.op = op, !.profile = x, !.node = n]
  <2>2. q \in Locals /\ q.op = op /\ q.node = n
    BY IdleTyped DEF Locals, Ops
  <2> QED
    BY <1>4, <2>1, <2>2 DEF ConfigOps, NodeOps
<1>9. CASE Goto(p, "clear", [Idle EXCEPT !.op = "clear", !.todo = dirs])
  <2> DEFINE q == [Idle EXCEPT !.op = "clear", !.todo = dirs]
  <2>1. q \in Locals
    BY <1>1, IdleTyped DEF Locals, Ops
  <2>2. pc'[p] = "clear" /\ loc'[p] = q
    BY <1>9, Goes
  <2>3. LocalsOK(p)'
    BY <1>3, <2>1, <2>2 DEF LocalsOK, Label, NodeSteps
  <2> QED
    BY <1>2, <1>3, <1>9, <2>2, <2>3, MoveTypes
<1>10. \/ \E op \in ConfigOps, x \in Profile :
            Goto(p, "config", [Idle EXCEPT !.op = op, !.profile = x])
       \/ \E x \in Profile \cup {NoProfile} :
            \/ \E t \in Token : Goto(p, "config", [Idle EXCEPT !.op = "set", !.profile = x, !.token = t])
            \/ Goto(p, "config", [Idle EXCEPT !.op = "logout", !.profile = x])
            \/ \E op \in NodeOps, n \in Node :
                 Goto(p, "config", [Idle EXCEPT !.op = op, !.profile = x, !.node = n])
       \/ Goto(p, "clear", [Idle EXCEPT !.op = "clear", !.todo = dirs])
  BY DEF Begin
<1> QED
  BY <1>5, <1>6, <1>7, <1>8, <1>9, <1>10

\* What configuration commands make of a configuration.
LEMMA ConfiguredTyped ==
  ASSUME NEW q \in Locals, NEW c \in Config, q.op \in ConfigOps, q.profile \in Profile
  PROVE  Configured(q, c) \in Config
BY DEF Configured, Config, ConfigOps

LEMMA ReadConfigType ==
  ASSUME Typed, NEW p \in Proc, ReadConfig(p)
  PROVE  Typed' /\ Others(p)
<1> DEFINE q == loc[p]
           c == file["config"].val
           who == Chosen(q, c)
           mine == Chosen(q, agreed["config"])
<1>0. /\ LocalsOK(p) /\ q \in Locals /\ FilesOK /\ pc[p] = "config"
  BY DEF Typed, ReadConfig
<1>1. c \in Config /\ agreed["config"] \in Config
  BY <1>0 DEF FilesOK
<1>2. meant' = [meant EXCEPT ![p] = mine] /\ meant'[p] = mine
  BY DEF ReadConfig, Typed
<1>3. mine \in Profile \cup {NoProfile} /\ who \in Profile \cup {NoProfile}
  BY <1>0, <1>1 DEF Chosen, Locals, Config
<1>4. who \in Profile /\ mine \in Profile
  BY <1>0, <1>1, <1>3 DEF Chosen, Locals, Config
<1>5. FilesOK' /\ CacheOK'
  <2>1. disturbed' \subseteq File
    BY <1>0 DEF ReadConfig, Latched, FilesOK, File
  <2> QED
    BY <1>0, <2>1, SameFiles, SameCache DEF ReadConfig, FilesOK
<1>6. CASE End(p)
  <2>1. pc'[p] = "idle" /\ loc'[p] = Idle /\ Goto(p, "idle", Idle)
    BY <1>6, Ends DEF End
  <2>2. LocalsOK(p)'
    BY <1>2, <1>4, <2>1, IdleTyped DEF LocalsOK, Label, NodeSteps
  <2> QED
    BY <1>2, <1>5, <2>1, <2>2, MoveTypes
<1>7. CASE q.op \in ConfigOps /\ Goto(p, "open", [q EXCEPT !.copy["config"] = Configured(q, c)])
  <2>1. pc'[p] = "open" /\ loc'[p] = [q EXCEPT !.copy["config"] = Configured(q, c)]
    BY <1>7, Goes
  <2>2. q.profile \in Profile /\ Configured(q, c) \in Config
    BY <1>0, <1>1, <1>7, ConfiguredTyped DEF LocalsOK
  <2>3. loc'[p] \in Locals /\ loc'[p].op = q.op /\ loc'[p].profile = q.profile
    BY <1>0, <2>1, <2>2 DEF Locals
  <2>4. LocalsOK(p)'
    BY <1>2, <1>4, <1>7, <2>1, <2>2, <2>3 DEF LocalsOK, Label, NodeSteps
  <2> QED
    BY <1>2, <1>5, <1>7, <2>4, MoveTypes
<1>8. CASE q.op \in CredentialOps \cup NodeOps /\ Goto(p, "credentials", [q EXCEPT !.profile = who])
  <2>1. pc'[p] = "credentials" /\ loc'[p] = [q EXCEPT !.profile = who]
    BY <1>8, Goes
  <2>2. loc'[p] \in Locals /\ loc'[p].op = q.op /\ loc'[p].profile = who /\ loc'[p].node = q.node
    BY <1>0, <1>4, <2>1 DEF Locals
  <2>3. LocalsOK(p)'
    BY <1>0, <1>2, <1>4, <1>8, <2>1, <2>2 DEF LocalsOK, Label, NodeSteps
  <2> QED
    BY <1>2, <1>5, <1>8, <2>3, MoveTypes
<1> QED
  BY <1>6, <1>7, <1>8 DEF ReadConfig, Loaded

LEMMA ReadCredentialsType ==
  ASSUME Typed, NEW p \in Proc, ReadCredentials(p)
  PROVE  Typed' /\ Others(p)
<1> DEFINE q == loc[p]
           m == file["credentials"].val
<1>0. /\ LocalsOK(p) /\ q \in Locals /\ FilesOK /\ pc[p] = "credentials"
  BY DEF Typed, ReadCredentials
<1>1. FilesOK' /\ CacheOK'
  <2>1. disturbed' \subseteq File
    BY <1>0 DEF ReadCredentials, Latched, FilesOK, File
  <2> QED
    BY <1>0, <2>1, SameFiles, SameCache DEF ReadCredentials, FilesOK
<1>2. meant' = meant
  BY DEF ReadCredentials
<1>3. CASE End(p)
  BY <1>1, <1>2, <1>3, EndTypes
<1>4. CASE /\ q.op \in CredentialOps
           /\ Goto(p, "open", [q EXCEPT !.copy["credentials"] = Credited(q, q.profile, m)])
  <2>1. pc'[p] = "open" /\ loc'[p] = [q EXCEPT !.copy["credentials"] = Credited(q, q.profile, m)]
    BY <1>4, Goes
  <2>2. Credited(q, q.profile, m) \in Credentials
    BY <1>0 DEF Credited, FilesOK, Credentials, Locals
  <2>3. loc'[p] \in Locals /\ loc'[p].op = q.op /\ loc'[p].profile = q.profile
    BY <1>0, <2>1, <2>2 DEF Locals
  <2>4. LocalsOK(p)'
    BY <1>0, <1>2, <1>4, <2>1, <2>2, <2>3 DEF LocalsOK, Label, NodeSteps
  <2> QED
    BY <1>1, <1>2, <1>4, <2>4, MoveTypes
<1>5. CASE q.op \in NodeOps /\ Goto(p, IF q.op = "get" THEN "look" ELSE "fetch", q)
  <2>1. pc'[p] \in {"look", "fetch"} /\ loc'[p] = q
    BY <1>5, Goes
  <2>2. LocalsOK(p)'
    BY <1>0, <1>2, <1>5, <2>1 DEF LocalsOK, Label, NodeSteps
  <2> QED
    BY <1>1, <1>2, <1>5, <2>2, MoveTypes
<1> QED
  BY <1>3, <1>4, <1>5 DEF ReadCredentials, Loaded

\* A file after a value of its type has been put into it.
LEMMA PutFile ==
  ASSUME FilesOK, NEW f \in File, NEW v, file' = [file EXCEPT ![f] = v],
         v.text # "whole" => v.val = Defaults[f],
         f = "config" => v \in [text : Text, val : Config],
         f = "credentials" => v \in [text : Text, val : Credentials]
  PROVE  /\ DOMAIN file' = File
         /\ file'["config"] \in [text : Text, val : Config]
         /\ file'["credentials"] \in [text : Text, val : Credentials]
         /\ \A x \in File : file'[x].text # "whole" => file'[x].val = Defaults[x]
BY DEF FilesOK, File

LEMMA UnreadableTyped ==
  ASSUME NEW f \in File, NEW text \in Text
  PROVE  /\ Unreadable(f, text).val = Defaults[f] /\ Unreadable(f, text).text = text
         /\ f = "config" => Unreadable(f, text) \in [text : Text, val : Config]
         /\ f = "credentials" => Unreadable(f, text) \in [text : Text, val : Credentials]
BY IdleTyped DEF Unreadable, File

LEMMA TargetFile ==
  ASSUME NEW q
  PROVE  Target(q) \in File
BY DEF Target, File

LEMMA OpenType ==
  ASSUME Typed, NEW p \in Proc, Open(p)
  PROVE  Typed' /\ Others(p)
<1> DEFINE f == Target(loc[p])
<1>0. /\ LocalsOK(p) /\ FilesOK /\ CacheOK /\ pc[p] = "open" /\ f \in File
      /\ UNCHANGED <<cache, dirs, begun, agreed, meant, disturbed, hurt>>
  BY TargetFile DEF Typed, Open, ghosts
<1>1. file' = [file EXCEPT ![f] = Unreadable(f, "empty")] /\ Goto(p, "write", loc[p])
  BY DEF Open
<1>2. "empty" \in Text
  BY DEF Text
<1>3. FilesOK'
  BY <1>0, <1>1, <1>2, PutFile, UnreadableTyped DEF FilesOK
<1>4. pc'[p] = "write" /\ loc'[p] = loc[p]
  BY <1>1, Goes
<1>5. LocalsOK(p)'
  BY <1>0, <1>4 DEF LocalsOK, Label, NodeSteps
<1> QED
  BY <1>0, <1>1, <1>3, <1>5, SameCache, MoveTypes

LEMMA WriteType ==
  ASSUME Typed, NEW p \in Proc, Write(p)
  PROVE  Typed' /\ Others(p)
<1> DEFINE q == loc[p]
           f == Target(q)
<1>0. /\ LocalsOK(p) /\ q \in Locals /\ FilesOK /\ pc[p] = "write" /\ f \in File
      /\ UNCHANGED <<cache, dirs, begun, meant, disturbed, hurt>> /\ End(p)
  BY TargetFile DEF Typed, Write
<1>1. /\ f = "config" => q.copy[f] \in Config
      /\ f = "credentials" => q.copy[f] \in Credentials
  BY <1>0 DEF Locals
<1>2. PICK v : /\ file' = [file EXCEPT ![f] = v]
               /\ v = [text |-> "whole", val |-> q.copy[f]] \/ v = Unreadable(f, "torn")
  BY DEF Write
<1>3. /\ v.text # "whole" => v.val = Defaults[f]
      /\ f = "config" => v \in [text : Text, val : Config]
      /\ f = "credentials" => v \in [text : Text, val : Credentials]
  <2>1. "torn" \in Text /\ "whole" \in Text
    BY DEF Text
  <2>2. CASE v = Unreadable(f, "torn")
    BY <1>0, <2>1, <2>2, UnreadableTyped
  <2>3. CASE v = [text |-> "whole", val |-> q.copy[f]]
    BY <1>1, <2>1, <2>3
  <2> QED
    BY <1>2, <2>2, <2>3
<1>4. /\ DOMAIN file' = File
      /\ file'["config"] \in [text : Text, val : Config]
      /\ file'["credentials"] \in [text : Text, val : Credentials]
      /\ \A x \in File : file'[x].text # "whole" => file'[x].val = Defaults[x]
  BY <1>0, <1>2, <1>3, PutFile
<1>5. agreed' = [agreed EXCEPT ![f] =
        IF f = "config" THEN Configured(q, agreed[f]) ELSE [agreed[f] EXCEPT ![meant[p]] = q.token]]
  BY DEF Write
<1>6. DOMAIN agreed' = File /\ agreed'["config"] \in Config /\ agreed'["credentials"] \in Credentials
  <2>1. CASE f = "config"
    <3>1. q.op \in ConfigOps /\ q.profile \in Profile
      BY <1>0, <2>1 DEF LocalsOK, Target
    <3>2. Configured(q, agreed["config"]) \in Config
      BY <1>0, <3>1, ConfiguredTyped DEF FilesOK
    <3> QED
      BY <1>0, <1>5, <2>1, <3>2 DEF FilesOK, File
  <2>2. CASE f = "credentials"
    <3>1. [agreed["credentials"] EXCEPT ![meant[p]] = q.token] \in Credentials
      BY <1>0 DEF FilesOK, Credentials, Locals
    <3> QED
      BY <1>0, <1>5, <2>2, <3>1 DEF FilesOK, File
  <2> QED
    BY <1>0, <2>1, <2>2 DEF File
<1>7. FilesOK'
  BY <1>0, <1>4, <1>6 DEF FilesOK
<1> QED
  BY <1>0, <1>7, SameCache, EndTypes

\* A step of a node command that goes on to another.
LEMMA NodeMoveType ==
  ASSUME Typed, NEW p \in Proc, pc[p] \in NodeSteps, NEW label \in NodeSteps, NEW q \in Locals,
         q.node = loc[p].node, Goto(p, label, q), UNCHANGED <<file, begun, agreed, meant, disturbed>>, CacheOK'
  PROVE  Typed' /\ Others(p)
<1>1. pc'[p] = label /\ loc'[p] = q
  BY Goes
<1>2. LocalsOK(p)'
  BY <1>1 DEF Typed, LocalsOK, Label, NodeSteps
<1>3. FilesOK'
  BY SameFiles DEF Typed, FilesOK
<1> QED
  BY <1>2, <1>3, MoveTypes

LEMMA NodeType ==
  ASSUME Typed, Written, NEW p \in Proc,
         Look(p) \/ Read(p) \/ Fetch(p) \/ MakeDir(p) \/ OpenNode(p) \/ WriteNode(p)
  PROVE  Typed' /\ Others(p)
<1> DEFINE q == loc[p]
<1>0. /\ LocalsOK(p) /\ q \in Locals /\ CacheOK
  BY DEF Typed
<1>1. pc[p] \in NodeSteps /\ UNCHANGED <<file, begun, agreed, meant, disturbed>> /\ q.node \in Node
  BY <1>0 DEF NodeSteps, Look, Read, Fetch, MakeDir, OpenNode, WriteNode, ghosts, LocalsOK
<1>2. FilesOK'
  BY <1>1, SameFiles DEF Typed, FilesOK
<1>3. CASE Look(p) \/ Read(p) \/ Fetch(p)
  <2>1. CacheOK'
    BY <1>3, SameCache DEF Look, Read, Fetch, ghosts
  <2>2. \/ End(p) \/ Goto(p, "read", q) \/ Goto(p, "fetch", q) \/ Goto(p, "mkdir", q)
    BY <1>3 DEF Look, Read, Fetch
  <2>3. "read" \in NodeSteps /\ "fetch" \in NodeSteps /\ "mkdir" \in NodeSteps
    BY DEF NodeSteps
  <2> QED
    BY <1>0, <1>1, <1>2, <2>1, <2>2, <2>3, EndTypes, NodeMoveType
<1>4. CASE MakeDir(p)
  <2>1. CacheOK'
    BY <1>0, <1>1, <1>4 DEF MakeDir, CacheOK, ghosts
  <2>2. Goto(p, "openNode", q) /\ "openNode" \in NodeSteps
    BY <1>4 DEF MakeDir, NodeSteps
  <2> QED
    BY <1>0, <1>1, <2>1, <2>2, NodeMoveType
<1>5. CASE OpenNode(p)
  <2>1. CacheOK'
    BY <1>0, <1>1, <1>5 DEF OpenNode, CacheOK, ghosts
  <2>2. End(p) \/ Goto(p, "writeNode", [q EXCEPT !.linked = TRUE])
    BY <1>5 DEF OpenNode
  <2>3. [q EXCEPT !.linked = TRUE] \in Locals /\ [q EXCEPT !.linked = TRUE].node = q.node
        /\ "writeNode" \in NodeSteps
    BY <1>0 DEF Locals, NodeSteps
  <2> QED
    BY <1>1, <1>2, <2>1, <2>2, <2>3, EndTypes, NodeMoveType
<1>6. CASE WriteNode(p)
  <2>1. q.linked => q.node \in dirs
    BY <1>0, <1>1, <1>6 DEF WriteNode, Written, WritingNode, CacheOK
  <2>2. CacheOK'
    BY <1>0, <1>1, <1>6, <2>1 DEF WriteNode, CacheOK
  <2> QED
    BY <1>1, <1>2, <1>6, <2>2, EndTypes DEF WriteNode
<1> QED
  BY <1>3, <1>4, <1>5, <1>6

LEMMA UnlinkType ==
  ASSUME Typed, NEW p \in Proc, Unlink(p)
  PROVE  Typed' /\ Others(p)
<1> DEFINE q == loc[p]
<1>0. /\ LocalsOK(p) /\ q \in Locals /\ CacheOK /\ pc[p] = "clear" /\ meant' = meant
      /\ meant \in [Proc -> Profile \cup {NoProfile}]
  BY DEF Typed, Unlink
<1>1. FilesOK'
  BY SameFiles DEF Typed, FilesOK, Unlink
<1>2. CASE End(p) /\ UNCHANGED <<cache, hurt>>
  BY <1>0, <1>1, <1>2, SameCache, EndTypes DEF Unlink
<1>3. ASSUME NEW n \in q.todo,
             cache' = [cache EXCEPT ![n] = "none"], hurt' = hurt \ {n},
             pc' = [pc EXCEPT ![p] = "rmdir"],
             loc' = [o \in Proc |->
               IF o = p THEN [q EXCEPT !.node = n, !.todo = @ \ {n}]
               ELSE IF WritingNode(o, n) THEN [loc[o] EXCEPT !.linked = FALSE]
               ELSE loc[o]]
      PROVE  Typed' /\ Others(p)
  <2>1. n \in Node
    BY <1>0 DEF Locals
  <2>2. CacheOK'
    BY <1>0, <1>3, <2>1 DEF CacheOK, Unlink
  <2>3. pc'[p] = "rmdir" /\ loc'[p] = [q EXCEPT !.node = n, !.todo = q.todo \ {n}]
    BY <1>3 DEF Typed
  <2>4. loc'[p] \in Locals /\ loc'[p].node = n
    BY <1>0, <2>1, <2>3 DEF Locals
  <2>5. LocalsOK(p)'
    BY <1>0, <2>1, <2>3, <2>4 DEF LocalsOK, Label, NodeSteps
  <2>6. Others(p)
    BY <1>0, <1>3 DEF Typed, Others
  <2>7. /\ DOMAIN pc' = Proc /\ pc' = [o \in Proc |-> pc'[o]]
        /\ DOMAIN loc' = Proc /\ loc' = [o \in Proc |-> loc'[o]]
        /\ meant' = [o \in Proc |-> meant'[o]]
    BY <1>0, <1>3 DEF Typed
  <2> QED
    BY <1>1, <2>2, <2>5, <2>6, <2>7, CommandTypes
<1> QED
  BY <1>2, <1>3 DEF Unlink

LEMMA RemoveDirType ==
  ASSUME Typed, NEW p \in Proc, RemoveDir(p)
  PROVE  Typed' /\ Others(p)
<1>0. /\ LocalsOK(p) /\ loc[p] \in Locals /\ CacheOK /\ meant' = meant
      /\ UNCHANGED <<file, cache, begun, agreed, disturbed, hurt>>
  BY DEF Typed, RemoveDir, ghosts
<1>1. FilesOK'
  BY <1>0, SameFiles DEF Typed, FilesOK
<1>2. CacheOK'
  BY <1>0 DEF CacheOK, RemoveDir
<1>3. Goto(p, "clear", [loc[p] EXCEPT !.node = NoNode])
  BY DEF RemoveDir
<1>4. pc'[p] = "clear" /\ loc'[p] = [loc[p] EXCEPT !.node = NoNode]
  BY <1>3, Goes
<1>5. loc'[p] \in Locals
  BY <1>0, <1>4 DEF Locals
<1>6. LocalsOK(p)'
  BY <1>0, <1>4, <1>5 DEF LocalsOK, Label, NodeSteps
<1> QED
  BY <1>0, <1>1, <1>2, <1>3, <1>6, MoveTypes

LEMMA DieType ==
  ASSUME Typed, Written, NEW p \in Proc, Die(p)
  PROVE  Typed' /\ Others(p)
<1> DEFINE q == loc[p]
           f == Target(q)
<1>0. /\ LocalsOK(p) /\ q \in Locals /\ FilesOK /\ CacheOK /\ f \in File
      /\ UNCHANGED <<dirs, begun, agreed, meant>> /\ End(p)
  BY TargetFile DEF Typed, Die
<1>1. disturbed' \subseteq File /\ hurt' \subseteq Node
  BY <1>0 DEF Die, FilesOK, CacheOK
<1>2. FilesOK'
  <2>1. CASE UNCHANGED file
    BY <1>0, <1>1, <2>1 DEF FilesOK
  <2>2. CASE file' = [file EXCEPT ![f] = Unreadable(f, "torn")]
    <3>1. "torn" \in Text
      BY DEF Text
    <3> QED
      BY <1>0, <1>1, <2>2, <3>1, PutFile, UnreadableTyped DEF FilesOK
  <2> QED
    BY <2>1, <2>2 DEF Die
<1>3. CacheOK'
  <2>1. CASE UNCHANGED cache
    BY <1>0, <1>1, <2>1 DEF CacheOK
  <2>2. CASE pc[p] = "writeNode" /\ q.linked /\ cache' = [cache EXCEPT ![q.node] = "part"]
    <3>1. q.node \in Node /\ q.node \in dirs
      BY <1>0, <2>2 DEF LocalsOK, NodeSteps, Written, WritingNode, CacheOK
    <3> QED
      BY <1>0, <1>1, <2>2, <3>1 DEF CacheOK
  <2> QED
    BY <2>1, <2>2 DEF Die
<1> QED
  BY <1>0, <1>2, <1>3, EndTypes

LEMMA StepType ==
  ASSUME Typed, Written, NEW p \in Proc,
         \/ Begin(p) \/ ReadConfig(p) \/ ReadCredentials(p) \/ Open(p) \/ Write(p)
         \/ Look(p) \/ Read(p) \/ Fetch(p) \/ MakeDir(p) \/ OpenNode(p) \/ WriteNode(p)
         \/ Unlink(p) \/ RemoveDir(p) \/ Die(p)
  PROVE  Typed' /\ Others(p)
BY BeginType, ReadConfigType, ReadCredentialsType, OpenType, WriteType, NodeType, UnlinkType,
   RemoveDirType, DieType

-----------------------------------------------------------------------------
(* The two files. *)

\* What a step of p leaves alone of what the others are doing with a file.
LEMMA OthersSame ==
  ASSUME Typed, NEW p \in Proc, Others(p), NEW o \in Proc \ {p}
  PROVE  /\ loc'[o].op = loc[o].op /\ loc'[o].profile = loc[o].profile
         /\ loc'[o].token = loc[o].token /\ loc'[o].copy = loc[o].copy /\ meant'[o] = meant[o]
         /\ pc'[o] = pc[o]
         /\ \A f \in File : (Changing(o, f)' <=> Changing(o, f)) /\ (Writing(o, f)' <=> Writing(o, f))
<1>1. /\ loc'[o].op = loc[o].op /\ loc'[o].profile = loc[o].profile
      /\ loc'[o].token = loc[o].token /\ loc'[o].copy = loc[o].copy /\ meant'[o] = meant[o]
      /\ pc'[o] = pc[o]
  BY DEF Others, Typed, Locals
<1> QED
  BY <1>1 DEF Changing, Writing, Target

\* What a command makes of a configuration is in its operation and its profile.
LEMMA ConfiguredSame ==
  ASSUME NEW q, NEW r, q.op = r.op, q.profile = r.profile, NEW c
  PROVE  Configured(q, c) = Configured(r, c)
BY DEF Configured

\* A file stays agreed on when p neither finishes nor begins to change it.
LEMMA AgreesStill ==
  ASSUME IInv, NEW p \in Proc, Others(p), NEW f \in File,
         file'[f] = file[f], agreed'[f] = agreed[f], disturbed \subseteq disturbed',
         ~Writing(p, f), ~Changing(p, f)'
  PROVE  Agrees(f)'
<1> SUFFICES ASSUME f \notin disturbed' PROVE Agrees(f)'
  BY DEF Agrees
<1>1. Typed /\ Agrees(f) /\ f \notin disturbed
  BY DEF IInv
<1>2. ~Writing(p, f)'
  BY DEF Writing, Changing
<1>3. \A o \in Proc \ {p} : /\ Changing(o, f)' <=> Changing(o, f)
                            /\ Writing(o, f)' <=> Writing(o, f)
                            /\ loc'[o].copy = loc[o].copy
  BY <1>1, OthersSame
<1>4. (\A o \in Proc : ~Writing(o, f)') => file'[f].val = agreed'[f]
  BY <1>1, <1>3 DEF Agrees
<1>5. \A o, u \in Proc : Changing(o, f)' /\ Changing(u, f)' => o = u
  BY <1>1, <1>3 DEF Agrees
<1>6. \A o \in Proc : Changing(o, f)' => loc'[o].copy[f] = After(o, f)'
  <2> SUFFICES ASSUME NEW o \in Proc \ {p}, Changing(o, f)
               PROVE  loc'[o].copy[f] = After(o, f)'
    BY <1>3
  <2>1. loc[o].copy[f] = After(o, f)
    BY <1>1 DEF Agrees
  <2>2. After(o, f)' = After(o, f)
    BY <1>1, OthersSame, ConfiguredSame DEF After
  <2> QED
    BY <1>3, <2>1, <2>2
<1>7. \A o \in Proc : Writing(o, f)' => file'[f].text = "empty"
  BY <1>1, <1>2, <1>3 DEF Agrees
<1> QED
  BY <1>4, <1>5, <1>6, <1>7 DEF Agrees

\* And when p begins to change it, alone and with the right copy.
LEMMA AgreesBegun ==
  ASSUME IInv, NEW p \in Proc, Others(p), NEW f \in File,
         file'[f] = file[f], agreed'[f] = agreed[f], disturbed \subseteq disturbed',
         \A o \in Proc : ~Changing(o, f),
         pc'[p] = "open", loc'[p].copy[f] = After(p, f)'
  PROVE  Agrees(f)'
<1> SUFFICES ASSUME f \notin disturbed' PROVE Agrees(f)'
  BY DEF Agrees
<1>1. Typed /\ Agrees(f) /\ f \notin disturbed
  BY DEF IInv
<1>2. \A o \in Proc \ {p} : ~Changing(o, f)'
  BY <1>1, OthersSame
<1>3. \A o \in Proc : ~Writing(o, f) /\ ~Writing(o, f)'
  <2>1. \A o \in Proc : ~Writing(o, f)
    BY DEF Writing, Changing
  <2>2. \A o \in Proc \ {p} : ~Writing(o, f)'
    BY <1>2 DEF Writing, Changing
  <2>3. ~Writing(p, f)'
    BY DEF Writing
  <2> QED
    BY <2>1, <2>2, <2>3
<1>4. file'[f].val = agreed'[f]
  BY <1>1, <1>3 DEF Agrees
<1> QED
  BY <1>2, <1>3, <1>4 DEF Agrees

LEMMA ReadConfigAgrees ==
  ASSUME IInv, NEW p \in Proc, ReadConfig(p), Others(p), NEW f \in File
  PROVE  Agrees(f)'
<1> DEFINE q == loc[p]
           c == file["config"].val
<1>0. Typed /\ q \in Locals /\ pc[p] = "config" /\ file' = file /\ agreed' = agreed
  BY DEF IInv, Typed, ReadConfig
<1>1. disturbed \subseteq disturbed'
  BY DEF ReadConfig, Latched
<1>2. ~Writing(p, f)
  BY <1>0 DEF Writing
<1>3. CASE End(p) \/ Goto(p, "credentials", [q EXCEPT !.profile = Chosen(q, c)])
  <2>1. pc'[p] \in {"idle", "credentials"}
    BY <1>0, <1>3, Goes, Ends
  <2>2. ~Changing(p, f)'
    BY <2>1 DEF Changing
  <2> QED
    BY <1>0, <1>1, <1>2, <2>2, AgreesStill
<1>4. CASE /\ q.op \in ConfigOps
           /\ Goto(p, "open", [q EXCEPT !.copy["config"] = Configured(q, c)])
           /\ disturbed' = Latched("config", \E o \in Proc : Changing(o, "config"))
  <2>1. pc'[p] = "open" /\ loc'[p] = [q EXCEPT !.copy["config"] = Configured(q, c)]
    BY <1>0, <1>4, Goes
  <2>2. /\ loc'[p].op = q.op /\ loc'[p].profile = q.profile
        /\ loc'[p].copy["config"] = Configured(q, c)
    BY <1>0, <2>1 DEF Locals
  <2>3. CASE f = "credentials"
    <3>1. ~Changing(p, f)'
      BY <1>4, <2>2, <2>3 DEF Changing, Target
    <3> QED
      BY <1>0, <1>1, <1>2, <3>1, AgreesStill
  <2>4. CASE f = "config" /\ \E o \in Proc : Changing(o, f)
    BY <1>4, <2>4 DEF Latched, Agrees
  <2>5. CASE f = "config" /\ f \in disturbed
    BY <1>1, <2>5 DEF Agrees
  <2>6. CASE f = "config" /\ f \notin disturbed /\ \A o \in Proc : ~Changing(o, f)
    <3>1. c = agreed[f]
      BY <2>6 DEF IInv, Agrees, Writing, Changing
    <3>2. loc'[p].copy[f] = After(p, f)'
      BY <1>0, <2>2, <2>6, <3>1, ConfiguredSame DEF After
    <3> QED
      BY <1>0, <1>1, <2>1, <2>6, <3>2, AgreesBegun
  <2> QED
    BY <2>3, <2>4, <2>5, <2>6 DEF File
<1> QED
  BY <1>3, <1>4 DEF ReadConfig, Loaded

LEMMA ReadCredentialsAgrees ==
  ASSUME IInv, NEW p \in Proc, ReadCredentials(p), Others(p), NEW f \in File
  PROVE  Agrees(f)'
<1> DEFINE q == loc[p]
           m == file["credentials"].val
<1>0. /\ Typed /\ q \in Locals /\ pc[p] = "credentials" /\ file' = file /\ agreed' = agreed
      /\ meant' = meant
  BY DEF IInv, Typed, ReadCredentials
<1>1. disturbed \subseteq disturbed'
  BY DEF ReadCredentials, Latched
<1>2. ~Writing(p, f)
  BY <1>0 DEF Writing
<1>3. CASE End(p) \/ Goto(p, IF q.op = "get" THEN "look" ELSE "fetch", q)
  <2>1. pc'[p] \in {"idle", "look", "fetch"}
    BY <1>0, <1>3, Goes, Ends
  <2>2. ~Changing(p, f)'
    BY <2>1 DEF Changing
  <2> QED
    BY <1>0, <1>1, <1>2, <2>2, AgreesStill
<1>4. CASE /\ q.op \in CredentialOps
           /\ Goto(p, "open", [q EXCEPT !.copy["credentials"] = Credited(q, q.profile, m)])
           /\ disturbed' = Latched("credentials", \E o \in Proc : Changing(o, "credentials"))
  <2>1. /\ pc'[p] = "open"
        /\ loc'[p] = [q EXCEPT !.copy["credentials"] = Credited(q, q.profile, m)]
    BY <1>0, <1>4, Goes
  <2>2. /\ loc'[p].op = q.op /\ loc'[p].token = q.token
        /\ loc'[p].copy["credentials"] = [m EXCEPT ![q.profile] = q.token]
    BY <1>0, <2>1 DEF Locals, Credited
  <2>3. CASE f = "config"
    <3>1. ~Changing(p, f)'
      BY <1>4, <2>2, <2>3 DEF Changing, Target, ConfigOps, CredentialOps
    <3> QED
      BY <1>0, <1>1, <1>2, <3>1, AgreesStill
  <2>4. CASE f = "credentials" /\ \E o \in Proc : Changing(o, f)
    BY <1>4, <2>4 DEF Latched, Agrees
  <2>5. CASE f = "credentials" /\ f \in disturbed
    BY <1>1, <2>5 DEF Agrees
  <2>6. CASE f = "credentials" /\ f \notin disturbed /\ \A o \in Proc : ~Changing(o, f)
    <3>1. m = agreed[f]
      BY <2>6 DEF IInv, Agrees, Writing, Changing
    <3>2. q.profile = meant[p]
      BY <1>0, <1>4, <2>6 DEF IInv, MeantOK
    <3>3. loc'[p].copy[f] = After(p, f)'
      BY <1>0, <2>2, <2>6, <3>1, <3>2 DEF After
    <3> QED
      BY <1>0, <1>1, <2>1, <2>6, <3>3, AgreesBegun
  <2> QED
    BY <2>3, <2>4, <2>5, <2>6 DEF File
<1> QED
  BY <1>3, <1>4 DEF ReadCredentials, Loaded

LEMMA OpenAgrees ==
  ASSUME IInv, NEW p \in Proc, Open(p), Others(p), NEW f \in File
  PROVE  Agrees(f)'
<1> DEFINE t == Target(loc[p])
<1>0. /\ Typed /\ t \in File /\ pc[p] = "open" /\ UNCHANGED <<agreed, meant, disturbed>>
      /\ file' = [file EXCEPT ![t] = Unreadable(t, "empty")]
  BY TargetFile DEF IInv, Open, ghosts
<1>1. pc'[p] = "write" /\ loc'[p] = loc[p]
  BY <1>0, Goes DEF Open
<1>2. DOMAIN file = File
  BY <1>0 DEF Typed, FilesOK
<1>3. CASE f # t
  <2>1. file'[f] = file[f]
    BY <1>0, <1>2, <1>3
  <2>2. ~Writing(p, f) /\ ~Changing(p, f)'
    BY <1>0, <1>1, <1>3 DEF Writing, Changing
  <2> QED
    BY <1>0, <2>1, <2>2, AgreesStill
<1>4. CASE f = t /\ f \notin disturbed
  <2>0. Agrees(f)
    BY DEF IInv
  <2>1. file'[f].text = "empty"
    BY <1>0, <1>2, <1>4 DEF Unreadable
  <2>2. Changing(p, f) /\ Changing(p, f)' /\ Writing(p, f)'
    BY <1>0, <1>1, <1>4 DEF Changing, Writing
  <2>3. \A o \in Proc \ {p} : ~Changing(o, f)'
    BY <1>0, <1>4, <2>0, <2>2, OthersSame DEF Agrees
  <2>4. loc'[p].copy[f] = After(p, f)'
    BY <1>0, <1>1, <1>4, <2>0, <2>2 DEF Agrees, After
  <2> QED
    BY <2>1, <2>2, <2>3, <2>4 DEF Agrees
<1>5. CASE f \in disturbed
  BY <1>0, <1>5 DEF Agrees
<1> QED
  BY <1>3, <1>4, <1>5

LEMMA WriteAgrees ==
  ASSUME IInv, NEW p \in Proc, Write(p), Others(p), NEW f \in File
  PROVE  Agrees(f)'
<1> DEFINE q == loc[p]
           t == Target(q)
<1>0. /\ Typed /\ t \in File /\ pc[p] = "write" /\ disturbed' = disturbed /\ End(p)
      /\ DOMAIN file = File /\ DOMAIN agreed = File
  BY TargetFile DEF IInv, Typed, FilesOK, Write
<1>1. pc'[p] = "idle"
  BY <1>0, Ends
<1>2. ~Changing(p, f)' /\ ~Writing(p, f)'
  BY <1>1 DEF Changing, Writing
<1>3. CASE f # t
  <2>1. file'[f] = file[f] /\ agreed'[f] = agreed[f]
    BY <1>0, <1>3 DEF Write
  <2>2. ~Writing(p, f)
    BY <1>3 DEF Writing
  <2> QED
    BY <1>0, <1>2, <2>1, <2>2, AgreesStill
<1>4. CASE f = t /\ f \notin disturbed
  <2>0. Agrees(f) /\ Changing(p, f) /\ Writing(p, f)
    BY <1>0, <1>4 DEF IInv, Changing, Writing
  <2>1. file[f].text = "empty" /\ q.copy[f] = After(p, f)
    BY <1>4, <2>0 DEF Agrees
  <2>2. file' = [file EXCEPT ![f] = [text |-> "whole", val |-> q.copy[f]]]
    BY <1>4, <2>1 DEF Write
  <2>3. file'[f].val = q.copy[f]
    BY <1>0, <2>2
  <2>4. agreed'[f] = After(p, f)
    BY <1>0, <1>4 DEF Write, After
  <2>5. \A o \in Proc : ~Changing(o, f)' /\ ~Writing(o, f)'
    <3>1. \A o \in Proc \ {p} : ~Changing(o, f)
      BY <1>4, <2>0 DEF Agrees
    <3>2. \A o \in Proc \ {p} : ~Changing(o, f)'
      BY <1>0, <3>1, OthersSame
    <3> QED
      BY <1>2, <3>2 DEF Changing, Writing
  <2> QED
    BY <2>1, <2>3, <2>4, <2>5 DEF Agrees
<1>5. CASE f \in disturbed
  BY <1>0, <1>5 DEF Agrees
<1> QED
  BY <1>3, <1>4, <1>5

LEMMA DieAgrees ==
  ASSUME IInv, NEW p \in Proc, Die(p), Others(p), NEW f \in File
  PROVE  Agrees(f)'
<1>0. Typed /\ agreed' = agreed /\ End(p) /\ disturbed \subseteq disturbed' /\ DOMAIN file = File
  BY DEF IInv, Typed, FilesOK, Die
<1>1. pc'[p] = "idle"
  BY <1>0, Ends
<1>2. ~Changing(p, f)'
  BY <1>1 DEF Changing
<1>3. CASE Writing(p, f)
  BY <1>3 DEF Die, Agrees
<1>4. CASE ~Writing(p, f)
  <2>1. file'[f] = file[f]
    BY <1>0, <1>4 DEF Die, Writing
  <2> QED
    BY <1>0, <1>2, <1>4, <2>1, AgreesStill
<1> QED
  BY <1>3, <1>4

LEMMA NodeAgrees ==
  ASSUME IInv, NEW p \in Proc, Others(p), NEW f \in File,
         \/ Begin(p) \/ Look(p) \/ Read(p) \/ Fetch(p) \/ MakeDir(p) \/ OpenNode(p) \/ WriteNode(p)
         \/ Unlink(p) \/ RemoveDir(p)
  PROVE  Agrees(f)'
<1>0. Typed
  BY DEF IInv
<1>1. UNCHANGED <<file, agreed, disturbed>> /\ ~Writing(p, f)
  BY DEF Writing, ghosts, Begin, Look, Read, Fetch, MakeDir, OpenNode, WriteNode, Unlink, RemoveDir
<1>2. pc'[p] \notin {"open", "write"}
  <2>1. CASE Begin(p)
    BY <1>0, <2>1, BeginType
  <2>2. CASE Look(p) \/ Read(p) \/ Fetch(p) \/ MakeDir(p) \/ OpenNode(p) \/ WriteNode(p) \/ RemoveDir(p)
    BY <1>0, <2>2, Goes, Ends DEF Look, Read, Fetch, MakeDir, OpenNode, WriteNode, RemoveDir
  <2>3. CASE Unlink(p)
    BY <1>0, <2>3, Ends DEF Unlink, Typed
  <2> QED
    BY <2>1, <2>2, <2>3
<1>3. ~Changing(p, f)'
  BY <1>2 DEF Changing
<1> QED
  BY <1>1, <1>3, AgreesStill

\* The actions of one command.
Does(p) ==
  \/ Begin(p) \/ ReadConfig(p) \/ ReadCredentials(p) \/ Open(p) \/ Write(p)
  \/ Look(p) \/ Read(p) \/ Fetch(p) \/ MakeDir(p) \/ OpenNode(p) \/ WriteNode(p)
  \/ Unlink(p) \/ RemoveDir(p)
  \/ Die(p)

LEMMA AgreesNext ==
  ASSUME IInv, NEW p \in Proc, Does(p), Others(p)
  PROVE  \A f \in File : Agrees(f)'
BY ReadConfigAgrees, ReadCredentialsAgrees, OpenAgrees, WriteAgrees, DieAgrees, NodeAgrees DEF Does

\* Where the steps of a command lead, those of Begin and of Unlink apart.
LEMMA Moved ==
  ASSUME Typed, NEW p \in Proc,
         \/ ReadCredentials(p) \/ Open(p) \/ Write(p) \/ Look(p) \/ Read(p) \/ Fetch(p)
         \/ MakeDir(p) \/ OpenNode(p) \/ WriteNode(p) \/ RemoveDir(p) \/ Die(p)
  PROVE  /\ pc'[p] # "credentials" /\ (pc'[p] = "writeNode" => OpenNode(p))
         /\ \A o \in Proc \ {p} : pc'[o] = pc[o] /\ loc'[o] = loc[o]
<1>1. CASE ReadCredentials(p)
  <2> DEFINE q == loc[p]
             r == [q EXCEPT !.copy["credentials"] = Credited(q, q.profile, Loaded("credentials"))]
  <2>1. \/ End(p) \/ Goto(p, "open", r) \/ Goto(p, "look", q) \/ Goto(p, "fetch", q)
    BY <1>1 DEF ReadCredentials
  <2>2. pc[p] # "openNode"
    BY <1>1 DEF ReadCredentials
  <2> HIDE DEF r
  <2> QED
    BY <2>1, <2>2, Goes, Ends
<1>2. CASE Open(p)
  <2>1. Goto(p, "write", loc[p])
    BY <1>2 DEF Open
  <2> QED
    BY <2>1, Goes
<1>3. CASE Look(p) \/ Read(p) \/ Fetch(p)
  BY <1>3, Goes, Ends DEF Look, Read, Fetch
<1>4. CASE MakeDir(p) \/ RemoveDir(p)
  BY <1>4, Goes DEF MakeDir, RemoveDir
<1>5. CASE OpenNode(p)
  BY <1>5, Goes, Ends DEF OpenNode
<1>6. CASE Write(p) \/ WriteNode(p) \/ Die(p)
  <2>1. End(p)
    BY <1>6 DEF Write, WriteNode, Die
  <2> QED
    BY <2>1, Ends
<1> QED
  BY <1>1, <1>2, <1>3, <1>4, <1>5, <1>6

LEMMA MovedFirst ==
  ASSUME Typed, NEW p \in Proc, ReadConfig(p)
  PROVE  pc'[p] # "writeNode" /\ \A o \in Proc \ {p} : pc'[o] = pc[o] /\ loc'[o] = loc[o]
<1> DEFINE q == loc[p]
           r == [q EXCEPT !.copy["config"] = Configured(q, Loaded("config"))]
           t == [q EXCEPT !.profile = Chosen(q, Loaded("config"))]
<1>1. End(p) \/ Goto(p, "open", r) \/ Goto(p, "credentials", t)
  BY DEF ReadConfig
<1> HIDE DEF r, t
<1> QED
  BY <1>1, Goes, Ends

\* A command about to read the credentials is for the profile it is meant for.
LEMMA MeantNext ==
  ASSUME IInv, NEW p \in Proc, Does(p), Others(p), NEW o \in Proc
  PROVE  MeantOK(o)'
<1>0. Typed /\ MeantOK(o) /\ disturbed \subseteq disturbed'
  BY DEF IInv, Does, ghosts, Begin, ReadConfig, ReadCredentials, Latched, Open, Write, Look, Read,
         Fetch, MakeDir, OpenNode, WriteNode, Unlink, RemoveDir, Die
<1>1. CASE o # p
  BY <1>0, <1>1, OthersSame DEF MeantOK
<1>2. CASE o = p /\ ReadConfig(p)
  <2> DEFINE q == loc[p]
             c == file["config"].val
  <2>1. SUFFICES ASSUME pc'[p] = "credentials", loc'[p].op \in CredentialOps,
                        "credentials" \notin disturbed'
                 PROVE  loc'[p].profile = meant'[p]
    BY <1>2 DEF MeantOK
  <2>2. q \in Locals /\ meant'[p] = Chosen(q, agreed["config"])
    BY <1>0, <1>2 DEF Typed, ReadConfig
  <2>3. loc'[p] = [q EXCEPT !.profile = Chosen(q, c)]
    BY <1>0, <1>2, <2>1, Goes, Ends DEF ReadConfig, Loaded
  <2>4. loc'[p].profile = Chosen(q, c) /\ loc'[p].op = q.op
    BY <2>2, <2>3 DEF Locals
  <2>5. \/ q.profile # NoProfile
        \/ "config" \notin disturbed /\ \A u \in Proc : ~Writing(u, "config")
    BY <1>2, <2>1, <2>4 DEF ReadConfig, Latched, ConfigOps, CredentialOps, NodeOps
  <2>6. "config" \notin disturbed /\ (\A u \in Proc : ~Writing(u, "config")) => c = agreed["config"]
    BY DEF IInv, Agrees, File
  <2> QED
    BY <2>2, <2>4, <2>5, <2>6 DEF Chosen
<1>3. CASE o = p /\ ~ReadConfig(p)
  <2>1. pc'[p] # "credentials"
    <3>1. CASE Begin(p)
      BY <1>0, <3>1, BeginType
    <3>2. CASE Unlink(p)
      BY <1>0, <3>2, Ends DEF Unlink, Typed
    <3>3. CASE \/ ReadCredentials(p) \/ Open(p) \/ Write(p) \/ Look(p) \/ Read(p) \/ Fetch(p)
               \/ MakeDir(p) \/ OpenNode(p) \/ WriteNode(p) \/ RemoveDir(p) \/ Die(p)
      BY <1>0, <3>3, Moved
    <3> QED
      BY <1>3, <3>1, <3>2, <3>3 DEF Does
  <2> QED
    BY <1>3, <2>1 DEF MeantOK
<1> QED
  BY <1>1, <1>2, <1>3

-----------------------------------------------------------------------------
(* The cache. *)

\* What a command writes, when the cache and the variables of the others stay.
LEMMA CacheStill ==
  ASSUME IInv, NEW p \in Proc, UNCHANGED <<cache, hurt>>,
         \A o \in Proc \ {p} : pc'[o] = pc[o] /\ loc'[o] = loc[o],
         pc[p] = "writeNode" => ~loc[p].linked, pc'[p] # "writeNode"
  PROVE  Written' /\ TornNodesExplained'
BY DEF IInv, Written, TornNodesExplained, WritingNode

LEMMA CacheNext ==
  ASSUME IInv, NEW p \in Proc, Does(p)
  PROVE  Written' /\ TornNodesExplained'
<1>0. Typed /\ Written /\ TornNodesExplained /\ LocalsOK(p) /\ loc[p] \in Locals
      /\ cache \in [Node -> {"none", "empty", "part", "whole"}]
  BY DEF IInv, Typed, CacheOK
<1>1. CASE \/ ReadConfig(p) \/ ReadCredentials(p) \/ Open(p) \/ Write(p)
           \/ Look(p) \/ Read(p) \/ Fetch(p) \/ MakeDir(p) \/ RemoveDir(p)
  <2>1. UNCHANGED <<cache, hurt>> /\ pc[p] # "writeNode"
    BY <1>1 DEF ghosts, ReadConfig, ReadCredentials, Open, Write, Look, Read, Fetch, MakeDir, RemoveDir
  <2>2. pc'[p] # "writeNode" /\ \A o \in Proc \ {p} : pc'[o] = pc[o] /\ loc'[o] = loc[o]
    <3>1. pc[p] # "openNode"
      BY <1>1 DEF ReadConfig, ReadCredentials, Open, Write, Look, Read, Fetch, MakeDir, RemoveDir
    <3> QED
      BY <1>0, <1>1, <3>1, Moved, MovedFirst DEF OpenNode
  <2> QED
    BY <2>1, <2>2, CacheStill
<1>2. CASE Begin(p)
  <2>1. UNCHANGED <<cache, hurt>> /\ pc[p] # "writeNode"
    BY <1>2 DEF ghosts, Begin
  <2>2. pc'[p] # "writeNode"
    BY <1>0, <1>2, BeginType
  <2>3. \A o \in Proc \ {p} : pc'[o] = pc[o] /\ loc'[o] = loc[o]
    BY <1>0, <1>2, Goes DEF Begin
  <2> QED
    BY <2>1, <2>2, <2>3, CacheStill
<1>3. CASE OpenNode(p)
  <2>1. CASE End(p) /\ UNCHANGED cache
    BY <1>0, <1>3, <2>1, Ends, CacheStill DEF OpenNode, ghosts
  <2>2. CASE /\ cache' = [cache EXCEPT ![loc[p].node] = "empty"]
             /\ Goto(p, "writeNode", [loc[p] EXCEPT !.linked = TRUE])
    <3>1. /\ pc'[p] = "writeNode" /\ loc'[p] = [loc[p] EXCEPT !.linked = TRUE]
          /\ \A o \in Proc \ {p} : pc'[o] = pc[o] /\ loc'[o] = loc[o]
      BY <1>0, <2>2, Goes
    <3>2. loc'[p].linked /\ loc'[p].node = loc[p].node /\ loc[p].node \in Node /\ hurt' = hurt
      BY <1>0, <1>3, <3>1 DEF Locals, LocalsOK, NodeSteps, OpenNode, ghosts
    <3>3. WritingNode(p, loc[p].node)' /\ \A n \in Node : ~WritingNode(p, n)
      BY <1>3, <3>1, <3>2 DEF WritingNode, OpenNode
    <3>4. \A o \in Proc \ {p}, n \in Node : WritingNode(o, n)' <=> WritingNode(o, n)
      BY <3>1 DEF WritingNode
    <3>5. \A n \in Node : WritingNode(p, n)' => n = loc[p].node
      BY <3>2 DEF WritingNode
    <3>6. Written'
      BY <1>0, <2>2, <3>4, <3>5 DEF Written
    <3> QED
      BY <1>0, <2>2, <3>2, <3>3, <3>4, <3>6 DEF TornNodesExplained
  <2> QED
    BY <1>3, <2>1, <2>2 DEF OpenNode
<1>4. CASE WriteNode(p) \/ Die(p)
  <2> DEFINE n0 == loc[p].node
  <2>1. /\ pc'[p] = "idle" /\ \A o \in Proc \ {p} : pc'[o] = pc[o] /\ loc'[o] = loc[o]
    BY <1>0, <1>4, Ends DEF WriteNode, Die
  <2>2. \A o \in Proc, n \in Node : WritingNode(o, n)' => o # p /\ WritingNode(o, n)
    BY <2>1 DEF WritingNode
  <2>3. \A o \in Proc \ {p}, n \in Node : WritingNode(o, n) => WritingNode(o, n)'
    BY <2>1 DEF WritingNode
  <2>4. CASE WritingNode(p, n0) /\ n0 \in Node
    <3>1. cache' = cache \/ cache' = [cache EXCEPT ![n0] = "whole"] \/ cache' = [cache EXCEPT ![n0] = "part"]
      BY <1>4 DEF WriteNode, Die
    <3>2. Written'
      BY <1>0, <2>2, <3>1 DEF Written
    <3>3. \A n \in Node \ {n0} : cache'[n] = cache[n] /\ (n \in hurt => n \in hurt') /\ ~WritingNode(p, n)
      <4>1. \A n \in Node \ {n0} : cache'[n] = cache[n]
        BY <1>0, <3>1
      <4>2. \A n \in Node \ {n0} : ~WritingNode(p, n)
        BY DEF WritingNode
      <4>3. hurt \ {n0} \subseteq hurt'
        BY <1>4 DEF WriteNode, Die
      <4> QED
        BY <4>1, <4>2, <4>3
    <3>4. n0 \in hurt' \/ cache'[n0] = "whole"
      BY <1>0, <1>4, <2>4 DEF WriteNode, Die, WritingNode
    <3> QED
      BY <1>0, <2>3, <3>2, <3>3, <3>4 DEF TornNodesExplained
  <2>5. CASE ~(WritingNode(p, n0) /\ n0 \in Node)
    <3>1. pc[p] = "writeNode" => ~loc[p].linked
      BY <1>0, <2>5 DEF WritingNode, LocalsOK, NodeSteps
    <3>2. UNCHANGED <<cache, hurt>>
      BY <1>4, <3>1 DEF WriteNode, Die, WritingNode
    <3> QED
      BY <2>1, <3>1, <3>2, CacheStill
  <2> QED
    BY <2>4, <2>5
<1>5. CASE Unlink(p)
  <2>1. CASE End(p) /\ UNCHANGED <<cache, hurt>>
    BY <1>0, <1>5, <2>1, Ends, CacheStill DEF Unlink
  <2>2. ASSUME NEW n0 \in loc[p].todo,
               cache' = [cache EXCEPT ![n0] = "none"], hurt' = hurt \ {n0},
               pc' = [pc EXCEPT ![p] = "rmdir"],
               loc' = [o \in Proc |->
                 IF o = p THEN [loc[p] EXCEPT !.node = n0, !.todo = @ \ {n0}]
                 ELSE IF WritingNode(o, n0) THEN [loc[o] EXCEPT !.linked = FALSE]
                 ELSE loc[o]]
        PROVE  Written' /\ TornNodesExplained'
    <3>1. pc[p] = "clear" /\ pc'[p] = "rmdir" /\ \A o \in Proc \ {p} : pc'[o] = pc[o]
      BY <1>0, <1>5, <2>2 DEF Unlink, Typed
    <3>2. \A o \in Proc, n \in Node : WritingNode(o, n)' => o # p /\ n # n0 /\ WritingNode(o, n)
      <4> SUFFICES ASSUME NEW o \in Proc, NEW n \in Node, WritingNode(o, n)'
                   PROVE  o # p /\ n # n0 /\ WritingNode(o, n)
        OBVIOUS
      <4>1. o # p /\ pc[o] = "writeNode" /\ loc[o] \in Locals
        BY <1>0, <3>1 DEF WritingNode, Typed
      <4>2. CASE WritingNode(o, n0)
        BY <2>2, <4>1, <4>2 DEF WritingNode, Locals
      <4>3. CASE ~WritingNode(o, n0)
        BY <2>2, <4>1, <4>3 DEF WritingNode
      <4> QED
        BY <4>2, <4>3
    <3>3. \A o \in Proc, n \in Node : n # n0 /\ WritingNode(o, n) => WritingNode(o, n)'
      BY <1>0, <2>2, <3>1 DEF WritingNode, Typed
    <3>4. Written'
      BY <1>0, <2>2, <3>2 DEF Written
    <3> QED
      BY <1>0, <2>2, <3>3, <3>4 DEF TornNodesExplained
  <2> QED
    BY <1>5, <2>1, <2>2 DEF Unlink
<1> QED
  BY <1>1, <1>2, <1>3, <1>4, <1>5 DEF Does

-----------------------------------------------------------------------------
(* The theorems. *)

LEMMA InitInv == Init => IInv
<1> SUFFICES ASSUME Init PROVE IInv
  OBVIOUS
<1>1. /\ file["config"] = Unreadable("config", "absent")
           \/ file["config"] \in [text : {"whole"}, val : {[current |-> p, known |-> Profile] : p \in Profile}]
      /\ file["credentials"] = Unreadable("credentials", "absent")
      /\ DOMAIN file = File
  BY DEF Init, File
<1>2. FilesOK
  <2>1. "absent" \in Text /\ "whole" \in Text
    BY DEF Text
  <2>2. file["config"] \in [text : Text, val : Config]
        /\ (file["config"].text # "whole" => file["config"].val = Defaults["config"])
    <3>1. CASE file["config"] = Unreadable("config", "absent")
      BY <2>1, <3>1, UnreadableTyped DEF File
    <3>2. CASE file["config"] \in [text : {"whole"}, val : {[current |-> p, known |-> Profile] : p \in Profile}]
      BY <2>1, <3>2 DEF Config
    <3> QED
      BY <1>1, <3>1, <3>2
  <2>3. file["credentials"] \in [text : Text, val : Credentials]
        /\ file["credentials"].val = Defaults["credentials"]
    BY <1>1, <2>1, UnreadableTyped DEF File
  <2>4. DOMAIN agreed = File /\ agreed["config"] = file["config"].val
        /\ agreed["credentials"] = file["credentials"].val
    BY DEF Init, File
  <2> QED
    BY <1>1, <2>2, <2>3, <2>4, CliAssumption DEF FilesOK, File, Init
<1>3. CacheOK
  BY DEF Init, CacheOK
<1>4. \A p \in Proc : pc[p] = "idle" /\ loc[p] = Idle /\ meant[p] = NoProfile
  BY DEF Init
<1>5. Typed
  <2>1. \A p \in Proc : LocalsOK(p)
    BY <1>4, IdleTyped DEF LocalsOK, Label, NodeSteps
  <2> QED
    BY <1>2, <1>3, <2>1, IdleTyped DEF Typed, Init, Label
<1>6. \A f \in File : Agrees(f)
  BY <1>4 DEF Init, Agrees, Changing, Writing
<1>7. (\A p \in Proc : MeantOK(p)) /\ Written /\ TornNodesExplained
  BY <1>4 DEF Init, MeantOK, Written, TornNodesExplained, WritingNode
<1> QED
  BY <1>5, <1>6, <1>7 DEF IInv

LEMMA NextInv == IInv /\ [Next]_vars => IInv'
<1> SUFFICES ASSUME IInv, [Next]_vars PROVE IInv'
  OBVIOUS
<1>1. ASSUME NEW p \in Proc, Does(p) PROVE IInv'
  <2>1. Typed' /\ Others(p)
    BY <1>1, StepType DEF IInv, Does
  <2> QED
    BY <1>1, <2>1, AgreesNext, MeantNext, CacheNext DEF IInv
<1>2. CASE UNCHANGED vars
  <2>1. Typed'
    BY <1>2 DEF vars, ghosts, IInv, Typed, FilesOK, CacheOK, LocalsOK
  <2>2. \A f \in File : Agrees(f)'
    BY <1>2 DEF vars, ghosts, IInv, Agrees, Changing, Writing, After
  <2>3. (\A p \in Proc : MeantOK(p)') /\ Written' /\ TornNodesExplained'
    BY <1>2 DEF vars, ghosts, IInv, MeantOK, Written, TornNodesExplained, WritingNode
  <2> QED
    BY <2>1, <2>2, <2>3 DEF IInv
<1> QED
  BY <1>1, <1>2 DEF Next, Does

\* In every reachable state an undisturbed file is changed by one command at a
\* time, with a copy made from what all the commands before it agreed on.
THEOREM Inductive == Spec => []IInv
BY InitInv, NextInv, PTL DEF Spec

\* The types of the files, the cache and the commands.
THEOREM TypeCorrect == Spec => []TypeOK
<1>1. IInv => TypeOK
  BY DEF IInv, Typed, FilesOK, CacheOK, LocalsOK, Locals, TypeOK
<1> QED
  BY <1>1, Inductive, PTL

\* config.json and credentials.json lose nothing without a race or a death
\* (saveConfig and saveCredentials in lib/config.ts and lib/credentials.ts).
THEOREM Agreed == Spec => []FilesAgree
<1>1. IInv => FilesAgree
  BY DEF IInv, Agrees, FilesAgree, Loaded
<1> QED
  BY <1>1, Inductive, PTL

\* Every partial file of the cache is being written or was abandoned
\* (setCachedNode and clearCache in lib/cache.ts).
THEOREM TornExplained == Spec => []TornNodesExplained
<1>1. IInv => TornNodesExplained
  BY DEF IInv
<1> QED
  BY <1>1, Inductive, PTL
=============================================================================
