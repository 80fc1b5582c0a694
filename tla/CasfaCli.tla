------------------------------ MODULE CasfaCli ------------------------------
(***************************************************************************)
(* The commands of packages/casfa-cli and the files they share in          *)
(* ~/.casfa: config.json, credentials.json and the cache of nodes.         *)
(*                                                                         *)
(* Every command is a process of its own.  A command that changes one of   *)
(* the two JSON files reads it, changes its copy, truncates the file and   *)
(* writes the copy; a file that cannot be parsed reads as if there was     *)
(* none.  There is no lock, so every file operation is a step.             *)
(*                                                                         *)
(* Of a configuration the current profile and the names of the profiles    *)
(* are kept: base URLs, realms and the settings of the cache are further   *)
(* values of the same file.  The refresh of an expired OAuth token is a    *)
(* failure: the client sends refresh_token, the backend asks for           *)
(* refreshToken, and its refresh is not implemented.                       *)
(***************************************************************************)
EXTENDS Naturals, FiniteSets

CONSTANTS
  Proc,        \* slots of commands that run
  Profile,     \* names of profiles
  Default,     \* the profile of the default configuration
  NoProfile,   \* the --profile option is not given
  Token,       \* tokens of auth token set, and of auth set-jwt
  NoToken,     \* a profile without credentials
  Node,        \* nodes, each with a directory of the cache
  NoNode,      \* the node of a command that has none
  MaxCommands  \* bound on the number of commands

ASSUME CliAssumption ==
  /\ Default \in Profile /\ NoProfile \notin Profile /\ NoToken \notin Token /\ NoNode \notin Node
  /\ MaxCommands \in Nat

VARIABLES
  file,   \* the two JSON files
  cache,  \* Node -> its file in the cache
  dirs,   \* nodes whose directory is there
  pc,     \* Proc -> the step the command is at
  loc,    \* Proc -> its arguments and local variables
  begun   \* number of commands run

\* History variables: no action's guard reads them.
VARIABLES
  agreed,     \* what the files would hold, had each command been one step
  meant,      \* Proc -> the profile the command is for, by agreed
  disturbed,  \* files that two commands have changed at once, or one has left unfinished
  hurt        \* nodes whose file was left unfinished

ghosts == <<agreed, meant, disturbed, hurt>>
vars == <<file, cache, dirs, pc, loc, begun, ghosts>>

-----------------------------------------------------------------------------

File == {"config", "credentials"}

\* "empty" is a file that has been truncated; "torn" one with a text that is
\* not JSON, the first part of a text or a text with the end of a longer one.
Text == {"absent", "empty", "torn", "whole"}

Config == [current : Profile, known : SUBSET Profile]
Credentials == [Profile -> Token \cup {NoToken}]

Defaults == [config |-> [current |-> Default, known |-> {Default}],
             credentials |-> [p \in Profile |-> NoToken]]

Unreadable(f, text) == [text |-> text, val |-> Defaults[f]]

\* loadConfig and loadCredentials
Loaded(f) == file[f].val

ConfigOps == {"use", "init", "create", "remove"}
CredentialOps == {"set", "logout"}
NodeOps == {"get", "put"}
Ops == ConfigOps \cup CredentialOps \cup NodeOps \cup {"clear"}

\* profile: the argument, or the --profile option, and then the profile the
\* command is for.  copy: what will be written.  linked: the file the command
\* writes has not been deleted.  todo: directories clear has still to visit.
Idle == [op |-> "none", profile |-> NoProfile, token |-> NoToken, node |-> NoNode,
         copy |-> Defaults, linked |-> FALSE, todo |-> {}]

Target(q) == IF q.op \in ConfigOps THEN "config" ELSE "credentials"

Goto(p, label, q) == pc' = [pc EXCEPT ![p] = label] /\ loc' = [loc EXCEPT ![p] = q]
End(p) == Goto(p, "idle", Idle)

\* A command that is between its reading of f and the end of its write.
Changing(p, f) == pc[p] \in {"open", "write"} /\ Target(loc[p]) = f
Writing(p, f) == pc[p] = "write" /\ Target(loc[p]) = f
WritingNode(p, n) == pc[p] = "writeNode" /\ loc[p].node = n /\ loc[p].linked

Init ==
  /\ file \in [config : {Unreadable("config", "absent")} \cup
                        [text : {"whole"}, val : {[current |-> p, known |-> Profile] : p \in Profile}],
               credentials : {Unreadable("credentials", "absent")}]
  /\ cache = [n \in Node |-> "none"]
  /\ dirs = {}
  /\ pc = [p \in Proc |-> "idle"]
  /\ loc = [p \in Proc |-> Idle]
  /\ begun = 0
  /\ agreed = [f \in File |-> file[f].val]
  /\ meant = [p \in Proc |-> NoProfile]
  /\ disturbed = {}
  /\ hurt = {}

-----------------------------------------------------------------------------

Begin(p) ==
  /\ pc[p] = "idle" /\ begun < MaxCommands
  /\ begun' = begun + 1
  /\ \/ \E op \in ConfigOps, x \in Profile :
          Goto(p, "config", [Idle EXCEPT !.op = op, !.profile = x])
     \/ \E x \in Profile \cup {NoProfile} :
          \/ \E t \in Token : Goto(p, "config", [Idle EXCEPT !.op = "set", !.profile = x, !.token = t])
          \/ Goto(p, "config", [Idle EXCEPT !.op = "logout", !.profile = x])
          \/ \E op \in NodeOps, n \in Node :
               Goto(p, "config", [Idle EXCEPT !.op = op, !.profile = x, !.node = n])
     \/ Goto(p, "clear", [Idle EXCEPT !.op = "clear", !.todo = dirs])
  /\ UNCHANGED <<file, cache, dirs, ghosts>>

\* Whether a configuration command goes through, and what it makes of c.
Allowed(q, c) ==
  CASE q.op = "use" -> q.profile \in c.known
    [] q.op = "init" -> TRUE
    [] q.op = "create" -> q.profile \notin c.known
    [] q.op = "remove" -> q.profile \in c.known \ {c.current}

Configured(q, c) ==
  CASE q.op = "use" -> [c EXCEPT !.current = q.profile]
    [] q.op = "init" -> [current |-> q.profile, known |-> c.known \cup {q.profile}]
    [] q.op = "create" -> [c EXCEPT !.known = @ \cup {q.profile}]
    [] q.op = "remove" -> [c EXCEPT !.known = @ \ {q.profile}]

\* Faulty variant: the credentials of the other profiles are not kept.
Credited_Alone(q, who, m) ==
  [x \in Profile |-> IF x = who THEN q.token ELSE NoToken]

\* setCredentials; deleteCredentials, whose token is NoToken.
Credited(q, who, m) == [m EXCEPT ![who] = q.token]

Latched(f, when) == IF when THEN disturbed \cup {f} ELSE disturbed

Chosen(q, c) == IF q.profile = NoProfile THEN c.current ELSE q.profile

\* loadConfig, with which every command begins; getProfile throws if the
\* profile of a node command is not in it.
ReadConfig(p) ==
  LET q == loc[p]
      c == Loaded("config")
      who == Chosen(q, c)
  IN
  /\ pc[p] = "config"
  /\ \/ /\ q.op \in ConfigOps
        /\ IF Allowed(q, c) THEN Goto(p, "open", [q EXCEPT !.copy["config"] = Configured(q, c)]) ELSE End(p)
        /\ disturbed' = Latched("config", \E o \in Proc : Changing(o, "config"))
     \/ /\ q.op \in CredentialOps
        /\ Goto(p, "credentials", [q EXCEPT !.profile = who])
        /\ disturbed' = Latched("credentials",
             /\ q.profile = NoProfile
             /\ "config" \in disturbed \/ \E o \in Proc : Writing(o, "config"))
     \/ /\ q.op \in NodeOps
        /\ IF who \in c.known THEN Goto(p, "credentials", [q EXCEPT !.profile = who]) ELSE End(p)
        /\ UNCHANGED disturbed
  /\ meant' = [meant EXCEPT ![p] = Chosen(q, agreed["config"])]
  /\ UNCHANGED <<file, cache, dirs, begun, agreed, hurt>>

\* loadCredentials.  Without credentials, or with expired ones, the client has
\* no realm, and a node command fails.
ReadCredentials(p) ==
  LET q == loc[p]
      m == Loaded("credentials")
  IN
  /\ pc[p] = "credentials"
  /\ \/ /\ q.op \in CredentialOps
        /\ Goto(p, "open", [q EXCEPT !.copy["credentials"] = Credited(q, q.profile, m)])
        /\ disturbed' = Latched("credentials", \E o \in Proc : Changing(o, "credentials"))
     \/ /\ q.op \in NodeOps
        /\ \/ m[q.profile] # NoToken /\ Goto(p, IF q.op = "get" THEN "look" ELSE "fetch", q)
           \/ End(p)
        /\ UNCHANGED disturbed
  /\ UNCHANGED <<file, cache, dirs, begun, agreed, meant, hurt>>

-----------------------------------------------------------------------------
(* saveConfig and saveCredentials: writeFileSync opens the file, which       *)
(* truncates it, and writes.                                                 *)

Open(p) ==
  LET f == Target(loc[p]) IN
  /\ pc[p] = "open"
  /\ file' = [file EXCEPT ![f] = Unreadable(f, "empty")]
  /\ Goto(p, "write", loc[p])
  /\ UNCHANGED <<cache, dirs, begun, ghosts>>

\* If another process has written since, this text may be the shorter one, and
\* the end of the other stays.
Write(p) ==
  LET q == loc[p]
      f == Target(q)
      was == agreed[f]
  IN
  /\ pc[p] = "write"
  /\ \/ file' = [file EXCEPT ![f] = [text |-> "whole", val |-> q.copy[f]]]
     \/ file[f].text # "empty" /\ file' = [file EXCEPT ![f] = Unreadable(f, "torn")]
  /\ End(p)
  /\ agreed' = [agreed EXCEPT ![f] =
       IF f = "config" THEN Configured(q, was) ELSE [was EXCEPT ![meant[p]] = q.token]]
  /\ UNCHANGED <<cache, dirs, begun, meant, disturbed, hurt>>

-----------------------------------------------------------------------------
(* The cache of nodes.                                                       *)

\* hasCachedNode
Look(p) ==
  /\ pc[p] = "look"
  /\ Goto(p, IF cache[loc[p].node] # "none" THEN "read" ELSE "fetch", loc[p])
  /\ UNCHANGED <<file, cache, dirs, begun, ghosts>>

\* getCachedNode: what is in the file is the node.
Read(p) ==
  /\ pc[p] = "read"
  /\ IF cache[loc[p].node] # "none" THEN End(p) ELSE Goto(p, "fetch", loc[p])
  /\ UNCHANGED <<file, cache, dirs, begun, ghosts>>

\* Faulty variant: what comes with an error is put in the cache as well.
Fetch_Blind(p) ==
  LET n == loc[p].node IN
  /\ pc[p] = "fetch"
  /\ \/ Goto(p, "mkdir", loc[p]) /\ UNCHANGED <<cache, dirs>>
     \/ cache' = [cache EXCEPT ![n] = "part"] /\ dirs' = dirs \cup {n} /\ End(p)
  /\ UNCHANGED <<file, begun, ghosts>>

\* The answer of the server to the download, or to the upload.
Fetch(p) ==
  /\ pc[p] = "fetch"
  /\ Goto(p, "mkdir", loc[p]) \/ End(p)
  /\ UNCHANGED <<file, cache, dirs, begun, ghosts>>

\* setCachedNode: the directory, the file, and its content.
MakeDir(p) ==
  /\ pc[p] = "mkdir"
  /\ dirs' = dirs \cup {loc[p].node}
  /\ Goto(p, "openNode", loc[p])
  /\ UNCHANGED <<file, cache, begun, ghosts>>

OpenNode(p) ==
  LET n == loc[p].node IN
  /\ pc[p] = "openNode"
  /\ \/ /\ n \in dirs
        /\ cache' = [cache EXCEPT ![n] = "empty"]
        /\ Goto(p, "writeNode", [loc[p] EXCEPT !.linked = TRUE])
     \/ n \notin dirs /\ End(p) /\ UNCHANGED cache
  /\ UNCHANGED <<file, dirs, begun, ghosts>>

WriteNode(p) ==
  LET n == loc[p].node IN
  /\ pc[p] = "writeNode"
  /\ IF loc[p].linked
       THEN cache' = [cache EXCEPT ![n] = "whole"] /\ hurt' = hurt \ {n}
       ELSE UNCHANGED <<cache, hurt>>
  /\ End(p)
  /\ UNCHANGED <<file, dirs, begun, agreed, meant, disturbed>>

\* clearCache, directory by directory: the file, then the directory.
Unlink(p) ==
  LET q == loc[p] IN
  /\ pc[p] = "clear"
  /\ \/ q.todo = {} /\ End(p) /\ UNCHANGED <<cache, hurt>>
     \/ \E n \in q.todo :
          /\ cache' = [cache EXCEPT ![n] = "none"]
          /\ hurt' = hurt \ {n}
          /\ pc' = [pc EXCEPT ![p] = "rmdir"]
          /\ loc' = [o \in Proc |->
               IF o = p THEN [q EXCEPT !.node = n, !.todo = @ \ {n}]
               ELSE IF WritingNode(o, n) THEN [loc[o] EXCEPT !.linked = FALSE]
               ELSE loc[o]]
  /\ UNCHANGED <<file, dirs, begun, agreed, meant, disturbed>>

\* Faulty variant: the directory goes with what is in it now.
RemoveDir_Full(p) ==
  /\ pc[p] = "rmdir"
  /\ dirs' = dirs \ {loc[p].node}
  /\ Goto(p, "clear", [loc[p] EXCEPT !.node = NoNode])
  /\ UNCHANGED <<file, cache, begun, ghosts>>

\* rmdirSync fails if a file has been made in the meantime.
RemoveDir(p) ==
  /\ pc[p] = "rmdir"
  /\ dirs' = IF cache[loc[p].node] = "none" THEN dirs \ {loc[p].node} ELSE dirs
  /\ Goto(p, "clear", [loc[p] EXCEPT !.node = NoNode])
  /\ UNCHANGED <<file, cache, begun, ghosts>>

\* The process is killed, or the disk is full: of what it was writing there is
\* nothing, or the first part.
Die(p) ==
  LET q == loc[p]
      f == Target(q)
      n == q.node
  IN
  /\ pc[p] # "idle"
  /\ \/ pc[p] = "write" /\ file' = [file EXCEPT ![f] = Unreadable(f, "torn")]
     \/ UNCHANGED file
  /\ \/ pc[p] = "writeNode" /\ q.linked /\ cache' = [cache EXCEPT ![n] = "part"]
     \/ UNCHANGED cache
  /\ End(p)
  /\ disturbed' = disturbed \cup {x \in File : Writing(p, x)}
  /\ hurt' = hurt \cup {x \in Node : WritingNode(p, x)}
  /\ UNCHANGED <<dirs, begun, agreed, meant>>

-----------------------------------------------------------------------------

Next ==
  \E p \in Proc :
    \/ Begin(p) \/ ReadConfig(p) \/ ReadCredentials(p) \/ Open(p) \/ Write(p)
    \/ Look(p) \/ Read(p) \/ Fetch(p) \/ MakeDir(p) \/ OpenNode(p) \/ WriteNode(p)
    \/ Unlink(p) \/ RemoveDir(p)
    \/ Die(p)

Spec == Init /\ [][Next]_vars

-----------------------------------------------------------------------------
(* Properties. *)

Label == {"idle", "config", "credentials", "open", "write", "look", "read", "fetch", "mkdir",
          "openNode", "writeNode", "clear", "rmdir"}

TypeOK ==
  /\ file["config"] \in [text : Text, val : Config]
  /\ file["credentials"] \in [text : Text, val : Credentials]
  /\ \A f \in File : file[f].text # "whole" => file[f].val = Defaults[f]
  /\ cache \in [Node -> {"none", "empty", "part", "whole"}]
  /\ dirs \subseteq Node /\ \A n \in Node : cache[n] # "none" => n \in dirs
  /\ pc \in [Proc -> Label] /\ begun \in 0..MaxCommands
  /\ \A p \in Proc : loc[p].op \in Ops \cup {"none"} /\ loc[p].todo \subseteq Node
  /\ agreed["config"] \in Config /\ agreed["credentials"] \in Credentials
  /\ meant \in [Proc -> Profile \cup {NoProfile}]
  /\ disturbed \subseteq File /\ hurt \subseteq Node

\* Each of the two files holds what the commands that have ended would have made
\* of it one after the other, as long as no two of them were changing it at once,
\* none stopped in its write, and no token was set or dropped for the current
\* profile while that was not to be read in the configuration.
FilesAgree ==
  \A f \in File :
    f \notin disturbed /\ (\A p \in Proc : ~Writing(p, f)) => Loaded(f) = agreed[f]

\* A file of the cache that is not the whole node is one that a running command
\* is writing, or that a command stopped writing, and nothing has replaced since.
\* (Nothing looks: such a file is read as the node until put or clear.)
TornNodesExplained ==
  \A n \in Node : cache[n] \in {"empty", "part"} =>
    n \in hurt \/ \E p \in Proc : WritingNode(p, n)
=============================================================================
