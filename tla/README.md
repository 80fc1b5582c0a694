# TLA+ development for the CASFA services and their clients

This directory holds TLA+ modules for the parts of the agent-web-portal
repository in which several actors share state. On the server that is the
casfa-v2 backend (`apps/casfa-v2/backend`): a content-addressed store with
per-realm ownership, reference counts and quotas, tickets that delegate access
to it, depots that give its roots a name and a history, and the pairing of
clients. On the client it is the virtual file system, the files of the command
line tool, the pairing of AWP clients with AWP servers, and the way cas-core
cuts a file into nodes. Paths below are relative to the repository root.

`tlc -config X.cfg M` checks a model, `tlapm M.tla` checks a proof.
`PROJECT.json` lists components, runs, mutants, hazards, findings and theorems,
and maps every definition that models code to the lines it models. A hazard that has
properties and a note is one they bound, or name as an exception, but do not exclude: the
code has it.

## 1. Inventory

### 1.1 Components

| Component | State | Operations | Module |
|---|---|---|---|
| node endpoints (`controllers/chunks.ts`, `db/refcount.ts`, `db/ownership.ts`, `db/usage.ts`) | blob store; `OWN#`, `REF#` and `USAGE` rows | PUT, GET, GET metadata, prepare-nodes | `NodeStore` |
| node validation (`packages/cas-core/src/validation.ts`) | none | `validateNode` | `NodeBody`, part of `NodeStore` |
| blob storage providers (`packages/cas-storage-*`) | keys and bytes, an LRU cache of keys known to exist | put, has, get | `blobs` in `NodeStore` |
| tickets (`controllers/tickets.ts`, `db/tokens.ts`, `middleware/auth.ts`, `middleware/ticket-auth.ts`) | token rows | create, commit, revoke, delete; admission of uploads | `Tickets` |
| depot table (`db/depots.ts`) | depot items with root, history, maxHistory | create, update, commit, delete | `DepotTable` |
| depot endpoints (`controllers/depots.ts`, `casfa-protocol/src/depot.ts`) | none of their own | create, update, commit, delete, list, get | `Depots` |
| client pairing (`controllers/auth-clients.ts`, `db/client-pending.ts`, `db/client-pubkeys.ts`) | pending authorisations, public keys | init, get, complete, revoke, list | `ClientPairing` |
| virtual file system (`packages/casfa-client/src/vfs.ts`, `endpoint.ts`) | a tree of entries in memory, loaded on demand | list, writeFile, delete, move, mount, mkdir, build | `VirtualFS` |
| AWP pairing (`packages/client/src/client.ts`, `client/src/auth`, `client-browser/src/indexed-db-storage.ts`, `client-react/src/hooks/use-awp-auth.ts`, `packages/auth`) | key storage with its expiry, a cache per client; pending and authorised keys on the server | sendRequest, handleUnauthorized, clearKey; login, logout; init, status, complete | `AwpAuth` |
| command line tool (`packages/casfa-cli`) | `config.json`, `credentials.json`, cache of nodes | config and auth commands, node get and put, cache clear | `CasfaCli` |
| cas-core B-tree (`packages/cas-core/src/topology.ts`, `controller.ts`) | none | layout of a file over f-nodes and s-nodes, writeFile, readFile | `FileTree` |
| user and agent tokens (`controllers/auth-tokens.ts`); AWP tables (`db/awp-*.ts`) | token rows, key rows | create, list, delete | not modelled |
| realm, admin, OAuth, info, health; MCP endpoint | user roles | reads, single writes, calls to an identity provider | not modelled |
| casfa v1 backend with its collector (`apps/casfa/backend/src/gc.ts`) | as v2, with deletion | legacy endpoints, collection | not modelled |
| HTTP clients, AWP tool servers, web interfaces, examples, scripts | caches, user interface | callers of the endpoints above | not modelled |

### 1.2 How they interact

A request is served by one invocation of a handler. Handlers share no memory:
they meet only in the stores, which are separate services. An object store holds
the blobs; DynamoDB holds the rows, item by item. Each `await` of a store call is
a point at which other requests run and at which the request can die (a Lambda
timeout, a thrown store error, a killed instance). There are no transactions:
what a handler does atomically is one conditional update of one item.

* A PUT validates against the blob store (`storage.has` per child), decides on
  the quota, writes the blob, the ownership row and the reference row, counts its
  children, and adds to the usage row, in that order.
* A ticket authorises PUTs. The authentication middleware reads the ticket row;
  the handler then acts on that copy.
* A depot commit asks the blob store whether the new root exists, then reads
  and rewrites the depot item.

On the client side actors share memory or files:

* The calls on one `VirtualFS` interleave at every `await` on one tree. A
  directory is loaded by the first call that enters it.
* The `AwpAuth` objects of several tabs share one key storage and have a cached
  key each; requests of one object interleave at every `await`. The server
  answers 401 to a key it does not know and to a timestamp out of range, which
  starts a pairing: a new key is announced, the user confirms it on a page of the
  server, the request is signed again. Logins of the React hook pair by themselves and
  store a key with the time it expires; a load that finds it expired deletes it.
* Commands of `casfa` are processes. They meet in the files of `~/.casfa`, which
  they read, change and write with no lock.
* `writeFile` of cas-core stores the nodes of a file bottom-up, one `put` after
  the other.

### 1.3 What is hard here

* *Check, then act.* Nearly every handler decides on a row it read some awaits
  earlier: the quota, the existence of children, a ticket's status, a depot's
  history and title.
* *Prefixes.* A handler that dies leaves some prefix of its writes, and the next
  attempt finds it.
* *Creation races.* Two requests find a row absent and both go on to create it.
* *Updates without a condition* that land on a row deleted in between, and make
  an item out of nothing.
* *Data-dependent edges.* A dict that names a child twice, a node whose sizes
  two rules read differently, a history at its limit, a root committed again.
* *Spellings.* A node is named by a node key, by base32 and by hex, and each
  endpoint and client converts by hand.
* *A tree that changes under a walk.* Loading a directory, moving one into
  another and building the whole tree take many awaits.
* *A key that belongs to another pairing.* What is cached, stored, pending and
  authorised are four places; a failed pairing clears two of them, whichever key
  is there.
* *Waiting for a user* must have an end.
* *Files written in place*, by processes that can be killed.
* *Floating point* in the layout of a file.

### 1.4 What makes each component correct

* Node store: the blob store is closed under children; a reference row implies an
  ownership row implies a blob; a node reported to exist can be read; an answered
  PUT stays; a realm is charged for a node at most once; the usage counters are
  the sum of what was charged; counts are never too low.
* Tickets: at most one commit of a ticket is answered 200 and its output stays;
  a revocation is never undone; a deleted ticket stays deleted; uploads admitted
  before the end of a ticket are few; each step moves along the life cycle.
* Pairing: a key was confirmed by its user; a code is spent once answered, and
  authorises again only through completions that had checked it before; a live
  key is lost only to its user's revocation or to a request older than the key.
* Depots: the history is bounded; a commit that nothing disturbed loses nothing;
  nothing points at a missing blob.
* Virtual file system: a call alone does what it is called for and no more; an
  answered write is in the tree until something changes that part of it; the
  tree stays a tree; a build returns, and builds what stood still.
* AWP pairing: the retry after a confirmed pairing is signed with its key; an
  authorised key leaves the storage only in the ways `GrantedKeysKept` names; every
  request ends.
* Command line tool: the files hold what the commands one after the other would
  have made of them, unless two changed one file at once or one was killed.
* B-tree: what can be read is the whole file; nodes fit; the tree is shallow.

## 2. Modules

    NodeBody <- NodeStore <- MCNodeStore           Tickets <- MCTickets
       ^          |    ^                              |
    ContentStore -+    NodeStore_proofs            TicketLifecycle, Tickets_proofs

    ClientPairing <- MCClientPairing               DepotTable <- MCDepotTable
          ^                                           ^
    ClientPairing_proofs                           Depots <- MCDepots, Depots_proofs

    VirtualFS <- MCVirtualFS,                      AwpAuth <- MCAwpAuth, AwpAuth_proofs
      VirtualFS_invariants <- VirtualFS_proofs
    FileTree <- MCFileTree, FileTree_proofs        CasfaCli <- MCCasfaCli, CasfaCli_proofs

Shared conventions. `pc[p]` is the await the request in slot `p` is at, and
`req[p]` its local variables; a slot is a bound on the requests in flight, not
on their number. An action is one await with everything the handler computes
before the next one. `Die(p)` ends a request anywhere. Variables under "History
variables" record the past for a property and occur in no guard. A definition
named `X_Something` under "Faulty variant" is no part of the model: it is a
plausible bug of `X`, used to show that the properties notice it.

**NodeBody**: what a node body determines. A node is identified with its content
hash, because a body that does not hash to its key is refused before any store is
touched. `PhysicalSize` is `bytes.length`, which the validator forces to be
header, child hashes and payload; `SizeAgrees` is step 13 of `validateNode`.

**NodeStore**: `ReceivePut`, `HasChild` (once per occurrence of a child),
`FinishValidation`, `ReadRef`, `CheckQuota`, `PutBlob`, `AddOwnership`,
`IncrementExisting` and `CreateRef` (the two conditional calls of
`incrementRef`), `ReadChildRef`, `UpdateUsage` follow the PUT handler down the
page. `incrementRef` is called for the node and then for each child in turn;
`req[p].next` says for which. GET and metadata are `ReceiveGet`,
`HasOwnership`, `GetBlob`; prepare-nodes is `ReceivePrepare`, `PrepareKey`
(once per key, in any order, since the handler asks in parallel),
`ReplyPrepare`.

**ContentStore** is the abstract specification of NodeStore: four nested sets
(stored, owned, referenced, charged), and a charge that is atomic and happens
at most once per node and realm. The refinement mapping takes a node as charged
when it has a reference row and its creator is neither on the way to
`updateUsage` nor dead on it.

**Tickets**: `AuthUpload`/`Upload` is the ticket scheme of the middleware in
front of a PUT; `AuthCommit`, `ReadCommit`, `MarkCommitted`; `ReadRevoke`,
`CheckRevoke`, `MarkRevoked`; `ReadDelete`, `DeleteRow`; `Create`; and `Expire`,
the clock passing `expiresAt`. `StatusOf` is `deriveTicketStatus`.
`TicketLifecycle` is the abstract specification, the documented state machine
with one edge the code adds, a commit that lands after the revocation.

**DepotTable**: the functions of `DepotsDb`. `Update` is the first, conditional
command of `update`, `Truncate` the second one, sent only when the returned
history is too long; `ReadDepot` and `WriteRoot` are the two commands of
`commit`; `Delete` is one command. `Drop` is a caller that dies between two
commands. An item made by an unconditional update where there was none is a
`Stray`: it lacks `depotId` and everything else but what was set.

**Depots**: the handlers, over an instance of DepotTable. The two spellings of a
node's hash are kept apart (`StorageName`, `CommitName`), because the commit
handler uses one where the store uses the other. Since that makes the existence
check fail for every uploaded root, no commit through the endpoint gets past
it: `ReadDepot`, `WriteRoot` and `Truncate` never run in this module (a history
stays empty, so no update truncates one) and are exercised in DepotTable alone. This is why the properties of histories are
stated of the table.

**ClientPairing**: `InitClient` is the one Put of `init`; `CheckCode`, `StoreKey`
and `DeletePending` are the three awaits of `complete`; `GetKey` and
`GetPending` those of `get`; `FindKey` and `RevokeKey` those of `revoke`. A read
that finds an expired row deletes it by a second command (`DropKey`,
`DropPending`), which takes whatever is there by then. `overlap` remembers the
requests in flight when a key was stored: they are the only ones, its user's
revocation aside, that can take the key away before it expires.

**VirtualFS**: an entry of the tree is a number into `heap.ents`, a `Map` a number
into `heap.maps`, so that two places can share one object as they can in the
code. A `Map` is a sequence of places, because `build` iterates over it while
other calls change it. `CallWalk` is what a method does before its first await;
`StepInMemory` and `StepFetched` are `getChildren`, from memory and with the
answer of `getNode`; `NextSegment` is one turn of the loops of `resolvePath` and
`ensureParent`; `SetTarget` the end of writeFile, mount, mkdir, delete and list;
`MoveStep` the three stages of move. `CallBuild`, `BuildChild` and `BuildDict` are
`buildEntry` with its recursion kept as a stack of frames. `RequestFails` is an
error of the endpoint. A key is kept with its spelling (`form`), which is what
`makeDict` looks at. `Node` is what stored nodes can hold; a key that is no file names
a dict, whose children are again in `Node`. The history variables `movesMet`,
`displaced`, `inside` and `reloaded` remember the situations in which a property
makes an exception: two moves in flight together, a directory taken away beside
a call to a place below it, a directory moved into itself beside a build, and one
loaded twice. `steady`, the paths of which a build must answer what they show, leaves out
a path as soon as it shows something else and also when a call sets or removes it or a directory
above it: a directory can be moved away while the build is inside of it, and one that shows
the same can take its place (mkdir a; a build enters a; a moves to b; a file is written
below b), which takes four calls.

**AwpAuth**: a flow is one `sendRequest` with the `handleUnauthorized` it may
start, or a login. `Check` is `hasValidKey`, `Sign`, `Load`, `Loaded` are `sign` over the cached
and the stored key; `Send` is the request with the server's verdict (`Passes`);
`Warn` is the load `notifyAuthSuccess` makes without waiting.
`InitAuth`, `Asked`, `Save`, `Saved`, `Poll` are the pairing. A poll ignores errors and
answers that are not ok, so the time may be up with the key already authorised. `Clear`,
`Cleared` are `clearKey`; `Close` loses an object with its cache. A load that finds the stored
key expired deletes, in a second step (`DropExpired`), whichever key is stored by then.
`Login`, `Confirmed`, `Keep`, `Logout` are the React hook, which stores its key with an `expiresAt`
once it is confirmed; `Connect` is `CasConfigManager` of `apps/agent`, which stores its key at once.
On the server `Complete` is the user's confirmation, `Expire` the end of a code or of an
authorisation; `Lapse` is the clock of the clients passing `expiresAt`. The two clocks are
independent, and a granted key may be refused for its timestamp at any time.

`GrantedKeysKept` says how an authorised, unexpired key may leave the storage, which is
in more ways than one would like: by a login or logout; when the polling of the
pairing it belongs to is over (`auth.ts:277`, also when failed polls hid the
confirmation); by a request that was refused while it was not yet authorised; and by
a request that was misled. The history variable `view` says which requests
these are: those whose storage was changed by others since they looked, those that signed with a
cached key that is not the stored one, and those refused for their timestamp.
Nothing else removes one; `Check_Inverted`, a check that takes an
unexpired key for an expired one, does.

**CasfaCli**: `ReadConfig` and `ReadCredentials` are the readings every command
begins with, `Open` and `Write` the two halves of `writeFileSync`; `Look`, `Read`,
`Fetch`, `MakeDir`, `OpenNode`, `WriteNode` are node get and put through the cache;
`Unlink` and `RemoveDir` are cache clear. `Die` is a kill at any of them. The
history variable `agreed` is the abstract state: what the files would hold had
each command been one step.

**FileTree**: `Depth`, `ChildCount`, `DataSize`, `Shares` are the layout of
`topology.ts`; `Upload` lists the nodes of the file in the order `uploadFileNode`
puts them; `WriteFile`, `Put`, `PutFails` write them one by one; `ReadFile` is
`readFileNodeData` over what is stored. `low` chooses whether the floating-point
capacity of depth 2 comes out just under its value.

## 3. Runs

| Run | Shows | Instance |
|---|---|---|
| `node_store` | stores consistent with each other and with every answer; quota overshoot bounded | one realm with a quota; a leaf, a dict that names it twice, a large file; two requests |
| `node_realms` | usage is exactly what was charged; ContentStore is implemented | two realms sharing blobs; a file with its successor; two requests |
| `tickets` | commit, revocation and deletion answers hold; late uploads bounded; the life cycle is implemented | one ticket, two agents and the user, two outputs, three requests |
| `depot_table` | histories bounded, what a commit keeps, where strays come from | one depot, three roots, limit 2, two calls |
| `depots` | roots stored | two depots, one uploadable node, two titles, two requests |
| `pairing` | keys confirmed, codes spent once, live keys stay | one client, two users, three codes, three requests |
| `vfs` | calls exact, writes kept, the tree a tree, builds return and are right | two names, a stored directory, two calls in flight, three in all |
| `awp_auth` | confirmed pairings serve, authorised keys leave only in the ways named, requests end | two clients with one storage, two requests or logins, two keys, keys that expire |
| `cli` | the files agree with the commands | two commands at a time, four in all, two profiles, two tokens, one node |
| `file_tree` | files read back, nodes fit, trees are shallow | four node limits, every size up to the capacity of depth 2 |
| `depots_keys` | *violated:* an uploaded root is found by commit | one node |
| `vfs_build` | *violated:* the keys build collects are keys makeDict reads | a stored directory, a mounted key |

The two violated statements are quoted in `PROJECT.json` under `findings`, each
with the line of the documentation that makes it and the line of code that does
not keep it.

**Why the bounds are enough.** The races of the backend are between two requests
on one row: each handler reads a row and writes it once, so a third request adds a
second overwriter and no new kind of step. Tickets get three slots because a
commit, a revocation and a deletion can disturb one another pairwise and the
bound on late uploads needs an upload on each side of one. Pairing has three
slots for a completion, a second one with the same code, and a revocation
between them, and three codes for an authorisation, a second and a third. `MaxCount`
stops PUTs of a node whose count reached it; with 2, a node is created, uploaded
again, and counted by a parent, and counts of children may exceed it. One leaf and
one parent suffice for closure, since closure speaks of a node and its children; the
dict naming its child twice makes every loop run twice and the two passes
differ (the first finds no row, the second may). The quota of 190 leaves room for
the leaf and one of the other nodes. Sizes are those of the binary format.
A history limit of 2 with three roots reaches the full history, a root that
returns, and a cut by a lowered limit.

In `vfs` two calls in flight are a pair of any two methods, and the third
call (`MaxCalls = 3`) sets the scene: it makes, loads or moves a directory before the pair
starts, or reads afterwards. The paths are `a`, `b`, `a/b` and `b/b`, so that a move can
go into, out of and beside a directory, and into itself (2.5 million states, two
minutes). With four calls the properties were checked beside the runs, over the smaller
sets of paths `a, a/b, a/a, a/b/b` and `a, b, b/a`. In `awp_auth` two keys make one pairing
beside or after another, by a request or by a login; with three keys, a third after two that
interfered, the safety properties and the invariant of the proof hold as well (7.6 million states),
but checking liveness takes longer than a run should. In `cli` four commands are two that disturb
each other and two that see the result. `file_tree` takes node limits whose
usable space is 2, 2.5, 3 and 4 hashes: all the ways a child can fill or not fill
its capacity occur, and a limit that is no multiple of the hash size. Slots,
realms, agents, tokens and the like are symmetric where a run says so: no
definition tells their values apart. `awp_auth` has no symmetry, since it checks
liveness.

**Stopping.** Deadlock is checked in every run but `vfs`, `vfs_build`, `cli` and
`file_tree`. The first three bound the number of calls or commands, and
`file_tree` writes one file: when that is done nothing is left to do. None of them
waits for another actor, except a build that goes round in a circle, which
`BuildsReturn` is about.

**Fairness and liveness.** The handlers of the backend have no fairness condition.
A request can die at any await and nothing resumes it: there is no background
worker, no retry, no reconciliation of the usage row and no collector,
so nothing must eventually happen. A property that a living request is answered
would hold by the shape of the handlers, which have no loop but over the finite
children of a body.

The AWP client has a loop that waits for somebody else, the polling of
`/auth/status`. `AwpAuth!FairSpec` is weakly fair to the steps of each flow: they are
callbacks of an event loop, calls to the storage and the network return (with an
error if nothing else), the host application answers `onAuthRequired`, and the
polling has a time limit. Nothing is assumed of the user, of other tabs or of
expiry. `RequestsEnd` holds under it, and no longer when the time limit is taken
away (`Poll_Endless`), nor would it if a refused retry could start another pairing.

## 4. Proofs

`NodeStore_proofs` proves for every set of realms, nodes and slots and every
quota, from `BodyAssumption` and `StoreAssumption` alone (children are sequences
of nodes, sizes are naturals, bodies are well formed, slots are finite), that the following are
invariants of `Spec`: `TypeOK`, `BlobsClosed`, `RowsBacked`,
`ReadersSeeWholeNodes`, `AnsweredPutsSurvive`, `OneCreator`.

None of them is inductive. `BlobsClosed` after `PutBlob` needs that the children
of the node about to be written are stored, which was established an unbounded
number of steps before, one child at a time; `OneCreator` needs that the
creator's row exists for as long as it counts its children. `IInv` adds what a
request in flight has achieved: `ValidationInv` (children seen so far are stored,
unless one was missing), `WritingInv` (the rows a request is past are there, and
what it counts next has a row or is the node itself), `CreatorInv` (a request that
created a row is past the creation and unanswered), `UnbilledBacked` (a row whose
creator died is there). TLC checked `IInv` on the instance of `node_store`
before the proof. The argument for a step has three parts: stores only grow
(`Grows`), one request moves and the rest stay (`Moves`), and facts about the
others survive growth (`RequestKept`, `ReaderKept`); then one lemma per action
shows the facts of the moving request. The one step at which the others matter
is `CreateRef`: the condition on the absence of the row makes its winner the only
creator.

The refinement, `Refinement`, is `Spec => ImplementsContentStore`: each step maps to
one abstract step or a stutter. `PutBlob` is `Store`, `AddOwnership` is `Own`,
`CreateRef` is `Refer` when it creates the node's own row, `UpdateUsage` is
`ChargeOnce`; a death of a creator moves the node from unpaid to unbilled, which
the mapping does not see. `OneCreator` is what makes `ChargeOnce`'s guard hold.

Three more are about numbers. `QuotaHolds` (`OvershootBounded`) says that what uploads in flight
may still add, on top of the usage row, exceeds the quota by at most the largest node
for each slot but one: the request whose check came last saw a usage row that already had
room for it. `LedgerExact` (`UsageLedger`) says that the usage row is the sum of
sizes over the nodes it was billed for, and `ParentsAreCounted` (`ParentsCounted`)
that a reference count is at least one for its creation and one for every name that
answered parents have for the node. The sums are folds of the community modules. What such a
fold does when an element is added, taken away or changes its value is proved here by
induction over the subsets of its set, with the property given as the set of the
subsets that have it. `ParentsCounted` needs what a PUT in progress has counted
so far: a row is at least what answered parents ask for and what each creator in
flight has done of its children's list.

`Tickets_proofs` proves, for every set of tickets, roots, callers and slots and
from `TicketAssumption` alone, that `TypeOK`, `CommitAnswersAgree`,
`RevocationsDurable` and `DeletionsDurable` are invariants of the ticket
endpoints. The three are almost inductive together: the condition of
`MarkCommitted` means that a ticket about to be committed appears in no earlier
answer, and `MarkRevoked` and `DeleteRow` write nothing an answer contradicts.
What is missing is `Create`, which would bring back a ticket that an answer had
called deleted: `IInv` adds `OnlyCreated`, that an id not drawn yet has no row, no
answer and no request. It holds because a request can only name an id that a
reply of `Create` has given out. TLC checked `IInv` on the instance of `tickets`
before the proof.

Two more theorems of that module. `Implements` is `Spec => ImplementsLifecycle`:
with the mapping `StatusOf` and `Output` each step moves a ticket along one edge of the
life cycle or leaves it where it was. `Create` is `Issue`; `MarkCommitted` is
`Commit`, or `LateCommit` when the revocation came in between; `MarkRevoked` is
`Revoke`, or a stutter when the ticket had been revoked already or is gone; `DeleteRow` is
`Delete`, or a stutter when somebody else deleted it. `LateBounded` proves
`LateUploadsBounded` for every finite number of slots. The bound alone is not
inductive. `LateInv` says of an ended ticket that the late uploads and the
uploads still in flight together are at most the slots but one: the slot that ended it was
not uploading, and no upload is admitted afterwards, so a landing only moves one from
the second number to the first.

`ClientPairing_proofs` proves `TypeOK`, `KeysWereConfirmed`, `CodesSpent` and
`LiveKeysStay` for every set of clients, users and codes, from `RowAssumption`.
`IInv` adds `CodesDisplayed` (a code was displayed by one client, and what is pending
or being completed carries a code its client displayed) and `DeletersKnow` (a request about to
delete a live key was in flight when it was stored, or revokes it for its user),
from which the action property follows step by step.

`Depots_proofs` is about the depot table and the endpoints over it. From
`TableAssumption`, `NoCallAssumption` and `DepotAssumption`, for every set of depots, roots, titles and
requests: `TableTypes` (`TableTypeOK`, with the bound on histories in it), `Strays`
(`StraysWereDepots`), `CommitsKeepRoots` (`UndisturbedCommitKeepsAll`), `DepotsTypes`
(`TypeOK` of the endpoints), `DepotsPointAtStored` (`RootsStored`) and
`DepotsImplementTable`: every step of the endpoints is a step of the table or
leaves it, so what is proved of the table holds under them. The table's
invariant has that a call only names an id that was drawn (`CallsKnown`), that an id
that was drawn has its whole item or was removed (`WholeOrRemoved`), so what an unconditional update
makes out of nothing is remembered as removed, and that a call about to write a history
has one within the limit or found its item gone. The history a commit
writes is what the recursive function `Without` leaves of the one it read; its
length and its entries are lemmas, by induction over the places (`NatInductionOn`,
which takes the property as the set of numbers that have it). The endpoints' invariant says of each
await what the handler has looked up: a root past its check is in the blob store,
which only grows.

`AwpAuth_proofs` proves `TypeOK`, `GrantedKeysKept` and `ConfirmedPairingsServe`
for every set of clients, flows and keys, from `AuthAssumption`. The properties excuse what was
misled or disturbed, and the proof is about what a request that was not may rely on
(`StorageKnown`): the stored key is the one it signed with, one that was not authorised when
it was refused, its own, or one that has expired. Any step of another flow that changes
the storage misleads it, so that only its own steps need an argument (`KnowsOwn`). Once its key is saved and no
other request of its client is in flight, the key in the cache stays the one it will sign with
(`PairedServe`). TLC checked `IInv` on the instance of `awp_auth` before the proof.

`CasfaCli_proofs` proves `TypeOK`, `FilesAgree` and `TornNodesExplained` for every set of
commands, profiles, tokens and nodes, from `CliAssumption`. `FilesAgree`
speaks of the moments when nobody writes; what carries it over the others is `Agrees`: as long as
a file is undisturbed, one command at most is changing it, and its copy is what that
command makes of the agreed value. `MeantOK` adds that the profile it changes is the one it
was meant for, which another command could have switched in between. The torn
nodes need `Written`, that a file being written is there.

`FileTree_proofs` proves for every node limit that `TreeAssumption` allows, every hash
size and every file up to the capacity of depth 2: `NodesHaveRoom` (`NodesFit`), `FilesAreWhole`
(`FilesReadBack`) and `TreesAreShallow` (`ShallowTrees`). `WriteInductive` is the
invariant under the second: a writeFile in progress has put a first part of the
nodes, in the order children before parents, and the rest is before it; whatever
earlier calls have left, the root is stored only with the whole tree. That such a
tree reads back as the file is a fact about two recursive functions, `Upload` and
`ReadFile`. A recursive function is a CHOOSE among the solutions of its equation; the
lemmas show by induction that a solution exists, and with that the equation
itself. The rest is arithmetic over quotients and
remainders, with the rounding of the floating-point capacity (`low`) as one
case.

`VirtualFS_proofs` proves for every set of calls, names, nodes and paths, from
`TreeAssumption` alone but for the last: `VfsTypes` (`TypeOK`), `OneTreeOnly` (`OneTree`),
`BuildsReturnAlways` (`BuildsReturn`), `WritesStay` (`AnsweredWritesKept`), `SoloExact`
(`SoloCallsExact`) and `SteadyBuilds` (`BuildsSteadyPaths`). The inductive invariants
(`VfsInv`, `KeptInv`, `SoloInv`, `SteadyInv`) and the notions they are made of are in
`VirtualFS_invariants`. The first theorem rests on `HeapOK`: the heap is well typed, no map belongs to two entries, no map
has a name twice, and the root is in none; with `Grows`, that a step never
takes an entry or a map away, so that what other calls hold in their local
variables stays good. For the second, `Planted` says that the entries that can be
reached from the root lie in a set `A`, closed under what its entries hold, with a path
for each that no other entry has, given by the entry that holds it and its name. An
entry held twice would have two paths. The invariant is about the move in
flight, which puts an entry it found some awaits ago into a map it found later, and
takes a name from a third: its source must still be where its path says, or it has
been cut off (replaced, deleted), and then is in a set `B` beside `A` that is a tree
as well. Without `B` it would not be inductive. A step of
another call changes one map (`Regrown`): what was below the name replaced goes
from `A` to `B`, what is new gets a path (`StillPlanted`). The move's own last step puts the tree of its source
below the target and takes it away from its origin (`Grafted`); a move into its own subtree
leaves the root with the part outside of it. `~movesMet` is needed exactly here: with a second move in flight
the origin of the first may hold something else by then. `VfsInv`
quantifies over paths of entries, which TLC cannot enumerate; `HeapOK` and `CallOK` were checked on
the instance of `vfs`, and the rest has only the proof.

`BuildsReturnAlways` is no consequence of `OneTreeOnly`. A build may be inside
directories that have been cut off from the root while it waited, and of those the
forest says nothing. Its invariant, `Builds`, is that the directories a
build is inside of lie in a set of entries that is closed under what they hold and has no
circle: of any of them, one at least is held by none of the others (`Sourced`). Only a move
can close a circle, by putting a directory below one that it holds, and `Course`
excludes that: the source and the target of a move in flight still have, in a
region that held the tree when the move passed (`Region`), the paths it was called
with (`OnCourse`). If the target's path does not begin with the source's, what the move
links cannot hold its own source (`MoveStaysSafe`). A move whose target's path does
begin with it is the exception `inside` of the property. `GoesRound` shows that
frames which go round in a circle (`Circles`) leave no such set.

`WritesStay` is about paths. `Leads(h, p, e)`, the path `p` leads from the root to the entry
`e`, is the least relation closed under links, and `LeadsEntry` shows that it is what the
recursive `EntryAt` finds. An entry reached by a path has no other path in the tree
(`LeadsIn`), so that a step which takes away the links of some places (`Lost`) keeps every path but those
below what the call changes (`Losses`, `KeepsPaths`). The invariant `KeptInv` adds to the kept writes what makes this true of the next step: each
walk knows the path that leads to where it has come, and a move the
directory its source is in (`Found`); no call in flight changes a path above
another's target (`Apart`, which is what `~displaced` says of the present), nor one comparable to
a kept write (`Untouched`). Loading a directory that has none of its children in memory takes no
link away; loading it for a second time does, and is the exception `reloaded`.

`SoloExact` compares what is seen at every path before and after a step, inside of nodes that are
not loaded as well (`EntryFrom`). A step that changes links under some names (`Matches`) shows only below the
paths of those names (`LinksOf`, `MatchSees`); the first time a node is loaded is never seen
(`LoadSees`). What the last step of each method shows (`WriteSeen`, `MountSeen`, `DeleteSeen`, `DirSeen`,
`MoveSeen`) is then what `Effect` says of the method. The invariant `SoloInv` says where a call that runs alone has come
(`Settled`): a directory it has asked the store for is not loaded yet, so that its loading is the
first; if it has made directories it is in the last of them, which is empty (`Fresh`), so that nothing can make it
throw any more; and its own path, and the source of its move, lead where it thinks they do. Only
`~movesMet` is needed of the past, for the forest: a directory that was displaced or loaded twice is
of no consequence once its calls have ended.

`SteadyBuilds` is about a build with other calls beside it. Its invariant, `SteadyInv`, relates the
frames of a build to the tree of the moment, at the paths that are still steady (`FramesTo`). Each frame has a
path, its name after the path of the frame before, and if a steady path goes through it that path leads to the
directory of the frame (`PathFits`); every place that the frame has passed and that still has an entry
has its name among the entries collected, or is the child the build is in now (`PlacesFit`); and the node
of each entry collected shows at every steady path what the tree shows there (`EntriesFit`). A step of
another call leaves this as it is (`FramesStay`) because the places of a map keep their names and one that
is empty stays so (`PlacesStay`: `Map` iterates in the order of insertion, and what is set anew comes
behind the iterator), and because no steady path is below what a call has changed. When a frame ends, all its
places are passed, and the dict of its entries shows what the directory does (`DictFits`). The invariant, in a
form TLC can evaluate, was checked on the instance of `vfs`. The theorem has the hypothesis `DictsApart`:
the content of a file is no function from a set of names. The model tells dicts from files by `IsDict`, and the
code by the node's kind, which is in its bytes; TLC cannot evaluate the hypothesis over model values,
which is why it is one of the theorem and not an assumption on `Data`.

**Model-checked only.** Of AwpAuth, `RequestsEnd`, which is liveness.

**Out of the prover's reach.** Liveness and `ENABLED`. The library's induction theorems, which take an
operator as a parameter; where an induction was needed it is done on a set of numbers (every set
of naturals that is not empty has a least element) or on `SUBSET` of a finite set.
Nothing here uses RECURSIVE operators in a module with proofs.

## 5. What is abstracted

* Bodies: header flags, names, content types and hashing. A malformed body, or
  one whose key does not match, never becomes a request of the model.
* The existence cache of the S3 provider: it is never stale while nothing deletes
  blobs, and nothing in casfa-v2 does.
* Store calls are atomic, and a call's loss is a death before or after it. A call
  applied twice by the client's retry is not modelled (see `hazards`).
* `decrementRef` and `setQuotaLimit` have no callers.
* Tickets: scope, quota per upload and wording of errors. Listing.
* Depots: names of generated titles, timestamps, pagination.
* Tokens, roles, OAuth and signatures: an admitted request is taken as admitted,
  except for the ticket scheme, which `Tickets` models, and the keys of AWP
  clients, which `AwpAuth` identifies with their signatures.
* Virtual file system: contents of files; order of the entries of a dict (they are
  sorted); a build that has entered a directory it is inside of is not followed
  further.
* AWP: `rotateKey`, whose endpoint no server here has; `updateExpiration`, which no
  caller reaches; several endpoints per client; the key storages other than
  IndexedDB: localStorage does in one step what IndexedDB does in two, files
  (`client-nodejs`) are written in place like those of the command line tool.
* Command line tool: base URLs, realms and cache settings are further values of the
  same file and travel with it; the refresh of an OAuth token always fails (the
  client sends `refresh_token`, `casfa-protocol/src/auth.ts:18` wants
  `refreshToken`, and the backend's refresh is not implemented); login with a
  device code ends in an error of the server.
* B-tree: files of more than the capacity of depth 2. Under the limits in use,
  1 and 4 MB, such a file has more than 68 GB, and `writeFile` takes it in one array.

**Not modelled.** Listed in `PROJECT.json` with the reason: code without state of
its own between two calls (routing, HTTP clients, tool dispatch, stack templates),
user interfaces, examples and scripts, which are by far the largest part of the
repository's lines; the legacy v1 backend, which does not match the current
cas-core, and whose collector cannot run (`decrementRef`,
`apps/casfa/backend/src/db/refcount.ts:142`, has `if(...)` in an update expression,
which DynamoDB does not accept); and the AWP tables of casfa-v2, which nothing
writes.

## 6. Remarks on the code

Met while modelling; each of them is a behaviour of the modules above.

* `chunks.ts:152`: the quota is checked on a row read before the upload, so that
  uploads in flight together exceed it (`OvershootBounded` says by how much;
  `REFCOUNT-001-reference-counting.md:57` calls it a hard reject).
* `validation.ts:388`: step 13 wants a dict's `header.size` to be the sum of its
  children's sizes, while `encodeDictNode` and `docs/CAS_BINARY_FORMAT.md:264` make it the
  length of the names: most dicts are refused (`SizeAgrees`).
* `tickets.ts:239`: a commit in flight can land on a ticket answered "revoked"
  (`LateCommit` in `TicketLifecycle`; `02-tickets.md:65` knows no such state).
* `tickets.ts:196`, `ticket-auth.ts:81`: the output of a commit is not looked up, and
  a ticket's quota is compared with each upload alone.
* `depots.ts:196` and `:203` (table): committing the current root twice puts it into
  the history twice, and of two commits that read one item the first is lost
  (`UndisturbedCommitKeepsAll` is about a commit that nothing disturbed).
* `depots.ts:221` (endpoint): the title that protects the main depot is read before
  the deletion; a renaming in between is not seen.
* `middleware/auth.ts:220`: signed requests are looked up in a table that the
  pairing of clients does not write. `mcp/handler.ts:183` hands a node key to stores
  that know hex.
* `auth-clients.ts:72`: a poll that reads the key before and the pending row after a
  completion answers `not_found`.
* `vfs.ts:429`: a move of a path onto itself or into its own subtree deletes it.
  `:474`: mkdir over a stored file answers as if it had made a directory. `:200`:
  two calls that enter a directory before it is loaded load it twice, and what
  was written into the first copy is lost. A build does not return when a directory is moved into itself
  beside it, or two moves meet.
* `client/src/auth/auth.ts:339`: `notifyAuthFailed` clears whichever key is stored by
  then, without waiting. `:277`: so does a poll whose time is up, even if the
  user has confirmed. `awp-auth.ts:195`: a client whose clock is off pairs again at every
  request, and each time replaces or clears the key it has.
* `client-browser/src/indexed-db-storage.ts:161`: a load that finds the key expired deletes the
  one stored by then, which another tab may have just obtained.
* `casfa-cli/src/lib`: a reader that meets a truncated file sees defaults, and its
  next save drops the other profiles; a shorter text over a longer one leaves
  neither; a cache file that was left unfinished is served as the node, with no
  look at its hash; cache clear between the making of a directory and the writing of
  a file makes a successful download fail; config delete keeps the credentials of
  the profile.
* `topology.ts:31`, `docs/CAS_BINARY_FORMAT.md:38`: the FileInfo of the root is not in
  the layout, and the root may exceed the node limit by its 64 bytes. `writeFile`
  throws for some sizes under limits that are no multiple of the hash size. On
  reading, a missing child is passed over.

## 7. Plan

Done, in this order: `NodeBody`, `NodeStore` and its properties; `ContentStore`;
the inductive invariant and the refinement; `Tickets` over `TicketLifecycle`;
`DepotTable`; `Depots`; `ClientPairing`; the invariants of `Tickets` proved;
`VirtualFS`; `AwpAuth` with its liveness; `CasfaCli`; `FileTree`; the proofs about
`DepotTable`, `ClientPairing`, `AwpAuth` and `CasfaCli`; the refinement of `Tickets` to
`TicketLifecycle`, the bound on late uploads and that on the quota as theorems; the
usage ledger and the counts of parents; the depot endpoints, as an implementation of
the table; `FileTree`; the types of `VirtualFS`, and that its tree stays one; that builds return, that
answered writes stay, that a call alone does what it says, and that a build answers what stayed;
expiry, clocks and logins in `AwpAuth`.

Next: the key files of `client-nodejs` under `AwpAuth`; the collector of the v1 backend against
uploads, once the code it belongs to runs.
