# ivipbase: TLA+ models, model checking and proofs

ivipbase is a realtime JSON database for Node and browsers: a document tree
stored as records in one of several backends, served over HTTP and a socket,
with subscriptions, transactions, rules and accounts. This directory models the
parts of it where order, concurrency and failure decide whether the result is
right, checks them with TLC and proves the central facts with TLAPS.

    tlc -workers 2 -config MC_MDE_Single.cfg MC_MDE_Single
    tlapm MDEProofs.tla

`PROJECT.json` lists components, runs, mutants, the map from definitions to
source lines, findings, hazards and theorems.

## 1. The system

Paths below are relative to `src/src/`.

| Part | State | Operations | Talks to |
|---|---|---|---|
| Storage engine `controller/storage/MDE` | none of its own between calls; a private tree (`NTree`) per call | `set`, `update`, `get`, `transact`, schemas | backend through `getMultiple`, `setNode`, `removeNode`; emits `add`, `change`, `remove` |
| Backends `controller/storage/*Storage.ts` | a Map, a file, a table or a collection; SQLite, Sequelize and MongoDB keep a second Map of rows "pending" | the same three operations | the file system, drivers |
| Local database `database/StorageDBServer.ts` | - | forwards | engine, subscriptions, queries |
| Subscriptions `database/Subscriptions.ts` | callbacks by path and event | `add`, `remove`, `triggerAllEvents`, `trigger` | called by engine events and IPC |
| Queries `controller/executeQuery.ts` | matched paths of realtime queries | run once, follow events | engine, subscriptions |
| Rules `database/services/rules.ts` | the rule tree | `isOperationAllowed` | engine (reads), sandbox |
| Remote transactions `server/routes/data/transaction.ts` | map of open transactions, a timer each | start, finish, timeout | `MDE.transact`, rules |
| Data, account and file routes `server/routes/**` | cache of accounts, token salts | one request each | database, rules |
| Socket server `server/websocket` | clients, their subscriptions and realtime queries | connect, (un)subscribe, query-(un)subscribe, disconnect | rules, subscriptions |
| Application and remote database `app`, `database/StorageDBClient.ts` | connection state, own subscriptions | connect, reset, request, subscribe | the two above over the network |
| Accounts of a client `auth/index.ts` | the current user, local storage | sign in and out, reload | account routes |
| Process cluster `ipc` | peers, open requests | hello, bye, broadcast, request, exit | all processes of a cluster |
| File storage `storage` | files and their records | put, get, delete, list | file system, database |

How they interact: a write comes in through a route, a socket or a local call;
rules and schema are asked; `MDE.set` reads the records on the trail of the path,
restructures them privately and issues one backend call per changed record; at
the same moment it emits events, which `Subscriptions` turns into callbacks, some
of which send to sockets or to other processes through IPC. Everything runs in
one JavaScript thread per process; steps interleave wherever a function awaits,
sets a timer or hands work to a driver. There are no locks: the lock in
`transact` is a stub.

What is hard, and so what the properties are about:

- one call is many backend operations, between which other calls run;
- answers come before effects (`verifyParents`, SQLite upserts, the debounced
  save of the JSON file, `import`);
- errors that are swallowed (`getNodesBy`, `batchError`, transaction callbacks);
- timers that race late answers (transactions, IPC requests, socket requests);
- state tested before an `await` and used after it (socket subscriptions);
- restarts while memory holds what the disk does not.

What makes each part correct:

- *engine*: the records always stand for the JSON document that the sets and
  updates describe; a write touches its own branch only; no record is left behind
  that a later write would bring back; every call is answered.
- *transactions*: what a finish request is answered is what became of it; a timed-out
  transaction never writes; each one leaves the map and comes to an end; no update is lost.
- *backends with a pending map*: readers see the last write or one that overlaps it;
  the map drains; the table catches up; after a restart both agree.
- *JSON file*: what is on disk can be loaded and is one state memory went through.
- *realtime queries*: the matches their user keeps are those of the data.
- *sockets*: one subscription per client, path and event; none outlives its client
  or its unsubscribe; every request is answered once.
- *subscriptions*: one callback per effective change, in the order of changes.
- *IPC*: every live peer knows every other; a request settles once.
- *sessions*: a cached account is the stored one or expires.

## 2. Modules

| Module | Models | Depends on |
|---|---|---|
| `JsonTree` | paths, JSON values, requests, and the document a request leaves behind (`Written`) | |
| `JsonDocument` | abstract: one document changed by one write at a time | `JsonTree` |
| `MDE` | `MDE.set`/`update` and `NTree`: calls in flight over shared records | `JsonTree` |
| `MDEImplements` | refinement mapping from records to the document, `ReadsDocument`, `NoOrphans`, the conditions of all three | `MDE`, `JsonDocument` |
| `TransactionRoute` | the transaction routes, their timer and `MDE.transact` | |
| `SqliteStorage` | the SQLite backend with its pending map and statement threads | |
| `MongoStorage` | the MongoDB backend: pending map, retries, lost connections | |
| `DurableStore` | abstract: a store that answers from memory and saves in the background | |
| `JsonFileStorage` | the JSON file backend, refining `DurableStore` | `DurableStore` |
| `Events` | which subscriptions a change fires, mutations, delayed delivery | |
| `RealtimeQuery` | the realtime part of `executeQuery` over those events | |
| `Subscribing` | subscriptions of a remote client: requests, reconnection, socket handlers | |
| `Cluster` | the IPC peers of a Node cluster | |
| `MDEProofs`, `SqliteProofs`, `JsonFileProofs`, `MongoProofs`, `RealtimeQueryProofs`, `SubscribingProofs`, `ClusterProofs` | theorems | the module named |
| `DatabaseProofs` | theorems | `Events` and `TransactionRoute`, which share no state and no name |
| `MC_*` | instances for TLC | |

### `MDE` and the code

`store` is the backend, one record per path (an in-memory Map, `DataStorage`);
`op[o]` is one running `MDE.set`. Its fields are `tree` (the `NTree`), `todo`
(nodes `destructure` still has to visit), `verify` (ancestors `verifyParents` still
has to visit), `out` (emitted operations not yet taken by the backend) and three
history fields that guide no step (`read`, `overlap`, `refused`).

There are two ways to look at the records. `Holds` is the document they stand for: each
record, and each inline value under its own key. `Get` is what `NTree.get` returns, which is
not the same for arrays. It sends the inline entries through `filter`, which drops the holes
that dedicated entries and nulls leave and moves the rest down (`EntryAt`), and then assigns
the entries that are nodes of its tree by their index, over what has moved
(`NTree.ts:30-41`, `290`, `298`). A path without a record is looked up in its parent, where
the test `pathInfo.key &&` is false for the index 0 (`LookedUp`). `Legible` says where the
two must agree: in arrays whose inline entries come first and without a gap (`InPlace`), and
not for an inline entry 0 asked for by itself.

In the same way `Asked` is the data as the client means it and `Content` what `destructure`
visits: an atom for index k is wrapped into an array with holes before k, and
`allowEventLoop` visits those as nulls. `Written` is the document after a request as asked for.

The requests in `Refusable` are those whose backend calls may fail, the read included.

| Action | Code |
|---|---|
| `Start` | `MDE.set` up to the first yield of `destructure`: path, `getNodesBy`, `NTree.createBy`, first iteration of `verifyParents` |
| `Destructure` | one call of `NTree.destructure`: mode after a change of type, inline values, parent fixed, displaced records removed, record emitted, nested nodes queued |
| `VerifyParent` | one iteration of `verifyParents`, which nobody awaits |
| `Apply`, `Reject` | the backend executes or refuses a `setNode`/`removeNode` |
| `Ack` | `await Promise.all(promises)` done, the promise of `set` resolves |
| `End` | the last iteration of `verifyParents` is over |

Abstractions: values are model values, long or short (the inline limit of
`valueFitsInline`); revisions, dates and events are left out. The operations of
one call are applied in the order they were emitted (a Map does so; MongoDB and
SQLite need not). Where the code emits the same record twice in a row within one
step (before and after nested nodes are removed), only the last is emitted.
A nested `verifyParents` finds its ancestors there and is not repeated. Between
steps of one call any step of another may run: that allows more interleavings
than the timers of `allowEventLoop`, so properties that pass hold for all of those.

### `TransactionRoute` and the code

`stage` is how far the promise of `transact` is; `listed`, `timer` are the map
entry and its `setTimeout`; `finish`, `sent`, `replies` follow the finish requests.
`Start` to `Withhold` is the start route, `FinishGone` to `Commit` and `Reply` the
finish route, `Timeout` the timer; `Read`, `Write`, `WriteRefused` and `WriteThrows` are
`transact` and the `set` below it. A write the backend refuses is swallowed (`batchError`,
`MDE/index.ts:735-791`): `set` resolves, and `Reply` answers "done" with nothing written
(`WriteRefused`). What does reject is a value of a type `valueFitsInline` does not know, such
as a bigint, and it does so before anything is emitted (`WriteThrows`); the client is
told of an error. `MayRefuse` is whether the backend refuses at all. Rules and schema are one
outcome: allowed or not. The value is a counter every client increments.

### `SqliteStorage` and the code

`table` and `pending` are the table and the Map; `statement[s]` is an upsert or a
DELETE handed to the sqlite3 package, `query[q]` a `getMultiple`. `SetNode` and `RemoveNode`
are the functions, `Execute` is the thread, `Report` and `Refuse` are the callback with
success or an error (with the `finally` that forgets the row), `Ask`, `Select`, `Answer` are
`getMultiple`, `Crash` is a restart on the same file. Threads keep no order among statements,
and nothing keeps callers from sending the next one: one call of the engine sends the
removal of a branch and upserts below it together, or one record twice. `Records` are the
rows the engine writes.

Which of two overlapping statements wins is therefore open, and the history says so.
`burst[p]` is what the calls wrote whose statements overlapped at `p`, from the last time
nothing was on its way there; `former[p]` is the row before them; `lost` are the paths where
one of them was refused or died with the process. Each query remembers what it may return
(`allowed`). Nothing is reset to the table when a statement is refused or the process dies.
Creating the table, the root row and a SELECT that fails are left out.

### `JsonFileStorage` and the code

`memory` is the Maps of all databases, `file` the file (`Torn`: not JSON), `image` what
the `readFile` of the constructor has read. `Load` is its callback, `LoadFails` the
parse error nobody catches. `Write` is `setNode` or `removeNode` with `saveFile`, which
restarts the timer; `Elapse` ends the second, `SaveFile` and `SaveEnds` are the start
and the end of `writeFileSync`, so that a `Crash` may come in between. The refinement
maps `memory`, or the file while it is being loaded, to what readers of `DurableStore`
see, and the file to its disk; while a save runs its disk is already the new one, and a
crash then is the step that spoils it. `Patient` says that callers wait for "ready", as
the application does when it is used as documented; without it `Load` replaces what they wrote.

### `MongoStorage` and the code

`pending` is the map, `ops` the statements under way, `timer` and `resolver` the
`setTimeout` of `resolvePending` and its callback, which sends one entry at a time, one
database after the other. `SetNode` and `RemoveNode` are the functions up to their
`await`, `Store` the server, `Answer` and `Refuse` the rest; a `Refuse` after `Store` is a
lost answer. `Skip`, `Resend` and `Leave` are the loops of the callback, `Die` the throw of
`setNode` in it when the connection is gone. A removal is meant for the branch below its
key (`Branch`) and takes what its expression matches (`Matched`): that has no anchor at its end, so
that a removal of `a` takes `ab` too, and leaves [ and ] unescaped, so that one of `b[0]`
takes nothing (`MongoDBStorage.ts:259`). `last`, `raced` and `strayed` are history: the content
of the latest call; the keys where statements overlapped or a refused removal was
forgotten; the keys a removal took or missed by mistake (`Amiss`). The callback walks over a live Map: an entry deleted and put back is
visited again (`seen`). A key's database is fixed by `DatabaseOf`.

### `Events` and the code

`record` is the data; a `Change` is what the engine emits for one record, and the
action runs the whole of `triggerAllEvents`: the impact (`TopEventPath`), the selection
(`DataPaths`), the values along the trail (`Trail`, `Descend`: the properties of an object
are values or nothing, so one level is all there is), the decision (`Fires`) and the
mutations (`Batch`, `Mutations`). `waiting` holds events with an object, in the order in
which their timers end: a mutation of their data is taken in (`Updated`, by `Merged`) and starts the
timer again (`Restarted`). The order of new events about the same data is open (`InOrder`).
Subscriptions come and go (`Subscribe`, `Unsubscribe`), at any path, above the records too.

A "value" subscription above the record that changes, or a "child_changed" of an ancestor,
makes `getUpdateImpact` return its path as `topEventPath`, while the values that
`triggerAllEvents` goes on with are still those of the record
(`Subscriptions.ts:300`). `TopEventPath` returns that path, and `Descend` then looks up what the
code looks up: the subscriber above is shown the content of the record as if it were its own, one
below finds nothing.

`shown` is the last "value" event delivered. `mirror` is a copy a client keeps by "mutated" events
exactly as `src/README.md:917-946` shows: it gets the node first (`Copied`); a mutation at a
path below it sets or deletes the last key of the trail in the object the trail leads to, and throws
if there is none (`Followed`, `Applied`); one at the path of the node itself has the trail
`['']` and sets a property of that name, so that the copy does not follow its own node when
that comes or goes. `lost` and `astray` are history. `lost` holds the records a copy has
not followed: its own node after that, a record it had no object for, what was below a
record that a mutation put in place whole (`verifyParents` does that), and what a change with a
wrong path could reach. `astray` marks an event whose node was removed while it waited, or
during whose time a change of its data was taken from another path. A record leaves
`lost` only when a new mutation or subscription brings it in.

### `RealtimeQuery` and the code

`Read` is `getNodesBy` in `executeQuery`, `Follow` the end of it, which subscribes; between
them the function yields and nobody listens. The callbacks are `ChildAdded`,
`ChildChanged` and `ChildRemoved`; `map` is the user's, kept by "add", "change" and
"remove". Events are those of `Events` for a collection: additions and changes wait,
`notify_child_removed` does not. Each child has its own queue of waiting events; a change
starts the timers of its own child again and leaves the others, so the order of
events about different children is left open. `stale` is history: children changed in the gap, or
removed while an event about them waited.

### `Subscribing` and the code

The client: `Subscribe`, `Unsubscribe` and `UnsubscribeAny` are the functions of
`StorageDBClient`, each a `websocketRequest` whose copies are sent by `Retry` until `Receive`
or `GiveUp`; `Connected` is `onConnect`, which subscribes again all there is, after
socket.io has sent what it kept. The server: `Accept` makes a `ConnectedClient` under the
id of the application, `HandleSubscribe` is the handler up to the access check and
`Checked` the rest, `HandleUnsubscribe` and `Disconnect` are whole handlers; `Removed` says
which entries a `forEach` over the list it shortens reaches. The test of the access check
is on an object, which is always true, so no request is denied. `clean` is history: it
names the mishaps after which client and server differ. Giving up is not one of them: what the
client has dropped it no longer asks for, and what it keeps it asks for again.

### `Cluster` and the code

`up` and `down` are the channels between workers and master, `peers` the lists.
`MasterHandle` and `WorkerHandle` are `handleMessage` of `IPCPeer` with that of the base
class, `RemovePeer` is `removePeer` (`indexOf` and `splice`), `Sent` is `sendMessage` of the master, `Leave` is SIGINT or SIGTERM (goodbye, then
`process.exit`, which may cut the goodbye off), `Die` any other end, `SeeExit` the "exit"
event of `cluster`. Node keeps each channel in order, but "exit" may come before the
last messages of a worker. `told`, `due` and `late` are history.

## 3. Runs

Every passing run ends in less than three minutes with two workers.

| Run | Question | Instance |
|---|---|---|
| `mde_single` | Do the records implement the document (`Implements`), does a get return it (`ReadsDocument`), without orphans, and is every call answered? | one call at a time, 14 writes on 9 paths: two levels of objects, an array, with a gap and without, short, long and empty values, nulls, changes of type |
| `mde_concurrent` | Does a write stay on its trail (`Footprint`), and does a call leave and read back its own result when it found its trail intact and the others work on other branches (`DisjointWritesSurvive`)? | two calls in flight, 4 writes: nested, siblings, the removal of the branch, whose reads and writes the backend may refuse; symmetric calls |
| `transaction_races` | answers are true, late never writes, the map is emptied, transactions end | two transactions, any order of timer, finish, retries, denials, refused reads and writes, values that cannot be stored |
| `sqlite` | regular reads, nothing older survives the last calls, the map drains, the table catches up | a node and its child, two values, two statements at once, one reader, refusals and restarts |
| `json_file` | Is the file a durable store (`IsDurableStore`), is no write forgotten by the timer, does it reach the disk when writes pause? | two databases of two paths, one content; crashes anywhere, `Patient` |
| `mongo` | Do readers see the last write (`ReadsSeeLatest`), is a retry ahead, does the map drain? | two databases, the second with a node, its child, a key that begins like it and an array entry; two contents, two calls; refusals, lost answers, disconnections, a dying process |
| `events` | Does a copy kept by mutations follow the data, is a delayed event fresh, is the last value shown current? | a node and its parent with one property, five subscriptions that come and go: four to the parent, "value" and "mutated" among them, one to the property of the node; two delayed events |
| `realtime_query` | Is the map of matches in step, and right for good about children left alone? | two children, three values of which two match, two delayed events per child, a query that is stopped and run again |
| `subscribing` | Do server lists and database agree, is the server in step with the client, does every request settle? | two events, two connections, two requests of two copies each |
| `cluster` | Does everyone hear every change once and in order, are the lists of peers right at rest? | a master and two symmetric workers, two changes |

Two runs end in a violation, each of a sentence of the repository quoted in `findings`.
`transaction_hangs` refutes a comment: the timer fires before `tx.finish` exists, and the
transaction never ends. `mde_arrays` refutes the documentation, which says that
entries of an array can be edited one by one (`src/README.md:528`): with b = [s1, s1], a set of
`b[1]` removes `b[0]`, since the atom is wrapped into an array whose hole counts as a null
(`NTree.ts:424`).

### Divergences without a run

These follow from the code modelled here and contradict a README, a comment or a
caller's expectation; the instances of the passing runs leave them out, or a
history variable excuses them, and the properties fail with them.

- *A set is answered before it can be read* (`NTree.ts:436`): `verifyParents` is not awaited,
  so `set("n/n", {})` resolves before the record of `n` exists.
- *Below a long string* (`NTree.ts:358`): any record counts as an ancestor; what is set two
  levels below a long string is never readable.
- *Shifted arrays* (`NTree.ts:290`): of an array some of whose entries have records of their own
  a read closes the gaps first and then puts those entries at their index: after a set of
  `b` to `[{a: s1}, s1]` a get of `b` returns `[{a: s1}]`. A get of an inline `b[0]` returns
  nothing (`279`). `Legible` is where no property claims a read.
- *Objects written to arrays* (`NTree.ts:485`): `update({ 4: ... })` on an array, as
  `src/README.md:577` shows, removes the other entries.
- *A refused write is answered* (`MDE/index.ts:763`): errors go to a list nobody reads, and a
  transaction is answered "done" with nothing written (`transaction.ts:174`). An
  update whose read is refused replaces the record instead of merging (`MDE/index.ts:355`).
- *Objects and arrays of containers* (`NTree.ts:124`): an object whose children are all
  objects, replaced by an array of objects, stays an object.
- *Lost updates* (`MDE/index.ts:928`): the lock of `transact` does nothing, against the
  comment at line 907; of two transactions that read the same value one is lost.
- *Overtaken rows* (`SqliteStorage.ts:259`): the end of a first upsert removes the pending row
  of a second one; a read may return the second value and then the first. A DELETE and
  an upsert sent together run in either order (`277`). `burst` allows both.
- *Removals by expression* (`MongoDBStorage.ts:259`): removing `a` removes `ab` as well, removing
  `b[0]` removes nothing.
- *Forgotten retries* (`MongoDBStorage.ts:166`, `189`): what is refused in one database while the
  callback is at a later one is not sent again until something else is refused. A set of
  a node whose removal was refused replaces that removal (`237`): its children stay.
- *Shadowed events* (`Subscriptions.ts:300`): with a "value" subscription above, it is shown the
  content of the record as its own, and other subscriptions get values looked up from the wrong
  path and miss events.
- *The documented copy* (`src/README.md:924`): it does not follow its own node when that comes or
  goes, and a record that `verifyParents` creates arrives as a mutation that puts an empty
  object over what the copy had there.
- *Ghost matches* (`executeQuery.ts:233`): the removal of a child overtakes its delayed event,
  which brings the match back. What changes between the read of a query and its
  subscription is missed (`executeQuery.ts:391`).
- *Skip counts pages* (`executeQuery.ts:367`): `skip` is multiplied by `take`, while
  `src/README.md:1040` says that `.skip(100)` skips the first 100 results. Not modelled.
- *Sockets*: a subscription made twice or after its end during an access check
  (`websocket/index.ts:221`), subscriptions of a new connection dropped with the old one
  (`74`), every other one left by an unsubscribe from all events (`299`), one callback of
  several that takes all with it (`StorageDBClient.ts:223`).
- *Ghost peers* (`IPCPeer/index.ts:75`): a hello that comes after the exit of its worker
  enters it for good.

### Bounds

- *paths*: a restructuring step looks at a node, its children and its parent; a
  removal follows descendants. Depth three below the prefix and two children per
  node reach every branch of `destructure`, `remove` and `verifyParents`.
- *values*: two short ones tell "kept" from "replaced", one long one needs a record.
- *calls*: two in flight; a third only adds orders between pairs, and `Footprint` and
  `DisjointWritesSurvive` are proved for any number. One of the four writes may be refused;
  the proofs allow it for all.
- *transactions*: two; the properties concern one at a time, and the invariants are
  proved for any number.
- *statements and queries* (`sqlite`): two statements and one query are the fewest that can
  overtake; the engine writes the child only (`Records`), which is the path two statements
  of different kinds meet at. The invariants are proved for any number.
- `MaxCalls` (`mongo`): two, the fewest that race; the forgotten removal needs four and was
  found with them. The invariants are proved for any number.
- `MaxWaiting` (`events`, `realtime_query`): a change that would delay more events is not taken.
  In `events` two are the fewest that overtake or that merge the same change; five subscriptions
  are one of each kind that moves the path, waits or keeps a copy. That a record put in place
  whole hides one below it needs a third record, which only the proof covers. In `realtime_query`
  two per child hold an addition and its change. The invariants of both are proved
  for any number.
- `MaxSockets`, `MaxRequests`, `MaxTries`, `MaxCallbacks` (`subscribing`): one reconnection and two
  requests, each sent twice instead of three times, are enough for every mishap of `clean`
  but two. Several callbacks per event are excluded by `MaxCallbacks` 1: with two, one
  unsubscribe takes both away. A connection replaced by one that ends first keeps its list
  for good, since `disconnect` finds no client; that takes a third connection to see.
  `clean` names both, and `InSync` is proved for any number of all four.
- `MaxEvents` and one start per worker (`cluster`): two changes have an order; two workers
  have one that forwards, one that comes late and one that dies.
- Deadlock is not checked where the system may stop: when all transactions have ended
  or all clients went away (`TransactionRoute`), and when the bounded requests,
  connections, starts and changes are used up (`Subscribing`, `Cluster`).

### Fairness

- `MDE`: weak fairness of `Progress(o)`, a disjunction, for every call: promise
  callbacks and `setTimeout(0)` run, and the backend answers each operation
  (`Reject` also answers). Clients are not fair.
- `TransactionRoute`: weak fairness of what the server does by itself and of each
  timer. Clients are not: they may never finish.
- `SqliteStorage`: weak fairness of `Execute` and `Report` of every statement: the
  thread pool runs what it was given and the event loop runs the callback. Crashes
  and refusals may happen but need not.
- `JsonFileStorage`: weak fairness of the file read, its callback, the timer, the write and
  of a new start. `SavedWhenQuiet` is about runs in which writes and crashes end.
- `MongoStorage`: statements end, the timer fires, its callback goes on, a lost connection
  comes back (the code retries every ten seconds). `Drains` is about runs in which
  refusals and disconnections end.
- `RealtimeQuery`: weak fairness of `Deliver` for each child: timers end. `Arrives` is about a child that
  is left alone in the end, however busy the others are.
- `Subscribing`: weak fairness of the timers of the client only; nothing is asked of the
  server or the network, since `Settles` is what the retries are for.
- `Events`, `Cluster`: safety only.

## 4. Proofs

TLAPS checks these for every value of the constants.

- **`MDEProofs`**. `TypeCorrect` and `FootprintHolds`. `Footprint` is an action
  property; the step that writes is `Apply`, which knows only the queue of its
  call. So the inductive invariant (`Inv`) says for every call in flight (`OnCourse`)
  that its records, its jobs, the ancestors to visit and its queued operations are
  all on the trail of its path, and that an idle slot has an empty queue (`Sound`).
  The step that needs work is `Destructure`: jobs are below the target, removed
  records are below a child of the job, the fixed parent is on the trail. It uses
  lemmas about prefixes and the assumption that paths are closed
  under parents. It holds with failing backends and any interleaving.

  `NoOrphansHold`, `ReadsDocumentHolds` and `ImplementsDocument`, the refinement, under two conditions:
  `OneCaller` (one call at a time, no refusals) and `SteadyWrites`: no write leaves a long
  string above the target of another one, a path is an object in all writes or
  an array in all, and an atom is written by itself to an entry of an array only if it is the
  first, so that `Content` is what was `Asked` for. The code does not guarantee either: without
  `OneCaller` an update loses what another one wrote (`MDE/index.ts:716`), and what
  `SteadyWrites` excludes are three divergences of section 3 (`NTree.ts:358`, `NTree.ts:124`, and
  `NTree.ts:424`, which is the run `mde_arrays`). Changes between containers,
  strings and nothing are not excluded, nor nulls, empty containers and arrays.
  TLC evaluates both conditions for the instance of `mde_single` (`ConditionsMet`).

  The invariant (`Course`) says how far a call has come (`Midway`). `Whole` is the tree of the
  call on its trail and what it read elsewhere. In it every record hangs from a
  container or from an ancestor that `verifyParents` has still to visit (`Tidy`), and is one
  that some write leaves there (`Fit`). The jobs left are on branches of their own, named
  by the data, with the mode of the request unless nothing was there (`JobsFit`). Below a
  job the tree is what was read; elsewhere from the target down it is what `Written` says
  (`Done`); above the target only missing ancestors appeared (`AboveAim`). The queued
  writes carry the backend to this tree (`Carries`: the last write to a path wins, and untouched paths agree already).
  Each step then has one lemma. `Destructure` is a graft (`Grafts`): a new record at the
  node, a set of records below it gone. `DroppedMeaning` says that `remove()` reaches
  exactly the records of the children that go, because the tree is tidy (`HeldAbove`);
  `NewInlineMeaning` what stays inline; `NodeMidway` that every path below the node is as
  promised or under a job of a child. `emit` may suppress a record only when it is
  the one that is there: here the kinds must agree. When nothing is left to do, the
  backend is the tree (`Settled`), the tree is the promised document (`Fulfilled`), and
  `Holds` of a tidy tree misses nothing (`GetAll`), so `End` is a step of `JsonDocument` and
  all others stutter. For reads, the k-th entry that `filter` leaves of an array without a gap
  is the entry k (`PackedEntry`), and a get returns what is held where that is so (`LegibleRead`). What holds at every step up a path holds along it (`Climb`): the
  shortest path reached would reach its parent.

  `DisjointWritesSurviveHolds`, for any number of calls at a time and refusals of any of them
  (`SteadyWrites`; a call that was itself refused something is promised nothing). The invariant (`Parallel`) is about each call alone. Its records, its queued
  writes and the backend are `Fit`: this no collision disturbs, and `emit` relies on it. A call that
  shares its trail with no other is `Midway` over a backend of its own (`Own`): the real one
  from its target down, and the trail it read, with what it wrote there since (`View`,
  `Unhurt`). Elsewhere the others may do as they like: what they write is off its target
  (`Aside`). So the lemmas about a caller that waits serve a caller that is
  undisturbed. At the answer the backend is the tree of the call from the target down
  (`Settled`), and that is the promise (`UnhurtDelivers`). The proof corrected the
  property: without `Intact` it is false, and TLC shows it. Two calls that collided, a
  removal of `a` and a write of `a/a`, leave a record that hangs from nothing; a later write of
  `a` that nobody disturbs takes it for a child and brings it back.

  `ApartLeaveNoOrphans` and `ApartDeliver`, for any number of callers whose targets are on
  branches of their own while they run (`Apart`; `SteadyWrites`, and no refusals, since a refused
  ancestor leaves what is below it without one):
  `NoOrphans` holds, and every call delivers, with nothing assumed of its trail. Such calls
  still share ancestors: both may create them, and both rewrite the parent they have in
  common. The invariant (`Neighbours`) has two parts. What is stored hangs from a container,
  or is at or below the target of a call that runs (`Hangs`). And each call met no other,
  found its trail intact and climbs (`Climbing`): of the ancestors it knows each is a
  container or queued behind those above it (`Leads`), and above its target it only writes
  containers, so that nobody takes an ancestor from another. So the next call finds its trail
  intact, and one that ends leaves its records to hang by themselves (`NothingLeft`). TLC
  checked the invariant for seven writes of two callers before it was proved.
- **`DatabaseProofs`**, in two parts. For `Events`: `TypeCorrect`, `MirrorFollowsHolds`,
  `WaitingStaysFresh` and `ShownStaysCurrent`, for any records, properties and subscriptions, with no
  condition on them. The path of a change is that of the record or one above it (`TopMeaning`,
  `RecordsAbove`, by `Shortest`); when it is above, everything on its trail is marked, and
  the work is the other case. There the lemmas `DataMeaning`, `TriggeredMeaning`, `ValueTriggers`,
  `MutationsMeaning`, `MergedMeaning` and `RestartedMeaning` say what the operators yield: each
  property that differs is reported once, and a delayed event takes it in. What a mutation makes
  of the documented copy is `AppliedWhole` for a record that comes or goes and
  `AppliedParts` for one whose properties change. The invariant (`Inv`) adds two things to
  the properties. An event that waits is named for the subscription to its record
  (`Named`). And what a viewer was shown is the data, or an event for him waits, or it is
  marked (`Announced`): a plain value or a removal is shown at once, while what waited before
  is then overtaken. `ShownIsCurrent` follows when nothing waits.
  For `TransactionRoute`: `RouteTypeCorrect`, `AnswersStayTrue`, `TimedOutNeverWrites`. The
  invariant (`OneDecides`) says who may decide a transaction: while it is listed the
  timer is armed and no finish request runs; a finish request that runs has
  cleared the timer and finds the promise open; only after one is anything written.
- **`SqliteProofs`**. `TypeCorrect`, `MapDrains`, `ReadsAreRegular` and `LastWriteStaysHolds`, for
  any callers and whatever statements overlap. The invariant: a statement on its way is one of the
  burst of every path it touches, and once it has run the row there is of the burst
  (`Going`); a row that is not is the one before the burst, and a statement has still to
  run there or was lost (`Rowed`); such a row is hidden by the map, or a removal is
  unanswered (`Covered`); what a read has collected, and what it will still find, is allowed
  (`Collected`). `LastWriteStays` is `Rowed` where nothing is on its way.
- **`JsonFileProofs`**, for `Patient` callers. `TypeCorrect`, `NothingIsForgotten` and
  `ImplementsDurableStore`, the refinement. The invariant (`Course`): only a ready process
  writes or saves, the file is torn while it is being saved, and what a loading
  process has read is still in the file, so that `Load` changes nothing an observer of
  `DurableStore` sees. `NothingForgotten` is part of the invariant. Each action is then a
  step of `DurableStore` or a stutter; the save is one when it starts.
- **`MongoProofs`**. `TypeCorrect`, `RetryIsAhead` and `ReadsSeeLatestHolds`. For the second:
  a refusal schedules the retry unless the callback runs, and that counts what is left
  of the last database as it ends. For the third nothing is assumed of what removals match. The
  invariant is `Good(n)` for each key `n` that never raced nor strayed: statements that concern it are alone on their keys (`Apart`); the
  map has no refused removal under a running set (`Mapped`); a set on its way is what the
  map has and, once stored, what the collection has (`SetUnderWay`); a removal on its way
  leaves nothing once stored (`RemovalUnderWay`); and what a read shows is the last write,
  but for removals (`Shown`). One lemma per action keeps `Good` for a key (`SetNodeGood`,
  `StoreGood`, `AnswerGood`, ...); a step that would break it puts the key into `raced`
  (`Unraced`).

- **`RealtimeQueryProofs`**. `TypeCorrect` and `QueryInStep`. For a child that neither the
  gap nor an overtaken event has touched: what was read is still so (`ReadLast`); a waiting
  event that no removal overtook has the current value (`Fresh`), and no other waits for
  such a query (`Undisturbed`); list and map agree (`Listed`); and the map is right, or what
  corrects it waits (`ToldLater`): any "child_changed", or any event if the child matches
  now, since an addition that does not match changes nothing.
- **`SubscribingProofs`**. `TypeCorrect`, `ListsStayAgreed` and `ServedInSync`. For the second: a callback at the database is
  named for the copy of the request whose handler made it, so the invariant follows
  copies: each is in one place at most (`Apart`) of the buffer of the client, the queues of
  the connections, the awaited checks and the lists, and none is there that was not sent
  (`Once`); requests are numbered as they are made (`Numbered`). An unsubscribe or a
  disconnection that takes entries off one list then takes none of another list from the
  database. `WithoutMeaning` says what a list without some positions holds.
  For the third: an event is wanted exactly if, of the requests the client made for it and
  no newer one undoes, one subscribes (`Wants`); what the messages of the connection will make
  of the list and the awaited checks of the server is what is wanted (`Serves`), and the
  buffer of a client without a connection ends with no subscription that is not (`Keeps`).
  A step adds to a queue or takes from one, and lemmas say what that does to how the queue
  ends (`EndsAppend`, `EndsTail`, `EndsConcat`). Copies change nothing, since a subscription
  that exists or is being checked is not made again (`Single`). A connection that is gone left nothing
  (`Gone`), and the server knows the client by the connection that is up (`Current`). The
  proof corrected the model twice: `clean` excluded giving up, which is harmless, and forgot
  the replaced connection whose successor ended first, for which `InSync` was false.
- **`ClusterProofs`**. `TypeCorrect`, `OnceAndInOrder`, `NothingIsMissed`, `PeersSettled`. For
  order: along the way of a message, from the channel up over the channel down to what
  was heard, the numbers of one originator only fall (`InOrder`), and nothing is sent
  back (`Origins`). For completeness: what a process is due has been heard or is on that
  way (`OnItsWay`), since who was greeted is on the list of the master (`Enlisted`). For the
  lists: two live processes know each other, or a hello or its answer is on its way
  (`MasterKnown`, `WorkersKnown`); who ended is forgotten, or is in `exits`, or a goodbye
  follows its last hello (`ForgottenByMaster`, `Forgotten`), unless its exit came early.

Assumptions on constants: `PathsAssumption`, `ValuesAssumption`, `MDEAssumption`, `EventsAssumption`, `TransactionAssumption`,
`SqliteAssumption`, `JsonFileAssumption`, `MongoAssumption`, `QueryAssumption`,
`SubscribingAssumption`, `ClusterAssumption`; TLC evaluates them in the
passing runs.

Checked by TLC only: everything with liveness (`Answered`, `Delisted`, `Settles`,
`TableCatchesUp`, `SavedWhenQuiet`, `Drains`, `Arrives`), since fairness and ENABLED are beyond
the prover.

## 5. Not modelled, and the plan

By lines most of the repository is not the program: about 65 000 of the 85 000 lines
counted as implementation are vendored (`redoc.standalone.js`, `mdi.js`, `js-yaml.js`) or
tables (`Mime.ts`), and a good part of the rest is the web manager's interface. The map
covers what decides order, concurrency and failure in the server and the client.

Not modelled because there is little to check: routes that forward to one call,
meta and documentation routes, MIME tables, request helpers, the schema checker,
filters and sorting of queries, `destructureData` and `prepareMergeNodes` (called by
nothing), the browser variant of IPC (all tabs have one id and drop each other's
messages), requests between processes (nothing sends one), binary values.

Realtime queries of remote clients are left out since their events do not arrive:
the handler serializes the request instead of the event (`websocket/index.ts:347`), and
`query-subscribe` is never acknowledged.

Planned, the most important first:

1. `Sessions`: accounts, tokens, the cache and sign-out in several processes
   (`server/middleware/user.ts`, `server/services/auth.ts`, `auth/index.ts`).
2. `SequelizeStorage`: the third pending map, whose failed upserts hide the table and whose
   start rewrites the root row.
3. `Events` with wildcards, whose loop overwrites the values it still needs
   (`Subscriptions.ts:569`), and with the clusters of `Cluster` in between.
4. `MDE` over `SqliteStorage`: the composition, with `Apply` replaced by the backend.
5. File storage, whose record and file are written apart.
