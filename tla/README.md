# Formal models of the Orchesty Node.js SDK

This directory keeps TLA+ models of `@orchesty/nodejs-sdk` beside its code. The
SDK is the *worker* side of Orchesty: an Express server whose routes run
user-written nodes (connectors, batches, custom nodes) on messages the *bridge*
posts, plus the services those nodes use.

## 1. Inventory

| Component | State it keeps | Operations | Talks to | What is hard |
|---|---|---|---|---|
| **Node request handling** (`Connector/`, `Batch/`, `CustomNode/` routers, `Middleware/ErrorHandler.ts`, `Utils/Router.ts`) | two process-wide pools of reusable DTO objects; per request: the acquired object, `close` listeners | post action, acquire, run node, send, release on close, error path with a second DTO | user node, NodeRepository, bridge | handlers interleave at every `await`; two exits of every handler; client may disconnect at any time; reuse of objects across requests |
| **DTO protocol** (`Utils/AProcessDto.ts`, `ProcessDto.ts`, `BatchProcessDto.ts`, `Headers.ts`, `ResultCode.ts`) | header map, data, batch messages | status setters/removers, repeater, limiter, forced followers, cursor, audit entities | bridge (reads the headers) | header groups that must stay consistent over any sequence of calls |
| **Tunnel** (`Tunnel/TunnelClient.ts`) | stream, gRPC client, reconnect timer and attempt, `stopping`, local server | start, connect, frame, error/end, reconnect, stop/signal | tunnel proxy, own Express app | stop racing start, stale events of an old stream, replies to frames of a lost stream, back-off |
| **Cache with lock** (`Cache/CacheService.ts`, `Storage/Redis/Redis.ts`) | Redis key and lock key with expiry | entry, entryWithLock, deleteCache | Redis, external API | lock expiry, retry limit, release by a non-owner, several processes |
| **HTTP client** (`Transport/Curl/*`) | none | send, classification of status codes | external API, metrics | range table boundaries, precedence, time-outs, a metric that fails after a call that succeeded |
| **Topology runner** (`Topology/TopologyRunner.ts`) | none | run by name / id / webhook | HTTP client, starting point, error handler | every failure becomes a repeat, also one that arrives after the start |
| **Document repository** (`Storage/Database/*`, `Application/Database/*`) | per-repository TTL cache, entity objects | find, insert, update, remove, encrypt/decrypt around send | worker-api, Crypt | cache filled by a reader racing a writer; whole-document updates; send failing between encrypt and decrypt |
| **Application manager** (`Application/Manager/ApplicationManager.ts`, `Application/Base/AApplication.ts`) | none (documents) | install, uninstall, enable, save settings/password, authorize, token | repository, OAuth2 | read-modify-write of one document by concurrent requests; check-then-insert |
| **Webhook manager** (`Application/Manager/WebhookManager.ts`, `Base/AWebhookApplication.ts`, `WebhookRouter.ts`) | webhook documents + external subscriptions | subscribe, unsubscribe, list | external API, repository | two stores without a transaction; partial failure inside `Promise.all`; concurrent unsubscribe |
| **OAuth2** (`Authorization/*`) | token in the settings document | authorize, code exchange, refresh | provider, repository, Crypt | rotating refresh tokens in several processes; an answer that brings no refresh token |
| **Data storage** (`Storage/File/FileSystem.ts`, `Storage/DataStore/*`) | one JSON file per id, in-process lock list | load, store, remove; read/write/delete with retries | file system | read-modify-write without a lock over both steps; retry loop whose limit is thrown inside its own `try` |
| **Service container** (`DIContainer/`, `Commons/CommonLoader.ts`, `index.ts`) | name -> service | set*, get*, list | all | duplicate names; order of registration |
| **Crypt** (`Crypt/*`) | per process: own salt, the keys derived last | encrypt, decrypt, transfer | repository | the keys of one text are in use when the next one of another process is opened |
| **Metrics** (`Metrics/Metrics.ts`) | none | send | worker-api | awaited inside a call, must not fail it |
| **Logger, Config** | none that control flow depends on | log | stdout | - |
| **Mongo repository** (`Storage/Mongo/*`) | none | find, insert, update, upsert, remove | MongoDB | - (each operation is one call of the driver) |
| **Forms, custom actions, HTTP helpers** | plain data | getters and setters | - | - |
| **Testers** (`test/Testers/*`) | a message under way | run a node, repeat it | nodes | stands in for the bridge |


Code under `Transport/`, `Storage/`, ... is in `src/lib/`. Third-party packages
(Express, axios, grpc-js, async-mutex, Redis, the file system), the bridge, the
worker-api and the tunnel proxy are environment: they appear as actions that may
happen or fail whenever the code lets them.

What makes the parts correct:

* **Node request handling**: an object is used by one request at a time, comes back
  exactly once and clean, but where the body of a request is `null`; a request is answered once, with its own texts.
* **Tunnel**: at most one connection; a lost one is always reopened, a stopped one
  never; late events of old streams change nothing.
* **Cache with lock**: one caller asks the service; every call ends.
* **HTTP client**: the tables sort every status into one list (`keepAll`: every one below 999); the default
  table decides as its comment says, but for 429; each call is reported once.
* **Data storage**: the file is always a whole document list; one writer at a time; calls end.
* **Document repository, application manager, OAuth2**: an update keeps what earlier ones
  wrote although it sends the whole document, possibly one from the cache; what is not
  there is looked up again; a change nobody sent is seen by nobody; one install per user.
* **Webhook manager**: provider and worker-api agree about every webhook unless a job about it
  stopped half-way or a flag says so; no document goes while its webhook is still called; a call that
  succeeds has left undone only what the worker-api refused to write, which it does not look at.
* **DTO protocol**: an answer has a code and the headers that code needs, whatever the node
  called, took back or was refused; items of a batch keep their audits and limits apart.
* **Topology runner**: a start that was answered 200 is never repeated; any other is repeated, also one
  answered 201 to 299, until it is answered 200, its hops are used up, or its repeat settings fail.
* **Crypt**: what one process encrypted every process can decrypt, whatever they did before.
* **OAuth2**: the install keeps a refresh token that the provider accepts.

## 2. Modules and plan

| Module | Models | State |
|---|---|---|
| `RequestPool` | the three node routes, the error handler, both pools | done |
| `DtoLease` | abstract: exclusive lease of items | done |
| `RequestPoolLease` | `RequestPool` implements `DtoLease` (refinement mapping) | done |
| `TunnelClient` | the tunnel client | done |
| `ResultCodeRange`, `CurlSender` | range tables, one call of the HTTP client and the metric about it | done |
| `DocumentOps` | what load, store and remove make of a list of documents | done |
| `FileStore` | `DataStorageManager` over `FileSystem` | done |
| `SnapshotStore` | abstract: a list of documents that every call reads whole and replaces whole | done |
| `FileStoreSnapshot` | `FileStore` implements `SnapshotStore` (refinement mapping) | done |
| `CacheLock` | `CacheService.entryWithLock` over Redis | done |
| `InstallDocument` | one installed application: its settings, their encryption, what each operation changes | done |
| `ApplicationManager` | concurrent calls of the manager on it, through the repository and its cache | done |
| `WebhookManager` | subscriptions at the provider against stored documents, and partial failure inside `Promise.all` | done |
| `ServiceCallProofs` | theorems about `CacheLock`, `CurlSender` and `TopologyRunner` | done |
| other `*Proofs` | theorems about `RequestPool`, `TunnelClient`, `FileStore`, `ApplicationManager`, `WebhookManager`, `DtoHeaders`, `TokenRefresh` | done |
| `DtoHeaders` | header groups of status, repeater, cursor, followers, limits, audits and batch items over any sequence of calls, and the answer made of them | done |
| `TopologyRunner` | `CurlSender` composed with its callers (`TopologyRunner`, `CacheService.entry`, a node), the error handler and the redeliveries of the bridge | done |
| `Crypt` | the encryption object of a process as a pure component | done |
| `TokenRefresh` | `Crypt`, the provider and the worker-api composed: the OAuth2 token of one install in several processes | done |

The order follows what goes wrong most expensively: mixing the data of two requests
first, then losing the connection, then losing stored data. The theorems follow the same
order; every invariant and every action property the runs check is one. Still worth
stating: an abstract specification of the repository that `ApplicationManager` implements
while its calls do not overlap, which `SerialUpdatesSurvive` says of its steps.

## 3. How the models correspond to the code

Node.js runs one callback at a time. Where a component lives in one process an action
is what runs between two `await`s, and components interleave there; a variable `pc`
says at which `await` a call waits. `PROJECT.json` maps every definition to its lines.
Texts are abstracted to what the properties distinguish: whose data it is, which
error class, which list of a table. Definitions named in a comment as *Mutant* are
wrong variants of the definition after them; no specification uses them. They are
kept to show that the properties notice such a bug.

### 3.1 `RequestPool`

`obj[d]` is the object `d` with its `free` flag and the requests whose text is in its
`data`, `headers`, `currentApp` and batch messages. `held[r]` and `errHeld[r]` are the
local variables of a route and of the error handler, `onClose[r]` the objects whose
release is registered on the response, `closed[r]` is `res.closed`.

* `Post`, `Acquire`, `NodeWrites`, `NodeReturns`, `NodeReturnsAnother`, `NodeFails`: the route.
  The connector, batch and custom node routes differ only in the pool and are one module.
* `ErrAcquire`, `ErrLookup`, `ErrLookupFails`: the error handler, which always takes a
  `ProcessDto`; `Abandon` is its `catch`.
* `AcquireNull`, `ErrAcquireNull`: the same two for the body `null`. It parses, so an object is taken and
  marked, and the first access to a field of it throws inside `createProcessDto`: the caller's `catch`
  never had the object. Route and error handler lose one each; `lost[r]` is the history of them. A body
  that is no JSON does not get that far: `bodyParser` parses it for the log and throws.
* `Close`: the response was delivered, or the client went away at any moment.

Left out: the early return of the error handler for `headersSent`, which none of these
paths reaches, and the wording of messages. A node is assumed to leave its object alone
once `processAction` has settled, and to return its own object or a new one, never that
of another request. The pools' mutexes guard callbacks without `await`, so taking an
object is one step; which free object the scan meets first is left open, which only adds
behaviours.

### 3.2 `TunnelClient`

`live[s]` is the state of the call behind a stream, `pending[s]` and `wire[s]` are events
and frames still to be delivered, so an old stream can speak after the client has moved
on. `Connect`, `ScheduleReconnect`, `Stop` are the functions of the same names; the other
actions are their callers and listeners. `StopCalled` is allowed before and during
`start()`. What `close()` does to a server that is still binding is Node's business and
left out. `reconnectAttempt` saturates where the delay has reached its maximum, which the
assumption about `MaxAttempt` says. `Power` is `2 ** n` as a recursive function: the prover knows
nothing of `^` but its type.

### 3.3 `ResultCodeRange`, `CurlSender`, `TopologyRunner`

The tables are written item by item as in the source, `Matches` is `inRange` on the forms
the shipped tables use (a code, `<n`, `>=n`, `from-to`; `>` and `<=` occur in none), and
`Outcome` is the order of `handleByResultCode`. A status is any positive number: an HTTP parser
takes any three digits, and 999, which some servers send, is where `keepAll` (`<999`) ends; the
fallback of `handleByResultCode` then repeats the call. `CurlSender` is one call, which either gets a
status (`Answered`), times out or breaks. The metric about it is awaited (`MetricsSettle`) before
the status is looked at (`Decide`). A callback that words an exception may fail, with an error that
is no timeout of axios, and the call is reported a second time.

`TopologyRunner` extends it by the message that made the node call, from delivery to the end.
`via` tells who calls: a node that catches nothing, `TopologyRunner.run`, or `CacheService.entry`.
`Call` is a step of `CurlSender`; `Settle` is what the caller makes of the result; `Answer`, `Repeat`
and `RepeatFails` are the error handler, which looks the node's repeater settings up first;
`Redeliver` and `UsedUp` are the bridge, after `test/Testers/TopologyTester.ts`. Whether the service
acted is seen by nobody: one that answers 2xx did, one that answers 5xx or not at all may have, any
other answer is taken for a refusal. This is an assumption about the service. `acted`, `doubt` (the service
acted and no 2xx reached the caller) and `spurned` (one did, and `run`, which knows only 200, made a repeat
of it) are history.

### 3.4 `FileStore`

One id; `file` and `tmp` are the data file and the temporary one: absent, whole or torn
(`writeFile` truncates first). `locked` is `lockedFiles`. Each of the calls interleaves at
every `await`, may find any file system call failing, and `Restart` loses the lock list
and every call but no file. What a call makes of the list it has read is in `DocumentOps`. `skip` and `limit` are left out: they slice a result. Each
caller runs one operation; several callers make the sequences.

`SnapshotStore` has neither files nor tries: a call reads the list at one moment (`Read`), and
what it made of it takes the list's place at one later moment (`Replace`, `Clear`) or never
(`Fail`). In between another call may have replaced it: the storage promises no transaction. In
the mapping of `FileStoreSnapshot` the rename is `Replace`, the successful unlink or the discovery
that there is no file is `Clear`, a given-up or failed write is `Fail`, a restart is `Fail` of all
calls at work, and everything else stutters. A torn file maps to a list no call can write.

### 3.5 `CacheLock`

Callers may be in different processes: they share only Redis, whose commands are atomic and
whose answers may get lost (`Fails` with an effect). Time is left out: a key may expire at
any moment, so every relation between the 30 s of the lock, the 2 s between tries and the
duration of the call is covered. `lock` names who set the key and `robbed` records a loss;
the code knows neither.

### 3.6 `InstallDocument`, `ApplicationManager`

One application, user and sdk. `stored` is what the worker-api has; `cache` is the
repository's `NodeCache` for the two filters in use (any install; enabled ones only, which
`installApplication` and nodes use); `entity[c]` is the `ApplicationInstall` object of call `c`,
which it owns alone because the cache copies what goes in and out. Of the settings four
fields are told apart: one that a form defines, a password, the OAuth token (no form
defines it, and saving forms keeps it) and the address the browser returns to (no form
defines it, and saving forms removes it).

* `Begin`, `Find`, `Receive`, `FindFails`: `findMany`, up to, during and after its request.
* `NotFound`, `RefuseInstall`, `Insert`, `Show`, `Change`, `Uninstall`: the operations of the
  manager; `AskProvider` and `ProviderFails` are the code exchange and the refresh.
* `Handle` or `Refuse` is the worker-api's side of a write, `Finish` and `SendFails` its answer
  and its loss. `Refuse` ends in `Finish`: `insertMany` does not look at the status.
* `SendAgain`: a node that catches a failing update still has the object, encrypted.

All calls run in one worker process and share one repository; a request whose caller no
longer waits is handled at once or never. An operation's change runs in one step, as there is
no `await` between it and the write but those of hooks that forms may define. What the
worker-api answers when several installs match is left open.
`missed`, `sent`, `overlapped` and `expected` are history: `expected` says what the calls so far
amount to, and `Unknown` where a failure or overlap leaves it open.

### 3.7 `WebhookManager`

A webhook is named by the call and the event that made it, as each has a token of its own.
`registered` is the provider, `stored` and `flagged` are the documents and those of them with
`unsubscribeFailed`. `step[c][h]` is the job of call `c` about webhook `h`:

* `Begin`, `LoadFails`, `NotAuthorized`, `Look`, `Find`, `Receive`, `Subscribe` lead a call to its jobs;
  the list may come from the repository's cache.
* `Register`, `Unregister`, `Deny`: the provider. What a response means is the application's code;
  it is assumed to call a webhook unsubscribed only if the provider no longer has it.
* `Insert`, `Remove`, `Update`, `Refuse`: the worker-api, which stores a document under its id
  even if it was removed. `Finish` and `JobFails` are the answer and its absence. A refusal reaches
  `Finish` too, as the repository ignores the status of writes: such a job ends `"unnoticed"`, its call
  succeeds all the same, and its webhook is left registered without a document, or stored without a flag.

Topology and node are given together or not at all (`Targets`). A job between the provider's
answer and the handling of its write is one state, as nothing in it can be told apart. Webhooks of
earlier calls exist at first (`Earlier`). Left out are the parameters of a subscription.

### 3.8 `DtoHeaders`

The headers of one DTO from the request to the answer; the life of the object itself is `RequestPool`.
`dto` is the header map with one field per header of interest (0, `{}` and `Absent` for a missing
one), `incoming` what the request brought, `items` the messages of a batch. A call a node makes is
the action of the same name; a refused one changes nothing and the node may go on. `PushItem` is
what `addItem`, `addItemWithAudit`, `addMessage` and `setItemList` share.

* A limiter header is a set of entries, each a key and a rate. Where a text has two entries of one
  key, the order in it decides which one counts; `parseLimitKey` leaves that open. `setLimiter`
  decorates its keys with `|`, the limit of an item is taken as it is. `addItem` replaces the entry of
  the first key of that limit only: `LimitIsOwn` is about that key, and the key of a group may come twice.
* An audit header maps an entity to where its fields come from: the message (0) or the item added
  by the n-th call. The key of an entity is left out.
* `NodeReturns`, `NodeRepeats`, `NodeStops`, `NodeFails` are the answers of the route and of the error
  handler, which starts again from the request. `ChildAudit` and `ChildLimiter` are what the bridge
  makes of an item, after the comment of `addItemWithAudit`.

A request is assumed to bring no result code: the bridge consumes it, as `test/Testers/TopologyTester.ts`
does between two nodes. It may bring what earlier repeats, iterations and forced routes left. A
node is assumed to use the named calls for these headers, not `setHeaders`, and numbers that are
numbers: `NaN` passes the checks of `setRepeater`.

### 3.9 `Crypt`, `TokenRefresh`

`Crypt` is `WindWalkerCrypt` without the cryptography. A key is named by the salt it is derived from,
since the secret is shared; a text is the salt it names, the key that signed it, and its data.
`hmacKey` is the signing key an object keeps between calls. Salts may coincide, which real ones do not.

`TokenRefresh` reduces an installed application to its refresh token and adds what
`ApplicationManager` leaves out: the provider, the other processes, and what encryption does to a
document on its way. A token is named by the call it was issued to. `stored` is the text the
worker-api has, `crypt[p]` and `cache[p]` belong to process `p`, `settings[c]` and `text[c]` to the
document of call `c`, of which one is in use.

* `Begin`, `Find`, `Receive`, `FindFails`: the call loads the document, from the cache or not, and opens it.
* `NoRefreshToken`, `AskProvider`, `Refresh`, `RefuseRefresh`, `Exchange`, `ProviderFails`: a node
  refreshes the token it found; a finished authorization brings a code. Which providers rotate
  refresh tokens is theirs to say (`rotates`). A code buys a token beside earlier ones.
* `Change`, `Handle`, `Refuse`, `Finish`, `SendFails`, `SendAgain`, `GiveUp`: the write, as in 3.6. The
  object opens its settings again before the cache is dropped.
* `Expire`, `Restart`: a cache entry ends; a process loses its calls, its cache and its salt.

At first the install has a valid token or none. A provider that takes a token back unasked, scopes
and the expiry of access tokens are left out.

## 4. What is checked

| Run | Bounds | What it shows |
|---|---|---|
| `pool` | 2 requests, 1 object in each pool, 3 spare | `OneHolder`, `OnlyNullLeaks`, `ResponseIsolation`, `AnsweredOnce`, refinement `LeaseSpec`, liveness `ObjectsReturn`, `PostedIsAnswered` |
| `pool_checkpoint` | as `pool` | violated: a checkpoint is missing from Express' own error answer |
| `tunnel` | 3 streams, 2 frames, 3 attempts | `NoOrphanStream`, `StopIsFinal`, `DownIsPlanned`, `DownIsQuiet`, `BackOffHolds`, liveness `Reconnects`, `FramesSettle`, `StopCompletes` |
| `starts` | all statuses 100..599, 998 and 999, all shipped tables and none, 1 hop of an exception, up to 2 of a node | `TablesPartition`, `DecidesAsDocumented`, `StatusIsReported`, `NoSecondStart`, `StartIsAccountedFor`, `EntryIsOneShot`, liveness `Settles` |
| `files` | 2 callers, 2 applications, 2 users, 2 retries | refinement `StoreSpec`, `LockIsWriter`, `RemovedIsGone`, liveness `WritesEnd` |
| `files_read` | 2 callers, 1 retry | violated: `read` never gives up |
| `cache` | 3 callers, 3 tries | `WorksAlone`, `ReleaseIsHarmless`, liveness `CallsEnd` |
| `installs` | 3 calls of any kind, with failures | `SerialUpdatesSurvive`, `MissIsFresh`, `UnsentIsUnseen` |
| `installs_documented` | 2 calls, nothing fails | violated: a second install of one application |
| `webhooks` | 2 calls after an earlier one, 2 events, 1 target | `StoresAgree`, `OnlyRefusedUndone`, `RemovedIsUnregistered` |
| `headers` | 3 calls, 1 follower, 1 cursor, 2 entities, 2 limits | `AnswerIsActionable`, `ItemsStandAlone` |
| `tokens` | 2 calls in one process, 1 in another, 2 salts, 1 failure or restart | `TextsOpen`, `TokenSurvives`, `RefusedIsRace` |

The type invariants, `FreeIsClean` of the pool and `FileIsWhole` of the storage, which `StoreSpec`
contains, are not run: section 5 proves them for every value of the constants.

Why the bounds are enough. Pool: a hazard needs two requests that meet at one object; with
one object per pool the second request always finds the pool both empty and not. Two requests
take at most four objects, the lost ones included, each in its route and in its error handler; with three
spares every such request finds one. Tunnel: one
current stream and two old ones with undelivered events is the worst a client with one
timer can build up before a name is free again. Files: the lock admits one writer, so whoever
meets another meets one; two retries put tries on both sides of the limit and between. The back-off
is 5, 10 and, capped, 12: it starts, grows and reaches its maximum. Cache:
one caller that works, one that gives up and one that takes over. Installs: one call that fills
the cache, one that writes behind it, and one that meets what both left. Webhooks: two calls of either kind about
webhooks of a third, each with up to two jobs of its own kind or four of the other. Headers: one call that sets a group, one that
replaces its code and one that takes a group back; two items and a call between them. Starts: two
redeliveries follow a delivery that failed and one that succeeded; the 10 hops of the code add more of
the same. Tokens: two calls race in one process and one beside them has a cache and keys of its
own; a loss is one failure, and two salts are a text of one's own and one of another. The theorems below
remove these bounds for the safety properties.

Runs check safety and liveness of a component together, under the fairness below and
therefore without symmetry; `installs`, `webhooks`, `headers` and `tokens` check safety only, `tokens`
with symmetric salts, which are only compared. `CHECK_DEADLOCK FALSE` is set everywhere because every
model stops when all its calls are over.

### Fairness

* Pool: the event loop runs ready callbacks, `processAction` and the node lookup settle, a
  response that was handed over closes. Nobody has to post or to leave.
* Tunnel: Node delivers pending events, the timer fires, the local server answers and closes.
  The proxy and the network owe nothing.
* Starts: the timer of axios fires, the metric settles (its sender has a timeout), the lookup of the
  repeater settings ends, the bridge keeps its messages. The service need never answer.
* Files and cache: every `await` of a running call settles. No call must begin; no Redis key must expire.

A node that never settles, or a request to the local server that never ends, is excluded:
the code has no timeout there, and its requests hang.

## 5. What is proved

TLAPS checks, for any number of requests, objects, streams, frames, callers, calls and tries, any
intervals, statuses and hops:

| Theorem | States |
|---|---|
| `RequestPoolProofs!TypeCorrect`, `NothingShared`, `OnlyNullForgotten`, `FreedClean`, `Isolation`, `ListenersRun` | the invariants of run `pool`, that what is handed out is clean, and that no release waits for a close in the past |
| `RequestPoolProofs!SilentAtWork`, `OneAnswer` | `AnsweredOnce`: no handler answers before its last step, and none after another |
| `RequestPoolProofs!Refinement` | `Spec => LeaseSpec` |
| `TunnelClientProofs!OneConnection`, `StopsForGood`, `ReconnectIsPlanned`, `QuietWhileDown`, `BackOff`, `TypeCorrect` | the safety properties of run `tunnel` |
| `FileStoreProofs!TypeCorrect`, `WholeFiles`, `OneWriter`, `RemovalsTakeEffect` | the safety properties of run `files`, and `FileIsWhole` |
| `FileStoreProofs!Refinement` | `Spec => StoreSpec` |
| `ServiceCallProofs!TypeCorrect`, `MutualExclusion`, `HarmlessRelease` | the safety properties of run `cache` |
| `ServiceCallProofs!ListsPartition`, `DocumentedButOne`, `StatusReported`, `SuccessIsNotRepeated`, `StartsEnd`, `EntryAsksOnce` | the safety properties of run `starts` |
| `ApplicationManagerProofs!TypeCorrect`, `UpdatesSurvive`, `MissesAreFresh`, `UnsentStaysUnseen` | the invariants of run `installs` |
| `WebhookManagerProofs!TypeCorrect`, `Agreement`, `SuccessButForRefused`, `SafeRemoval` | the properties of run `webhooks` |
| `DtoHeadersProofs!TypeCorrect`, `Actable`, `ItemsApart` | the invariants of run `headers` |
| `TokenRefreshProofs!TypeCorrect`, `TextsAlwaysOpen`, `TokensSurvive`, `RefusalsAreRaces` | the invariants of run `tokens`, for any number of processes, salts and failures too |

Assumptions are the named `ASSUME`s of the modules: the null values are outside the sets
they stand beside, the initial pools are disjoint, numbers are natural, statuses positive.

* **Pool.** `OneHolder` alone is not inductive: a step that takes a free object needs to know
  that nobody is responsible for it. That is `Accounted`, the first part of `OnlyNullLeaks`, which in
  turn needs `FreeIsClean` for the contents, where each of `held`, `errHeld` and `onClose` may be set (by
  `pc`), and that a request's objects contain its own texts only. Of lost objects it needs that they are
  nobody's and empty (`LostApart`, `LostEmpty`) and how many a request has lost at each place
  (`LostCount`). Together with the types they are `IInv`. The refinement maps the owner of an object to the one request whose `Held`
  contains it; `Acquire` and `ErrAcquire` become `Grant`, `Close`, `Abandon` and releases on a
  closed response become `Return`, an error handler that takes and frees in
  one step stutters, all else stutters. `AnsweredOnce` needs `Silent`: a request at work has no
  response yet, so the step that sends one, of whichever handler, is the first.
* **Tunnel.** `NoOrphanStream` needs that the events of a stream only follow the end of its
  call: then a delivered event of the current stream cannot leave a live call behind. `BackOffHolds`
  needs `WaitInv`: unless the attempts start anew, the delay of the timer is the one of the last attempt;
  and that `Delay` is monotonic and starts with the interval (`DelayFacts`). That the recursive `Power` is
  defined at all (`PowerDef`) takes induction, which the prover does over sets: a set of numbers with 0 and
  every successor is all of them (`NatSet`), because the order of the numbers is well-founded.
* **Files.** A torn temporary file exists all the time; what keeps it from being renamed is that
  the one caller the lock admits has finished filling it. `LockIsWriter` and the auxiliary `RenamesOwnData`
  carry `FileIsWhole`. `OpInv` ties a call's place to its operation and says of a removal under way that
  its own list is already free of what it removes; with `RenamesOwnData` this is `RemovedIsGone`. The
  refinement needs both: the step that renames must install the list of that call, and a call on
  the way of `delete` must be one that removes everything.
* **Cache.** `Owns`: until the first robbery whoever works has set the key. Removal by
  another preserves it because it sets `robbed`.
* **Calls.** Each shipped table is first turned into arithmetic (`DefaultLists`, `ContinueOnNotFoundLists`,
  `OtherLists`). `CallInv` says what one call has led to at each place; the three properties of
  `CurlSender` follow. `NoSecondStart` needs `SureInv`: as long as nothing is in doubt
  or spurned, a service that acted did so once, and its success is still on the way to the node, or the
  message is where no repeat starts. It rests on every table returning a 2xx (`SuccessIsReturned`), on a
  metric that cannot fail the call, and on `EntryInv` and `ErrorInv`, which say what each way throws.
  `StartIsAccountedFor` adds `StartInv`: an answer of 2xx has acted, and a message that is given up has no hop left.
* **Installs.** `Serial`: while calls do not overlap, every copy of the document - stored,
  cached, or in the hands of the one running call - fits what is expected at the step it has
  reached. A write that ends with an answer empties the cache; one that ends without leaves the
  old copy there, but also leaves open what to expect. `ChangedFits` and `BlurredFits` carry this
  through the operations. `Misses` and `Sources` follow an empty answer and a written value from
  the worker-api to the caller.
* **Webhooks.** `Workers` and `Lists`: nobody but the call that makes a webhook works on it before
  its document was written, because lists only name documents. Hence, once it is unregistered,
  nobody registers it again (`Granted`), and its removal is safe however old the list was. `Subscribed` and
  `Unsubscribed` say what a job whose write was handled has left, at any later moment; with `Settled`
  (a call that succeeds has no job left to do) they are `OnlyRefusedUndone`.
* **Headers.** `Sound` says at every moment, and not only of an answer, that a code has its headers and that
  the message's own audit holds no item's fields; items are sound from the moment they are added.
  `SetKeeps`, `PushKeeps` and `AnswerKeeps` reduce every action to the headers it makes.
* **Tokens.** `Signed`: every text there is, stored or in the hands of a call, was signed with the key of
  the salt it names; as opening a text derives the key anew, it opens everywhere. `TokenSurvives`
  needs `Private` (a new token is nowhere but in the document of the call it was issued to until that
  call sent it), `Held` (whoever holds a token proves that some token is valid, and its own one if the
  provider does not rotate) and `Progress` (what a call has at each step). `RefusedIsRace` needs
  `Serial`: until something raced, one call runs at a time and works on what is stored. The actions are sorted by what they do to these parts: `Closing` drops a call's
  document, `Moving` changes where a call is, `Received` and `Encrypted` give it settings or a text.

Only model-checked: liveness under fairness (`ObjectsReturn`, `PostedIsAnswered`, `Reconnects`,
`FramesSettle`, `StopCompletes`, `Settles`, `WritesEnd`, `CallsEnd`), which is out of the prover's reach.

`ServiceCallProofs` holds the theorems of two models that share nothing but what they are about, calls
of external services and the cache in front of them; its two halves can be read apart.

## 6. Where the code and its documents disagree

* `pool_checkpoint`: `Commons/ANode.ts:39-41` promises the audit checkpoint on success and error
  answers alike; when the error handler itself fails, Express answers without it.
* `files_read`: `FileSystem.read` means to give up after its tries, but throws the error inside its
  own `try` and retries for ever. `delete` has the same shape.
* `installs_documented`: a test says an application cannot be installed twice, but the check finds
  enabled installs only, and a new one is not enabled. Overlapping installs are not needed for it.

No violated run is spent on these; passing runs state them as the code has them.

* Tests of the pool say that a malformed body takes no object (`Utils/__tests__/RouterPool.ts:56`) and that
  the error handler returns its object when it fails itself (`:138`). The body `null` takes two and returns
  neither, which `OnlyNullLeaks` states.
* The comment of `CurlSender.send` gives a default table under which 429 stops, while the table repeats it.
  `documentedRanges` is the commented one; `DecidesAsDocumented` names 429 as the one status where they differ.
* A topology whose start is answered 201 to 299 is started again, which `NoSecondStart` excepts by name.
* An `OnRepeat` of the HTTP client inside `CacheService.entry` becomes a plain error and stops the message,
  which `EntryIsOneShot` states.

## 7. What is not modelled

* Service container, forms, custom actions, configuration, logging: data without control, or filled
  once before the server listens.
* Cryptography itself, and the parsing and wording of texts.
* The times and tags of metrics; that a metric is sent and settles is part of `CurlSender`.
* Finders of the repository that differ in their filter only, and the Mongo repository, each of whose
  operations hands one call to the driver and which nothing else in the SDK uses.
* The testers, but for the way `TopologyTester` repeats a message.

What the models leave out of a component they do model is said in section 3.
