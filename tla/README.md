# TLA+ models of the OriginTrail node

This directory holds a specification, model checking configurations and machine-checked
proofs for `ot-node`, the JavaScript node of the OriginTrail decentralized knowledge
graph. Paths are relative to the repository root; the node's own code is under `src/`.

## The system

A node offers an HTTP API (publish, get, query, local store, ask, finality), talks to the
other nodes of its shard over libp2p, listens to smart contract events of several
blockchains, stores knowledge assets in triple stores, and keeps its bookkeeping in a SQL
database. All work is done by *commands*: rows of a table, queued in memory, executed
concurrently inside a single JavaScript thread. Interleaving happens at every `await`; the
process may crash between any two of them, and a supervisor starts it again.

### Inventory

| Component | State it keeps | Operations | Talks to | What is hard | What makes it correct |
| --- | --- | --- | --- | --- | --- |
| Operation protocol (`commands/protocols/common`, `service/operation-service.js`) | operation, response and operation id rows, cached data, leftover list in command data, `minAckResponses` field of a shared handler | find the shard, schedule batches, request, count responses, decide | command executor, network | responses counted concurrently; decision made under a mutex, carried out after it in three awaits; BUSY retries | one decision; one batch at a time; an answer in the end |
| Get, sender side (`protocols/get/sender`, `service/get-service.js`) | the above | validate, local get, network get | triple store, protocol | a round ends by modulus and by a count that includes the node itself | completed means there is a result; failed means hopeless |
| Publish, publisher side (`protocols/publish/sender`, `commands/local-store`, `service/publish-service.js`) | `minAcksReached`, cached data set | find shard, validate, local store, network publish, the v0 route | signature service, protocol | first response is the node's own; the data set is removed when the operation ends | acknowledgements are reported |
| Command executor (`commands/command-executor.js`) | command rows, queue, permanent commands | add, execute, repeat, retry, recover, replay | every component | check-then-insert of blocking commands, crash between inserting children and marking the parent | one listener per chain; children after parents; nothing started is lost |
| Event listener (`commands/blockchain-event-listener`, `modules/blockchain-events`) | last checked block, event rows, fields of one handler | poll, fetch, store, handle, mark | repository, executor | handler fields shared by chains, failed ranges, crash after commit | every event handled, once, in order |
| Publish finalization (`read-cached-publish-data-command.js`, `store-assertion-command.js`) | pending files, triple store | read, validate, store, ask for finality | listener, finality | event before file, concurrent queries of an insertion, cleaner | acknowledged means stored |
| Finality (`protocols/finality`) | finality rows | ask the publisher to count the node | network | lost messages; NACK recorded twice | counted only when stored |
| Protocol receivers (`controllers/rpc`, `*/receiver`) | sessions, operation id row | prepare and send one answer | network | a resent request replaces a stream; errors while answering; rate limits | one answer per request; no session is left |
| Network module (`modules/network`) | sessions, limiters, key | send, receive | receivers | see above | |
| Sharding table (`sharding-table-service.js`) | peer rows | check, pull by pages, dial | blockchain | comparison by length, overlapping pages, nodes that come and go between pages | becomes the contract's; every peer is dialed |
| Paranet sync (`commands/paranet`) | rows of collections, retry counters | record, batch, get, insert | get, triple store | counter that is never increased | what can be found is synced |
| Blockchain module (`modules/blockchain`) | identity cache, wallet list | profile creation, retries, contract reads | contracts | a transaction that is mined after its timeout | the node's own identity only |
| Operation results and cleaners (`operation-id-service.js`, `commands/cleaners`, `commands/query`) | record, memory, file of an operation | store, serve, expire | all operations | three removals with three clocks beside readers and writers | completed results are there for a day |
| Collection reads (`local-get-command.js`, `ual-service.js`) | named graphs, old repositories | which graphs a get asks for | triple store | reads beside insertion and migration; v0 and v1 names | what is held is served |
| Triple store (`service/triple-store-service.js`, `modules/triple-store`) | named graphs, metadata | insert with retries and rollback, create repositories | finalization | concurrent queries, partial insertions | whole collections |
| Node startup (`ot-node.js`, `modules/base-module-manager.js`, `migration`) | configuration file, migrations, repositories, key | the stages of a start | all | concurrent initialization, a start cut off anywhere | up means whole; comes up again |
| V8 data migration (`v8-data-migration`) | token database, progress file, repositories | download, copy, verify, mark | triple stores | batches, restarts, tokens minted meanwhile | marked means copied; all are marked |
| Auto updater (`modules/auto-updater`) | directories, link, archive | check, download, link, clean up, exit | supervisor | any step may be the last; the branch moves | linked code stays; the newest version runs, unless updates are stalled |
| Ask, update, telemetry, validation, crypto, files | none or unreachable | | | | |

`PROJECT.json` lists the same components with their sources and status, and, under `hazards`,
each hard-to-test spot at its line with the properties that watch it.

## Modules

| Module | Models | State and actions |
| --- | --- | --- |
| `OperationProtocol` | what all network operations share | `status`, `idStatus`: operation row and operation id row; `cache`; `acks`, `nacks`: response rows; `stage[i]`: where the request command is (`Local`: the operation's own chain of commands); `left[i]`, `jobs[p]`: leftover lists, which are suffixes of the shard list and so numbers; `ending`: ScheduleMessages handlers that have still to write their end event |
| `GetOperation` | `GetService.processResponse` and the get commands | `Decision` is taken from the counts read under the mutex; `AfterDecision` carries it out one await at a time |
| `PublishOperation` | `PublishService.processResponse`, LocalStore, v0 route | `minAcksReached`, `after` (what follows the `updateMinAcksReached` await), `isOperationV0` |
| `OperationOutcome` | abstract promise of an operation with a result | `outcome`, `answer` |
| `CommandExecutor` | rows, queue, blocking and sequential commands, crash and replay | `status`, `parent`, `retries`, `removed`: the table; `stage`, `poller`, `toAdd`, `phase`: memory, gone in a crash; `lost`: commands dropped by a failure of `_handleError` since the last start |
| `EventListener` | a poll of one chain: fetch, store, handle in order, replace a contract, commit, mark | `ledger`, `head`: the chain; `lastChecked`, `unprocessed`, `processed`: the database; `inserted`, `newLast`: the transaction; `currentBlock`, `ahead`, `newEvents`: handler fields; `handled`, `faults`: history |
| `TripleStore` | `insertKnowledgeCollection` over `ot-triple-store.js` | `graphs`, `metadata`: contents; per insertion `exists`, `next[visibility]`, `tries`, `meta`, `attempts` |
| `PublishFinalization` (extends `TripleStore`) | the event, the pending file and its cleaner, validation, storing, the finality request | `pc[t]`, `retries`, `status` of each sequence; `file`, `acks`, `requests` |
| `NetworkSessions` | requests of a peer, from the stream to the answer | `peer`, `stream`, `written`: sender and wire; `sessions`, `stage`, `message`, `idStatus`: receiver; `recent`, `blackList`: limiters |
| `ShardingTable` | check, pull, dial | `chain`: the contract's list; `rows`, `pull`, `start`, `pulled`; `dials`, `cached`, `seen` |
| `ParanetSync` | the sync command of one paranet | `contract`, `row`, `sync`, `offset`; per collection `stage`, `state`, `answer`; `stray` |
| `BlockchainProfile` | `createProfiles` and the transactions of `web3-service.js` | `owner` of wallets, `pending` transactions, `wallets`, `queues`, `identity`, `phase` |
| `AutoUpdate` | the update command and the supervisor | `content`, `modules`: directories; `current`: link; `running`, `step`, `target`, `archive` |
| `OperationResults` | query, local store, cleaner and result route | `record`, `memory`, `file` with their times; `query`, `cleaner`, `request`, `reply` |
| `CollectionReads` | `LocalGetCommand` and `HandleGetRequestCommand` on one collection | `graphs`, `old`, `migrated`, `flag`; `get`, `range`, `found`, `outcome` |
| `NodeServices` | composition of the six before, one of which is observed in a behaviour | `service` and their variables |
| `NodeStartup` | the start of the node | `boot`, `module[m]`; `config`, `applied`, `logged`, `repositories`, `key`: what survives |
| `DataMigration`, `MCDataMigration` | the migration script; the instance that is checked | `row`, `v8`, `minted`, `progress`, `file`, and the process' place |
| `GetOperationProofs`, `PublishOperationProofs`, `CommandExecutorProofs`, `EventListenerProofs`, `PublishFinalizationProofs`, `NetworkSessionsProofs`, `DataMigrationProofs` | the proofs about the module of that name | |
| `NodeServicesProofs` | the proofs about five of the services and, in its last section, about `NodeStartup` | it extends `NodeServices` and `NodeStartup`, which share no constant and no variable |

### Abstractions

General:

* The contents of triples, signatures and messages are reduced to what the properties tell apart: found /
  not found / failed, acknowledged or not, which asset, visibility and version.
* A handler without an await that another actor can overtake is one action. Validations that can
  only pass or fail are one nondeterministic choice.
* Each SQL statement is atomic. Delays, periods and priorities only choose an order among executions the
  model allows; no command sets `deadlineAt` or `transactional`.

Operations: remote nodes are numbered by their place in the shard list; a timeout and an error
of `sendMessage` are NACKs, as `libp2p-service.js` makes them.

Executor: a *chain* is a blockchain and its blocking listener, the permanent
`EventListenerCommand` is the `poller`, a *job* is a sequence of commands started by a
controller. `Command.retry` is asked for by first commands of sequences, so `Retry`
applies to position 1. A row number of a finalized listener row is reused; nothing refers
to those rows. Every await of `add` for a blocking command is a step of its own, and so
are inserting the children of a result, marking the command and queueing the children.
An exception is one of the handler or of a database statement (`Throw`); `_handleError` is
two steps, of which each may fail as well, and what it cannot save is `lost` until the next
start. The permanent command fails with any of its adds, or when its own row cannot be
marked; it repeats a period later, and by then the statements of the other adds are assumed to be through. A
statement that fails has no effect. Where a failure ends the process (the update of
`startedAt`, `replayOldCommands`) it is a `Crash`.

Event listener:

* A log is its position in the order of the chain, with its block and a kind: an
  event of the replaceable storage contract (old or new), a change of that contract (the four
  Hub events), or a parameter change. `head` already has the
  two blocks of `currentBlock = number - 2` taken off.
* Other chains use the same handler object. `OtherListener` overwrites its block, list or new
  events; that this chain's loop would then process the other chain's events is
  not represented.
* Two reactions to a replaced contract have no effect in the code and no counterpart here: the
  rows to delete are those with the address of the Hub, so none; `invalidatedContracts` holds checksummed
  addresses while events carry them in lower case, so events of the replaced contract are handled although the
  comment at `blockchain-event-listener-command.js:151` says they are removed.
* `faults` names what went wrong: a gap too long to fetch (`gap`), a failed range (`rpc`), a
  handler that threw (`handler`), a rolled back or unmarked poll (`rollback`), `crash`, another chain on
  the same fields (`chains`), a restart that read a contract replaced in blocks still to be
  fetched (`late`). `Survivable` is what the code is meant to survive: crashes and rollbacks while
  the contracts stay. After the others the code loses logs, so the properties say nothing there.

Triple store and finalization: the graphs of one visibility are inserted in order, the two
visibilities and the metadata concurrently. A private graph belongs to the asset of the same
number; that an unmatched private subject shifts the numbers is left out. A second handling of an
event (after a crash or rollback of a poll) is a task of its own, for one node. The query for the graphs that comes before
all others may fail (`AskExistsFails`), and so may a validation, an update of a status or the row of the publisher's own
acknowledgement (`CommandThrows`): each ends the sequence with a failed operation id. That the update to FAILED fails
in turn is left out, as are exceptions of the other commands, which only end the sequence as a lost message does.

Sessions: both requests are of one peer, since sessions are kept per peer. A node is never found busy:
`RefuseMessage` asks that only of `PROTOCOL_INIT`, a type no message has.

Services: one blockchain; one paranet; the wallets are not used by a second node that is creating
its profile. The six services share no state, so a behaviour of `NodeServices` runs one of
them; `errors` bounds what goes wrong in all. An update waits for the row locks of a pull. Gets of a paranet
are not modelled: they read the repository of the paranet (`local-get-command.js:49-118`), which a node that syncs it
registers at its start (`ot-node.js:381-386`), instead of those `CollectionReads` describes. A collection whose
failure cannot be recorded ends its sync command while the others of its batch go on: those are `stray`, and may do then
what they could do before, at any time. In the updater a directory that was removed in part counts as
removed; a response that breaks off leaves the update `hung` until the node is started again; whether the process
survives the rejected promise of a link that cannot be made (`LinkDangles`) is left open.

Startup: the modules of the list in `ot-node.js` are initialized concurrently, each up to its awaits; a
failing required module ends the process whatever the others are doing. Migrations are either repeatable or
not (`Bare`: e.g. `addColumn`); what they do to the tables is left out. A key file is whole, empty or absent. The triple store has one repository
and the one of the paranet.

Data migration: the quads of a token are copied or not; a token has one of the kinds that the code treats
differently, `KindsKnown`; those that stop it are `Stuck`.

## Runs

| Run | Expect | What it asks | Bounds |
| --- | --- | --- | --- |
| `get_out_of_shard` | pass | a get from outside the shard: decisions, result, liveness, refinement of `OperationOutcome` | 5 nodes in batches of 2: two full batches and a short one; 2 acknowledgements needed, so the decision falls in any batch; other gets ask for 3 or 6, so the shared `minAckResponses` may be above the shard size; 2 BUSY retries |
| `publish` | pass | a publish of both versions inside the shard | 4 remote nodes in batches of 3: a full and a short batch; 3 signatures with the own one; others ask for 1 or 7; 5 request commands, one more than a correct publish needs |
| `executor_jobs` | pass | sequences through crashes and failures, with the commands cleaner | one sequence of 3 commands; 2 crashes and 2 failures, so that one may hit the handling of the other; 8 rows, more than any behaviour uses |
| `executor_listener` | pass | the listener of a chain and its permanent command through crashes and failures | 2 crashes, 2 failures against 2 retries (1000 in the code); 3 rows |
| `events` | pass | a chain whose storage contract may be replaced | every ledger of 3 logs in 3 blocks: an event before, at and after a change; one block per range; gaps of 3 blocks are too long; 1 fault of any kind |
| `finalization` | pass | publisher and another node, from the event to the acknowledgement | the publisher has private triples of one of 2 assets; the other node may handle the event twice; 2 attempts per graph, per insertion and per read (more in the code); 2 faults (failed queries, exceptions, crashes, removals of a file), enough to use up each of these |
| `sessions` | pass | two requests of a peer | any two of a get, a store, an ask and a finality request, also the same twice after a crash of the sender; 2 failures, refusals or crashes at either end; limits just above and below the two requests |
| `services` | pass | the six services beside the operations | a table of up to 3 nodes in pages of 2 that changes twice; 3 collections of 2 states, one unavailable, batches of 2; 3 versions (the branch moves during a download); 3 wallets of any owners, 2 tries; results that live one of three days; gets of 2 assets; 2 errors or crashes |
| `startup` | pass | the start of a new or updated node | 3 migrations, of which the last two cannot be repeated, so a revert can meet either kind; 2 connection attempts; 2 failures or crashes; both kinds of triple store |
| `migration` | pass | the migration script to its end | 2 chains with 2 listed tokens and 1 minted meanwhile, batches of 2, of different kinds per chain; 2 downloads, integrity checks and connections; 2 failures (a failing check of a good file is one) or crashes |
| `get_in_shard_never_answers` | violation | see Findings | 3 remote nodes in batches of 2 |
| `startup_events` | violation | see Findings | 2 migrations, 1 failure |

The bounds `MaxRequests`, `MaxCommands`, `MaxCrashes`, `MaxErrors`, `MaxFailures`, `MaxFaults`, `MaxChanges`,
`MaxLogs`, `MaxBlock` and `MaxClock` appear only in guards. Two faults are the least that show a fault during the
repair of another; where attempts are counted, they are as many as the attempts.
One operation is enough: operations share no state but the handlers' `minAckResponses`, which
`OtherMinAcks` stands for. Different chains share no row and no guard of the command executor, so
one is representative; the theorems cover any number. `MaxRequests` can stop a v0
publish from scheduling the batches its overlapping rounds would ask for; the properties of
`publish` that count batches are stated for the current version.

Each of `ProtocolTypeOK`, `TypeOK`, `ShardTypeOK` and their like describes the variables of its
module; those of get, publish, executor, events, finalization, sessions and migration are theorems.

Deadlock is checked in the event listener run, which never ends. The other systems do end (an answered
operation, sequences that are done and a poller that was lost, a started node, a finished migration, a service with nothing
left to do), and their runs say
`CHECK_DEADLOCK FALSE`; that they do not stop too early is what their liveness properties say.

### Fairness

Weak fairness of every step the node's thread takes by itself: the queue of the executor starts
every pushed command, and each awaited call returns, but for the updater's broken responses. Requests are always
answered, since `sendMessage` has a timeout that counts as a NACK. Which answer comes is free.
Weak fairness of `Boot`, `StartNode` and `LoadConfiguration`: the process is restarted by its supervisor; the migration script is
started again by its operator. Periodic commands (check, dial, sync, update, the
poll of the client) are permanent or repeated commands of the executor, which `ListenersKeepRunning` and
`StartedJobsEnd` show to go on.
Nothing is assumed of crashes, failures, cleaners, other chains, changes of contracts, new blocks, new versions or
removals; they are bounded, so liveness is claimed when faults cease.

### What the properties say

* **Get.** `FailedOnlyIfHopeless`: a decision is
  taken for the right reason, although it takes three awaits. `ImplementsOutcome`: the
  `(status, cache)` pair behaves like `OperationOutcome`. `Answers`: the client's poll ends.
* **Publish.** `CompletedAfterAll`, `AcksReachedNotFailed`, `AcksAreReported`, `FailedOnlyIfHopeless`: what the client is told
  about its signatures, and that it is told.
* **Executor.** `OneListenerWithinRetries`, `BlockingRowIsAlive`: the check-then-insert of a blocking
  command neither lets two run nor, unless the handling of a failure fails itself, leaves a row that keeps all others away. `ChildAfterParent`,
  `CompletedOnce`, `StartedJobsEnd`, `ListenersKeepRunning`: what replay keeps. `CompletedOnce` is
  about a single fault: an exception between inserting a child and
  marking its parent makes the parent run again and insert a second child, and a crash
  after that replays both.
* **Events.** `NothingPassedOver`: the last checked block, which moves with a field, never passes a
  log that has no row, though fetching, storing and moving are separate and rolled back
  together. `ProcessedWasHandled`, `HandledInOrder`, `EventsAreHandled`: marking all rows as
  processed, unconditionally and after the commit, loses nothing and changes no order.
  `HandledOncePerFault`: what that costs is at most one repetition for every fault.
* **Finalization.** `AckMeansStored`: what the publisher counts is a whole collection, unless a crash or a graph
  that was given up left a hole, both of which the code acknowledges. `EndsForAReason`, `StoredInTheEnd`.
* **Sessions.** `AckMeansHandled`: although the answer goes to whatever stream the session has, an
  acknowledgement means that the request was handled. `SessionsAreRemoved`, `RequestsAreAnswered`: but for
  the named cases the code leaves open.
* **Services.** `TableConverges` (when no node leaves; see the observations); `PeersAreDialed`: though the memory of the
  last dials survives a pull that resets the records, no peer is passed over for good;
  `CollectionsAreSynced` (while fewer collections than a batch are missing everywhere); `OnlyOwnIdentity`, `NodeGetsProfile`:
  through late transactions and restarts; `LinkedCodeIsKept`: cleaning up never removes the code that the link points at, and only an
  update that follows a failed one takes it away to put it there anew; `NodeIsUpdated`: in the end the newest version runs, unless updates are
  stalled (`Stalled`) or nothing can be started; `CompletedHasData`,
  `ResultIsServed`: cleaner, writer and reader interleave; `HeldIsServed`: a get returns
  all that was held when it began, while graphs are inserted or moved.
* **Startup.** `UpMeansWhole`: whatever was cut off before. `NodeComesUp`: but for a torn configuration
  file and a migration that ran, has no row and cannot run again.
* **Migration.** `ProcessedIsCopied`, `MigratedMeansAll`, `MigrationEnds`: but for two kinds of tokens and an empty database file.

## Findings

Two runs end in a counterexample that is a behaviour of the code.

1. `get_in_shard_never_answers`: `numberOfFoundNodes` counts the node itself, which a get never asks, so
   a short last batch ends no round and the operation stays pending.
2. `startup_events`: `REQUIRED_MODULES` names `blockchainEventsService`, the module is `blockchainEvents`: the node
   comes up without it after a failed initialization (a failed validation does end it, since the
   handlers are then undefined).

The models also show the following, which the properties exclude by name rather than claim.

Operations
* The end event of ScheduleMessages is written after its requests were queued, so it can overwrite the final
  status the client polls for (`protocol-schedule-messages-command.js:69`).
* A publisher outside the shard records a response of its own, a failed one (`local-store-command.js`), which counts as one of
  `numberOfFoundNodes` (`publish-service.js:75`): the publish is decided one answer early, so it may be COMPLETED, or FAILED, while a
  node is still being asked. The proofs show that inside the shard this cannot happen.
* A v0 publish, without an own response, ends a round at the first response of a batch (`publish-service.js:108`).
* `FindShardCommand` keeps the minimum in a field of a shared handler across an await (`find-shard-command.js:97`).
* `AskService` has no minimum of its own, so every ask fails in its first command (`operation-service.js:124`), with its row in progress for ever.

Executor and events
* `replayOldCommands` skips rows without a parent, so the first command of a
  sequence is lost in a crash and its operation stays pending (`command-executor.js:483`).
* A failure of `_handleError`, of its update or of the query of the add that ends it, is only logged
  (`command-executor.js:221`). The row of the command stays STARTED or REPEATING while nobody holds it: a command of a sequence leaves its
  operation pending, and the row of a listener makes every later listener of the chain be skipped, until the
  next start replays it. The permanent command can go the same way, and then no chain is polled. This takes two failures, which
  `BlockingRowIsAlive`, `ListenersKeepRunning` and `StartedJobsEnd` name.
* Once the retries are used up a listener's row is FAILED while it is recovered, another may be
  inserted, and the two unfinalized rows then drop each other (`command-executor.js:302`).
* The logs of a new storage contract are lost when the change is the last event of a
  poll (`blockchain-event-listener-command.js:184`).

Receivers
* BUSY is never sent. A store request that used up its retries gets no answer and keeps its session; so does a
  finality request. After an error the end event overwrites FAILED
  (`handle-protocol-message-command.js:93`). A resent request replaces the stream of the first, whose handler may then answer on it and close it.

Finalization and triple store
* A metadata mismatch sets FAILED, and the sequence stores and acknowledges all the same
  (`validate-assertion-metadata-command.js:22`); a finality sender ends FAILED either way; each retry of the read leaves an operation id in START.
* A second insertion that sees the first graph skips the others, so a crash during an insertion and its replay acknowledge a part
  of a collection. The rollback drops graphs named by the asset, while those inserted are named by asset and visibility
  (`triple-store-service.js:187-195`). A graph is given up silently after its last attempt (`ot-triple-store.js:301`).
  Private graphs are matched to assets by position, so a private subject without a public one shifts them
  (`triple-store-service.js:104-129`, not modelled).

Reads
* A get answered by the id of an old assertion is completed with nothing, since the fields of an array are
  read (`local-get-command.js:250`). A failed call for the range is taken for the range 1 to 1 (`local-get-command.js:191`). A get of a version 6 collection that is not migrated, by its UAL, fails with a
  TypeError; a node of the shard fails as long as the old repository is configured. Metadata is asked for under a name that holds an object, and never found. Public and private
  triples are two queries, so a get may see half of an insertion.
* A query or local store that a crash interrupts stays in its status for ever; a result may be COMPLETED without data if the
  cleaner runs between the reads of a request; an error in the local store controller ends the process.

Services
* The sharding table is compared by length only, so a node that replaced another is not found; a page that starts at a node
  that left may be padded, and the loop then goes round for ever.
* Retries of a collection are never counted (`paranet-kc-repository.js:81`), so 50 that nobody has
  keep the others waiting; later states are skipped once graphs exist; errors of `startParanetSync` are caught by nobody.
* The wallet that is "not used" stays and the first of the list is taken out (`web3-service.js:412,419`); a reverted transaction is
  not seen when the replayed call succeeds.
* A crash between removing and making the link leaves no version to start; a directory may hold a newer version than its name says.
* When an update fails after it moved the link (old versions that cannot be removed, `UPDATED` that cannot be written), the next one
  removes the directory the link points at before it moves the new one there (`ot-auto-updater.js:226`): a failure or crash in between leaves
  nothing to start. `pathExists` follows the link, so one that points at nothing is never replaced. A response that breaks off settles no promise
  (`ot-auto-updater.js:133-149,178-189`), and the node is not updated until it is started again.

Startup and migration
* A failing migration reverts the one before it with its data; one that ran without its row being written and cannot be repeated
  fails for ever, and every start then reverts one more. A crash between reverting and removing the row leaves the migration missing. A configuration file cut off while
  it was written is never repaired. The first start with an old file fails, since it was read before it was migrated.
  The process exits when the last connection attempt succeeded (`ot-triple-store.js:97`). An empty key file gives the node a new identity. Requests are accepted
  before the queue runs, and are lost by a crash.
* An integrity check that cannot be made deletes the database file with the marks of what was processed (`v8-data-migration.js:400-404`,
  `sqlite-utils.js:41-44`); the new file starts from nothing, and what is in the unified repository is inserted again.
* The database file of the migration is empty after a crash in the download, passes the check and stops every later
  start; a batch of unreadable references or one illegal private assertion is tried for ever.

## Proofs

Every safety property the passing runs check is a theorem. The theorems hold for every value of the constants
allowed by the named assumptions: batch size and minimum positive, everything else natural numbers; chains and jobs
any two disjoint sets, infinite or not; any number of crashes and failures. The start needs no assumption at all.

* **Get** (`GetOperationProofs`). The inductive invariant `OneToken` says that exactly one thing carries the
  operation on: the chain of commands, one queued ScheduleMessages command, the batch on its
  way, or one command carrying out a decision. Its heart is arithmetic: the number of
  responses is a multiple of the batch size, or all responses are in, only at the end of a batch
  (`BlockEnd`, `RoundEnd`, for batches whose start is a multiple of the batch size; `FirstCardinality` relates requests issued
  to responses counted). `AskedOnce`, `OneBatchAtATime`, `FailedOnlyIfHopeless`, `CompletedHasResult`, `DecidedOnce` and
  the refinement `ImplementsOutcome` follow. The theorems do not assume `~SelfInShard`: in the shard
  too a get is safe, it may only never answer.
* **Publish** (`PublishOperationProofs`). The same token, with two differences. The first response is that of the node
  itself, recorded before any request exists, so responses are one more than answered requests
  (`RequestsInOrder`) and the numbers of a round are shifted by one. And a command that reached the minimum first sets
  `minAcksReached`, with whatever it will do next in `after`: `Doing` looks through that await, and
  `ReachedIsCounted` says that no such command goes on to a failure, which is what `AcksReachedNotFailed` needs. The
  theorems about batches are stated for the current version by a node of the shard
  (`SelfInShard`), since the code does not keep them otherwise: see the observation below on publishers outside it.
  `PublishTypeCorrect` has no such condition.
* **Executor, sequences** (`ExecutorLineage`). `ChildAfterParent` alone is not inductive: after a crash a
  command that will run again could have a child that ran. `Lineage` adds that the children of such a command are
  untouched rows (`UntouchedTillPushed`), that a completed command never runs again
  (`CompletedIsLeft`: what is in memory on its way to an end has an unfinalized row), and that row numbers in use are never taken (`RowsInUse`, so no parent changes identity).
* **Executor, one fault** (`ExecutorOneSequence`). `CompletedOnce` is about rows that share a place in a sequence,
  which a repeated execution leaves behind. Of those at most one is ever used (`OneTouched`), after those of all places
  before it are done with (`DoneBefore`) and alone (`OneInMemory`). Only a push and a start use a new row
  (`QuietStep`). A push is harmless by `Lineage`: the parent of any rival is the pushing command itself. At a start
  rivals are equal only because their common parent has one child, which no restart can promise in general;
  it holds when the one fault was the crash before this start, since until then every command has one child (`OneChild`,
  `NoEarlyChild`). After a second fault the rival rows of the observation on `CompletedOnce` exist.
* **Executor, blocking commands** (`ExecutorOneOwner`). While errors do not exceed the retries, no listener is
  FAILED (`RetriesLeft`), one listener at most is between the check and the insertion
  (`OneAdder`), at most one row is unfinalized (`OneRow`), and while the process is up it is in memory or was
  lost by a second failure (`RowIffInMemory`). The condition is monotone, since failures only grow, so the conditional
  invariant is inductive. `ExecutorOneListener` and `ExecutorBlockingRowIsAlive` follow; without the
  condition the two rows of the second executor observation above are reached.
* **Event listener** (`EventListenerProofs`), for every ledger, range size, and any number of faults.
  `Polling` (block numbers of a poll, rows of checked blocks only) holds without other
  chains. `Following` is the invariant behind `NothingPassedOver`: it needs to know that the
  address in memory is that of the Hub as of the block the poll has come to (`AddressOK`), so that a change
  in the range is still in the list while the old address is used (`ListOK`), and that the rows
  cover what is due up to there (`RowsOK`). `Settled` says that outside the rest of the
  list every row was handled: with `Following` it gives `ProcessedWasHandled` and
  `HandledInOrder`. `Once` separates the logs that can still be handled, handled no more often than there
  were faults, from the others.

* **Finalization** (`PublishFinalizationProofs`), for any nodes, rounds of the event, assets and attempts. The heart is
  `GraphsOfOne`: in a node that neither crashed nor gave a graph up, exactly the insertion that found no graphs writes
  them, and what it has passed is there. The rollback cannot break it, because it drops graphs of other names than those inserted
  (`DropMissesGraphs`); two tasks of a node mean that the event was handled twice (`SecondTask`), the one case in which a
  second insertion is acknowledged while the first still writes. `CountedIsStored` carries this to the publisher.
* **Sessions** (`NetworkSessionsProofs`), for any requests, with the same operation ids or not. An answer may be written
  to the stream of another request of the same id, so the invariant behind `AckMeansHandled` is about ids: a session holds a request of its own id
  (`SessionsByOperation`), and wherever an acknowledgement is on its way, its id was prepared (`AcksAreHandled`).
  `SessionsAreRemoved` is inductive as it stands, with the types.
* **Services** (`NodeServicesProofs`). A service that is not observed does not move (`OneService`), so each argument
  concerns one: while the updater removes old directories the link is the target, and while it removes the destination
  the link is not, unless something failed before (`LinkInv`); that no wallet has an identity is seen once, and stays true of the identities of others while
  late transactions make the node's own (`CreationInv`); the file of a result is there before its record is completed, and the
  cleaner finds nothing old in its first day (`DataInv`); what a get has read of a visibility includes the graphs that
  were there when it began (`ReadInv`).
* **Startup** (last section of `NodeServicesProofs`). `ModulesInv`: what a module has left when it is ready.
  `MigrationsInv`: the table of migrations and the schema differ only between a migration and its row, so a start that finds all rows
  finds the schema, but for the migrations recorded in `unlogged`. `ServicesInv`: what was initialized in order stays.
* **Migration** (`DataMigrationProofs`), for any chains and tokens. `BatchIsSound` says what the process knows of the tokens it
  holds in memory, `RowsAreSound` that the table of a chain has all tokens up to a highest one, which is the one after
  which newer tokens are looked for (`HighestInTable`), `ChainsAreSound` that the chains
  before the current one are done; a process that may still replace the file (`NewFile`) is at none of them. `RowsOnlyGrow`, an action
  property, says that copies are never taken back, and marks only with their file.

Stated only as theorems: the types, the inductive invariants, `GetAskedOnce`, `GetOneBatchAtATime`,
`GetCompletedHasResult`, `GetDecidedOnce`, `PublishAskedOnce`, `PublishDecidedOnce`, `ExecutorCompletedStays` and `RowsOnlyGrowCorrect`; the runs
check what a client or an operator sees of them.

Only model-checked: liveness (`Answers`, `AcksAreReported`, `StartedJobsEnd`, `ListenersKeepRunning`,
`EventsAreHandled`, `StoredInTheEnd`, `RequestsAreAnswered`, `MigrationEnds`, `NodeComesUp`, `TableConverges`, `PeersAreDialed`,
`CollectionsAreSynced`, `NodeIsUpdated`, `NodeGetsProfile`, `ResultIsServed`), which is outside the reach of the prover,
and the types of `NodeServices` and `NodeStartup`.

## Not modelled

* The update operation: no route starts it. The sender of an ask: it cannot pass its first command.
* Telemetry: nothing writes the rows it would send. The transaction queues by waiting length: nothing calls
  `queueTransaction`.
* `AssetUpdated`, an event that is not monitored; archives of old rows, written and never read.
* Validation of requests, authentication, UAL and crypto helpers, SPARQL text, contract encodings:
  stateless, or pure I/O. Routing tables and connections are libp2p's.
* Scripts, one-off migrations of single tables, and the HTTP answers' layout.

## Plan

What may be added next, most important first:

1. What a publish still guarantees outside the shard and on the v0 route, as theorems: one decision, signatures reported only
   when they are there.
2. An abstract specification of the triple store (a collection is there as a whole or not) that `PublishFinalization` implements
   in a node without faults, and one of a publish beside `OperationOutcome`.
3. The types of `NodeServices` and `NodeStartup`; `LastLogged` and `FirstPending` need the least element of a set of numbers.
4. Action properties of the listener (the last checked block only grows without a rollback) and of the sharding table.
