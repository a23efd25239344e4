# Formal model of the transaction indexer

TLA+ models, TLC runs and TLAPS proofs for the NestJS program in `src/`: a
crawler that copies the Deposit and Withdraw events of one contract from an EVM
chain into PostgreSQL, an API over that table, and wallet-based authentication.
Paths below are relative to the repository (`src/modules/...`).

## 1. Inventory

| Part | State | Operations | Interacts with |
|---|---|---|---|
| `EvmCrawlerService` | `lastProcessedBlock`, `isRunning`, `blockMap`, locals of `crawl()` | `start`, `stop`, `crawl` (`checkForReorg`, `rollbackReorg`, `fetchEvents`, `saveBlockMap`, `saveState`, `updateLastProcessedBlock`), `loadLastProcessedBlock` | chain through `callRpc`, table, cursor |
| `transactions` table | rows, unique on `transaction_hash` | insert, upsert, recount, delete | both crawlers write, the API reads |
| cursor (Redis) | `last_processed_block:<chainId>` | get, set | crawler |
| `callRpc` | provider cache | failover over `rpcUrls` | every RPC call |
| event parsing | none (a static parser table) | `parseEvents`, amounts and decimals | both crawlers |
| `EvmFallbackCrawlerService` | none | `checkAndSaveMissingTransaction` | chain, table; called by the API |
| transaction queries | none | filters, pages | table |
| `AuthService` | nonces (Redis), users, sessions, access-token invalidation keys | `getNonce`, `walletLogin`, `refresh` | wallets, PostgreSQL, Redis |
| `IpTrackerService` | counters and block keys (Redis) | `trackRequest`, `isIpBlocked` | every HTTP request |
| guards, verifiers, users, shell | - | stateless checks, single statements, wiring | - |

What is hard, and what must be right:

- **Crawler.** One asynchronous task with some ten awaited calls per batch, over
  three stores that fail independently (chain nodes, PostgreSQL, Redis) and a
  chain that rewrites its own history. No transaction may be missed, none may
  stay that the chain has abandoned, and `CONFIRMED` must mean what it says.
  The table and the cursor are never written atomically; a crash, a failing
  call or a reorganization can come between any two calls.
- **Fallback crawler.** Check-then-insert against the crawler, a multi-row save
  outside a transaction, a receipt and a block read by separate calls.
- **Fetching and parsing.** A call must find the node that answers; amounts of
  any number of decimals must come out right in a column of fixed scale.
- **Authentication.** Nonce and refresh-token rotation are read-then-write with
  awaits in between; concurrent requests of one user interleave there.
- **IP tracker.** `incr` and `expire` are separate, the counter and the block
  expire separately, and concurrent requests pass the check before the block.
- **Queries.** Pages over a table that changes, ordered by a non-unique column.

`PROJECT.json` lists every part under `components` and every hazard, at its
line, under `hazards`.

## 2. Modules

| Module | Models |
|---|---|
| `Blockchain` | the chain and the nodes in front of it: new blocks, reorganizations, answers to `getBlockNumber`, `getBlock`, `queryFilter` (external: not code of the repository) |
| `TransactionTable` | the table, the statements the crawler runs on it, and what a reader may rely on between two of them (`Changes`) |
| `EvmCrawler` | `evm-crawler.service.ts`; composes the two modules above |
| `Index` | the abstract specification: what a crawler promises its readers |
| `CrawlerRefinement` | the mapping that shows `EvmCrawler` to implement `Index` |
| `FallbackCrawler` | `evm-fallback-crawler.service.ts`: the requests of `check-missing` |
| `Indexer` | composes `EvmCrawler` and `FallbackCrawler` over one table and one chain |
| `CallRpc` | `call-rpc.ts`: one call on a list of nodes |
| `EventParsing` | `event-parsing.service.ts`, the parsers of Deposit and Withdraw, and the columns that amounts are stored in |
| `EventFetch` | composes `CallRpc` and `EventParsing`: the fetch and save of either crawler |
| `TransactionQueries` | the four listings of the transactions API, against a changing table |
| `IpTracker` | the middleware and service that count and block addresses |
| `AuthSessions` | `auth.service.ts` with the repository statements it runs: nonces, logins, refresh tokens |
| `*_proofs` | the theorems about the module they are named after |
| `MC*` | small instances for TLC |

`EvmCrawler` EXTENDS `Blockchain` and `TransactionTable`; `Indexer` EXTENDS
`EvmCrawler` and takes `FallbackCrawler` as an INSTANCE, which shares the table
(`rows`) and the chain by name. `TransactionQueries` takes from
`TransactionTable` which changes of the table it has to live with. `EventFetch`
EXTENDS `CallRpc` and `EventParsing`. `AuthSessions` and `IpTracker` share no
state with the others.

### How `EvmCrawler` corresponds to the code

The service is one asynchronous task. An action is the code from the resumption
after one `await` to the answer of the next one, so anything may happen between
two actions. `pc` names the call the task waits for:

| `pc` | waiting for | action |
|---|---|---|
| `down` | the process is not running | `Start` |
| `load`, `loadDb` | `redis.get`, then the database transaction of `loadLastProcessedBlock` | `LoadCursor`, `LoadFromDb`, `LoadFails` |
| `start`, `sleep`, `retry` | `getBlockNumber` at the beginning of a cycle: from `start()`, from the `restartDelay` timer, from the five-second timer after an error | `GetLatestBlock` |
| `check` | the next `getBlock` of `checkForReorg` | `CheckForReorg` |
| `rollback`, `rollbackCursor` | the delete and the cursor write of `rollbackReorg` | `RollbackDelete`, `RollbackCursor` |
| `fetch` | `queryFilter` | `FetchEvents` |
| `blocks` | the `getBlock`s of `saveBlockMap` | `SaveBlockMap` |
| `save` | the database transaction of `saveState` | `SaveState` |
| `cursor` | `updateLastProcessedBlock` | `UpdateCursor` |

Variables carry the names of the code (`lastProcessedBlock`, `blockMap`,
`latestBlock`, `fromBlock`, `toBlock`, `deepestReorg`); `rows` is the table,
`cursor` the Redis key, `batch` the parsed events, `probe` the block number at
which the loop of `checkForReorg` stands. `CallFails` is a rejected call: the
`catch` of `crawl()`. `Crash` loses the memory, never the table or the cursor.

Decisions a reader should know:

- A block is its height and the fork that produced it, so its hash is a fork
  number. `Reorg(h)` replaces the blocks from `h` on, keeps the length of the
  chain, and moves the transactions of the abandoned blocks anywhere in the new
  ones or out of the chain. The chain never returns to an abandoned fork.
- A call fails before it takes effect. A call that took effect and whose answer
  was lost is covered by a crash right after it. One case is kept apart: in
  `loadLastProcessedBlock` the Redis write is inside the database transaction,
  whose commit may fail after it (`LoadFails`).
- The `getBlock`s of one `Promise.all` are one node's answers at one moment.
- `EventFilter` is what `queryFilter(['Deposit', 'Withdraw'], ...)` (line 201)
  selects. `"anyOf"`: every Deposit and every Withdraw event, as its caller intends.
  `"inOrder"`: topics by position, the first one Deposit *and* the second one
  Withdraw, which no log of this ABI has. ethers is not code of the repository, but
  in version 6, which `package.json` asks for, a flat list should mean `"inOrder"`:
  **the assumption `"anyOf"` looks false**, and the call would have to read
  `[['Deposit', 'Withdraw']]`. The run `events_in_order` shows what the call then
  does: the crawler stores nothing and claims every block. All other runs set
  `"anyOf"`, so they say what the rest of the crawler is worth once that line is
  right. Every result about completeness depends on it: `NoGap`, `GapInv`, `ClaimInv`,
  `ImplementsIndex`, `CycleLeavesMatch`, `MatchInv` and `CatchesUp`, and the
  theorems that name the hypothesis in section 4. The fallback crawler does not
  use `queryFilter`.
- `block_number` is a `bigint` column, which the PostgreSQL driver returns as a
  string. Only `loadLastProcessedBlock` uses one where it matters:
  `lastIsString` marks it, and `lastProcessedBlock + 1` then appends a digit
  (`10 * n + 1`).
- After a unique violation PostgreSQL refuses every further statement of the
  transaction, so the upserts of `saveState` fail and the batch is undone
  (`"aborted"`). `ConflictOutcomes` also allows `"upserted"`, what the code is
  written for, so that results do not depend on the defect.
- Rows keep the index of the log that produced them, which is not a column, to
  tell which event of a transaction a row came from.

### The abstract index and its refinement

`Index` knows nothing of batches, cursors, caches or failures: a set of stored
transactions and a claim to have all blocks up to some height. A step adds
exactly what the newly claimed blocks hold (`Advance`), gives blocks up together
with what is stored of them, by at most `ReorgDepth` blocks and only once the
chain has reorganized (`Retreat`), or goes back to read blocks again and keeps
what is stored (`Forget`).

`CrawlerRefinement` maps the crawler to it. The stored transactions are the
`<<tx, block, hash>>` of the rows: confirmations and status are the table's own
business. The claim is `lastProcessedBlock`, except in the states between a
change of the table and the move of the cursor that follows: there it is already
`toBlock` (`pc = "cursor"`) or `deepestReorg - 1` (`pc = "rollbackCursor"`), and
it is empty while the process is down or has not loaded its cursor. A failing
call or a crash in those states is a `Forget`, which the next cycle makes up for.

`ImplementsIndex` is checked in two runs and proved twice: for chains that do not
reorganize, whatever else fails, and for chains that do, as long as
reorganizations come between cycles and nodes do not lag: see the conditions
below.

### How `FallbackCrawler` and `Indexer` correspond to the code

`request[r].at` names the call that the request waits for, in the order of
`checkAndSaveMissingTransaction`: `find` (the existence check), `receipt`,
`block`, `latest`, `save`; then the answer, by its kind. Every answer but
`exists` and `saved` has `found: false`. `save` is taken once per event, since
the code saves one entity at a time outside a transaction. `RelevantLogs`
returns nothing for a transaction sent to another contract
(`receipt.to !== contract`): `DirectTxs` are those sent to the contract itself.
A failing receipt or block read is caught and answers `null`.

A request of a process that crashes, or of a client that leaves, is one that
takes no further step; `Crash` of the crawler leaves requests alone because API
and crawler are two processes (`src/main.ts`, `src/modules/evm-crawler/main.ts`).

`EarlyRequests = FALSE` lets requests arrive only once a cursor has been
written. Without it the composition does not keep `NoGap`: a row that a request
has stored for a high block becomes, while there is no cursor, the crawler's
resume point (`loadLastProcessedBlock`), and the blocks below are never crawled.
For the same reason the run has no `LoseCursor`. A request may also store a
transaction of a block the crawler has yet to reach; the crawler's batch then
violates the unique index and, with the `"aborted"` outcome, never gets past it
(`request_ahead.cfg`, the defect of `duplicate_retry` without any failure).

### How `CallRpc`, `EventParsing` and `EventFetch` correspond to the code

`call` is one run of the loop over `rpcUrls`: `Refuses` is an error whose
message is on the list of `call-rpc.ts` and moves on to the next URL, `Fails` any
other one, which ends the call. Nodes change their condition at any time
(`NodeChanges`), also between two URLs of one call. The cache of providers has
no effect a caller could see.

`EventParsing` is a set of operators: an event is its name, its raw amount and
its decimals; `Or(a, b)` is `a || b`, which takes 0 for not given; a decimal
string is its digits with the place of the point, and `InUnits` is what the
`numeric(65, 18)` column makes of it, rounding included. `CrawlerRow` leaves
`token_decimals` at its default, because the parsed key `decimals` is no column;
`FallbackRow` sets it.

`EventFetch` runs them for one batch of either client. The crawler starts over
after any error (`GivesUp = "idle"`), the fallback crawler answers (`"failed"`).

### How `TransactionQueries` corresponds to the code

A client asks for page 1, 2, ... of one listing until the total says it has had
all. A request is two statements of `findAndCount` (`Select`, `Count`), and the
table may change between any two statements. `Pages` is the set of results that
`ORDER BY block_number` with `skip` and `take` allows: rows of one block may
come in any order, and in another one the next time. `Accepted` is the
`ValidationPipe`: `fromBlock` and `toBlock` are declared numbers, nothing turns
the text of the query into one, so a request with either is refused.

The table changes by any step that `TransactionTable!Changes` allows: a
rollback takes the rows from some block on, anything else adds and updates, and
no transaction has two rows. This is an assumption of `TransactionQueries` and a
checked property of what writes the table: `OnlyTheTopLeaves` for the crawler,
`TopLeavesFirst` for both crawlers together, both of them proved. It is about the
rows of one chain: a rollback deletes those of its own `chainId` only
(`evm-crawler.service.ts:260`). The results hold for a database of one chain, and
for listings that ask for one `chainId`; in a listing over several chains the
rows that leave are not the top, and nothing is claimed.

`seen`, `start`, `ever`, `left` and `departures` are history variables of one
walk. A row that a rollback takes away may come back and leave again:
`departures` counts that twice, since it can push rows off the next page twice.

### How `IpTracker` corresponds to the code

A request is a sequence of Redis commands, named after them: `isBlocked` (the
middleware's check), `get` (the check of `trackRequest`), `incr`, `expire`, and
`setex` at the threshold. `counter` and `timeLeft` are the key
`ip:<ip>:<endpoint>` and its expiry, `blocked` what is left of `blocked:<ip>`.
Keys of different addresses do not interact, so there is one address. An
endpoint is what `req.url` holds (`ip-tracker.middleware.ts:25`; `originalUrl` is
only logged); which requests share one does not matter to any property. `Fails` is a
failing command or a crash: the remaining commands are not sent. `streak` and
`quiet` are history variables: the requests counted without a pause of a whole
window, and the current pause.

A command that has been sent is answered before the next tick, which the model
needs only for `expire` (guard of `Tick`): Redis answers in milliseconds, and a
tick is half a minute or more.

### How `AuthSessions` corresponds to the code

An HTTP request is a `task`; `task[r].at` names the awaited call: `nonce`
(`redis.get`), `deleteNonce`, `findUser`, `createUser`, `createSession`,
`findSession` (with `bcrypt.compare`), `deactivate`, `sign` (up to `bcrypt.hash`),
`save`, `clear` (`redis.del` at the end of a refresh).

- A refresh token is a JWT over the user, the session and the second of its
  issue. The session determines the user, so a token is its session and issue
  time, and two tokens signed in one second are equal. The session row keeps
  the issue time of the token it holds the hash of.
- `sessionRepository.save(session)` updates the columns in which the object
  differs from the row, so an `isActive: true` read earlier overwrites a later
  `false`.
- No code deletes users, so the user lookup of `refresh()` always succeeds and is
  not a step of its own. No code sets the access-token invalidation key, so
  `clear` deletes nothing but may fail.
- `findByWalletAddress` selects neither role nor name: `role` is undefined
  (`NoRole`) for a known wallet, and `USER` for one that the login created.
- `SharedSessions` are sessions whose client sends any token at any time (two
  tabs, an application that retries); the clients of the others send one refresh
  at a time, with the newest token they have.
- `spent` is a history variable: the nonces a login has deleted.

## 3. Runs

| Run | Instance | Checks |
|---|---|---|
| `no_reorg` | height 4, one transaction with two logs, any 2 faults, 2 crashes, a lost cursor, both conflict outcomes | `NoGap`, `GapInv`, `ClaimInv`, `ImplementsIndex` |
| `everything` | height 3, a reorganization at any moment, a lagging node, 1 fault anywhere, 1 crash | `TypeOK`, `OvercountBounded`, `CountingInv`, `CursorWithinChain`, `OnlyTheTopLeaves` |
| `reorg_between_cycles` | height 4, 2 reorganizations while the crawler sleeps, 1 fault of a call that is not a cursor write, fairness | `MatchInv`, `CycleLeavesMatch`, `NoStalePending`, `ConfirmationsNeverDecrease`, `CatchesUp`, `OrphansLeave`, `ImplementsIndex` |
| `indexer` | height 3, two requests, one transaction with two logs, 1 failing cursor write, 1 crash, 1 failing call of a request | `RequestTypeOK`, `FoundIsIndexed`, `IndexerInv`, `NoGap`, `TopLeavesFirst` |
| `fetch` | three nodes with a listed and an unlisted error that change twice, batches of two events, both clients, fairness | `FetchTypeOK`, `AmountsScaled`, `FallbackConsistent`, `BatchStored`, `RequestAnswered` |
| `queries` | three transactions in three blocks, every kind of listing, pages of one and two rows, one change of the table | `TypeOK`, `WalkInv`, `NothingSkipped`, `SkipsBounded` |
| `access` | two requests at a time, two endpoints, 1 failure, fairness | `TrackerTypeOK`, `CounterHonest`, `OvershootBounded`, `FreshAfterBlock`, `BlockEnds` |
| `sessions` | one wallet, 2 nonces, 2 sessions (one shared), seconds 0 to 2, tokens that live 2 seconds, 1 failing call, two requests at a time | `TypeOK`, `NoFalseReplay`, `SessionsUsable`, `NonceSpentOnce` |
| `premature_confirmation` | no faults, no reorganization | finds `ConfirmedIsDeep` violated |
| `duplicate_retry` | one failing cursor write after a batch | finds `CatchesUp` violated |
| `events_in_order` | `EventFilter = "inOrder"`, no failures | finds `CatchesUp` violated |
| `session_revived` | two requests at a time, no faults | finds `DeactivationSticks` violated |

**The crawler.** As long as the chain does not reorganize and nodes are up to
date it never skips a transaction, whatever fails (`NoGap`), and it implements
the abstract index. It never over-counts confirmations by more than a batch, nor
claims blocks that do not exist, in any circumstances. When reorganizations come
only between cycles and no cursor write fails, each completed cycle leaves the
table equal to the chain, and the crawler gives up exactly what the index may.

`no_reorg`, `reorg_between_cycles` and `indexer` rest on `EventFilter = "anyOf"`
(section 2).

The conditions of `reorg_between_cycles` are needed, and they mark the limits of
the design: it says nothing of the failures it leaves out, and for each of them a
configuration of its own, listed below, has the counterexample. A row of an abandoned block stays when the
chain moves after the check has passed (`reorg_mid_batch`), when an error ends the
check (`check_fails`: the next cycle finds the newest block unchanged and looks no
further), when the cached hash of a failed cycle is reused (`stale_hash`), or when
the cached hashes are gone (`reorg_while_down`). These four allow the upsert to
succeed, so that they do not depend on the aborted one. Blocks are lost when the
rollback cannot write its cursor (`rollback_interrupted`), and the crawler stops
for good when a batch was saved but not its cursor (`duplicate_retry`) or when it
resumes from a string (`string_resume`). `ConfirmationsNeverDecrease` needs nodes
that do not lag and the `"aborted"` outcome: an upsert of a batch that was
partitioned differently may lower a count.

**The fallback crawler.** Once the crawler has a cursor, requests do not make it
skip a transaction or overcount, and what a request reported as found stays
(`indexer`). They can stop it for good: a request that stores a transaction the
crawler has yet to reach, or has in its hand, makes the crawler's batch violate the
unique index on every retry (`request_ahead`). `indexer` is about safety and does
not check `CatchesUp`.

**Fetching.** An amount is stored as the event says, to half a unit of the
column, for decimals from 1 to the 80 that `formatUnits` accepts, and no such
event is dropped (`AmountsScaled`). Decimals of 0 count as 18. A row of the
fallback crawler agrees with itself even then; a row of the crawler does not
whenever the decimals are not 18 (`decimals_lost`). A batch is stored once a
node answers behind nodes that fail only with listed errors (`BatchStored`):
behind a node that times out, the nodes after it are never asked. An amount of
more digits than the column has stops the crawler for good, and is excepted.

**Queries.** With one row to a block a walk through the pages skips nothing that
stays while no row leaves (`NothingSkipped`), and after a rollback at most as
many rows as have left (`SkipsBounded`), however often rows come and go
(`WalkInv`, and the theorems). Rows that share a block may be skipped
or repeated even in a quiet table, because the order of a page is not fixed.

**The IP tracker.** A counter never holds more than the requests since the last
pause of a window, except one for each failure between `incr` and `expire`
(`CounterHonest`). Concurrent requests and failures pass the threshold by at most their number
(`OvershootBounded`). This needs a block that outlasts a counter even when
requests that passed the check before the block extend it: with `BlockTime = 2`
TLC finds the property violated. A block ends however many requests come (`BlockEnds`), and no
counter is then left that would start the next one at once (`FreshAfterBlock`),
because a block outlasts a counter's window, as 300 seconds do 60.

**Sessions.** Concurrent logins and refreshes admit nobody with a nonce that has
been deleted, leave every client with a token that its session accepts, and never
mistake a client that waits for its answers for a replay, as long as no call
fails. When the last call of a refresh fails, the session is already rotated and
the client's retry counts as a replay: both properties are stated for
`faults = 0`. `session_revived`: a refresh that read its session before the
sessions of the user were deactivated makes it active again. Single use, as
`docs/AUTHENTICATION_MECHANISM.md` has it (lines 232 and 313), does not hold: two
logins that both read the nonce before either deletes it are both admitted
(`nonce_twice`), and two refreshes that both compare the token before either saves
its successor both get an answer (`refresh_twice`). `NonceSpentOnce` is what remains.

### Further configurations

These are kept beside the runs; TLC finds each one's property violated.

| Configuration | Module | Shows |
|---|---|---|
| `request_ahead.cfg` | `MCIndexer` | without any failure, a request stores a transaction that the crawler holds in its batch or has not reached, and every retry of the batch is undone (`CatchesUp`) |
| `rollback_interrupted.cfg` | `MCEvmCrawler` | after one failing cursor write in `rollbackReorg` the deleted blocks are never crawled again (`CatchesUp`; `src/modules/evm-crawler/README.md:194` promises to resume "from the last good block") |
| `string_resume.cfg` | `MCEvmCrawler` | the Redis key is lost, the process restarts, and the next block number is a concatenation (`CatchesUp`) |
| `reorg_mid_batch.cfg` | `MCEvmCrawler` | one reorganization between the fetch and the save of a batch: its rows stay (`OrphansLeave`; `src/modules/evm-crawler/README.md:8` promises detection) |
| `check_fails.cfg` | `MCEvmCrawler` | one failing `getBlock` of `checkForReorg` after a reorganization: the abandoned rows stay (`OrphansLeave`) |
| `stale_hash.cfg` | `MCEvmCrawler` | one failing save and a reorganization before the retry: rows are stored beside the cached hash of an abandoned block, and the next check stops at a newer block that matches (`OrphansLeave`) |
| `reorg_while_down.cfg` | `MCEvmCrawler` | one reorganization while the process restarts: the abandoned rows stay (`OrphansLeave`) |
| `decimals_lost.cfg` | `MCEventFetch` | a row of the crawler keeps `token_decimals` at 18 whatever its amount was divided by (`DividedByDecimals`; `transaction.entity.ts:32` and `:73` say otherwise) |
| `nonce_twice.cfg` | `MCAuthSessions` | two logins are admitted with one nonce (`NonceUsedOnce`; `docs/AUTHENTICATION_MECHANISM.md:232`) |
| `refresh_twice.cfg` | `MCAuthSessions` | two refreshes are answered for one token (`RefreshUsedOnce`; `docs/AUTHENTICATION_MECHANISM.md:313`) |
| `partial_save.cfg` | `MCIndexer` | `check-missing` stores a transaction with two events and answers that it was not found (`NotFoundIsMissing`) |
| `role_missing.cfg` | `MCAuthSessions` | every login but the first returns an access token without the role (`RoleInToken`) |
| `block_range_refused.cfg` | `MCTransactionQueries` | the listing by blocks that `src/modules/evm-crawler/README.md` describes is refused for every range (`RangeAnswered`) |

### Bounds

The crawler has two transactions, batches of two blocks, a reorganization window
of two blocks and two (once four) required confirmations: the smallest values
for which a batch has a first and a later event, a window has an inner and an
outer block, and a row is first PENDING, then CONFIRMED. `MaxHeight`,
`MaxForks`, `MaxFaults`, `MaxCrashes`, `MaxCursorLosses` end otherwise endless
counters; each is named in the module that uses it. Height 4 lets a cycle have
two full batches and a reorganization reach across a batch boundary; two faults
and two crashes let a second failure meet the recovery from the first. The chain
and the faults stop at their bounds, so the liveness properties say: once the
chain and the faults are quiet, the index becomes right.

- `fetch`: three URLs are a first, a middle and a last one. `Scale = 2` stands for
  18, `MaxScale = 4` for 80, `MaxStored = 10000` for 10^65: there are decimals
  below, at and above the scale, above what can be parsed, an amount that
  rounds and one that does not fit.
- `queries`: three rows are the fewest with one before, on and after a page.
  One change of the table can fall between any two statements of the walk; it
  can take away or add any number of rows. Two changes make the instance too
  large to finish: for walks that meet several there are the proofs.
- `access`: `Threshold = 3` is reached by two requests at a time with one to
  spare; `Window = 2` and `BlockTime = 7` keep the relation of 60 to 300 seconds
  that `FreshAfterBlock` and `OvershootBounded` rest on: a block outlasts a
  counter that both requests extend, `3 * Window < BlockTime`. Counters
  need no bound: they end with their expiry or at the block.
- `sessions`: the races are all between two requests; one that has ended makes
  room for the next, so sequences of any length occur. Seconds 0 to 2 and a life
  of two let a token be current, replaced, and expired. Logins are bounded by
  `MaxSessions`, so that one that has begun can always create its session.

`CHECK_DEADLOCK FALSE` stands where the system comes to rest: a walk that is
done, a batch that is stored, a clock at its bound.

### Fairness

- `EvmCrawler`: `WF_vars(Crawl)`: some action of the crawler is taken while one is
  enabled. Every path through `crawl()` ends in a timer that calls it again,
  every awaited call is answered or rejected, and `docker-compose.prod.yml`
  restarts a dead process (`restart: unless-stopped`).
- `EventFetch`: weak fairness of the client and of the call: every RPC call is
  answered or times out in the provider, and the client then goes on. Nothing
  is assumed of the nodes.
- `Indexer`: the crawler goes on as in `EvmCrawler`; nothing is assumed of requests.
- `IpTracker`: weak fairness of each request's next command and of time.

Nothing is assumed fair about the chain, the faults, the crashes, or the clients.

## 4. Proofs

All are checked by TLAPS for every value of the constants that satisfies the
named assumptions of the modules (`ChainAssumption`, `ConfirmationsAssumption`,
`CrawlerAssumption`, `TxsAssumption`, `IndexerAssumption`, `TrackerAssumption`,
`AuthAssumption`, `QueriesAssumption` with `WellFormedQueries`, `RpcAssumption`,
`ParsingAssumption`, `FetchAssumption`), so for any number of blocks,
transactions, requests, wallets, sessions, pages, nodes, events, faults and
crashes. Each has the shape `Init => Inv`, `Inv /\ [Next]_vars => Inv'`,
`Inv => property`, with one step per action. A theorem that needs more than
these assumptions states it as its hypothesis:

| Hypothesis | Theorems | Why it is needed |
|---|---|---|
| `EventFilter = "anyOf"` | `GapInvHolds`, `NothingIsSkipped`, `ClaimInvHolds`, `CrawlerImplementsIndex`, `MatchInvHolds`, `CyclesFollowTheChain`, `CrawlerFollowsIndex`, `RequestsMakeNoGap` | otherwise a batch holds no event (`events_in_order`) |
| `MaxForks = 0`, `Lag = 0` | `CrawlerImplementsIndex` | with reorganizations at any moment the code does not implement the index |
| `ReorgsAreSeen`: reorganizations only before or between cycles (not in `retry`) and no deeper than the window of cached hashes, no lag, no crash, no failing call in `checkForReorg` or in the cursor write of a rollback | `CyclesFollowTheChain`, `CrawlerFollowsIndex` | section 3 names the configurations with the counterexamples; every other call may fail, the cursor may be lost, and an insert may end either way |
| `ResumesByNumber`: the cursor is not lost, or the crawler never stops | `NoneStaysPending` | `10 * n + 1` skips the recount of what is PENDING (`string_resume.cfg`) |
| `Lag = 0`, upserts that abort | `ConfirmationsOnlyGrow` | a lagging node or an upsert lowers a count |
| `MaxCursorLosses = 0`, `EarlyRequests = FALSE` | `RequestsMakeNoGap` | a row of a request becomes the resume point |
| `FewLinger(m)`, `m * Window < BlockTime` | `OvershootIsBounded`, `BlocksEndFresh` | each lingering request gives the counter another window; an assumption on the load |
| `Cardinality(Requests) + MaxFaults <= Threshold` | `BlocksEndFresh` | otherwise requests let pass before a block fill a new counter by themselves |

**`EvmCrawler_proofs`**

- `TypeCorrect`: `Spec => []TypeOK`.
- `CountingInvHolds`, and from it `OvercountIsBounded` and
  `CursorStaysWithinChain`. `CountingInv`: a batch spans at most `BatchSize`
  blocks, none of them above the latest block the cycle saw, so an event's
  distance to the first event of its batch is below `BatchSize`; and nothing the
  crawler holds (events, rows, cached hashes, the deepest reorganization found)
  lies above the head. Neither property is inductive alone: the count of a new
  row depends on where the batch began, and the cursor is set from `toBlock` or
  `deepestReorg`.
- `GapInvHolds` and from it `NothingIsSkipped`: `Spec => []NoGap`. The core of
  `GapInv` is that between the fetch and the save the batch holds every event of
  its blocks, that a batch starts right after `lastProcessedBlock`, and that
  there is no gap below any row the crawler may resume from: one that has lost
  its cursor resumes from the highest row.
- `TopOfTheTableLeaves`: `Spec => OnlyTheTopLeaves`, which is what
  `TransactionQueries` assumes of the table. `UniqueInv`, no transaction has
  two rows, is inductive because an insert that meets a row aborts or replaces it.
- `NoneStaysPending`: after a recount, and until the next batch, no row that is
  deep enough is PENDING. `PendingInv` adds that a row's count and status agree
  and that `lastProcessedBlock` is a number wherever the recount reads it.
- `ConfirmationsOnlyGrow`: a row's confirmations never decrease while it stays.
  `DepthInv`: a row that is still counted claims no more than its depth below
  the latest block the crawler has seen, so a recount from there cannot be lower.

**`CrawlerRefinement_proofs`**

- `ClaimInvHolds` and `CrawlerImplementsIndex`: with `MaxForks = 0`, `Lag = 0` and
  `EventFilter = "anyOf"`, `Spec => ImplementsIndex`. Initial states map to initial states,
  and each action maps to an action of `Index` or a stutter: `SaveState` to
  `Advance` because the batch is exact (`GapInv`) and its rows have the block and
  hash of the chain (`ClaimInv`), `CallFails` and `Crash` to `Forget` because the
  claim never lies below the first block (`ClaimInv`).
- `CyclesFollowTheChain` and `CrawlerFollowsIndex`, for chains that do
  reorganize, under `ReorgsAreSeen`: each completed cycle leaves the table equal
  to the chain, and the crawler still implements `Index`, a rollback being a
  `Retreat` of at most `ReorgDepth` blocks. Both follow from `MatchInv`, which
  the run `reorg_between_cycles` checks too. A block is `Mismatched` if its
  cached hash is no longer the chain's. `MatchInv`: below the lowest mismatching
  block each row is the chain's and each transaction of the blocks claimed is
  stored; the mismatching blocks are the last ones cached and lie in the window
  that the next check compares, and outside the check and the rollback there are
  none. That every block of the last `ReorgDepth` is cached is what makes a
  reorganization show, and why it must not be deeper.

**`Index_proofs`** proves `IndexIsComplete`: until the chain reorganizes, the index
holds every transaction of the blocks it claims and nothing the chain does not
have. The abstract specification is therefore worth implementing. Its invariant
adds that the claim lies within the chain, without which a new block could
belong to what is already claimed.

**`Indexer_proofs`**

- `CountsStayBounded` (`IndexerSpec => []IndexerInv`) and `RequestsTypeCorrect`.
  `IndexerInv` is `CountingInv` together with `RequestInv`. The crawler's
  invariant alone is not preserved by a request that inserts a row: that needs
  the request's block and latest block to lie within the chain, and a request
  between its receipt and its insert to have a block at all. Steps of the crawler
  are covered by the lemmas of `EvmCrawler_proofs`.
- `BothTakeTheTop` (`TopLeavesFirst`): requests only add rows, each of a
  transaction that has none.
- `RequestsMakeNoGap` (`NoGap` of the composition). `TogetherInv` adds to
  `GapInv` that as long as there is no cursor no request has arrived, so every
  row a crawler resumes from is its own.
- `FoundStaysIndexed` (`FoundIsIndexed`). `FoundInv`: until the chain
  reorganizes, both crawlers store a transaction with the block it is in, which
  is the block a request carries from its receipt to its insert; so no hash ever
  mismatches, nothing is rolled back, and a row that is replaced is replaced by
  one of the same transaction.

**`IpTracker_proofs`**

- `TrackerTypeCorrect` and `CountersAreHonest`. The counter is bounded by the
  streak because the key's time left and the pause add up to no more than a
  window (`Lifetimes`), except for keys whose `expire` is still to come
  (`JustCounted`) or was lost, one per failure.
- `OvershootIsBounded` and `BlocksEndFresh`. `FewLinger(m)` says that when time
  passes, fewer than `m` requests stand between their check and their `incr`.
  With the program's 60 and 300 seconds `m` may be 4. This is an assumption on the
  load that nothing in the program guarantees: in a burst four or more requests of
  one address can be between their check and their `incr` whenever a tick falls.
  It is always true when no more than `m - 1` requests run at a time, as in the run
  `access`, and the theorems say nothing of a load that breaks it. `OvershootInv`:
  what a counter has above the threshold are failures and requests about to
  block (`Late`), or else a block is running that outlasts the counter even if
  each request that waits adds another window (`Covered`); and during a block a
  counter is either outlasted by it or was started within it by requests that
  had been let pass (`Ending`).

**`TransactionQueries_proofs`** proves `WalkTypeCorrect`, `WalkInvHolds` and from it
`FewAreSkipped` (`SkipsBounded`) and `NoneIsSkipped` (`NothingSkipped`), for every
filter, page size and number of changes. A bound on the rows skipped at the end
is not inductive: a skipped row shows only once its page has been passed.
`WalkInv` counts instead, at every moment, the rows that stay, were not got, and
have fewer rows before them than the client has passed (`Lost`). A page puts no
row there, since the rows before a row that was not got fill the pages up to it;
a row that leaves puts at most one there, because the rows of one block are
excepted and the others lie in one order (`Precedes`).

**`EventFetch_proofs`** proves `FetchTypeCorrect`, `AmountsAreScaled` and
`FallbackRowsAgree`, for all amounts, decimals, scales and lengths of a batch.
`FetchInv`: what is saved is what `parseEvents` made of the logs, all of it or
nothing. The rest is about two recursive functions, the powers of ten and the
loop of `parseEvents`. No library theorem of induction can be instantiated here,
so their definitions are shown to have a solution, and their properties to hold,
by the least number for which it were otherwise (`Climb`): `PowersMultiply`
gives the division by decimals below the scale, `Rounding` the half unit above
it, and `WhatIsParsed` the place of each event that is kept.

**`AuthSessions_proofs`** proves all four properties of the run `sessions`.

- `SessionsTypeCorrect` and `NoncesAreSpentOnce`, from `AuthInv`: a login's nonce
  was made for its wallet, the nonce in Redis is never a spent one, a request
  past its login has an existing session, and sessions together with running
  logins stay within the bound, which is what lets `CreateSession` keep it.
- `NoReplayIsSeen` and `SessionsStayUsable`, from `ClientsInv` besides. For every
  session the token it expects is with its client, or in an answer about to be
  sent, or is the first one of a login (`Backed`). For a session whose client
  sends one refresh at a time, at most one request is under way, the token it
  showed is the one the session expects, and no delivered token is newer than
  the session's (`Orderly`). Neither is inductive alone: that the newest token is
  the expected one needs both.

Only model-checked: liveness (`CatchesUp`, `OrphansLeave`, `BatchStored`,
`RequestAnswered`, `BlockEnds`). It rests on fairness, that is on `ENABLED`, which
the prover does not handle. Every invariant and every action property of a
passing run is stated by a theorem, some under a hypothesis of the table above.

## 5. Not modelled

- `stop()`, and a second `start()`: no code calls either. Two loops over one
  `blockMap` would follow, but the program cannot reach that state.
- The bootstrap (`src/modules/evm-crawler/main.ts`) exports `startEvmCrawler`
  without calling it, while `docker-compose.prod.yml` runs that file: the models
  begin where `EvmCrawlerService.start` is called.
- Signature verification, JWT and bcrypt, which are used as what they promise.
- Guards and `JwtStrategy`: stateless, except for an invalidation key that is read
  and that no code writes.
- The list and profile endpoints of users and the two lookups of one transaction:
  single reads.
- `registerParser()`, `getAllParsers()` and the session statements without callers.
- Addresses and hashes of events, which are copied; logging, API documentation,
  environment validation, error formatting; the table of networks; columns and
  indexes other than those named above.
- What a client can see of the provider cache of `callRpc`: nothing.
