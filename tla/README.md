# Formal model of context-harness-mcp

TLA+ modules, TLC configurations and TLAPS proofs about the server in this
repository: an MCP server that keeps a shared knowledge graph in Postgres, lets
AI assistants write to it through tools, and lets users in by tokens that can be
revoked. Paths below are relative to the root of the repository.

## 1. The system

| Component | State | Operations | Works with | What makes it hard | What makes it correct |
|---|---|---|---|---|---|
| **Knowledge graph tables** (`internal/store`, `migrations/`) | nodes, observations, relations, sessions; `deleted_at`; the connection pool | `Create`, `Insert`, `InsertRelation`, `FindByName`, the soft deletes, sessions | every tool, khctl | READ COMMITTED: each statement has its own snapshot; inserts wait for keys in flight, updates for rows | unique keys, references, relations inside one project |
| **MCP write tools** (`internal/mcp/nodes.go`, `relations.go`, `conflicts.go`, `sessions.go`) | the handler's local variables, one transaction each | `create_nodes`, `add_observations`, `update_observations`, `create_relations`, `mark_superseded`, `session_start`, `session_end` | Content Filter, rate limiter, embedder, tables | batches, deadlocks, failures half-way, lost commit acknowledgements, re-sent requests | all or nothing; the counters of an answer; every request is answered |
| **Revocation** (`internal/auth`, `internal/web/webhook.go`, `internal/khctl/sync.go`, `revoke.go`) | the provider's records, `users.revoked_at`, the cache, webhook calls, the job's snapshots | the middleware's check, webhook, `sync-users`, revoke, reinstate, login | the identity provider, the operator, browsers | five writers without a common lock; lost, late and reordered webhooks; stale snapshots; failed queries; restarts | how old an answer may be; when a revocation bites; convergence |
| **Content Filter** (`internal/validate`) | none, but redacts its argument in place | syntactic, secrets, taxonomy layers | write tools | order of layers, aliasing of the redacted slice | nothing refused or unredacted is stored |
| **Rate limiting** (`internal/ratelimit`) | a bucket per client, the stdio bucket | `Allow`, the janitor | write tools | concurrent reserve and cancel, eviction of a bucket in use | the burst and the rate; refusals cost nothing |
| **Login and web session** (`internal/web`, `internal/auth/oidc`, `internal/auth/jwt.go`, `internal/store/users.go`) | the cookies `ch_oidc`, `ch_session`, `ch_csrf` in the browsers; the `users` row; the provider object of the process | login, callback, exchange, dashboard, generate token, logout | the identity provider, `users`, browsers with several tabs | the server remembers nothing: what comes back is late, twice, or from another browser; codes are redeemed before the transaction; cookies are written before the commit | a session belongs to the login its browser began and to a row; old pages are refused; nobody is locked out |
| **Import, export and seed** (`internal/khctl`) | a file; one transaction of many inserts | `export`, `import`, `seed`, `seed --reset` | the tables of a running server, other operators | an export is many statements; an import meets keys that are taken, dead or in flight; names without projects | all or nothing; a round trip keeps the graph; deleted rows stay deleted |
| **MCP read tools** (`internal/mcp/query.go`, `conflicts.go`, `sessions.go`, `suggest.go`) | local variables; a cache of centroids | `read_graph`, `open_nodes`, `search_nodes`, `timeline`, `stats`, `find_conflicts`, `session_summary`, `suggest_node_type` | tables, embedder | answers put together from several snapshots; offset paging; rows cut off by limits | what an answer shows was there; what was there all along is shown; nothing dangles |
| **Viewer** (`internal/viewer`) | none | search API, filters, page | tables, the web session | as the read tools | as the read tools |
| **Backup and restore** (`cmd/khctl/backup.go`) | files | runs `pg_dump`, `pg_restore` | tables | | |
| **Flow events, doctor, embedding, observability, landing pages, start-up** | none of interest | | | | |

## 2. Modules

| Module | What it is |
|---|---|
| `GraphRows` | the rows of the four tables, their keys and references, the assumptions on the seed |
| `GraphStore` | the statements of `internal/store` as transactions run them |
| `GraphTools` | the write tools: composes the handlers with `GraphStore`; invariants, action properties, liveness |
| `GraphPromise` | what the write tools promise, without clients, transactions or statements; an abstract specification that `GraphTools` refines |
| `MCGraphTools` | small instances of `GraphTools` for TLC |
| `GraphToolsProofs` | proofs about `GraphTools`: types, keys, references, projects |
| `GraphPromiseProofs` | proofs that `GraphTools` implements `GraphPromise` and counts what it did |
| `Revocation` | the provider's records, the table, the cache and everyone who writes them |
| `MCRevocation` | symmetry for TLC |
| `RevocationProofs` | proofs about `Revocation` |
| `RateLimiter` | the token buckets of the write tools, calls that overlap, the janitor |
| `MCRateLimiter` | symmetry for TLC |
| `RateLimiterProofs` | proofs about `RateLimiter` |
| `WebLogin` | logging in with a browser: OIDC and the legacy exchange, the row, the cookies, the dashboard |
| `MCWebLogin` | symmetry for TLC |
| `WebLoginProofs` | proofs about `WebLogin` |
| `GraphReads` | the read tools and the viewer's search over `GraphRows`, writers committing in between, and the cache of `suggest_node_type` |
| `MCGraphReads` | a small graph, queries and writes for TLC |
| `GraphReadsProofs` | proofs about `GraphReads` |
| `GraphTransfer` | export, import and seed over `GraphRows` on databases the tools write to |
| `MCGraphTransfer` | two small databases, files and commands for TLC |
| `GraphTransferProofs` | proofs about `GraphTransfer` |

An operator named `X_Something` with the comment "Mutated form of X" is `X` with
a bug planted in it. Nothing uses it; putting it in the place of `X` makes the
property named in `PROJECT.json` fail, which shows that the property looks at
what it says it looks at.

### GraphStore and GraphTools: how they correspond to the code

* `rows` is the committed contents of all tables and `dead` the committed rows
  whose `deleted_at` (for a session, `ended_at`) is set. Rows are immutable but
  for that column, so two sets are enough. No row is ever removed, so a
  node's `(project, name)` stands for its id.
* `ins[c]` and `del[c]` are what the open transaction of handler `c` has
  inserted and stamped. `Visible(c)` is what its next statement sees: the
  committed rows *at that moment* (READ COMMITTED) and its own.
* `InsertRow` is `INSERT ... ON CONFLICT DO NOTHING`: a key that is taken, by a
  live or a dead row, is a conflict; a key another transaction has inserted and
  not committed is waited for. `StampRow` is the `UPDATE ... SET deleted_at`
  that waits for a row lock and re-reads the row.
* A handler is a program counter `pc[c]` and its locals `task[c]`; there is one
  action per SQL statement, and the tool's own code between two statements is
  part of the action before. `Receive` is everything up to the first use of a
  connection, the Content Filter included, except that `create_nodes` with a
  session looks the session up on the pool first (`CheckSession`).
* `FreeConn` is the pool: a handler inside its transaction holds a connection;
  `CheckSession` and `CountSessionNodes` borrow one for a statement.
* `Abort` is every return that does not commit: the deferred `Rollback`. `Fail`
  takes it at any moment (a failed statement or embedding, a cancelled
  request), `DeadlockVictim` when transactions wait for each other in a cycle.
  `CommitUnacknowledged` commits and reports an error.
* Data is abstract. A text is a model value; `Scrub` maps it to what the filter
  and the 256-word cut leave, `Refused` holds the texts for which the filter
  refuses the call. Embeddings, attribution and timestamps are left out.
* `AdminDelete...` are the soft deletes of `internal/store` that are not
  exposed as tools ("admin-script API"), one step each. For a relation that
  stands for three statements, two `FindByName` and the `UPDATE`
  (`internal/store/relations.go:54`); which relation is stamped depends on nodes
  that are never removed, so other commits between them lead to no other graph.

`GraphPromise` has the same `rows` and `dead` and nothing else. Its actions are
whole requests: what may be new, what must be there, what may be stamped.
`Implements` says that every step of `GraphTools` is one of them or leaves the
committed graph alone, hence atomicity of batches, with names resolved to
nodes of one project and nothing stamped that the request did not name.

### Revocation: how it corresponds to the code

* `idp[u]` is the provider's record, `revoked[u]` is `users.revoked_at IS NOT
  NULL`, `cache[u]` an entry of `RevocationCache` with its age in ticks.
* A request is `req[w]`: `Request` is `cache.Get` (an expired entry is deleted),
  `GetRevoked` the query, `SetEntry` is `cache.Set` and the answer. Between any
  two of them anything may happen. `GetRevokedFails` is a failed query, which
  `revocationStoreAdapter` turns into "not revoked".
* A webhook call is sent with the record as it stands (`ProviderChange`), may be
  lost (`LoseHook`), and is handled in two steps, the write (`HandleHook`,
  `HandleHookFails`) and the deferred `Invalidate`. Calls are a set: they come in
  any order and overlap.
* `sync-users` is `SyncFetch` (the provider's list), `SyncLoad` (the table), and
  one write per user on what the two snapshots say. The list is read page by
  page: `SyncFetchShifts` is the page shift that makes an active user missing. A ban counts while its
  `banned_until` lies ahead at the time of the write (`lapsed`, `BanLapses`).
* `Operate` is `khctl revoke` and `reinstate`, another process that cannot reach
  the cache. A login is accepted by the provider (`LoginAccepted`) and later
  committed or not (`MintToken`); the upsert clears `revoked_at`.
* `Tick` is the clock. `MaxQueryTicks` is an assumption: that many ticks at most
  pass between the table's answer and `cache.Set`. Requests carry no timeout
  for it in the code, so the bounds of the properties depend on it.
* `since` and `announced` are history: how long ago the table last said `b` about
  a user, and how a webhook call saw a revocation through. No action reads them.

### RateLimiter: how it corresponds to the code

* `bucket[k]` is the `rate.Limiter` of a key and the `lastUsed` of its entry. Its
  level is kept as of now: `Tick` refills all buckets, where the library
  computes the refill when it is next asked. Levels and times are in ticks, a
  token being worth `Cost` of them, so that waits shorter than a token occur.
* An entry that was evicted and one that was never made answer like a new one,
  which is full; so `EvictIdle` puts a new bucket in the place of an idle one.
* A call is `Lookup` (`getOrCreate`) or, on stdio, `Lock` (the mutex); `Reserve`;
  then `Allow`, or `Refuse` and `Cancel`. Each of the library's methods takes the
  limiter's own lock and is a step; between two of them anything may happen,
  time included. `wait` is the reservation's `timeToAct` and `ahead` the
  limiter's `lastEvent`, from which `CancelAt` computes what to give back.
* `MaxCallTicks` is an assumption: that many ticks at most pass from
  `getOrCreate` to `Reserve` and from there to the return. `LimiterBounds` asks that
  `idleThreshold` be longer than three of those and the time a bucket takes to
  fill; in the code it is 300 seconds against 10.
* `spent` is history: a counter that each allowed write raises by `Cost` and each
  tick lowers by one, not below zero. It is the excess of what was allowed over
  the time that passed, at its largest over all periods that end now. So a
  bound on it is a bound for every period.

### WebLogin: how it corresponds to the code

* `jar[b]` holds the three cookies of a browser. They are signed, so the browser
  has what it was given or nothing; `Expire` is their age. `tabs[b]` are the CSRF
  tokens of pages that are open in it.
* `flows` are the OIDC logins so far. A login is named by its number, which
  stands for state, nonce and PKCE verifier (`GenerateState`: random, hence its
  own). `code` is what the provider did with it: asked, issued, redeemed.
* `Login` is `GET /auth/login`: it runs the discovery (`NewProvider`, the
  `sync.Once`), and overwrites the cookie of a login in another tab.
  `Authenticate` and `Denied` are the provider sending the browser back.
  `Callback(b, f)` opens the URL of login `f` in any browser `b`, at any time and
  again; a URL that is not the cookie's deletes the cookie.
* A callback that passed goes on in steps of its own, the entry in `calls`:
  `ExchangeCode` redeems the code, then `Mint` commits row and session at once
  (`mintTokenTx`). Between the two the browser goes on. `ExchangeFails`,
  `MintFails`, `CommitFails` (the answer is an error, the cookie is in it) and
  `AnswerLost` are the ways it can end otherwise.
* `Exchange` is the legacy login; it has no state cookie (`via` is 0). A browser
  may have several under way; `MaxExchanges` bounds how many there are at once.
* `UpsertUserByProvider` and `Clash`: the upsert updates on
  `(auth_provider, external_subject)` only; another row that has the primary key
  or the address makes the statement fail. `DeriveUserID` keeps a subject that
  is a UUID, whatever the provider.
* `Restart` forgets calls and discovery, and with `MayMigrate` it may come up
  with the `OIDC_*` variables set. Addresses change at the provider
  (`ChangeMail`). `retired`, `unsure` and `via` are history.

### GraphReads: how it corresponds to the code

* `came` and `went` are the tables, each row with the time of its commit and of
  its `deleted_at`; a write is one committed transaction, any of `Change`. `created`
  is the `created_at` of a node, which is the time its transaction *began*.
* A request is a program counter and locals; there is one action per SELECT, on
  the pool and without a transaction. Requests meet in the cache of
  `suggest_node_type` and nowhere else. `mix` says who asks what in a behaviour:
  for TLC either one client asks anything else, or two ask for suggestions
  (`Mix`); the proofs hold for any number of clients and any mix.
* `Listed` is the end of the first statement, `SelectObservations` and
  `SelectRelations` the other two; the viewer's relations need one endpoint in
  the answer, the tools' both. `Timeline` is the list a page is cut from and
  `Place` a node's position in it, the number of nodes `ORDER BY created_at DESC,
  id DESC` puts before it. `PageOf` is `LIMIT n + 1 OFFSET k` with the clamps,
  and `NextPage` the client that comes back for the next page.
* `Distance` and `Likeness` stand for the vectors, `Lowest` for
  `ORDER BY ... LIMIT` with ties either way.
* `cache` is `centroidCache`, an entry per scope. `CacheGet`, `CentroidsByType` and
  `CachePut` are the three steps of `suggest_node_type` that touch it or the
  tables; its lock covers `get` and `put` alone, so between them anything may
  happen. Instead of centroids the model keeps the observations they are means
  of; the scores that come of them are left out, and an answer that turns into
  an error after `put` leaves the same state. `Restart` empties the cache.

### GraphTransfer: how it corresponds to the code

* `rows[d]`, `dead[d]`: a database; `job[o]`: a khctl process, its loop (`at`,
  `left`), what its transaction has inserted (`ins`) or truncated (`wiped`).
* `FetchExportNodes`, `FetchNodeObservations` (one statement per node) and
  `FetchExportRelations` see what is committed by then. The listing of the
  nodes is assumed to be read to its end before a `TRUNCATE` gets its lock;
  `stale` says that the ids read are no longer those of any row.
* `Truncate` waits for every transaction that holds a lock; one that has issued no
  statement yet, or is over, holds none (`Waiting`). An export has no
  transaction: its locks last for a statement.
* Import and seed are one transaction: `InsertNode`, `InsertObservations`,
  `InsertRelation` skip keys that are taken, wait for keys in flight
  (`Unclaimed`), and resolve names as the code does (`Resolve`: an import within
  the item's project, a seed in any). The SELECTs that resolve names and the
  `INSERT` behind them are one step; what others commit in between leads to no
  other final graph. `Commit` makes all of it visible, `Fail` none of it.
* `ParseImportPayload` is `decodeNodes` and the defaults: `entities` for `nodes`,
  'global' for no project, deleted items skipped. `HandWrite` puts such a file
  in the place of an exported one.
* `seen`, `steady` and `content` are history: what was there at some moment, and
  at every moment, of an export, and what an undisturbed one should carry.

## 3. Runs

| Run | Instance and bounds | Checks |
|---|---|---|
| `graph_safety` (`GraphSafety.cfg`) | 2 handlers, 3 requests out of 11, 3 kinds of operator delete, 2 projects with a homonym, 2 connections | `TypeOK`, `UniqueKeys`, `ForeignKeys`, `RelationsStayInProject`, `WorkInv`, `AnswersAreExact`, `Implements` |
| `graph_progress` (`GraphProgress.cfg`) | 3 handlers, 3 requests that contend for keys and rows in both orders, 2 connections, fairness | `EveryRequestReturns` |
| `update_back` (`UpdateBack.cfg`) | 1 handler, 2 requests | refutes `UpdateTakesEffect` |
| `revocation_safety` (`RevocationSafety.cfg`) | 1 user, 2 requests, TTL 2, 2 edits, 1 fault | `TypeOK`, `RefusalsAreRecent`, `AcceptancesAreRecent`, `RefusedOnceAnnounced` |
| `revocation_converges` (`RevocationConverges.cfg`) | 1 user, 1 request, TTL 1, 2 edits, 1 fault, fairness | `TableFollowsProvider`, `CacheFollowsTable` |
| `webhook_race` (`WebhookRace.cfg`) | as `revocation_safety`, no faults | refutes `NextRequestIsRefused` |
| `rate_safety` (`RateSafety.cfg`) | 3 callers, 1 client and stdio, bursts of 2, 2 ticks a token, calls of up to 1 tick before and after `Reserve`, debts of up to 3 tokens | `TypeOK`, `RateBound`, `StdioOwesNothing` |
| `login_safety` (`LoginSafety.cfg`) | 2 browsers, 2 accounts, one with a UUID, 3 addresses, 2 OIDC logins, 2 exchanges at once, 2 CSRF tokens, 2 changes or restarts, 1 fault | `TypeOK`, `IdsNameUsers`, `SessionsComeFromOwnLogins`, `OldPagesAreRefused`, `NobodyIsLockedOut` |
| `login_migrated` (`LoginMigrated.cfg`) | the same with 1 change or restart, and a restart may move to OIDC | refutes `NobodyIsLockedOut` |
| `reads_safety` (`ReadsSafety.cfg`) | 2 readers, 11 queries, 6 writes, 2 projects with a homonym, limits of 1 and 2, cache entries of 1 tick, requests of up to 2 ticks, 5 ticks | `TypeOK`, `AnswersAreOfTheirTime`, `AnswersHangTogether`, `AnswersOmitNothing`, `PagesMissNothing`, `ClosestConflictIsReported`, `SuggestionsAreRecent` |
| `transfer_safety` (`TransferSafety.cfg`) | 2 databases, one of them empty, 2 operators, 2 commands out of 6, 1 write out of 5, 2 hand-written files | `TypeOK`, `ExportsAreOfTheirTime`, `TransferInv`, `TransfersLandWhole`, `NothingComesBack`, `RoundTripKeepsGraph`, `ResetLeavesTheFixtures` |
| `import_relations` (`ImportRelations.cfg`) | 1 operator, export and import, no writes | refutes `RelationsStayInProject` |

**Why the bounds are enough.** Two handlers show every race between two
statements; the third request lets one of them run twice while the other is
half-way, or a re-sent request follow a lost acknowledgement. The requests are
chosen so that each pair collides: the two `create_nodes` insert the same nodes
in opposite orders, the update and the archive stamp the same row, relations
meet a homonym that exists in two projects, texts are redacted into one another,
one request is refused with and one without a session. Three handlers on two
connections make one wait for the pool while the others deadlock. For revocation
users do not interact (the cache and the table are per user; the snapshots of
the sync are read per user), so one user is representative; two requests let one
fill the cache while another uses it; two edits allow a ban and its end, a ban
and a login, or a revocation and a reinstatement, in either order. Every counter
that would grow without end is capped: `MaxRequests`, `MaxEdits`, `MaxFaults`,
ages by `TTL + 1`, `since` by `Horizon`. Symmetry of handlers and requests is
used only in runs without liveness properties. For the rate limiter, clients do
not share buckets, so one is representative; the third caller comes between two
others that are both half-way, `IdleTicks` is the least `LimiterBounds` admits, and
`MaxDebt` cuts off debts that would grow without end. The bound of `RateBound` is
reached in the run: one tick less is violated.

For logins two browsers are the one and the other; two OIDC logins are two
tabs of one browser or one in each; two exchanges at once are two tabs or two
users; two CSRF tokens are one before and one after a logout. Two of the three
addresses are taken and there may be two changes, so that one account can give
up its address and the other take it over: the second meets the row of the first
until the first has logged in again, which is the case `NobodyIsLockedOut` admits
(`Clash` is true in the run, and false for whoever is up to date).
Browsers and addresses are symmetric; accounts are not, one has a UUID.

For reads, five ticks give room for two writes inside a request of several
statements or between two pages, and for a third between them; the limits are
small enough for each clamp, cut and tie to matter on three or four nodes. Two
calls of `suggest_node_type` are enough for one to store what it read before the
other read and stored: an older result over a newer. The bound of
`SuggestionsAreRecent` is reached in the run: one tick less is violated. Readers
are symmetric.

For transfers, two commands are a round trip, or two operators at once;
one write goes between any two of their statements. Databases interact through
the file alone.

The graph, login, reads and transfer runs set `CHECK_DEADLOCK FALSE`: with
`MaxRequests`, `MaxFlows`, `MaxTime` or `MaxJobs` used up the model has nothing left
to do. The other runs check for deadlock.

**Fairness.** `GraphTools`: weak fairness of each handler's own steps. A handler
is a goroutine that keeps running; Postgres grants a lock when it is free and
kills a deadlocked transaction; the pool serves those who wait. Receiving a
request, failing, a lost acknowledgement and operators are not fair.
`Revocation`: the clock ticks, a check that has its answer gets to `cache.Set`,
and `sync-users` is run by its schedule again and again and reaches each user.
Webhooks, their delivery, clients, operators, logins and the janitor need never
act, so convergence rests on the sync and the TTL alone; faults are finite in
number, as they must be for anything to converge.

### What the refuted properties say

* `UpdateTakesEffect`: `update_observations` A→B and then B→A reports success
  twice. The second insert of A meets the soft-deleted row of A, whose key is
  not freed, `ON CONFLICT DO NOTHING` inserts nothing, the handler ignores
  `inserted` (`internal/mcp/nodes.go:714`), and the node has neither text.
  The tool's description (`nodes.go:71`) says new_text is inserted. The same
  happens when a redaction makes the new text equal to the old one
  (`nodes.go:641` compares them before it).
* `NextRequestIsRefused`: `docs/auth.md:280` promises 403 on the next request
  after the webhook. A check that read the table before the webhook's write and
  reaches `cache.Set` after its `Invalidate` (`internal/auth/middleware.go:119`)
  lets the user in for another TTL. `RefusedOnceAnnounced` is what holds.
* `NobodyIsLockedOut` with `MayMigrate`: after the steps of `docs/auth.md:54-62` an
  account that has logged in before arrives with another provider. Its old row
  is a different identity that has its address, and for a UUID its primary key
  too, and `UpsertUserByProvider` (`internal/store/users.go:93`) resolves neither
  conflict: the login fails every time. `migrations/00010_oidc_provider.sql:19`
  says that identities are unique by provider and subject. Without the move
  the property holds, and is proved.
* `RelationsStayInProject` of `GraphTransfer`: `importRelations`
  (`internal/khctl/import.go:308`) names no `project_id`, so imported relations are
  in 'global' whatever their nodes are in (`docs/knowledge.md:101`,
  `docs/mcp-tools.md:37`). The next export writes 'global', under which the next
  import finds no endpoints. `RoundTripKeepsGraph` therefore asks for relations
  in the project of their ends.

More places where words and code differ, or that a reader of the code should
know of, without a run:

* `docs/mcp-tools.md:943` promises `created_nodes: 0` for a name that exists;
  `internal/mcp/nodes.go:336` counts it.
* `docs/auth.md:377` gives one hour as the worst case without the webhook, but a
  failed query is taken for "not revoked" (`cmd/server/main.go:250`) and cached.
  Hence the condition `faults = 0` in `AcceptancesAreRecent`.
* `docs/mcp-tools.md:882` and `limiter_test.go:83` expect a refilled token to allow a
  call. Of two refused calls that overlap, the first to cancel leaves its
  token owed (`internal/ratelimit/limiter.go:66`); a client's bucket can be in
  debt until the janitor forgives it. On stdio the mutex prevents it.
* `limiter.go:16-18` calls `writesPerWindow` the maximum within any sliding
  window; `RateBound` is the bound that holds. `docs/mcp-tools.md:885` says stdio is
  not limited, which `internal/mcp/nodes.go:823` does.
* `internal/auth/oidc/provider.go:31-40`: one failed discovery keeps every login
  failing until a restart.
* Two accounts that swap their addresses at the provider are each kept out by the
  other's row (`internal/store/users.go:93`): neither upsert can be the first.
* Of two overlapping calls of `suggest_node_type` the one that read first may store
  last, as of now (`internal/mcp/suggest.go:152`): answers go back in time, and an
  entry is as old as the TTL and the call together.
* `internal/web/auth_callback.go:132` clears the state cookie after a failed mint
  has written its answer, so the cookie stays.
* `docs/mcp-tools.md:240` says that pagination never skips or duplicates rows; with
  offsets, a node added at the front shows a row twice and one deleted skips
  one. `PagesMissNothing` is the half that holds.
* A `timeline` limit of 0 means 50 (`docs/mcp-tools.md:222`), an offset is cut at
  100000; a client that pages beyond it gets the same page again.
* `stats` counts observations of every project and of deleted nodes, in a
  statement of its own (`internal/store/nodes.go:52`, `docs/mcp-tools.md:202`).
* The viewer lists relations by the *name* of their ends, hence those of
  homonyms too (`internal/viewer/handler.go:463`). Observations are ordered by
  random ids where the comment says insertion order
  (`internal/store/observations.go:85-88`).
* `find_conflicts` may leave out candidates other than the closest when one node
  fills the `topK*4` rows of a query (`internal/store/conflicts.go:122`).
* Imports never bring a soft-deleted row back, and do not pass the Content
  Filter. An export that still reads its listing and a `seed --reset` that waits
  for it can wait for each other where Postgres cannot see it.
* The session of a batch is looked up before its transaction
  (`internal/mcp/nodes.go:181`), and `node_count` is read after `session_end` has
  committed (`internal/mcp/sessions.go:159`). `supersedes` relations can form a cycle,
  and a soft-deleted one blocks its pair for good (`internal/mcp/conflicts.go:285`).
* `pg_restore` is not run as a single transaction (`cmd/khctl/backup.go:130`).

## 4. Proofs

All are checked by TLAPS, for every value of the constants that satisfies the
assumptions (`GraphRows`: projects are ranked by numbers, `None` is no value, the
seed is a finite, consistent graph; `GraphTools`: requests and deletions are
typed, `Scrub` is a function, the bounds are numbers; `Revocation`: the bounds
are numbers, `NoEntry` is no entry; `RateLimiter`: finitely many callers, a token
costs and a bucket holds at least one, and the idle threshold as above; `WebLogin`:
the bounds are numbers; `GraphReads`: the limits are numbers and those that cut a
result are not zero, a query's limit is an integer and a suggestion's scope a
project or none, a write inserts finitely many rows with keys of their own,
UUIDs are distinct, a likeness is a percentage; `GraphTransfer`: projects, files,
commands and writes are well formed, the fixtures are a consistent graph).

**GraphTools** (`GraphToolsProofs`). `TypeCorrect`, `KeysStayUnique`,
`ReferencesHold`, `NoCrossProjectRelation`. None of the last three is inductive:
committing moves rows from a transaction into the tables, so the transactions
must be as good as the tables already. The strengthening is

    GraphInv == TypeOK
             /\ UniqueKeys /\ KeysApart                     (keys in flight too)
             /\ RelationsStayInProject /\ InFlightInProject
             /\ ForeignKeys /\ InFlightReferences /\ TargetsExist

`KeysApart` says that no row in flight has a key of the tables or of another
transaction; it is what the wait in `InsertRow` buys. `TargetsExist` says that
the nodes a handler has resolved are among the rows it sees, which holds since
nodes are never removed and a transaction keeps seeing what it saw.
`RelationsStayInProject` needs only the check in `Relate`, but of the row as
inserted, hence `InFlightInProject`. The store's statements are treated once, in
lemmas about `InsertRow`, `StampRow`, `CommitTx` and `RollbackTx`; then there is
one lemma per handler action.


`GraphPromiseProofs` builds on it: `TransactionsDoTheirWork`,
`GraphToolsImplementsPromise`, `AnswersCountOwnRows`. `GraphInv` says nothing
about how far an open transaction is, so neither the refinement nor the counters
follow from it. `WorkInv` adds that:

    WorkInv == LocksApart                   no row is stamped by two, or twice
            /\ for every handler:
               WorkFits    it has inserted and stamped only what its request asks
                           for, and every item behind its index is done, as far
                           as it can see
               CountFits   its counter is the number of rows it has inserted or
                           stamped

A handler's own step keeps `WorkFits` by what the statement does (`InsertEffect`,
`StampEffect`); every other handler only adds to what it sees and to what is dead
(`Undisturbed`), and `WorkFits` grows with both (`WorkMonotone`), so there is one
argument for the others whatever they do. The refinement mapping is the identity
on `rows` and `dead`: `WhatChangesTheGraph` sorts the steps into commits, operator
deletes, and the rest, which stutter; a commit is one request of `GraphPromise`
because at it (`AtCommit`) `WorkFits` speaks of the whole batch, and one lemma per
tool (`CreateNodesKept`, ...) reads the request off it. A commit that is not
acknowledged is the same step. `AnswersCountOwnRows` is `CountFits` at the commit.

**Revocation** (`RevocationProofs`). `RevocationTyped`; `RefusalsStayRecent`;
`AcceptancesStayRecent` and
`AnnouncedStaysRefused`, the last two of which speak of states in which no call has
failed yet. The action properties follow from invariants about
what is on its way to an answer:

    SinceNow   == what the table says now is no time old
    Recent(b)  == a check about to fill the cache with b read it at most `wait`
                  ticks ago, and a usable entry b is at most `age` +
                  MaxQueryTicks ticks behind the table

`Recent(TRUE)` survives failed queries, since what they make up is FALSE;
`Recent(FALSE)` does not, so it is kept under `faults = 0`, which, where it holds, has held all along:
faults are only ever added (`FaultsAreCounted`, `FaultsStay`). `Clean(u)`
says that after an announced revocation the table, the entry and every check in
flight say revoked. `StepKinds` sorts the steps once: only the middleware, the
janitor, a restart, the clock and the end of a webhook call touch the cache or a
check; all others just move the table.

**RateLimiter** (`RateLimiterProofs`). `LimiterTyped`; `StdioNeverOwes`, from an
invariant that relates the one reservation that may be out to the bucket; and
`RateIsBounded`. `RateBound` is far from inductive: calls that hold a
reservation may be allowed later, all at once, and a cancellation raises the
level for others. With `Young(k, a)` the reservations at most `a` ticks old, and
`Due(k, a, j)` those of them whose time comes within `j` ticks, all counted in
ticks (`Weight`), the strengthening bounds them for every `a` and `j`:

    Levels   == level + Young(k, a)           <= Full + a
    Dues     == Due(k, a, j)                  <= Full + a + j
    Charged  == spent + level + Young(k, M)   <= Full + M
             /\ spent + Due(k, M, j)          <= Full + M + j     (M = MaxCallTicks)
    Queue    == reservations that wait are a token apart, the younger the later,
                and the level is as far below zero as the last of them waits
    Rested   == an entry is looked up no longer ago than its calls have lasted,
                and idle for as long as `spent` is positive only so far

A tick turns `Young(k, a)` into `Young(k, a - 1)` and `Due(k, a, j)` into
`Due(k, a - 1, j + 1)`, which is why both are needed for all values. `Queue` is what
makes a cancellation harmless: only the last that waits gives anything back,
and no younger reservation is out then. `Rested` makes an eviction harmless.
`RateBound` is `Charged` with `j = 0`.

**WebLogin** (`WebLoginProofs`). `LoginTyped`, `SessionsAreOwn`, `OldPagesStayRefused`,
`HoldersAreKnown`, and, for a provider that stays the same (`MayMigrate = FALSE`),
`LoginStaysOpen`. A session is right because of what led to it, so the
strengthening follows a login through its steps:

    FlowsOwn    == a login is found again by its secret
    JarsOwn     == a state cookie is that of a login its browser began
    CallsOwn    == a callback that passed the gate is about an answered login of
                   its browser, and mints for the account that signed in
    SessionsOwn == so does the session that comes of it

`FlowsGrow` says that an answered login never changes hands, `CookiesOf` sorts all
steps by what they do to a browser's cookies. `OldPagesStayRefused` rests on
`TokensInv` (a token is younger than the last logout), `HoldersAreKnown` on
`RowsKeyed` (an upsert keeps the ids there are), `LoginStaysOpen` on `OneProvider`,
on keys being different for different accounts of one provider, and on
`MailsDiffer`: an address belongs to one account at a time, so the row in the way
of an account is one that its owner has not brought up to date.

**GraphTransfer** (`GraphTransferProofs`). All seven properties of its run:
`TablesStayConsistent`, `TransfersKeepTheirPlace`, `ExportsTellTheTruth`,
`DeletedStaysDeleted`, `TransfersAreAtomic`, `RoundTripIsFaithful`, `ResetStartsOver`,
for any number of databases, operators, writers and items. `Inv` says of one job
at a time that it is `Good` for the rows of its database, and of any two that
they are `Apart`:

    Table         == keys are apart and rows refer to rows of the table
    TransferFits  == what it sees is a consistent graph too; it has inserted rows
                     of its file only, and everything its loops are past has
                     landed (Landed)
    ExportFits    == what has been there all along is live, what is live has been
                     seen, and the file so far lies between the two
    Apart         == no key in flight twice, and beside a reset everybody waits

An insert disturbs the others only through keys, and the wait for keys in flight
keeps those apart (`InsertKeeps`); a commit or a write makes the tables grow,
under which `Landed` stays true (`LandedGrows`): nodes are never removed except
by a reset, and beside one nobody is at work (`AloneAtWork`). The action properties
follow from `Inv` at the commit: `TransfersAreAtomic` is `Landed` of the whole
file, `RoundTripIsFaithful` puts together that the file says what the graph held
(`Faithful`, kept from the last statement of the export on), that everything in it
has landed, and that in an empty database a name resolves to the item's own node
(`ImportMeansOwn`). `ResetStartsOver` does the same for the fixtures.

**GraphReads** (`GraphReadsProofs`). All seven invariants of its run: `ReadsAreTyped`,
`AnswersAreFresh`, `AnswersFitTogether`, `NothingIsLeftOut`, `PagingReachesAll`,
`ClosestSurvivesTheCuts`, `SuggestionsStayRecent`, for any graph, any writes, any number of requests in
flight, any limits and any duration of a request. The properties speak of answers
that are complete; `Inv` says the same of every statement before that, in terms
of the times at which rows came and went:

    Tables    == keys are apart, references hold, times are in order
    Control   == which statements a tool runs, and what it has before the first
    Current   == what has been read was live at some moment since the request
    Together  == observations and relations hang on the nodes listed
    Complete  == what was live all along has been read by the statements so far
    Closest   == of any two observations there all along, the pair has been
                 compared and a result as close is kept, or is still to compare
    Paging    == no node that is awaited lies in the places passed, unless shown

A tick that commits a write is treated once (`FitsStays`): rows that were live at
some moment stay so, rows that have been live all along were so before
(`TimesStay`), whatever was written. `PagingReachesAll` counts. The place of a node
is the number of nodes before it; places are the numbers below the length of
the list, each taken once (`PlacesAreTaken`), so a page followed by another is
exactly full (`PageIsFull`), and the next offset is where it ended. A new node
moves others back, never forward (`PagingStays`), even one whose transaction began
long before, so whoever is awaited is on this page, a later one, or shown
already. `ClosestSurvivesTheCuts` follows the best pair through `LIMIT topK * 4`
(`CutKeepsClosest`), the maximum per candidate (`AggregateIs`) and the cut at `topK`:
each cut of a nonempty set keeps an element that is at least as close as any it
drops. That a finite set of numbers has a largest one (`MaxIsLargest`) is an
induction, which the provers cannot do; a minimal element of a family of finite
sets (`FamilyHasMinimal`, from the library's well-founded orderings) stands in for it.
The list of a timeline was a sequence in an earlier version of the module; as a
set with places it says the same and can be counted.

`SuggestionsStayRecent` has a layer of its own on top of `Inv`:

    Held(p, m)  == what the tables held in scope p at moment m
    Suggested   == what a call has read, or got from the cache, is what they held
                   at one moment, as recent as the property asks
    Recent      == an entry is what they held at one moment, at most MaxCallTicks
                   before it was stored

What the tables held at a moment that has passed stays what it was, whatever is
written later, so a step only has to name the moment: now for a statement, that
of the entry for a hit.

**Only model-checked.** The liveness properties (`EveryRequestReturns`,
`TableFollowsProvider`, `CacheFollowsTable`), which need ENABLED and fairness,
out of this prover's reach.

## 5. Not modelled, and the plan

All invariants and action properties of the passing runs are proved. Next:
`ContentFilter`, the layers and the in-place redaction, as the `Scrub` and
`Refused` that `GraphTools` takes as constants.

Abstractions to keep in mind: `SyncFetch` takes the provider's list in one step
(a user's record is on one page, so only the page shift can be told apart); the
e-mail column of `users` is in `WebLogin`, `revoked_at` in `Revocation`, and no module
has both; all users of `Revocation` are the provider's (an OIDC user of another
provider is, to `sync-users`, one missing from the list). `GraphTools` starts from
a seed without imported relations, which `import_relations` shows to be outside
of `RelationsStayInProject`. In `WebLogin` signatures,
cookie attributes and the `next` parameter are left out. In `GraphReads` the
viewer's filter by node type is left out. In `RateLimiter` a limiter's method reads
the clock and takes the limiter's lock in one step, and a negative
`MCP_STDIO_RATE_LIMIT` (every write refused) or zero (none) is left out.

Left out for good: embedding vectors, similarity and the scores of
`suggest_node_type` (numeric); logging, metrics, tracing, landing pages, the viewer's page (no state);
backup and restore (other programs do the work); `doctor` (a report of single
queries); flow events (one insert without readers).
