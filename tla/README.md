# AnyManager in TLA+

AnyManager is a proxy in front of a Claude-compatible upstream. Clients use one
downstream key; the program chooses one of several upstream keys for every
request, counts failures, and cools keys down. An administrator manages keys and
settings through `/admin`. All state that outlives a request is in one SQLite
file. This directory models that program, checks the models with TLC and proves
with TLAPS what they keep safe. Paths below are relative to `src/`.

## 1. Inventory

| component | code | state | operations | properties that make it correct |
|---|---|---|---|---|
| Failover: forwarder and key selection | `internal/proxy/forwarder.go`, `internal/upstream/service.go` | local variables of each request goroutine; reads `app_config` and `upstream_keys` | `Proxy`, `Select`, `MarkResult`, `recordUpstreamResult` | a key is passed over only after it failed often enough; results count for the right key, none is lost; requests end |
| Upstream key store | `internal/store/repository.go`, `schema.sql` | table `upstream_keys`: enabled, priority, consecutive_failures, cooldown_until | create, edit, enable, delete, reorder, `RecordUpstreamResult` | priorities 1..n at every commit; no statement of a renumbering meets the unique index; order changes only as asked |
| Sessions | `internal/auth/*.go`, `internal/http/admin/router.go` | `downstream_key_hash`, `auth_version`; signed cookies in browsers | bootstrap, login, logout, reset, `requireAuth` | one bootstrap wins; a reset ends every session, also those in the making |
| Startup | `internal/app/app.go`, `internal/config/config.go`, `internal/store/db.go`, `migrate.go` | the database file, a partly applied schema, the seeded settings | `New`, `Open`, `Migrate`, seeding | what serves is complete; edits survive; environment's settings arrive |
| Public API | `internal/http/public/router.go` | none | authenticate, rewrite the model, forward | only the model field changes; refusals do not reach the upstream |
| Runtime settings, model redirects | `handleUpdateConfig`, `ReplaceModelRedirects` | `app_config`, `model_redirects` | read, validate, write in two transactions | no lost updates, no half updates |
| Request log | `InsertRequestLog`, `ListRequestLogs`, `internal/jobs/cleanup.go`, `static/logs.js` | `request_logs`; offset and buttons of an open log page | insert, page, clean up, `ON DELETE SET NULL` | every request is logged once; what paging may skip and what not; only expired rows go, and all of them do |
| Balance refresh | `Service.RefreshBalance` | balance columns | two upstream calls, one update | the balance belongs to a secret of this key and adds up |
| Key edits | `handleUpdateUpstream`, `Service.Update` | alias, secret, hint, is_enabled | read, decode, read again, write back | nothing is lost without an overlap; hint and secret agree; deleted keys stay deleted |
| Lifecycle | `App.Run` | two listeners, a deadline, the database handle | serve, shut down | the process ends; the database outlasts requests within the grace |
| Headers | `internal/proxy/headers.go`, `applyUpstreamAuth` | none | copy, strip, authenticate | exactly one credential goes upstream |
| Web pages | `internal/http/admin/web` | what a page shows | forms, lists, the pager of the log | see `LogPage` for the pager |
| Statistics, security primitives | `internal/metrics/summary.go`, `internal/security` | none | | |

How they interact: handlers of both listeners and the cleanup job run in
goroutines of their own and share nothing in memory. They meet in the database,
whose pool has one connection (`db.go:22`), so a transaction is one step for
everybody else. What is hard is therefore between the steps of a request: it
reads settings, then keys, then talks to the upstream for seconds or hours, then
reads settings again, then reports, while other requests report on the same key
and the administrator deletes or reorders keys. `PROJECT.json` lists these
hazards at their lines.

## 2. Modules

| module | what it is |
|---|---|
| `KeyTable` | the table `upstream_keys` as a value, and every statement on it as an operator |
| `Failover` | requests, administrator and clock over a `KeyTable` |
| `KeyOrder` | abstract: the order keys are tried in, with one-step create, delete and reorder |
| `PriorityRewrite` | the three transactions that write priorities, statement by statement, with the unique index and rollback |
| `Sessions` | bootstrap, login, reset, cookies and `requireAuth` |
| `Startup` | starting on a database file, killed anywhere and started again |
| `LogTable` | the rows of `request_logs` and the clock, and what each statement does to them; also the abstract specification of whoever writes them |
| `RequestLog` | who writes the rows: requests, deletions of keys, the cleanup job |
| `LogPage` | the page that lists them, `logs.js`, beside any writers that keep to `LogTable` |
| `ConfigUpdate` | `PUT /admin/api/config`: one read, one write, one transaction, on one connection |
| `AdminKeys` | editing keys and refreshing balances, beside creations and deletions |
| `PublicApi` | authentication, model redirects, and the request that goes upstream |
| `Lifecycle` | `App.Run`: listeners, requests, signal, shutdown, closing of the database |
| `Access` | the composition of `Sessions` and `PublicApi`: administrators and clients on one row of settings |
| `Service` | the composition of `Startup` and `Lifecycle`: one process after the other on one file |
| `MCFailover`, `MCPriorityRewrite`, `MCSessions`, `MCRequestLog`, `MCConfigUpdate`, `MCAdminKeys`, `MCAccess` | payloads and symmetry for TLC; `MCRequestLog` puts `RequestLog` and `LogPage` into one run |
| `KeyTableProofs` | lemmas about the table, its ranks and its listing; no theorem of its own |
| `FailoverProofs`, `PriorityRewriteProofs`, `ConfigUpdateProofs`, `AdminKeysProofs` | theorems about the module of that name |
| `RequestLogProofs` | theorems about `RequestLog` and `LogPage` |
| `AccessProofs` | theorems about `Sessions`, `PublicApi` and `Access` |
| `ServiceProofs` | theorems about `Service`, hence about `Startup` and `Lifecycle` as it puts them together |

Definitions named `Faulty...` (and `EarlyTripped`, `OnceTripped`, `FrozenElapsed`)
are mistakes of the kind a change to the code could make. No specification uses
them; each stands before the definition it can replace, and `PROJECT.json`
("mutants") says which property notices.

### Failover and KeyTable

A step is one database call or one event of the exchange with the upstream. The
program counter of a request is in `req[h].pc`:

| pc | code | left by |
|---|---|---|
| `config` | `Select`, before `GetAppConfig` (`service.go:91`) | `SelectConfig`, `SelectFails` |
| `keys` | before `ListUpstreamKeys` (`service.go:95`); holds the settings just read | `SelectKey`, `SelectNone`, `EgressUnusable`, `SelectFails` |
| `sent` | `client.Do` (`forwarder.go:102`) with a chosen key | `TransportFails`, `Respond` |
| `body` | `io.Copy` or `io.ReadAll` (`forwarder.go:120,135`) | `BodyEnds`, `BodyBreaks` |
| `mark` | `MarkResult`, before it reads the settings again (`service.go:116`) | `MarkConfig`, `MarkFails` |
| `record` | before the transaction of `RecordUpstreamResult`, with the threshold just read | `RecordRead`, `RecordNothing`, `MarkFails` |
| `update` | in that transaction, with the row just read (`repository.go:388`) | `Record`, `MarkFails` |
| `log` | rest of the answer and the deferred `InsertRequestLog` | `Log` |

The transaction that records a result is two steps, the SELECT and the UPDATE, because
what it computes from the row it read is the point. Nobody comes between them only
because the transaction holds the one connection, so every other database step has the
guard `Connected` (`db.go:22`).

The administrator's actions are single steps because each of them is a single
statement or transaction on the keys. `UpdateConfig` is one step that writes any
value: the handler reads all columns first and writes all of them back, so a
column may also return to an older value, which the action allows. The
environment's URLs are not validated while the administrator's are; hence
`SeededEgress`. A response status is a success, a 401 or another error, because
the code distinguishes no more. `cooldown_until` is the time that is left; 0
(over, not cleared) and `NULL` differ, as in the column.

`seen` and `streak` are history. `seen` has the thresholds that were ever in force: the
code may use one that was replaced a moment before, so properties are about "some
threshold that was in force". `streak` counts the failures of a key that were committed
since its last success, without looking at the row. `ThresholdAlwaysTrips` compares the
two: the stored count is that history, so no result overwrites another that was
reported at the same time, and a failure that makes as many as every threshold there
was puts the key in cooldown for the full time, also when an earlier cooldown is over
but not cleared (0 in the column, with the count still at the threshold).

Properties: `PrioritiesDense`, `CooldownOnlyAtThreshold`, `ThresholdAlwaysTrips`,
`SwitchOnlyAfterThreshold`, `HealthOnlyFromOwnResults`, `NewKeysAreNobodysKey`,
the liveness properties `CooldownIsTemporary` and `OnlyPeersHang`, and
`OrderSpec`: `Failover` implements `KeyOrder` under the mapping from the table
to its listing. Each is explained where it is defined.

### PriorityRewrite

SQLite checks a unique index for every row that an UPDATE touches, not at the
end of the statement. The module visits rows in any order while shifting, then
assigns numbers entry by entry, and turns the transaction into `clash` when a
write meets the index. `Rollback` is possible at any point of a transaction: an
error, a client that leaves (the transaction has the request's context), a
crash. It shows that the shift by 1000000 makes every renumbering safe, that the
two checks of a reorder payload are enough although ids may be repeated in it,
and that what is committed is what `KeyTable`'s one-step operations say
(`CommitsAreOperations`), which is how `Failover` uses them; readers see the
operations of `KeyOrder`. `MaxId` must not
exceed the shift, which is the assumption the code makes, too.

### Sessions

Handlers read `app_config` once, in one statement, and use hash and version
later. `Reset` is possible for any request that passed `requireAuth`, also when
another reset happened after the check: the code does not look again, so the
second of two resets wins and the sender of the first is not told. A cookie is
`version`, time left, and, as history, the key that its holder gave for it.
Forged cookies are not modelled (the signature is taken to be sound).

### Startup

`New` looks whether the file exists, opens it (which creates it), runs the
schema statement by statement and seeds the settings if there was no file.
`Stop` may happen anywhere; the supervisor of `docker-compose.yml` starts the
program again. `row` says where the settings in force come from.

### LogTable, RequestLog and LogPage

A step is one statement, or one reading of the clock. A request takes its time
when it begins (`forwarder.go:43`) and inserts its row when it ends, so rows
arrive out of order; that is what makes paging by offset worth checking. A row
has the columns others read: time, key, success.

| definition | code |
|---|---|
| `AddRow`, `TakeKey`, `RemoveOlder` | the INSERT, the `ON DELETE SET NULL` and the DELETE of the cleanup, as the rows see them |
| `Refuse` | the early returns of `handleMessages` and `authenticate`; they log under `r.Context()`, which `Leave` cancels |
| `TakeOn`, `SelectNone`, `SelectKey`, `Exchanged` | `Forwarder.Proxy`, whose deferred insert nothing cancels (`End`) |
| `Insert`, `InsertNothing` | `InsertRequestLog`: a 401 leaves no row; foreign key and CHECKs may reject it, and the error is dropped |
| `DeleteKey` | `DeleteUpstreamKey` with `ON DELETE SET NULL` |
| `CleanupTick`, `CleanupDelete`, `CleanupFails` | the cleanup job, its cutoff computed before the statement runs |
| `ReaderOpens`, `ReaderSubmits` | the page is opened, or its form submitted; answers to earlier loads may still arrive (`Stale`) |
| `ReaderNext`, `ReaderPrevious` | the buttons of `logs.js:68-75`, which move `state.offset` first and then load, also while another load is under way |
| `LoadReads`, `LoadShows`, `LoadFails` | `handleLogs`, with its cutoff computed before the statement; `render`, which sets the buttons by the answer shown last and the offset of that time; the `catch` of `logs.js:12-14`, which moves nothing back |

The page can skip rows: if a load fails, or "next" is clicked twice while one is under
way, the page between is never shown and the button stays enabled. `PagingSkipsNothing`
says how far this goes. `depth` is how far the pages shown reach from the top without a
gap; an answer extends it if it joins on (`joins`: its offset is not below `depth`), in
whatever order answers arrive. A row that was listed when the reading began, is still
in the window and was on no page shown always lies below `depth`, and no page that
joined on was the last one. So rows are lost only to loads that failed or were
overtaken, never between two pages that follow each other, whatever is inserted, late
or not, and whatever goes. And if neither happened (`smooth`), the button is enabled
and the row is on a page still to come. It holds because rows come in only at places that push
others to later pages, and leave only at the old end, which the reader no longer wants.

### ConfigUpdate

`Begin` reads the row; `Decode` and `Refuse` are the body and its validation;
`Write` writes all columns; `BeginReplace`, `Clear`, `Insert`, `Commit` and
`Rollback` are `ReplaceModelRedirects`; `Reload` lists the redirects for the
answer. `tx` is the transaction that holds the only connection; a statement
outside of it waits (`Connected`). A name is trimmed text and whether spaces were
around it, which is all that `normalizeModelRedirects` looks at. That edits are
lost when calls overlap is stated rather than denied: `LostOnlyToOverlap` says
that there is no other way to lose one. `raced` and `accepted` are history.

### AdminKeys

`Create`, `Delete` and `SetEnabled` are one transaction each. An edit reads the
row for `is_enabled` (`BeginEdit`), decodes (`Decode`), reads it again for secret
and hint (`Load`) and writes all four columns (`Replace`); a refresh reads the
secret, asks the upstream twice and stores (`BeginRefresh`, `Fetch`, `Store`).
`GiveUp` stands for every answer that ends a call before it writes. A hint is its
secret's, or `****` for short ones. Amounts are small numbers on both sides of the
1e8 that means "no limit"; `balance.of` is history, the secret the numbers are of.
That an edit with a blank secret can put an older secret back although the form says
"leave blank to keep unchanged" (`upstreams.js:109`, `service.go:62`) is the overlap
which `EditsLoseOnlyToOverlap` allows, and the only one.

### PublicApi

The steps are the reads of `handleMessages`: body, configuration, verification,
redirect, and the building of the upstream request in `Forwarder.Proxy`. A body
is the two fields that `encoding/json` takes for `model`, and which came last.
Headers are a function from the names the code tells apart to values, so
`Outgoing` is `CopyHeaders`, `StripAuthHeaders` and `applyUpstreamAuth` in the
order of `forwarder.go:98-100`. `valid` and `served` are history, the keys and
tables in force since the request came. `GET /v1/models` is the request without a
model. Here the settings change freely (`SetKey`, `SetMode`, `SetTable`), except that a
key is replaced and never removed; `KeyStored` is what requests under way see of it,
and `Restart` ends them. `Access` says who changes the settings.

A body that is redirected is encoded again from a map (`replaceModel`), whose keys are
sorted: a field `Model` stays and now comes before `model`, which is the last
(`Rewritten`). A body without a redirect goes out as it came.

`UpstreamGets` has two parts: one credential, and one redirect (`RedirectedBy`). The
second is stated without the code's own `ExtractModel`. Under one table that was in force,
the body left as it came, and one of its models has no rule there; or one of them has,
`model` is its target, and that is the model whoever decodes the new body finds. For a
body that spells the field one way this is the exact match of the README, line 82.
For a body that has both spellings it leaves open which of the two counts: the decoder
takes the last, so `{"model": "c", "Model": "a"}` is redirected by the rule of `a`, and a
body with `Model` alone is given a second field. Read literally, line 82 ("exact match",
"only the field `model`") is not kept for such bodies.

### Access

Both handlers read the same row of `app_config`, and `app.go:78` mounts the admin
handler on both servers. `key` is shared; the rest of `Sessions` and of `PublicApi` is
their own, `PublicApi`'s requests under the name `calls`.

| action | code |
|---|---|
| `AdminStep` | a step of bootstrap, login, `requireAuth` or reset; where it stores a key, `calls` under way see it (`KeyStored`) |
| `Configure` | `PUT /admin/api/config` past `requireAuth`: auth mode or redirects, any number of times |
| `Call` | a step of a client's request |
| `Browser` | a cookie is dropped, or gets older |
| `Restart` | the process ends with the requests of both handlers; row, redirects and cookies stay |

`NothingBeforeBootstrap` is about both at once. An empty hash is in the row of every new
database, which serves both handlers at once: the login (`LoginConfig`) and `authenticate`
have to take it for nobody's key, and whatever writes settings has to come after
`requireAuth`.

### Lifecycle

`main` is where `App.Run` is; `grace` is what is left of the ten seconds. A request
works (for as long as upstream and client like) and then stores its outcome. The
servers are shut down one after the other under one deadline, which is why the
admin server may still accept while the public one drains.

### Service

`Service` puts `Startup` and `Lifecycle` together. `NewProcess` is `Start` with fresh
variables of `App.Run`; `Boot` is the rest of `app.New`; `Run`, `Clock` and
`Life!Outside` are possible while the process serves; `MainReturns` and `Kill` end it,
at the end of `App.Run` or anywhere. `StoreSettings` is where the two meet: a request of
either listener saves settings if it finds the database still open, and the next process
must keep them.

## 3. Runs

| run | bounds | what it shows |
|---|---|---|
| `failover` | 2 requests, 2 ids, every payload of up to 2 ids, thresholds 1 and 2, cooldown of 1 tick, at most 2 failures in a row | safety of `Failover`, refinement of `KeyOrder` |
| `failover_live` | 2 requests, 1 id, thresholds 1 and 2, cooldown of 2 ticks, URLs unusable at first | liveness |
| `failover_cooldown` | 2 requests, 1 key | finding 1 |
| `priority_rewrite` | 4 ids, every payload of up to 4 ids | renumbering statement by statement |
| `sessions` | 2 requests, 2 keys, lifetime 2 ticks, 2 resets | sessions |
| `service` | both spellings of the auth mode, 2 kills, 2 requests, grace of 2 ticks | starts, runs, shutdowns, restarts |
| `startup_crash` | both spellings, 1 kill | finding 2 |
| `request_log` | 2 requests, 1 key, window 1 of 2 ticks, 2 rows; for the page 2 loads at once, pages of 1, a filter | rows, foreign key, cleanup; paging |
| `request_log_deleted` | 1 request, 1 key | finding 3 |
| `config_update` | 2 calls, 1 column of 2 values, 5 lists | overlapping saves, failures at any statement, the one connection |
| `admin_keys` | 2 calls, 2 ids, 1 alias, 2 secrets, amounts 0, 2 and "no limit" | overlapping edits and refreshes |
| `access` | 1 request of each handler, 2 keys, 1 reset, 5 bodies, 2 tables, 7 combinations of credentials, 2 nominations | authentication, redirects, headers, and what nobody can do before there is a key |

Why the bounds are enough. Hazards of failover involve one key and two requests
(one that holds an old view, one that changes it) or two keys (one that is
passed over for the other); two thresholds allow one to be stale. Deleting and
creating within 2 ids reaches a late result for a deleted key; a gap in the middle,
and rows on both sides of the one being moved, need more ids, which
`priority_rewrite` has: four. It shows there that the operators `Failover` takes its
steps from are what the transactions commit. `MaxId`, `MaxFailures`, `MaxVersion` and `MaxStops` stop the
counters of the environment only: creating keys, failing a key that already has
that many failures, resetting, killing. Time needs no bound, because only the
time left is kept. Requests are interchangeable (symmetry) in the safety runs;
the liveness runs use no symmetry,
except that of loads in `request_log`, none of which is under way where its liveness is
looked at.

`request_log` explores two models, one or the other in a behaviour (`MCRequestLog`): all
that the page can see of requests and cleanup is `LogTable`, and `RequestLog` implements
`LogTable` (the theorem `ImplementsLogTable`), so the page is not explored beside each of
their steps. A row slips between two pages when one that was shown goes and
pulls the next to its place: two rows are enough, of which the one that was inserted
late is the older. Two loads are enough for one to overtake or fail beside another.
`FewKinds` leaves out what the page does not look at, the key of a row, and keeps rows
that its filter leaves out to the first tick. Two ticks with a window of one let a row be old, young, and inserted
late. `MaxRows` counts insertions, `MaxTime` stops the clock.
Lost updates need two calls and a column that only one of them names. A balance
under a wrong key needs a deletion and a creation between two steps of a refresh,
hence two ids. With one alias two keys never exist at once; no property of `AdminKeys`
relates two, `Failover` has them. In `Service` one request per server is enough for every
order of draining. In `access` one client and one administrator are enough, because
clients share nothing but the settings, and what overlapping administrators do to each
other is the question of `sessions`, which has two. The credentials are one key in either
header, two that differ, or none; the tables are the empty one and a chain a, b, c, in which
a model redirected twice would show. The type invariant of `Sessions` is part of
`AccessTypeOK`. The clock of `RequestLog` stops at `MaxTime`, the rest goes on: in every
run there is always a next step, and deadlock is checked in all of them.

Fairness. `FairSpec` of `Failover` assumes that a goroutine that can go on does
(`Work`) and that the clock ticks while a key is cooling. The first is strong fairness:
a statement waits while a transaction of another request holds the connection, and
`database/sql` hands it to waiting calls in the order of asking. It assumes nothing of
upstream and client: dialling and the response header have timeouts
(`transport.go`), but writing the request, reading the body and writing the
answer have none, which is why `OnlyPeersHang` lets a request stay in `sent`,
`body` and `log`. `ServiceSpec` assumes that the supervisor starts the program whenever
it is down, that `app.New` and the main goroutine run on, and that the clock advances; of
requests, listeners and signals nothing. The `Fairness` of
`RequestLog` assumes that the ticker fires, the clock advances and a cleanup that is
tried again and again succeeds some time; no client owes a step. `FairSpec` of
`ConfigUpdate` assumes that a call which can go on again and again does: `database/sql`
hands the connection to waiting calls in order. It assumes no body of a request. A behaviour of
the page has no fairness: `PagingSkipsNothing` is about safety.

### Findings

1. **A late success ends a cooldown** (`failover_cooldown`). The project's README,
   line 11, says that a key cools for ten minutes; `repository.go:388` clears
   `cooldown_until` on any success, also of a request sent long before.
2. **A first start that is cut short loses the environment's settings**
   (`startup_crash`). Line 138 of the README says that they are written when a new
   database is initialised; `app.go:36` takes a database for new only while there
   is no file, and the file exists before the settings are written. A kill is not
   needed: `config.go:82` validates the auth mode in lower case but keeps it as it is
   spelled, the CHECK of `schema.sql:10` rejects the seeding of `X_API_KEY`, and the
   supervisor's next start serves with the schema's defaults.
3. **Requests whose key is deleted meanwhile are not logged** (`request_log_deleted`).
   Line 15 of the README promises 24 hours of request logs, and `schema.sql:84` sets
   the id to NULL when a key is deleted; but that concerns rows that are there. The
   row of a request that is still running names the deleted key when it is inserted
   (`forwarder.go:52`), the foreign key rejects it, and the error is thrown away.

## 4. Proofs

A theorem holds for every value of the constants that satisfies the module's
assumptions: any number of requests, keys, columns, lists, ticks and kills. Every
safety invariant, action property and refinement that the passing runs check is proved;
`PROJECT.json` ("theorems") says which theorem states which. Each proof module has one
inductive invariant, `IInv`, the theorem `Invariant`
(`Spec => []IInv`), one lemma per action, and a theorem per property. Where no run checks
a property by itself that `IInv` needs, it is because it speaks of what goroutines hold
between their steps; these parts are below, since they are the arguments that the code
is right.

`FailoverProofs`. Whether `CooldownOnlyAtThreshold` survives `Record` depends on the
threshold that the request read in `MarkConfig`, and on the row that it read in
`RecordRead`. `IInv` therefore adds `LocalsOK` (a
request's key was given out, its threshold was in force once, and it never reports a
401), `config.threshold \in seen`, `InTransaction` (at most one request is in a
transaction, and the row it read is still the one in the table) and `StreaksOK` (the
stored count of a key is the number of failures committed since its last success).
`ThresholdTrips` follows from the last two: what `Record` writes is one more than what is
there, and that is one more than the history. Steps that begin nothing and write nothing
are handled together (`Begins`). The counting argument, "no threshold is jumped
over", is `ResultKeepsRowOK`. `ImplementsKeyOrder` proves `Spec => OrderSpec`: steps of
requests, results and time leave the listing (`HealthStepsKeepOrder`), and those of the
administrator are steps of `KeyOrder` (`AdminStepsAreOrderSteps`).

`KeyTableProofs` has the facts about data that this and the next module rest on: ranks
are 1..n (`RanksAreDense`), the first of a set of rows exists and precedes the others
(`FirstIsFirst`), create, delete and reorder leave 1..n, a payload as long as the table
that names every row repeats none (`AcceptedPayloadIsPermutation`), which is why the code
may do without a check for repeats, and what each statement does to the listing
(`ListingStays`, `ListingGrows`, `ListingShrinks`, `ListingPermutes`). The argument is
counting, with the library's theorems on finite sets.

`PriorityRewriteProofs`. `NoWriteClashes` needs to know what an open transaction has
done. While it shifts (`Shifting`), a row has its committed number or that number plus
the shift, and the rows still to come are those of the first kind. While it assigns
(`Assigning`), the entries before the next one have the numbers 1, 2, ... and all others
are beyond the shift, so the next number is free. The committed table has at most as
many rows as the shift, because its numbers are dense and `MaxId` is at most the shift.
`CommitsAreTheOperations` adds which operation on the committed table a transaction
carries out, `ImplementsKeyOrder` that each of those is a step of `KeyOrder` and that
statements and rollbacks are none.

`AccessProofs` has three parts.

- `Sessions`. Nothing but a version tells the sessions of one key from those of another,
  and a handler carries a version from its read to its cookie. `IInv` relates them:
  whoever carries the version in force knows the key in force, and nobody carries a
  version that is to come (`Pair`). It holds of cookies and of handlers that verify or
  issue, and survives a reset because the version moves with the key in one statement.
- `PublicApi`, for any administrator (`CallersInvariant`). A request needs no lock because
  all that it read was in force since it came: the hash it verifies against, the key that
  it passed with, the table that redirected its model (`CallOK`). That the body which leaves is
`RedirectedBy` that table is `LookupRedirects`: a model the decoder finds is one of the
fields, and once the body is encoded again `model` is the last of them. So the histories of a
  request under way always contain what is in force (`InForce`), and what was read can
  become old, but never older than the request.
- `Access`. A step of an administrator's request leaves the key alone or replaces it by
  another, so it is a step or a stutter of `PublicApi`, and a step of a client is a stutter
  of `Sessions` (`ServersApart`). Hence `ImplementsSessions` and `ImplementsPublicApi`,
  and what was proved of each holds of the program that has both. `Untouched` says what a
  row without a key means for both: no redirect, no session, no hash that a request could
  verify against.

`AccessAssumption` says of clients what the code makes of them: `text` and the upstream's
secret are no downstream keys, clients send a key in the two headers that are looked at and the
upstream's secret in none, and no redirect has an empty name (`normalizeModelRedirects`).

`ConfigUpdateProofs`. A call that is to write holds columns as it read them; those in
which the row has changed since are in `raced`. Of a transaction, what it inserted,
followed by what it still has to insert, is one validated list (`Builds`), and only
the call that holds the connection is at a statement of it. The assumption on
`RedirectLists` says what a list is: a sequence of pairs of names.

`AdminKeysProofs`. What an edit is to write back is the row's, or another call changed
it in between and it is in `raced`, or the row is gone; ids are never given out twice, so
a call cannot find another key under its id. What a refresh fetched belongs to a secret
the key had (`had`).

`RequestLogProofs` has two parts.

- `RequestLog`. `TheLogIsComplete` needs that a request under way has a row left (`Room`),
  that a refusal names no key, and that a cleanup's cutoff is not ahead of the clock.
  `ImplementsLogTable` proves `Spec => TableSpec`: a step of a request, of a deletion or of the
  cleanup is a step of `LogTable` or leaves it alone.
- `LogPage`, beside writers that keep to `LogTable`, with any number of loads and any
  page sizes. A row has a depth in the list that the reader filters, counted over all rows,
  expired ones included. While a row is owed, in the window and not shown (`Waiting`), it
  only gets deeper (`WaitingGetDeeper`): an inserted row pushes others down, and a removed
  one is older than the window, so behind it. `PageIInv` says that such a row is at least as
  deep as the pages go without a gap (`Deeper`), and of an answer that joins on, that the
  row is on it or deeper still, and on it if it is not full (`Joined`). Positions are
  0, 1, ... without a gap (`PositionsAreDense`), so a page that is not full is the last
  (`FullPage`). An answer that is shown extends the depth by just this much, in any order of
  answers; one that fails changes nothing. `SmoothOK` adds what holds as long as no load
  failed and none overlapped another: there is one load at a time, for the offset the
  page has, and between two loads the pages shown reach past it.

The assumptions say that a page has room for a row and that requests at any time are
finitely many.

`ServiceProofs`. `Booted` says how far `app.New` has come with the file: while it
migrates, every statement before the next one has taken effect, and while a process takes
the database for new, the settings it may replace are not the administrator's. `Stopping` says for every program point of the shutdown which
server no longer accepts (`Silent`) and which has finished its requests or used up the
grace (`Quiet`); the database is closed last because both hold of both servers there.
The grace has to be positive.

Only model-checked:

- Liveness: `CooldownIsTemporary`, `OnlyPeersHang`, `ServesAgain`, `ShutdownEnds`,
  `ExpiredRowsGo`, `CallsEnd`. Fairness is about ENABLED, which the prover does not handle.
- What the violation runs show, which is false.

Induction over data is out of the prover's reach as well (the library's induction
theorems take operators as parameters), and so are RECURSIVE operators. No module
declares one, and where a proof seems to need an induction, it counts instead.

## 5. Not modelled

- Token counts except whether a row can hold them, log texts, page layout and
  templates (`web.go`), the route filter of the log page (it works like the filter on
  the result, on a column that never changes).
- Cryptography: a hash stands for its key, a ciphertext for its text.
- SQLite, `database/sql` and `net/http` themselves. Taken from them: transactions are
  atomic, unique indexes and foreign keys are checked row by row, ids are never given
  out twice, the pool serves waiting calls in order, `Shutdown` closes a listener and
  waits for its requests. What happens when the pool replaces its connection, which
  then has no `PRAGMA foreign_keys`, or when a copied `Content-Length` does not fit
  the error that is sent, is their business.
- That a request to `PUT /admin/api/config` is saved as a whole: settings and redirects are
  two transactions, the first stays if the second fails, and the caller is told of an
  error (`router.go:264-279`). `ConfigUpdate` has this outcome (`Fails` after `Write`); the code
  promises nothing else, so no property is about it.
- Statistics: `Get24hStats` and `Status` are a statement each, and no code relates
  their results.
- The pages other than the log's: what their forms send is an arbitrary input of the
  server's models, what they show is one answer of the server. A 401 that a page catches
  is shown as a message, although `common.js:73` means to go to the login.
- More than one process on one database file.

## 6. Plan

Done, the most important behaviour first: `KeyTable`, `Failover`, their proofs,
`KeyOrder`, `PriorityRewrite`, `Sessions`, `Startup`, `LogTable`, `RequestLog`, `LogPage`,
`ConfigUpdate`, `AdminKeys`, `PublicApi`, `Lifecycle`, `Service`, `Access`, and the proofs of safety and
refinement for all of them. What is left is out of the prover's reach (section 4) or not
modelled (section 5).

## 7. Running

    tlc -workers 2 -config Failover.cfg MCFailover.tla
    tlc -workers 2 -config PriorityRewrite.cfg MCPriorityRewrite.tla
    tlapm FailoverProofs.tla

and likewise for the other runs of section 3 and the other proof modules.
