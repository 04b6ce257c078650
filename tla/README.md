# TLA+ models of svgstat

svgstat serves hit counters, badges and web analytics from Redis, keeps the
durable data in PostgreSQL, and runs as any number of API processes
(`cmd/api`), each with a flush worker. This directory models the parts of it
whose correctness depends on order: what several requests, workers, instances,
expiring keys and failing stores do to each other. TLC checks the models on
small instances; TLAPS proves, for every value of the constants, the types and every
safety property that the runs check, and leaves the liveness properties to TLC.

## 1. Inventory

| Component | State | Operations | What is hard, and what makes it correct | Model |
|---|---|---|---|---|
| Counters (`internal/counter`) | `project:<id>:counter:<name>` with a sliding TTL and the registry set `project:<id>:counters`, in Redis; `project_counters` in PostgreSQL | `Increment`, `IncrementWithAnalytics`, `Get` (`Set` has no caller) | Each is several commands: expiry, reload and other requests come between. No number shown is lost, repeated or counted twice. | `Counter`, `HitCounter` |
| Flush worker (`internal/worker`, `cmd/sync`) | the ticker, an advisory lock in PostgreSQL, `daily_statistics` | `Start`, `flushIfLeader`, `FlushOnce`, `flushCounters`, `upsertDailyStats` | Rounds overlap, fail half-way and write values read earlier. The durable values never go back; what is in Redis gets there. | `Counter`, `DailyFlush`, `Funnel` |
| Project repository (`internal/project/postgres.go`) | `projects` and its side tables | create, read, update, soft delete, counters | `Update` writes back a whole row read earlier. | `RuntimeCache`, in part |
| Runtime cache (`internal/project/runtime_cache.go`) | process memory of every instance, a record per slug in Redis, pub/sub messages | `GetBySlug`, `Put`, `Invalidate`, `Warm`, the subscriber | Loads race with refreshes, messages get lost. Staleness is bounded; an undisturbed write reaches every instance. | `RuntimeCache` |
| Management API (`internal/api`) | none of its own | create, edit, tracking, delete of projects; collection; rendering | Row first, caches after it, errors of the latter only logged. | with the components it calls |
| Administration (`internal/admin`) | `users`, `projects`, `admin_audit_logs` | user and project status, capabilities | One transaction with its audit entry, then the cache. Two administrators change each other. | `RuntimeCache`, `Accounts` |
| Analytics ingestion (`internal/analytics`) | some forty keys per project and day in Redis | page views, events, funnels, cardinality guards | Caps hold under concurrency; a funnel is read, advanced and written back. | `Sessions`, `Funnel` |
| Session statistics (`sessions.go`) | session hash per visitor, aggregates per day | one Lua script | Events arrive late and across midnight; the aggregates must stay consistent with each other. | `Sessions` |
| Conversion (`internal/conversion`) | goals and funnels in PostgreSQL, definitions in Redis | create, update, delete, `Warm` | Count-then-insert limits; PostgreSQL and Redis drift apart. | `Conversion` |
| Metrics queries (`internal/metrics`) | none | trend, analysis, issues, sessions, overview, installation, funnel report, web quality | A report joins rows and live keys of the same day, read at different moments. It counts a view once and loses none. | `Reports`, `Figures`, `Funnel` |
| Authentication (`internal/auth`) | `users`, `sessions` | register, login, validate, logout, bootstrap | A login in flight while the user is disabled; two registrations of one address. | `Accounts` |
| Rate limiter (`middleware.go`, `cache.AllowRate`) | a window per client in Redis, a map per process | `allow` | Falls back to local counting when Redis fails. | `RateLimit` |
| Visit stream, diagnostics | capped Redis lists | push, trim | Bound at the cap. | none |
| Migrations (`internal/migrate`) | `schema_migrations` | `Up` | Two migrators; a crash between two migrations. | none |
| API process (`cmd/api`) | server, worker, pools | start, shutdown | Order of shutdown and final flush. | its restarts are faults |
| Renderer, request metadata, GeoIP, configuration, observability, console and tracker | none, or read-only | | Pure functions or I/O. | none |

The components meet in two stores. A rendering request asks the runtime cache
for the project, then the counter for the number, then queues analytics. The
worker reads what requests wrote to Redis and writes it to PostgreSQL, from
which counters and caches are reloaded when their keys expire; reports read
both. Management calls write PostgreSQL and refresh the caches in Redis; the
runtime cache tells the other instances over pub/sub.

The hazards are listed one by one, with their lines and the properties that
cover them, in `PROJECT.json`.

## 2. Plan

Done, and described below:

1. `Counter`, and `HitCounter`, the abstract counter it implements, with
   `CounterProofs`.
2. `RuntimeCache`, with `RuntimeCacheProofs`.
3. `Sessions`, with `SessionsProofs`; `DailyFlush`, which extends it by the flush, and
   `Reports`, which extends that by the readers, with `ReportsProofs` for both;
   `Figures`, the arithmetic of the reports, with `FiguresProofs`.
4. `Conversion`; `Funnel`, which extends it by events, flush and report, with
   `FunnelProofs` for both.
5. `RateLimit`; `Accounts`, which extends it by logins, sessions and the change of
   a user's status, with `AccountsProofs` for both.

`Sums` has the lemmas on finite sums that sessions, reports, figures and the limiter
need.

Left: `Migrate` and `VisitStream`; the start and shutdown of the process around
the worker; the details of the event report; abstract specifications of the runtime
cache and of the daily flush, as `HitCounter` is for the counters.

Modules to be proved about use no recursive operators; every module has its
bounds as constants with a named assumption. The assumptions are what the code and
its configuration give: limits and lifetimes are positive, roles differ, and what is
counted (visitors, pages and campaigns of a project) is a finite set.

**Sums.** Many figures are sums over hashes, and a sum over a finite set is a fold. The
library's induction theorems take an operator as a parameter, which the provers cannot
instantiate. `Sums.tla` takes the predicate as a set instead (`NatSetInduction`, from the
well-foundedness of the finite subsets; `SubsetInduction`, from that), proves that the
fold is the function that adds one member at a time in any order (`AddsExists`,
`SumIsFold`, `AddsOnce`), and states what the proofs cite: a sum changes by what one
member changes (`SumChange`), is monotone (`SumAtMost`, `SumPart`), and splits over
disjoint sets and over its terms (`SumUnion`, `SumPlus`).

## 3. Counter

`Counter.tla` models one project. A variable per store: `cnt`, `ttl` (the counter
keys), `reg` (the registry), `pg` (`project_counters`); `req` holds the HTTP
requests and `wk` the flush rounds in flight.

| Code | Actions |
|---|---|
| `incr`, script | `IncrExisting` |
| `loadFromDB` | `Load`, `LoadFails`, `Seed`, `SeedFails` |
| `incr`, pipeline after a load | `IncrLoaded` |
| SADD of `Increment`, `IncrementWithAnalytics`, `Get` | `Register`, `RegisterFails` |
| `Get` | `GetKey`, then `Load`, `Seed`, `Register` |
| the handler | `Begin`, `Reply`, `Abandon` |
| `flushCounters` | `BeginRound`, `ReadValues`, `PruneName`, `PersistName`, `PersistFails`, `EndRound`, `AbortRound` |
| key expiry, loss of Redis | `Tick`, `LoseRedis` |

Each Redis command and SQL statement is a step, because each is atomic on its
server and nothing joins two of them; a Lua script is one step. The pipeline
INCR, PEXPIRE is one step too: nothing observes a counter between them. The daily
history key of `IncrementWithAnalytics` is left out; nothing reads it back. Its
SADD shares a pipeline with it and is `Register`.

**Time.** A tick is a third of `keyTTL` (72 h), so `KeyTTL = 3`. The comment at
`counter.go:40` promises that "the worker flushes well within keyTTL" (the
default interval is 15 minutes): `Tick` asks that a whole round began and ended
without error since the last tick. A request runs for seconds, so none is in
flight at two ticks in a row. A round may be of any age. With these assumptions
expiry can hit between any two commands.

**Faults.** A PostgreSQL read, a SETNX, an SADD of `Get`, an upsert or a whole
round may fail, and Redis may lose everything. Where the code then gives up what
it had promised, the name joins the history variable `lapsed`, and the
properties speak of the others: `NeverOvercounts` and `DurableNeverDecreases`
make no exception. `Abandon` (a client that goes away, an error or a process that
stops between two commands) is no such excuse, and always possible.

| Run | Instance | Checks |
|---|---|---|
| `counter` | 2 requests, 1 worker, 3 hits, 1 fault; 3.1 M states | `TypeOK`, `ServedIsKept`, `NumbersAreUnique`, `NeverOvercounts`, `ReadsAreFresh` |
| `counter_durable` | 1 request, 2 workers, 2 hits, 1 fault; 0.4 M states | `DurableNeverDecreases`, `ServedBecomesDurable`, `ImplementsHitCounter` |
| `counter_restart` | 1 request, 1 failed load | `ReloadedNotRestarted` is violated |

Two requests suffice for a race on SETNX, INCR and expiry, three hits for an
expiry between two numbers and another one after the reload; two workers for a
stale write. `MaxHits` bounds the increments begun, `MaxFaults` the faults. Names
do not interact, so one is checked; the proofs are for any set of names.

**Fairness.** Only `RoundStep` of every worker is weakly fair: `Worker.Start` loops
over a ticker until the process stops and a round runs to its end. Visitors,
requests and faults are not fair; `ServedBecomesDurable` holds although nobody
ever comes again.

**Finding.** `ReloadedNotRestarted` quotes the comment on `incrExistingScript`.
When `GetCounter` fails, `loadFromDB` only logs and `incr` runs INCR on the missing
key: the counter restarts at 1.

### Proved (`CounterProofs.tla`)

From `CounterAssumption` (a non-empty set of names, `KeyTTL` at least 3, natural
bounds), for any requests, workers and faults:

- `TypeCorrect`: `[]TypeOK`.
- `OvercountCorrect`: `[]NeverOvercounts`, inductive on its own together with the types.
- `DurableCorrect`: `DurableNeverDecreases`, a property of every single step.
- `KeptCorrect`: `[]ServedIsKept`. It is not inductive: whether the prune is safe
  depends on what requests and rounds in flight know. `KeptInv` adds, for every
  name that has not lapsed:
  - `NameOK`: every number served is durable or in a live, registered key; with
    `KeyOK` (a live key is at least every number served) and `RoundOK` (when a name
    is about to expire and a served number is not durable, no whole round has run
    since the last tick and every fresh round still has the name to do, and in its
    reading a value that covers the number);
  - `RequestOK`: the key a request found or made lives on while it works; a value
    loaded for a missing key covers everything served; a number issued is in the
    key; at `reply` the name is registered;
  - `SeedOK`: what is seeded is positive, and only `Get` is ever at its first step.

  `KeptNext` has one lemma per kind of step.
- `UniqueCorrect`: `[]NumbersAreUnique`, from `KeptInv`: a new number is greater
  than every number served or issued, because both are at most `cnt` or `pg`.

- `FreshCorrect`: `[]ReadsAreFresh`. `FreshInv` says of every preview in flight whose
  name has not lapsed that the number served before it began was served, is in
  PostgreSQL when the preview loads (it found no key, so by `KeptInv` every served
  number is durable, and `pg` never goes back) and is at most the value the preview
  goes on with. `IssueInv` (numbers given out are positive, only increments reach an
  INCR) is its other lemma.

Only model-checked: `ServedBecomesDurable`, because liveness under fairness is out
of the prover's reach.

### What it implements (`HitCounter.tla`)

`HitCounter` says what a counter promises in five actions: a visit is given a
number that nobody has seen or is about to see (`Hit`), sees it (`Show`) or not
(`Leave`); the durable number grows (`Persist`); a fault takes the promise from
some names (`Lapse`). Its fairness is that the durable number keeps growing as
long as a number shown is not durable. It knows no Redis, no expiry, no registry
and no reload, so it stands for no line of code.

`Promise` in `Counter.tla` is its instance: `durable` is `pg`, `shown` is `served`,
and `given` (`Given`) is the number of a request after its INCR. `ImplementsHitCounter`
(run `counter_durable`) checks safety and liveness of the instance. The load, the
seed, the registry and every step of a round but the upsert are stutters.

`RefinementCorrect` in `CounterProofs` is the safety half, for all constants: each step of `Counter` is an action of `HitCounter` or a stutter
(`KeptInv` and `IssueInv` are what makes the number of a `Hit` new, and
`DurableNeverDecreases` what makes a `Persist`). The liveness half is
model-checked; there, weak fairness of `Persist` is written with its ENABLED
condition (`Kept`) in full.

## 4. RuntimeCache

`RuntimeCache.tla` models one project and the slugs it may have: `row` is its row,
`mem` and `redis` the cached records with their TTLs, `inbox` the messages on
their way, `load` the loads in flight (singleflight: one per instance and slug) and
`call` the management calls. A version number stands for the content of a row and
0 for the record "missing", so that a stale record is one whose version is not
`Current`. `Program` lists the remote steps of each call in the order of the code:

| Call | Code | Steps |
|---|---|---|
| create | `handleCreateProject` | insert; Put |
| edit | `handleUpdateProject` | read, update; Invalidate(old, new slug); Put |
| tracking | `handleUpdateWebsiteTracking` | read, update; Put |
| delete | `handleDeleteProject` | read, remove; Invalidate |
| admin | `admin.updateProject` | transaction with audit entry; Put |

`Put` is `Store`, `Share`, `Announce` and `Invalidate` is `Drop`, `Unshare`,
`Recall`; each may fail where the code returns early (`ShareFails`,
`UnshareFails`, `PublishFails`). A load is `StartLoad`, `AskRedis`, `AskPostgres`,
`StoreMemory`, `StoreBackend` and the failures of these. `Restart` empties an
instance and leaves `Warm` about to store what it listed. Slug validation, the
unique index over several projects and the read-only handlers are left out.

**Time.** A tick is the memory TTL (10 s) when `MemTTL = 1`. Calls and loads last
less than two ticks; messages may be arbitrarily late. The real ratio of the two
TTLs (30) is not needed: the properties compare ages with the TTLs.

**History.** `raced` has the slugs whose refresh overlapped a load, another write
or a fault. `CoherentWhenQuiet` is about the others; `StalenessBounded` excuses
nothing.

| Run | Instance | Checks |
|---|---|---|
| `runtime` | 2 instances, 1 slug, 1 call, 2 loads, 2 commits, 1 fault; 2.3 M states | `TypeOK`, `StalenessBounded`, `CoherentWhenQuiet` |
| `runtime_rename` | 2 slugs, 1 load, no fault; 2.1 M states | `CoherentWhenQuiet` |
| `runtime_stale` | 2 instances, no fault | `InvalidationDropsStale` is violated |
| `runtime_audit` | 2 calls, statuses active and disabled | `StatusIsAudited` is violated |

**Findings.** `InvalidationDropsStale` (ARCHITECTURE.md:402): a load that read
PostgreSQL before a write stores its old record after the writer's refresh, in
memory and in Redis, and nothing removes it before the TTLs end. `StatusIsAudited`
(README.md:326): an owner's edit writes back the status it read, so it can undo
an administrator's disable without an audit entry.

There is no liveness property here: caches promise nothing beyond their TTLs.

### Proved (`RuntimeCacheProofs.tla`)

From `RuntimeAssumption` (an instance, a slug, "active" among the statuses, `RedisTTL`
at least `MemTTL`, which is positive), for any instances, slugs, calls and faults:

- `RuntimeTypes`: `[]TypeOK`; with `PcInv`, that no call is beyond its program.
- `Staleness`: `[]StalenessBounded`. The bound is not inductive, because an entry is
  copied from cache to cache. `AgeInv` says of every holder of a record how old it can be:
  in Redis and in memory the age and the rest of the lifetime are together at most the
  lifetimes and one tick, a record in a load or a call is at most a tick old, or as old
  as the Redis entry it was read from.
- `Coherence`: `[]CoherentWhenQuiet`. `CoherenceInv` says of every slug that nothing
  raced: either no call has written and all caches have the current row or a message on
  the way that will drop it (`Settled`), or exactly one call has, it carries the row as it
  is, no load of the slug is in flight, and each cache is fresh, is told, or is refreshed
  by a step the call still has to take (`Refreshed`). The order of the steps in `Program`
  is what keeps this: a call that forgets two slugs stores nothing before it has
  forgotten them.

Not proved: `InvalidationDropsStale` and `StatusIsAudited`, which are false.

## 5. Sessions

`Sessions.tla` models the page views of one project: `hit` holds the requests in
flight, `guard`, `day` and `sess` the keys of Redis (`exact_visitors_guard`, the
counters of each day, the session hash of each visitor). Redis hashes are functions
from the fields they have, so that a capped hash can be full.

| Code | Actions |
|---|---|
| `TrackPageview`, first lines of `trackRequestData` | `Begin`: the view takes its time and its day |
| `reserveExactVisitor` | `Reserve`, `ReserveFails` |
| the pipeline up to the script | `Count` |
| `updateSessionScript` | `Update` (`OpenVisit`, `ContinueVisit`) |
| errors, a client that leaves | `Abandon` |

The script is one step. The pipeline before it is another, because the server runs
commands of other clients in between. Bots, AI crawlers, the hourly and realtime
keys and the plain dimension hashes are left out; of the five segment dimensions one
that may be empty is kept, and the six attribution hashes, which count like
entrances, are not. TTLs of the day keys (72 h) are beyond the two days modelled.

**Time.** A tick is a third of `sessionTimeout` or less (`Timeout >= 3`); a view is
in flight for less than two ticks. `Midnight` is the first tick of the second day.

**History.** `seen` has the views the script counted, `late` how many came after a
view of the next day, `capped` the hashes that refused a field, `torn` whether Redis
lost data under a view in flight.

| Run | Instance | Checks |
|---|---|---|
| `sessions` | 1 visitor, 3 views, 2 requests, 2 pages, 8 ticks, 1 fault; 1.1 M states | `TypeOK`, `QualityConsistent`, `FlowConserved`, `SegmentsConsistent`, `SessionsMatchViews` |

`SessionsMatchViews` compares the script with a definition that sees all views of
the day at once (`Starts`). The bounds differ by the tick a view may be on its way
and by one visit for each late view: a view of yesterday that arrives after one of
today starts a visit of its own and makes today's next view start another, since a
visitor has one session hash. Three views are a visit of today cut in two by a late
view (four, without the fault, also pass: 1.8 M states in two minutes); visitors
share only sums, so one is enough here and two are in `daily_catchup`. Flow and
segment hashes reach their limits (1 and 3 fields), the page hashes do not.

### Proved (`SessionsProofs.tla`)

From `SessionsAssumption` (finitely many visitors, pages and campaigns, limits positive,
`Timeout` at least 3 ticks), for any number of them and of requests, any limits of the
hashes and any length of the two days. A step is one of three to all invariants
(`VisitCases`): it leaves the visits alone, it is a view, or Redis loses its data.

- `SessionTypes`: `[]TypeOK`. `ShapeInv` is the shape of all variables; `PagesInv`
  says that no visit has more pages than views are over, which bounds the page count.
- `QualityCorrect`: `[]QualityConsistent`. `FiguresInv` adds the visits under way: those
  of one page are among the bounces (a second page takes one away), and the exits of a
  page, or the visits that stand there, do not exceed the visits in sum. `CountInv`: the
  page views of the script and the views on their way to it are in `pv`.
- `VisitorsCorrect`: `[]VisitorsBounded`. `VisitorInv` follows a visitor from the
  reservation to the session: each is in the guard, then in the day's visitors.
- `FlowsCorrect`: `[]FlowConserved`. `FlowInv`: at each page, entries and inflow are exits
  and outflow, and every visit under way has its exit recorded at the page it stands on,
  so that the decrement of the exit never meets zero.
- `SegmentsCorrect`: `[]SegmentsConsistent`. `SegmentInv` says it of each segment and of
  the sums, with the visits under way that the full hash refused to count
  (`Uncounted`): their bounce is in the day's figure and in no segment.
- `VisitsMatch`: `[]SessionsMatchViews`. `LastInv` ties the session hash of a visitor to
  the last of his views; `MatchInv` bounds the visits by the starts among the views, and
  sets aside the visits that a late view has closed (`Owed`).

## 6. DailyFlush

`DailyFlush.tla` extends `Sessions` with `row` (`daily_statistics`), `round` (what
each worker or sync is doing) and `leader` (the advisory lock). `Workers` are the
workers of server instances, `Syncs` the runs of `cmd/sync`, which take no lock.

| Code | Actions |
|---|---|
| `flushIfLeader`, start of `FlushOnce`, `flushDates` | `StartRound` |
| the pipeline of `GetStats` | `ReadSome`, `ReadRest` |
| `hasTraffic` | `ReadRest`, second case |
| `upsertDailyStats` | `Upsert`, `Merge` |
| errors and crashes; end of the loop and unlock | `DayFails`, `NextDay` |
| the connection of the lock breaks | `LoseLock` |

**The pipeline.** `GetStats` sends its commands in a plain pipeline, no MULTI, so
commands and scripts of other clients come between any two of them. `Place` gives the
order in which they are sent; `ReadSome` answers the commands up to a place and lets
others go on, `ReadRest` answers the rest. A reading is thus of as many moments as it is
cut into. `Cuts` names the places after which it may be cut: the runs take those after
the page views and after the number of visits, where a figure and the one that is
compared with it are parted; the proofs hold for any set of places, all of them
included. What `GetStats` reads after the pipeline for funnels is in `Funnel`; the
audience segments are left out. `ReadRest` may skip a day without page views or not,
because bots, requests and events, which are not modelled, are traffic too.

A view's INCR of the page views and SADD of the visitors, which share a pipeline with
the INCR first, are one step of `Sessions`: apart, they could only show fewer visitors.

**The lock.** The advisory lock lives on one connection. When it breaks, PostgreSQL
frees the lock and the round goes on over the pool (`LoseLock`), so that a second
worker may run beside it.

**History.** `lost` says that Redis lost data, `overlapped` that a round ran beside one
without the lock, `most` is the most visits the keys of a day ever counted, and `cut`
has the days of which a reading was under way, its visits counted and the rest not, when
Redis lost its data.

**Fairness.** `RoundStep` of every worker, for the same reason as in `Counter`.
Views, syncs and faults are not fair.

| Run | Instance | Checks |
|---|---|---|
| `daily_catchup` | 1 worker, 1 sync, 2 visitors of whom 1 may be followed, 2 requests, 2 cuts; 0.5 M states | `VisitorsBounded`, `RowsMakeSense`, `HistoryCatchesUp` |
| `reports` (section 7) | 2 workers, 1 reader | `DailyTypeOK`, `VisitsNeverGoBack`, `CountsNeverGoBack` |

Two workers are a contest for the lock, or a stale write when the lock is lost; a sync
beside a worker is a stale write; and a view after a loss of Redis is a key that counts
from zero beside an older row. `MaxTime` ends on the second day, so that both days stay
within `flushDates`: a worker that is down for all of the day after loses what was not
flushed, which no code prevents.

What the model shows: the figures of a row need not be of one moment. The number of
visits is read before the bounces, entries and exits, so a row may hold more of these
than visits, and more visitors than page views; but the page views of the visits are
read after the visits, so there are pages for all of them (`HavePages`), and no figure
exceeds the visits the day ever had (`OfVisits`). The next round mends the row
(`HistoryCatchesUp`). Only when Redis loses its data in the middle of a reading are
there visits without their pages.

### Proved (`ReportsProofs.tla`)

From `DailyAssumption` and `SessionsAssumption`, for any workers, syncs and faults:

- `DailyTypeCorrect`: `[]DailyTypeOK`, with the lock: the worker in a round is its
  holder. `RoundsInv` adds the shape of days, rows and rounds.
- `VisitsCorrect`: `VisitsNeverGoBack`. `MergeNotOlder` is the argument: each CASE
  chooses by the same comparison, so they choose together.
- `CountsCorrect`: `CountsNeverGoBack`. `OrderInv` says that, unless a round without
  the lock runs beside it, a round is alone, and that the row is at most what a round has
  read and that at most what the keys hold (`RowBehind`); `TrackGrows` shows that views
  only add.
- `RowsCorrect`: `[]RowsMakeSense`. `ReadingsInv` follows a reading, command by command,
  from the keys, where `FiguresInv` says that they make sense, through the round to the
  row, where `Merge` takes one of two readings whole. Between the commands the keys only
  move on: a bounce that ends brings a page, a visit that begins is behind the number
  already read.

Only model-checked: `HistoryCatchesUp`, which is liveness.

## 7. Reports

`Reports.tla` extends `DailyFlush` with `report`, what each reader has read so far,
and `peak`, a history of the most views each day's keys ever counted. A report takes
its last day from the clock, reads the rows of its days in one SELECT and the keys
of the present day in Redis, and joins the two counts of that day in Go.

| Code | Actions and operators |
|---|---|
| the handlers, `GetTrend`, `GetAnalysis`, ... | `Ask` |
| the SELECTs over `daily_statistics` | `ReadRows`, `ReadRowsFails` |
| `GetTodayStats` takes the day, and its pipeline is answered | `AskLive`, `ReadLive`, `ReadLiveFails` |
| the times of the installation, one command | `ReadInstallation`, `ReadLiveFails` |
| the JSON | `Answer` |
| `maxPoint`, `maxDailyStats`, `maxIssueStats` | `MaxPoint` |
| `buildTrend`, `GetAnalysis`, issue totals | `Trend`, `Analysis` |
| `latestSessionQualityStats`, `addSessionQualityStats` | `Latest`, `PlusVisits`, `SessionQuality` |
| today's overview, installation status | `Overview`, `Installed` |

Four kinds of report differ in what they read and how they join it. The trend, the
analysis and the issues read the same columns and are one kind (`traffic`). The
overview and the installation status ask Redis first. A reader that fails leaves
no trace; a reader may start again.

The joins are operators of what was read, so the invariants apply them in the state
before `Answer`, for every length in `Ranges`. `peak` and `floor` are history: a day
never shows more views than were counted at once, nor fewer than there were when the
report began while Redis answers and keeps them. The pipeline of a report is cut at
`Cuts` like that of a round. The visitors are read after the page views, so a day may
show more visitors than views when a first view comes between the two; it never shows
more visitors than the views its keys ever counted.

| Run | Instance | Checks |
|---|---|---|
| `reports` | 1 visitor, 2 views, 2 days, 2 workers, 1 reader, 1 fault, 2 cuts, at most 2 busy; 1.3 M states | `DailyTypeOK`, `ReportsBracketed`, `AnalysisCountsOnce`, `QualityReportMakesSense`, `VisitsNeverGoBack`, `CountsNeverGoBack` |

`MaxBusy = 2` lets every two of a view, a round, a round that lost its lock and a report
overlap, as in `daily_catchup` any two of two requests, a worker and a sync. After a
fault the rest goes on alone, but for a session report after a loss of Redis, which
overlaps as before, and for a second round beside one that lost its lock. One reader is
enough, because readers write nothing.
Ranges of one and two days have a previous period inside and outside the two days.

What the model shows about midnight: a report that took its last day before
midnight and read Redis after it joins the new day's keys to the old day's row.
`PeakOfToday` allows that. After midnight yesterday is only what was flushed. Both
are bounded, not repaired, by the code.

Left out: the lists of top pages, sources and dimensions, the percentages of change
and the event report's details, which are sorts and sums of what was read.

### Proved (`ReportsProofs.tla`)

Also from `ReportsAssumption` (the lengths of a report are positive), for any readers
and lengths. `ReadersInv` is the invariants of the sessions and of the flush, with:

- `PeakInv`: the keys of a day, its row and what a round has read for it count no more
  views and no more visitors than the peak of the day;
- `ReportsInv`: what a report has read fits its day; as long as Redis kept its data, the
  views there were when the report began are still in the keys, or in what it read
  (`FloorKept`).

From them follow

- `ReportsBetweenReadings`: `[]ReportsBracketed`;
- `AnalysisCorrect`: `[]AnalysisCountsOnce`, since the days added are disjoint;
- `QualityReportCorrect`: `[]QualityReportMakesSense`. The figures of one day are one
  reading, of its row or its keys, with no more visits than the day had and pages for all
  of them; two such figures added have the same, and a fold carries that over the days.

## 8. Figures

`Figures.tla` is the arithmetic of the reports over totals that `Reports` reads:
yesterday up to this hour (`today_overview.go`), the findings and the status of the
issue report (`issues.go`), and the rating of the web quality (`metrics.go`). It has
no state. Rates and averages are fractions compared by multiplying out; the code's
floating-point rounding is left out.

TLC evaluates three assumptions of `MCReports` on small totals before the run
`reports`: `SamePeriodIsBounded`, `ScaledIsNearest` and `StatusTellsAllOfThem`.

`FiguresProofs.tla` proves, from `FiguresAssumption` and for totals of any size:

- `SamePeriodGrows`: yesterday up to an hour is at most all of yesterday, never falls
  as the hour advances and ends at all of yesterday, although the hours count
  returning visitors again. Its assumption `total > 0 => full > 0` is what the code
  keeps: a visitor of an hour is a visitor of the day.
- `SamePeriodOfHours`: the same of the sums over the hours themselves, whatever the
  hours hold.
- `ScalingRounds`: the scaling rounds to the nearest whole visitor, as `math.Round` does.
- `WorseKeepsIssues`: with fewer views, fewer conversions, slower pages or more errors
  (`Worse`) no finding disappears or gets a lower severity. The thresholds combine an
  absolute and a relative condition; the theorem says they leave no gap.
- `StatusTellsAll`: the status is critical exactly when a critical problem was found,
  and not a warning when none was, also when the list is cut off at `MaxShown`.
- `SilenceIsReported`: 20 views in the previous period and none in this one are
  critical, although the code looks at the last day with views.
- `PoorIsCritical`: what one report rates as poor the other calls critical.

## 9. Conversion and Funnel

`Conversion.tla` models goals and funnels of one project: `goals` and `funnels` are
tables of PostgreSQL, `defs` is the hash `funnel_definitions` that collection reads,
`call` the management calls and starting processes.

| Code | Actions |
|---|---|
| `CreateGoal`, `DeleteGoal` | `CountGoals`, `InsertGoal`, `DeleteGoal` |
| `CreateFunnel` | `CountFunnels`, `InsertFunnel`, `CacheFunnel` |
| `UpdateFunnel` | `CheckUpdate`, `UpdateRow`, `CacheFunnel` |
| `DeleteFunnel` | `DeleteRow`, `DropField` |
| `Warm`, at every start of an API process | `WarmDrop`, `WarmQuery`, `WarmFill` |
| errors, the end of the process | `CallFails` |

A goal that is updated keeps its id and the update is left out. `Warm` scans and
deletes the hashes, lists the rows, and writes field by field; while it runs events
find some or none of the funnels. The history variables name the funnels whose field
may be missing because a command failed (`untold`) and the fields that may outlive
their row (`leftover`).

`Funnel.tla` extends it with the events, their counts and the two readers of the
steps. `task` is a collect request, one step per round trip:

| Code | Actions |
|---|---|
| `boundedEventName` | `TakeName`, `NameFails` |
| `reserveExactVisitor` | `TakeVisitor` |
| the pipeline of `TrackEvent` | `Store` |
| `advanceFunnels` | `ReadDefinitions`, `Look`, `LookFails`, `WriteStep`, `SetState`, `SetSegments` |
| the TTL of the visitor's state | `Expire` |
| flush of `funnel_steps` | `StartFlush`, `ScanDefinitions`, `CountStep`, `UpsertSteps` |
| `GetFunnelReport` | `StartReport`, `ReadRows`, `ScanDefinitions`, `CountStep`, `Show` |
| dropped errors of `GetStats` | `ScanDefinitionsFails`, `CountFails` |

The commands of a loop are single steps, also those that share a pipeline: the SET of
the state and the SET of the segments may be apart. `earned` (history) is the part
of a funnel that the events of a visitor, in the order they are looked at, have
completed.

`Flushers` are those that flush: the worker with the lock, and beside it a run of
`cmd/sync` or a worker that lost its lock (section 6), which call the same `FlushOnce`
without it. The lock is not modelled again here: any two flushes may overlap. `held` (history)
is what was stored of the day when a flush began.

| Run | Instance | Checks |
|---|---|---|
| `funnels` | 1 visitor and 1 stranger, 2 event names, 1 segment, a funnel of 2 steps, 2 managers, 2 tasks, 2 flushers, 2 days, 1 fault, 4 pieces of work, 2 at a time; 0.9 M states | `FunnelTypeOK`, `StepsNested`, `NoStepUnearned`, `GuardsHold`, `ReportBracketed`, `LimitOvershoot`, `DefinitionsFollow`, `StoredStepsKept` |

Of the four pieces of work (`MaxWork` counts events, calls, flushes, reports and faults)
`MaxSent = 3` may be events and `MaxBeside = 2` calls, flushes and reports: two events, a
flush and a report; two events, a report and a lost read; two events and the two flushes
that overlap, of which the older writes last. Two at a time are the two events that read
one state, or two flushes. The stranger fills the day's visitors in half of the initial
states, so that the visitor is not followed. `SegmentLimit` is met by the segments of two
steps, `MaxFunnels` is one, so that two calls exceed it. The cap on names is not met by
the two names the funnel needs; `Guarded` proves it for any limit.

What the model shows: the limits of goals and funnels are exceeded by as many calls as
overlap, less one (`LimitOvershoot`); a delete beside a create, an update or `Warm`
may leave a field without a row, and a failed HDEL does (`leftover`): `DefinitionsFollow`
says that no other field is wrong and none is missing; a name taken
before midnight may be counted on the next day, one beyond that day's cap (`crossed`);
a flush whose dropped reads failed overwrites stored steps by smaller ones, and so does
one that read before another flush and writes after it, though by no less than what was
stored when it began (`StoredStepsKept`). A loss of Redis is not modelled here: the definitions return only
with the next start of an API process.

A report counts the steps of its own funnel only (`Counts`), a flush those of every
funnel that is defined.

### Proved (`FunnelProofs.tla`)

From `ConversionAssumption` and `FunnelAssumption` (finitely many managers, step lists of
2 to `MaxSteps` names, positive limits, no more strangers than the limit of visitors), for
any managers, visitors, events, lists and faults:

- `FunnelTypes`: `[]FunnelTypeOK`;
- `Overshoot`: `[]LimitOvershoot`. `LimitInv` counts the calls between count and insert
  as rows;
- `DefinitionsAgree`: `[]DefinitionsFollow`. `DefsInv`: each funnel has its field, or a call
  on the way brings it, or it is `untold`; each field has its funnel, or a call is about to
  drop it, or it is `leftover`;
- `Nested`, `Earned`: `[]StepsNested`, `[]NoStepUnearned`. Two events that read one state
  write the steps again; `StepInv` and `WriteInv` say that a loop has the steps behind
  it counted and writes none beyond what the visitor has earned, `MemberInv` the same of the
  segments;
- `Guarded`: `[]GuardsHold`, from `GuardInv`;
- `ReportsBetween`: `[]ReportBracketed`, and `StoredSteps`: `StoredStepsKept`. `ScanInv` and
  `ReportInv` bound what a scan has counted by what there is. `Complete` says which steps of
  which funnels a scan has done, and that they are no less than what a report had to show,
  or a flush found stored, when it began: what is stored never exceeds the steps counted in
  Redis, whoever else flushes.

All parts need that a funnel keeps the list it was created with, in every copy however old:
`Lists` says that there is one list per id which table, cache, calls, events and scans
follow. It is part of the one inductive invariant `Inv`.

## 10. Accounts and RateLimit

`RateLimit.tla` is the limiter for one client address: `shared` is the counter in
Redis with its TTL, `local` the entry of each instance, `reached` the instances Redis
answers. `passed` (history) has the attempts let through, by age. When Redis does not
answer, the script may have run all the same.

`Accounts.tla` extends it: `account` (`users`), `sessions`, `holder` (the transaction
that holds a user's row), `log` (`admin_audit_logs`), `call` and `cookie` of each
client.

| Code | Actions |
|---|---|
| `authRateLimitMiddleware` | `Knock` (`Allow`) |
| `Register` | `CheckFree`, `InsertUser`, `InsertSession`, `Reply` |
| `Login` | `SelectUser`, `InsertSession`, `Reply` |
| `Logout` | `Logout` |
| `authMiddleware`, `adminMiddleware`, `ValidateSession` | `Enter` |
| `UpdateUserStatus` | `LockUser`, `Commit`, `Deadlock` |
| start of a process, `BootstrapAdmins` | `Restart` |
| errors, a client that leaves | `CallFails` |

Each statement of `auth.go` commits on its own. A change of status is a transaction:
it holds the target's row from its SELECT FOR UPDATE on, and the rows it writes refer
to users, so that inserting a session or an audit entry waits for whoever holds that
user (the locks of foreign keys). Two administrators who change each other wait for
each other; PostgreSQL ends one of them. The password check is its success, the update
of `last_login_at` has no effect on anything modelled, and tokens never repeat.

| Run | Instance | Checks |
|---|---|---|
| `accounts` | 2 users in ADMIN_EMAILS, 2 clients, 1 instance, 5 requests, faults and ticks of which 2 may be ticks and 1 a fault, limit 2, sessions of 1 tick; 1.0 M states | `SessionsRevoked`, `SessionsWork`, `RegisteredOnce`, `AuditChain`, `RateBounded`, `AdminRemains` |

Two clients are a login beside the disabling of its user, or two administrators who
change each other; four requests are two logins and two changes. Both users may be
administrators from the start. A second instance only adds a counter to the limiter;
`RateBounded` is about every counter for itself: while Redis does not answer, an address
gets the limit once more from every instance.

What the model shows: README.md:326 says that disabling a user revokes all sessions
immediately. A login that had passed its look at the status may insert its session
afterwards. It lets nobody in while the user is disabled, because every request looks
at the status again, but it works once the user is enabled (`born`). A window that
begins with its first attempt lets less than twice the limit through in any stretch as
long as a window. Two administrators may disable each other, one after the other, when
both were let in before; nothing else leaves the installation without one
(`outrun`).

### Proved (`AccountsProofs.tla`)

From `AccountsAssumption`, for any users, clients, instances and faults:

- `RevokedCorrect`: `[]SessionsRevoked`;
- `AuditCorrect`: `[]AuditChain`;
- `AdminCorrect`: `AdminRemains`, a property of every step;
- `SessionsCorrect`: `[]SessionsWork`, and `RegisteredCorrect`: `[]RegisteredOnce`;
- `RateCorrect`: `[]RateBounded`.

One inductive invariant, `Inv`, carries the first three. `SessionInv` is the first half of
`SessionsRevoked`; `CallInv` says what a request that was let in still knows of its
user (he has a row, is an administrator, and is not disabled unless he was disabled
since); `HolderInv` says that a call about to commit holds its target's row, whose
status is the one it read, which is why the log has no gap (in the order of commits: the
`created_at` of an entry is the time its transaction began); `LogInv` leads from
"active" to the present status. Each step has a lemma; a failed call, a deadlock and
a restart are one kind of step (`Stops`).

The next two need `GivenInv`, which follows every session from its INSERT on: each is
given to one client (`OwnerInv`) and works until it was to end or its user was disabled
(`WorksInv`); of the registrations of an address one has inserted the row, and stands for
it until its session does (`NewInv`). A new session differs from all that are known,
because every token and every request that will draw one has cost a call (`CountInv`), so
that one of the tokens is free.

`RateInv` follows each counter: the attempts let through since its window began are at
most the count and the limit (`WindowOpen`), and those still within a stretch of a window
before that one less than the limit, because the attempt their window began with is
older (`WindowClosed`).

## 11. Not modelled

- Migrations: what two migrators do to each other is decided by the statements of the
  SQL files, which are not code.
- Visit stream and diagnostics: capped lists that nothing else depends on.
- Attribution, AI detection, request metadata, GeoIP, the renderer, the console, the
  tracker: functions of one request, without shared state.
- Configuration, connections, observability: reading of variables, set-up, output.
- The API process: start and shutdown are straight lines. A shutdown that takes more
  than 30 seconds skips the final flush; what was not flushed is still in Redis for
  the next worker, as after the crashes of `Counter` and `DailyFlush`.
- Of modelled components: `Counter.Set` (no caller), the per-day history key of a
  counter (not read back), limits and listings of projects, capabilities, widgets and
  rendering, the plain dimension hashes, hourly and realtime keys, AI visits and event
  values, which are counted like the figures that are modelled.

`PROJECT.json` gives the same per component, with the hazards no property covers.

## 12. Running

    tlc -config MCCounter.cfg MCCounter
    tlapm CounterProofs.tla
    tlapm RuntimeCacheProofs.tla
    tlapm SessionsProofs.tla
    tlapm ReportsProofs.tla
    tlapm FiguresProofs.tla
    tlapm FunnelProofs.tla
    tlapm AccountsProofs.tla
    tlapm Sums.tla

The other configurations are in `PROJECT.json`, with what each checks. A run takes one
to three minutes with two workers; `SessionsProofs` and `FunnelProofs` take five to ten
minutes to prove from nothing, the others up to four. Only model-checked are the liveness
properties, `ServedBecomesDurable`, `HistoryCatchesUp` and the liveness half of
`ImplementsHitCounter`: liveness under fairness and ENABLED are out of the prover's reach.
