# data-core: TLA+ models, checks and proofs

data-core collects data (e-commerce prices, crypto candles, sports odds and
results), keeps the raw payloads in PostgreSQL, normalizes them, computes
analytics over them, and watches and heals the pipeline that does so. This
directory holds TLA+ models of the parts where several processes meet on
shared state, the TLC instances that check them, and theorems about them
checked by TLAPS.

Contents: [system](#1-the-system) · [modules](#2-the-modules) ·
[runs](#3-the-runs) · [proofs](#4-what-is-proved) · [findings](#5-findings) ·
[limits](#6-what-is-not-modelled) · [plan](#7-plan)

To check everything here: `tlc -config <cfg> <MC module>` for each row of the
table in section 3, and `tlapm` on each of the eight `...Proofs` modules.
`PROJECT.json` gives, for every definition, the source lines it models, and for
every property a mutated definition under which TLC finds it violated. A
mutated definition stands just before the one it mutates, with the comment
`mutant`; no specification uses it.

## 1. The system

Three long-lived processes (`docker-compose.yml`) share one PostgreSQL and one
Redis: the API (`app/main.py`), the scheduler (`scheduler/service.py`,
APScheduler) and the worker (`app/jobs/worker.py`). A fourth, the trading bot,
has its own SQLite database and an account at an exchange. Nobody holds a
cross-process lock: exclusion inside the scheduler is APScheduler's
`max_instances=1` per job; between the containers there is only what the tables
say and what the database constrains.

| component | state it keeps | operations | hard part | what makes it correct |
|---|---|---|---|---|
| RAW ingestion (`app/raw`, `workers/collector_worker.py`) | `raw_collections` and `collected_records`, each with a unique key; `collector_versions` | a run saves its items one by one in one transaction; duplicates found by look-up or at a savepoint | two runs of one collector: conflicts at every insert, waits in different orders | a run stores its whole batch or nothing; one row per payload, reported as new once |
| Normalization stage (`app/normalization`) | `processing_status` of RAW rows, normalized tables, `normalizer_versions` | `BaseNormalizer.run`: load a batch, save row by row, record failures | three kinds of session (worker, scheduler job, API) over the same batch; rollback in the middle; crash before commit | no candle twice, no status without its row, nothing usable dropped, nothing pending for ever |
| Analytics stage (`app/analytics`) | `analytics_status` of normalized rows, analytics tables | `BaseAnalyticsProcessor.run` | the same | processed means computed; nothing pending for ever |
| Collector runs (`workers/collector_worker.py`) | `collection_runs` | run a collector, write its outcome | a process that dies or outlives its TTL | a run ends; its outcome stands |
| Stale-run sweep (`cleanup_stale_runs_job`) | none of its own | mark stale runs failed, then check the circuit of their sources | reads, then writes by primary key in a later transaction | cleans only what still runs |
| Source circuit breaker (`scheduler/circuit_breaker.py`, endpoints of `app/pipeline_api.py`) | `collection_targets.active`, unresolved `CircuitOpen` errors | check, open, reopen, resolve | sweep, operator and seeding of default targets overlap | opens on failures only, once, and holds until an operator says otherwise |
| Target runner (`run_collection_targets_job`) | what it loaded | load, lock, scrape a group | scheduler and API both run it | a target is scraped by one runner at a time |
| Auto-healing watchdog (`app/auto_healing`) | Redis: cooldown windows and circuit keys; a history file | detect, heal, verify, notify, append | it restarts Redis, where its budget lives, and the container it runs in; `with_retry` repeats whole runs | restarts are bounded, failures open the circuit, silence means health, healing resumes |
| Trading bot (`domains/crypto_coin`) | a position in memory, in SQLite and at the exchange; the day's loss in memory | tick, buy, sell, restore | a lost answer or a crash between an order and its record | the three agree after every restart; a stored stop never moves down; the daily limits hold |
| Incident history (`app/incident_history`) | history rows, one pattern per alert | aggregate (job and endpoint), record by hand | a failed flush makes the whole session unusable; row waits and deadlocks | every processed event is recorded; a pattern never counts what is not there, and lost counts come back |
| Signal outcomes (`modules/trading/validation`) | `trading_signal_outcomes`, one per signal | evaluate the oldest open signals | late candles, overlapping runs, unevaluable signals ahead of others | an outcome is settled when written; one per signal; none waits for ever |
| Edge validation (`modules/crypto/edge`) | `trading_edge_outcomes`, no unique key | scan the oldest signals at each horizon | overlapping runs, a scan that starts over each time | rows bounded by what overlaps; what is scanned is evaluated |
| Incident bus | `incident_events` | webhook upsert, mark processed | all alerts of a webhook in one transaction | every firing is offered to the agent |
| Alert router (`app/alerts`) | rate counters and dedup keys | send, throttle | check before, record after the message | a bounded number of messages |
| Self-healing coordinator (`app/pipeline/self_healing.py`) | a trigger file | diagnose, throttle, trigger | read, decide, replace by concurrent evaluations | at most three triggers an hour |
| Pipeline recorder and liveness | `pipeline_runs` | record, classify from the five latest runs | processes that die inside the recorder | STALLED, DEAD and ALIVE mean what they say |
| Retention | none of its own | delete by age and status | bulk deletes in one transaction | nothing needed is deleted |

The rest (research engines, reports, sports models, read-only endpoints, the
knowledge and intelligence layers) computes a result from a snapshot: no state
that two actors share. `PROJECT.json` "components" names every part with its
status, and "hazards" lists what can go wrong at which line.

Interactions. Collectors write RAW rows; the stages find their work by status
and hand it on by status, never by message. The sweep reads what collectors
wrote and writes into the same rows; the circuit it opens deactivates the
targets the runner loads. The watchdog reads all of the above through health
checks and acts on the containers, its own included. The outcome trackers read
what the normalizers (candles) and the analytics (signals) have written, at
whatever delay. The trading bot shares nothing with the others.

## 2. The modules

| module | models | code |
|---|---|---|
| `EtlPipeline` | normalizer and analytics sessions over RAW rows | `normalization/services.py`, `analytics/services.py` and concrete subclasses |
| `RawQueue` | the queue the RAW layer promises its stages | abstract specification |
| `RawIngestion` | collector runs that save batches, statement by statement | `raw/service.py`, `workers/collector_worker.py` |
| `RawStore` | the idempotent store ingestion promises its callers | abstract specification |
| `Collection` | collector runs, sweep, circuit breaker, operator, target runner | `collector_worker.py`, `jobs.py`, `circuit_breaker.py`, `pipeline_api.py` |
| `AutoHealing` | one watchdog run, step by step, over the Redis it may restart | `auto_healing/*.py`, `scheduler/retry.py` |
| `TradingBot` | the bot's tick, its orders, its storage, death and restart | `trading_engine.py`, `exchange_connector.py`, `trailing_stop.py`, `overtrading.py`, `sqlite.py` |
| `PositionRow` | what the stored position promises its reader | abstract specification |
| `IncidentHistory` | aggregation and manual records over history and patterns | `incident_history/service.py`, `incident_bus/service.py` |
| `SignalFeed` | candles and signals, as the trackers see them | `trading/analytics/processor.py`, normalizer |
| `SignalOutcomes` | the hourly outcome tracker and its endpoint | `trading/validation/outcome_tracker.py` |
| `EdgeOutcomes` | the six-hourly edge tracker and its endpoint | `crypto/edge/calculator.py` |
| `...Proofs` | theorems about the module they are named after | |
| `MC...` | the instances TLC checks | |

The components meet through tables, and each module models its tables with every
long-lived process that writes them. Two scripts started by hand write some of them as
well and are left out (section 6): `normalization/reprocess.py` and
`scripts/backfill_ohlcv.py`. Three modules are composed with an abstract
specification (`EtlPipeline` implements `RawQueue`, `RawIngestion` implements
`RawStore`, `TradingBot` implements `PositionRow`), and `SignalOutcomes` and
`EdgeOutcomes` are both built on `SignalFeed`. The seam between ingestion and the
stages is the commit: a `Finish` of RawIngestion is, for EtlPipeline, one
`Collect` per new row, in a row.

### EtlPipeline

State: `status` is `raw_collections.processing_status`; `row_of`,
`analytics_status` and `analytics` are the normalized and analytics tables;
`versions` is `normalizer_versions`; `norm` and `proc` are the sessions. The
tables hold committed data only. What a normalizer has flushed and not
committed is in its session record: `at` (the row whose transaction is open),
`saved` (`save_normalized` returned 1), `missing` (it will insert a version
row). That is PostgreSQL at READ COMMITTED: another session sees none of it,
except that a unique index makes an insert wait for an uncommitted one with the
same key (`Blocked`).

| action | code |
|---|---|
| `Collect` | `RawCollectionService.save` commits a new row |
| `StartNormalizing` | a new normalizer loads its batch (`pending_for_module`, no lock) |
| `SaveNormalized` | `normalize`, `save_normalized` up to its flush, `stamp_normalized`, the query of `ensure_normalizer_version` |
| `CommitNormalized` | version row, status (`normalized` or `ignored`), commit |
| `NormalizeRaises`, `VersionConflict`, `DatabaseError` | the `except` clause: rollback, then `normalization_failed` in a second transaction |
| `CrashNormalizer`, `CrashProcessor` | the process dies with its transaction |
| `StartAnalytics`, `ProcessRow`, `AnalyticsFails` | the analytics loop |

A payload is `usable`, `unusable` (normalize gives nothing to save) or `broken`
(normalize raises). A RAW row with `IdentityOf = Product` is of the kind saved
without a unique constraint; the others are candles, saved with ON CONFLICT DO
NOTHING. The order of a batch is left open: the properties hold for any order.
The rollback and the second transaction of a failure are one step, since nothing
between them is visible to others; lineage rows and timings are left out.

### RawQueue

What the stages may rely on, without sessions, transactions or statuses: items
are enqueued once, settled at least once, never pending again, and of the items
that share a key at most one is stored, never to be taken back. `EtlPipeline`
implements it under the mapping of `Queue` (pending is the status, settled any
later status, stored is having a row).

### AutoHealing

One run goes through `Checks`, the services in the order of the health checks:
`Detect`; for each service `PassOver`, or `CheckCircuit`, `CheckCooldown`,
`RecordRestart`, `Heal...`, `CountFailure` / `OpenCircuit` / `CountSuccess`; then
`Verify` and `FinishRun`. Every Redis call is a step, because Redis may go away
between two of them and every caller then goes on as if nothing were recorded
(`Answers`). `HealRecovers` of `Store` may lose the data (the container has no
volume); of `Host` it kills the run. `RunRaises` is the append to the history
that fails after all the rest, upon which `with_retry` starts the run again.
`HealRecovers` says that the restart was issued: whether it cures is open.

`healed`, `lapse` and `uncounted` are history variables: the heals done, whether
Redis missed something, and whether a failure was lost before it was counted. `tried`,
`dropped` and `unsent` are what the last run did, whatever it remembers of it: the
services it healed, whether a healer raised (`HealerRaises`: the results so far are
discarded and the run goes on to its verification), and whether a message it had was
lost. A message arrives or is lost in `Notify`, since there may be no notifier, it may
fail, and its exception is swallowed (`watchdog.py:225-232`, `notifier.py:42-69`). No
action reads the history variables; the properties are stated with them rather than
with the counters under test.

Two healers, of BullMQ and of the normalization backlog, act only on evidence of work
in the check (`healer.py:54-58`, `98-104`): their services are `Quiet`, and may be passed
over although they are unhealthy. `HealingResumes` says nothing of them.

Healing is taken to be on (`auto_healing_enabled`, `auto_healing_dry_run =
False`); the defaults leave it off. With the default interval of 120 minutes
the 30-minute window and the two-hour circuit hardly bite between runs. The
model lets `Window` and `OpenTTL` be any number of intervals, since the
interval is a setting.

### Collection

`status`, `finished`, `old` and `ended` are the runs; `finished` orders them as
`finished_at` does. A run whose process died is a run that takes no further
step, so death needs no action. The sweep is one process whose every query or
commit is a step; so is an operator's request. `CheckRuns` sees the swept runs as
failed whatever they have become, because the session is created with
`expire_on_commit=False`. `EnsureDefaults` is `ensure_default_collection_targets`,
which may happen at any time since listing endpoints call it too. `Locked` is
the target runner's lock as the code computes it.

A source is a (module, source_name) pair, but the breaker looks its errors up by
`source_name` alone (`NameOf`). `EnsureDefaults` and `SetTarget` read rows, then write what
they found wrong: they may write only some of their entries, or nothing, when another
process has changed a row in between. The TTL of 30 minutes is `PassTTL`,
which may happen at any time to a running run.

### RawIngestion and RawStore

A session is one run of one collector: `LookUp` (a row with this checksum is
returned as it is), `FindVersion`, `AddVersion`, `AddRaw`, `AddRecord` for every
item, then `Finish`, the commit. `added`, `recorded` and `versions` are what the
open transaction has inserted; `Blocked` is the wait of an insert for another
transaction with the same key, and `Deadlocked` a ring of such waits, which the
database breaks by failing one of the statements (`DeadlockVictim`). RAW rows and
records are inserted under savepoints, so that a conflict there is a duplicate;
the version row is not, so that a conflict there fails the run
(`VersionConflict`). A payload stands for both identities of an item, which
assumes that the collector gives its items an external id and that all runs are
of one version. A batch is a set: an item that comes twice in one batch is not
represented.

RawStore has one action, `Save(batch)`: store what is not there and report its
number. `created` adds up `raw_saved_count` over the successful runs, so the
refinement says that no row is reported twice or not at all, however runs
overlap, fail, wait or die.

### TradingBot and PositionRow

`holds` is the account, `pos` the position in memory, `row` the stored one,
`ledger` the stored sales. Every `await` of the tick ends an action, and so does
every write, because the process may die there (`Crash`), midnight may pass
(`NewDay`) and a write may fail.

| action | code |
|---|---|
| `Start` | `__init__` and `run` up to the loop: the position restored from the row, the paper account rebuilt from it |
| `CheckDayReset` | the day's counters, up to the await of the candles |
| `TickWithoutData`, `Tick` | the candles: none, or trailing stop and daily loss limit |
| `Pause`, `NewDay` | the limit is announced, then the bot sleeps until the next midnight |
| `DecideExit`, `DecideEntry` | equity point and position stored, signal, overtrading guard |
| `BuyRefused`, `BuyFilled`, `BuyAnswerLost`, `BookBuy` | an order and its record; the answer may be lost after the exchange took it |
| `SellRefused`, `SellFilled`, `SellAnswerLost`, `RecordSell`, `ClearRow` | the same for a sale |

The day is reset before the candles are awaited. When midnight passes in that await or
in the announcement, the limit is that of the day before, and the pause lasts until the
midnight after: the model has both. The limit is a share of `day_start_balance`, which
is read when the process starts, so it is a constant within a process.

`paper` is chosen once: a paper account dies with its process. `gap`, `orphans`,
`revived`, `opened`, `realised` and `forgot` are history: which failure put the
three places at odds. The properties say what holds in spite of, or except for,
these; no action reads them. Prices are integers and stops are prices times 100,
so that a percentage stays exact. PositionRow says that a stored row only
tightens its stop and gives way only to a later purchase.

### IncidentHistory

`writer` holds the open tasks: the aggregation in two processes (`LoadKnown`,
`LoadProcessed`) and a record by hand (`RecordManual`: any alert, with any event or none);
then for each alert, in the
order of a Python set, `CountRows`, `LookUp`, `WritePattern`; then `Commit`. A
pattern's row is locked by the task that wrote it. An UPDATE that changes no
column is not sent by the ORM, hence the condition in `WritePattern`. An
exception inside the loop over the alerts is caught, but the session it leaves
behind cannot commit: that is why `Conflict` and `DeadlockVictim` roll the whole
task back. `alone` is history: no other task was open.

### SignalFeed, SignalOutcomes, EdgeOutcomes

Time counts candle intervals. A candle may be stored at any time from its
opening on, or never; a market that is not `Listed` gets no more. A signal is
placed at the time of its insert. `Close` says of each candle whether its close is there,
zero or missing: a signal whose own candle has none takes the first one that follows, and
without a signal price or a close of the last candle it is skipped (`Priced`, the
`bad_price` of `_evaluate`) and looked at again by every later run until it expires. Ties of
an ORDER BY are broken by insertion.

The queries of both trackers select by symbol and timeframe and take six candles and two
more (`outcome_tracker.py:205-216`), while candles are unique per source too, and a timeframe
that is not in `_TIMEFRAME_DELTA` counts as hours (line 195). With a second source of the
same market, or such a timeframe, the limit could cut off the last candle. SignalFeed
assumes neither: all collectors of candles, and the backfill, use one source name
(`crypto_coin_ohlcv.py:22`, `backfill_ohlcv.py:31`).

`SignalOutcomes`: `Load` takes the oldest `Limit` signals that have no outcome
and are not expired, `Evaluate` looks at one of them after the other, `Commit`
inserts the rows, or `Conflict` rolls the batch back when another run committed one
of them. `arrival` is history: when a candle was stored.

`EdgeOutcomes`: `Load` takes the oldest `Limit * ScanFactor` signals whether they
have their rows or not, `Compute` looks up and computes a signal at a horizon,
`StopScan` ends the loop when enough rows were computed (which only a new signal
heeds), `Commit` adds the rows to those there may be already. The job looks at BUY
signals only, the endpoint at both sides (`Filter`, `SideOf`), each with its own limit.

## 3. The runs

| run | configuration | expects | shows |
|---|---|---|---|
| etl_concurrent | MCEtlConcurrent | pass | in every interleaving of two normalizers and two processors over two collections of one candle and a product, with a crash and a database error: unique candles, statuses that agree with rows, nothing usable dropped, what the overlap costs at most (rows, failures and analytics, counted against the sessions), and the refinement of RawQueue |
| etl_sequential | MCEtlSequential | pass | with one session per stage: no duplicates, and everything collected is handled in spite of payloads that always raise, crashes and a fault |
| etl_race | MCEtlRace | violation of `AtMostOneRowPerRaw` | two normalizers give one product page two rows |
| raw_ingestion | MCRawIngestion | pass | two sessions, four runs, one break anywhere: the refinement of RawStore, RAW rows and records in step, no run waits for ever |
| coll_sweep | MCCollectionSweep | pass | when the breaker opens, that it reports once, that only seeding undoes it, and which successes the sweep overwrites |
| coll_live | MCCollectionLive | pass | no run is running for ever; a sweep that completes a source's failures opens its circuit |
| heal | MCHeal | pass | restart and failure budgets with Redis, a quiet data healer and the watchdog's own container among the services healed; a run that says nothing of a service it healed has seen it healthy, unless a healer raised or the message was lost; a service that stays down is healed again, or waits behind the container whose restart cuts every run short |
| bot | MCTradingBot | pass | account, memory and storage agree but for the named windows, the daily limits, the refinement of PositionRow, and that a fallen position is sold |
| incidents | MCIncidentHistory | pass | how far history and patterns may drift apart, that a lone task repairs them, and that every processed event is recorded |
| outcomes | MCSignalOutcomes | pass | outcomes miss only late candles, one per signal, and a signal that can be evaluated is |
| edge | MCEdgeOutcomes | pass | rows are at most as many as processes, never early; what the job scans gets its rows |
| edge_starved | MCEdgeStarved | violation of `EveryDueIsEvaluated` | a due signal beyond the scan never gets a row |

The type invariant of every module is proved (`TypeCorrect`) and not checked again by
its run.

**Bounds.** Two sessions are enough for a race between sessions, since a conflict
is always pairwise (the theorems hold for any number); one crash or error, which
may strike anywhere, since a second one finds what the first left behind or what
a success leaves behind (`MCEtlSequential` has two crashes and a fault, `MCHeal` two
of any kind).

- EtlPipeline: `Row` counts normalized rows, one per candle or product and one more
  for the duplicate; `Limit = 2` of three or four RAW rows, so that a batch leaves
  some behind.
- RawIngestion: three payloads and two sessions: two payloads in opposite orders
  make a deadlock, a third one is committed in between; four runs let a run be
  followed by another while a third is open.
- Collection: `Threshold = 2` stands for 5, with three runs of a source, one more
  than the breaker looks at; two operator requests let an open and a reopen
  overlap.
- AutoHealing: four services in the order of `health_checker.py:25-34`, two of them
  after the scheduler. As in the code the restarts of a window are as many as the
  failures that open the circuit (two of each stand for its three), and the circuit stays
  open longer than the window: `OpenTTL = 3` ticks against `Window = 2`, in which four
  heals would fit, so that a budget of two can be exceeded. Two attempts stand for
  `with_retry`'s three: a retry is a second run in the same tick. Of the four only the backlog
  check says CRITICAL; Redis's does not while the cache is off, the default
  (`health_checker.py:58`).
- TradingBot: three prices, which are a fall below every stop, a level and a rise that
  activates the trailing stop; three purchases and two trades a day, so that the
  guard bites; one midnight.
- IncidentHistory: two alerts and an event of each, three tasks at most one of which is
  the agent's, two calls by hand: two locks taken in opposite orders make a deadlock.
- SignalOutcomes: a horizon of three candles and two spare ones (six and two in the code);
  three signals and a batch of two, so that unevaluable ones can hold the third back;
  signals are emitted at the start (`LastSignal = 0`), candles come whenever they like.
  `Lookback` equals the time that passes: expiry is in the guards but does not
  happen in this instance. The signals' own candle and one within the horizon have no
  close, so that late candles spoil a horizon and mend it.
- EdgeOutcomes: `ScanFactor = 2` stands for 3, `Limit = 1`: two signals are scanned, of the three
  (edge_starved) or of both sides (the request; the job skips the one that sells);
  two horizons (four in the code), so that one is due before the other.

Symmetry is used for rows, sessions and runs in runs without liveness properties
only.

**Deadlock** is checked in AutoHealing, where the timer always goes on, and in
nothing else: the other systems may come to rest (all rows handled, all runs ended,
the bounds used up), so their configurations say `CHECK_DEADLOCK FALSE`. That no
session waits for ever is `RunsEnd`, `ProcessedIsRecorded` and `PendingIsHandled`
instead, and, without fairness and for any number of sessions, the theorems
`NoRunIsStuck`, `NoTaskIsStuck` and `NoNormalizerIsStuck`.

**Fairness.**

- EtlPipeline: weak fairness of each session's next step; the worker loops over both
  stages for ever and its container is restarted. A session that waits for another's
  commit (`Blocked`) is not enabled, so nothing is assumed of it.
- RawIngestion: a started run goes on; PostgreSQL detects deadlocks.
- Collection: the sweep is a scheduler job every 15 minutes and a run grows old;
  nothing is assumed of collectors, operators or runners.
- AutoHealing: the timer fires when the job is not due and a started run goes on when
  it is, one fairness for both as they are never enabled together; nothing of services or
  Redis. Faults are finite (`MaxFaults`), and with them the healers that raise.
- TradingBot: the container is restarted (`restart: unless-stopped` in
  `infra/projects/trading-bot/docker-compose.prod.yml`) and a running process takes its next
  step; midnight comes; an exchange that is asked time and again delivers candles, and
  sells, in the end (strong fairness of `Tick` and `SellFilled`).
- IncidentHistory: strong fairness of each task's steps, because the database hands a
  released row to a task that waits for it, and others may lock it again and again;
  weak fairness of the job's start, every 75 minutes. Calls by hand are bounded
  and need none.
- SignalOutcomes, EdgeOutcomes: the job starts again (every hour, every six hours), a
  started run goes on. No candle and no request is assumed to come.

## 4. What is proved

For every value of the constants that the modules' assumptions allow: any number
of rows, sessions, sources, services, prices, signals and so on, any limits,
thresholds and windows, and any bound on crashes and faults.

| module | theorem | says |
|---|---|---|
| EtlPipelineProofs | `TypeCorrect`, `Invariance` | `Spec => []TypeOK`, `Spec => []IInv` |
| | `CandlesAreUnique` | no two normalized candles share an identity |
| | `NormalizedRawsHaveRows` | a normalized RAW row has a row |
| | `NothingUsableIsDropped` | a usable RAW row is ignored only if its candle is stored |
| | `StoredRowsAreSettled` | a RAW row with a row is usable and never pending again |
| | `PipelineImplementsQueue` | the refinement of RawQueue |
| | `OverlapInvariance` | what is there and what open sessions can still add, counted together |
| | `RowsAreBounded`, `FailuresAreBounded`, `AnalyticsAreBounded` | rows per RAW row, failures per source and analytics per row are bounded by the sessions that race |
| | `OneSessionStoresOnce`, `OneSessionFailsNothing` | with a single normalizer session: one row per RAW row, no usable row failed |
| | `NoNormalizerIsStuck` | a session that cannot step waits for sessions that can |
| RawIngestionProofs | `TypeCorrect`, `Invariance` | as above |
| | `TablesAgree`, `VersionsComeFirst` | RAW rows and records are in step; a stored row's version is registered |
| | `IngestionIsAtomic` | the refinement of RawStore |
| | `NoRunIsStuck` | runs that wait only for each other have one that can step |
| CollectionProofs | `TypeCorrect` | as above |
| | `ReportsOnce` | one unresolved error of the breaker per source name |
| | `CircuitStaysOpen` | only seeded targets come back without an operator |
| | `OpensJustly` | the sweep opens a circuit on failures only |
| | `OverwritesOnlyOverlapped` | which successes the sweep overwrites |
| | `SweepsAreComplete` | a sweep that is not cut off opens the circuit of every failing source |
| AutoHealingProofs | `TypeCorrect` | as above |
| | `NoRestartStorm` | the restart budget |
| | `SilenceIsGolden` | silence about a healed service means verified health, a raise and a lost message excepted |
| | `BreakerHolds` | the failure budget |
| TradingBotProofs | `TypeCorrect`, `Invariance` | as above |
| | `AccountIsKnown`, `FlatHoldsNothing` | account and belief agree |
| | `PausesFlat`, `LossStopsEntries` | the daily limit |
| | `LedgerInvariance` | the ledger's part of the inductive invariant |
| | `SalesAreBookedOnce`, `EntriesAreLimited` | a sale is booked once; the guard's number of entries a day holds |
| | `StorageKeepsPromise` | the refinement of PositionRow |
| IncidentHistoryProofs | `TypeCorrect`, `Invariance` | as above |
| | `HistoryGrowsByEvents` | an event has at most one row per aggregator |
| | `PatternsFollow` | a pattern just where there is history, never counting too much |
| | `LoneTasksRepair` | a task alone leaves its patterns exact |
| | `NoTaskIsStuck` | tasks that wait only for each other have one that can step |
| SignalOutcomesProofs | `TypeCorrect`, `Invariance` | as above |
| | `OutcomesSettle`, `OutcomesAreUnique` | settled outcomes, one per signal |
| EdgeOutcomesProofs | `TypeCorrect`, `Invariance` | as above |
| | `CopiesAreFew` | rows are at most as many as processes, never early |
| | `OnlyOldestAreEvaluated` | a signal beyond every scan never has a row: edge_starved for any limits |

The assumptions are the named ASSUMEs of the modules: constants of the right type, a
batch of at least one, positive windows and thresholds, finite sets where a
cardinality is taken. Sessions, runs and tasks are finite sets because each holds a
connection of the database (`SessionAssumption`, `WriterAssumption`). TLC evaluates
them in the runs. Every proof is of `Spec`, without fairness. Two theorems assume
more: `OneSessionStoresOnce` and `OneSessionFailsNothing` are about a single
normalizer session, and `etl_race` shows that the first needs it.

**EtlPipeline.** `IInv` is `TypeOK`, five safety invariants (`CandleUnique`,
`NormalizedHasRow`, `IgnoredIsStored`, `RowsAreSettled`, `ProcessedHasAnalytics`) and
`OpenSessions`. The five alone are not inductive. `CommitNormalized` inserts a row
without looking at the table again, so a state in which a session has `saved` a
candle that is meanwhile stored would step to two equal candles. `OpenSession`
rules it out: a session that saved a candle finds it neither in the table nor
in another open transaction, and only this session can insert it, since
`SaveNormalized` waits on `Blocked`. That is the argument for ON CONFLICT DO
NOTHING together with the unique index. In the other direction, a usable row
that saved nothing found its candle in the table, where it stays; hence
`IgnoredIsStored` when the session commits `ignored`, even if it does so over
another session's `normalized`. `StepRefines` maps each action to a step of
RawQueue: `Collect` to `Enqueue`, every commit to a `Settle` (of a settled item when
a session lost a race), every other step to a stutter.

What overlap can cost is counted by `Overlap`: the rows a RAW row has and the
sessions that still hold it are together at most all the sessions, since nobody loads
what has a row; the usable RAW rows of a source that failed and the sessions that are
registering it are, too, less the one that won; and so are the analytics of a row and
the sessions that still hold it. A step trades a holder for a row, a failure or an
analytics row (`CountMoves`) or gives it up (`CountShrinks`). The bounds follow, and for
a single session the two properties the docs take for granted.

**RawIngestion.** What an open run knows: the rows it added are not stored and in no
other open run (`Fresh`, `Disjoint`: the unique index), every item it is done with is
stored or added, and recorded just if it is stored or added (`Saved`), a row comes
after its version (`Registered`), and `new` counts `added` (`Shape`). A `Finish` is
then `Save(batch)`: `added` is the part of the batch not stored.

**Waiting.** Liveness is out of reach, but what it rests on is not: that the
waits of sessions for each other never leave all of them without a step. `CanStep` writes
out the guards of the fair action, where ENABLED cannot be reasoned about; on the small
instances TLC finds the two equal. In RawIngestion and IncidentHistory a set of
open sessions that waits for nobody outside and cannot step would have a smallest part
in which everyone waits for someone (`WaitersHaveRing`, by well-founded induction over
the subsets of a finite set). In it everyone is waited for, too; so one of it is
`Deadlocked` as the database sees it, and can step. In EtlPipeline nothing needs
breaking up: an open transaction holds one identity and waits for none, so a session
waits only for sessions that can commit, as long as the model has a free row.

**Collection.** `SweptRuns`: what the sweep loaded was running and old, and what
succeeded since did so after its stamp. `CheckOK`: at "targets" and "open" the
source has no error of the sweep and its failures are what `OpensOnFailures` demands.
With `Succeeded`, `Begun` (which runs can still end) and `NoOperator` this is
inductive together with `OneError` and `CircuitHolds`. `SweepsAreComplete` adds
`NothingLeftBehind`: a source of the swept runs that has never succeeded and has
`Threshold` failures (the sweep's own and those stamped before it) is still to be
checked, under check, or has an open error. Runs that end during the sweep cannot undo
it, because their stamps are later; an error resolved by an operator can, so it is
stated of behaviours before the first request. TLC agrees on the instance of
coll_sweep, which also reaches such ends.

**AutoHealing.** `IInv`: the heals of a window are covered by the cooldown's entries
(`Counted`), the entries of one tick differ in their attempt (`Unique`), and an
attempt that has not come to a service has left no entry there (`Fresh`). `Reported` follows
what a run healed up to its end, where `SilenceMeansHealthy` judges it: the services it
tried lie behind it and have their outcome in the results, unless a healer raised. For
the
failure budget `BInv` adds `Breaker`: the failures the breaker was told of and that
count still are no more than its counter, or the circuit is open, and neither the
counter nor the open key expires before they do. That the counter's key lives twice as
long as the open one is used here.

**TradingBot.** `IInv` says at every `pc` what `pos`, `row` and `holds` are to each
other (`Shape`, `HoldingsKnown`, `AccountAgrees`), that the booked loss is today's
unless something was forgotten (`LossSeen`, `CountIsResult`), and that the stored row
can tighten to the position (`RowFollows`). `LedgerInv` adds the ledger. A purchase in
memory, or in the row after a death, is not booked yet, unless the row outlived its
booking (`BookingOK`), so a sale is booked once. What was opened today is stored as
closed today, still open, or lost (`OpeningsCounted`): that the guard counts stored
sales, not openings, is made up for by its being asked only when nothing is open.

**IncidentHistory.** `PatternFollowsHistory` needs what the open tasks have counted:
what a task counted or wrote for an alert is no more than the rows recorded and its own
ones (`Bounded`; rows are never taken away, so this survives the commits of others), and an
alert it adds rows for is still to count, being counted or written (`Covered`, so that
no history is left without a pattern). What a task that is alone has read is still exact
(`Exact`, `Alone`), so its commit leaves exact patterns. For `OneRowPerAggregator` the
rows of an event and the aggregators that will add one are counted together
(`RowsOK`): one that loads after a commit knows the event.

**SignalOutcomes.** What an open run found is settled and of signals it is done with,
its clock is past (`RunOK`), and no candle is newer than now (`Timely`). A horizon of
`Horizon` intervals holds at most as many candles, so the query's limit cuts none off
(`HorizonIsFetched`, by the cardinality of an interval); a settled outcome stays
settled because what the feed adds to its horizon arrives after its end.

**EdgeOutcomes.** For each signal and horizon, the rows there and the runs that will
add one are together at most as many as the processes (`RowOK`): a run finds only what has
no row, and a commit trades a finder for a row.

**Model-checked only.** Liveness under fairness is outside the prover:
`PendingIsHandled`, `RunsEnd` (both), `StaleFailureOpens`, `HealingResumes`, `StopLossExits`,
`ProcessedIsRecorded`, `SignalsAreEvaluated`, `ScannedAreEvaluated`. Every safety
property of a passing run is stated by a theorem.

## 5. Findings

Disagreements between the code and what the repository says of it, with a run whose
trace shows it (`PROJECT.json` "findings" quotes the lines):

1. Normalization is called idempotent (`SELF_HEALING_ARCHITECTURE.md:338`,
   `healer.py:47`); two sessions give a product page two rows (etl_race).
2. The edge tracker is said to handle each signal without an outcome
   (`jobs.py:1509`); it takes the oldest ones, evaluated or not, and never gets to
   those beyond (edge_starved, and `OnlyOldestAreEvaluated` for any limits).

Exceptions that a passing property names; each is what the code does against what
the repository says:

- `OnlyOverlappedAreOverwritten`: the sweep writes failed over a run that succeeded between
  its query and its commit (`jobs.py:911`; `docs/JOBS_AND_SCHEDULES.md:117`).
- `CircuitHolds`: the seeding of default targets, before every target job, reactivates
  a target of an open circuit (`jobs.py:531`; `JOBS_AND_SCHEDULES.md:106` says that a
  circuit does not reset by itself).
- `StaleFailureOpens` speaks of stale runs because the circuit is checked only for their
  sources (`jobs.py:927`); `docs/DATA_FLOW.md:169` and `ai/RUNBOOK.md:152` say five
  consecutive failures.
- `NoEntryAfterLoss`: a restart forgets the day's loss (`trading_engine.py:78`;
  `docs/crypto_coin/context/risk-management.md:34-37`).
- `AccountAgrees`: a lost answer counts as an order not placed (`exchange_connector.py:138`).
- `FailureBudget` counts what healers report: the breaker records a success before the
  verification (`watchdog.py:210`, `cooldown.py:4`), so restarts that cure nothing
  never open it.
- `HealingResumes`: the scheduler's check comes before those of workers and queues
  (`health_checker.py:25-34`). While its heartbeat stays stale every run restarts it, and
  so kills itself before it gets to them; at the default interval the cooldown never
  stops that. `cooldown.py:8-10` would rather attempt an unsafe restart than leave a
  service dead permanently.
- `SilenceMeansHealthy`: a healer that raises makes the run forget what it healed before
  (`watchdog.py:66`), and a message that can not be sent is lost (`watchdog.py:225-232`,
  `notifier.py:61-69`); both are silence about services that may still be down.
- `OpensOnce` is per source name: of two modules that use one name, an open error of the
  first keeps the breaker from deactivating the second's targets
  (`circuit_breaker.py:55-66`; lines 3-4 speak of a (module, source_name) pair).
- `CopiesFollowOverlap`: the edge tracker is called fully idempotent (`jobs.py:1512`);
  overlapping runs leave copies.

Read in the code while modelling, without a run:

Auto-healing and scheduler

- `app/auto_healing/notifier.py:33` is silent for BLOCKED_CIRCUIT of services outside
  the critical set; `models.py:13` says that outcome notifies.
- `app/auto_healing/healer.py:62` is an UPDATE with a LIMIT, which PostgreSQL does not
  accept: this healer fails on every call.
- `app/auto_healing/healer.py:119` moves a BullMQ job by a pop and a push; a crash
  between them loses the job.
- `docs/JOBS_AND_SCHEDULES.md:109` gives `with_retry` three retries and a backoff of 5;
  `scheduler/retry.py:14` has 2 and 15.
- `scheduler/jobs.py:1007-1013`: retention calls `delete()` on a query with a limit, which
  SQLAlchemy refuses: the job raises, rolls back and deletes nothing.
- The aggregation of incidents is scheduled every 75 minutes (`scheduler/service.py:209`) and
  described as hourly (`incident_history/job.py:19`).

Collection and RAW

- The lock on a running target never holds (`jobs.py:883`; `JOBS_AND_SCHEDULES.md:123`): the
  url scraper makes no runs, and the legacy collector commits its own when it is over.
- A reopened circuit opens again at the first stale run, because the history of failures is
  not cleared; resolving an open error leaves the targets inactive.
- `raw/service.py:367-380`: the version row is inserted outside a savepoint, so of two first
  runs of a new collector one fails with everything it saved.
- The url scraper's payload includes `collection_attempted_at`, so no two of them are
  duplicates.

Incidents and alerts

- `incident_history/service.py:307` computes MTTR from `duration_seconds`, which nothing
  stores (`incident_bus/service.py:130`): MTTR and resolved counts stay 0.
- A re-fired alert keeps its processed flag (`incident_bus/service.py:84`), so the agent does
  not see it again and flapping is not counted.
- One failing flush in a webhook loses the alerts grouped with it. No
  sender is configured for the webhook (`alertmanager.yml` posts elsewhere).
- `telegram_ops.py:200-321` marks alerts as sent even if the send failed.

Trading

- `trading_engine.py:123` reads `day_start_balance` when the process starts, and
  `_check_day_reset` (536-542) does not read it again: the daily loss limit is a share of the
  balance at the last start, not of the day's
  (`docs/crypto_coin/context/risk-management.md:34`).
- `trading_engine.py:204-208`: the daily loss is looked at some awaits after the day reset; a
  limit that is announced across midnight makes the bot sleep a whole further day.
- `trading/analytics/processor.py:27-37` computes from the oldest 250 candles of a market,
  not the newest (`docs/volatile/LONGITUDINAL_OBSERVATION_PLAN.md:40`).
- `crypto/edge` documents three horizons; `calculator.py:26` has four.
- `forward.py:123` limits the candles to `horizon_hours + 10`: of 15-minute candles, a
  24-hour outcome is read some 8.5 hours after the signal. It is computed once, by
  the wall clock.
- `crypto_coin_ohlcv.py:70` stores the candle still forming, and ON CONFLICT DO NOTHING
  (`snapshot_normalizer.py:52`) never updates it.

## 6. What is not modelled

- Content: payloads, parsing, prices of outcomes, indicators, position sizes. A payload
  is one of three kinds; a signal of the bot is any decision its guards allow.
- The scripts that write the tables of EtlPipeline and RawIngestion by hand.
  `scripts/backfill_ohlcv.py:83-148` inserts RAW rows that are `normalized` from the start, next to
  candles under ON CONFLICT DO NOTHING, and no `collected_records`; where the candle was
  there already, the RAW row is normalized without a row of its own.
  `normalization/reprocess.py` saves normalized rows again and leaves the status alone.
  `NormalizedHasRow` and `RecordsFollow`, and their theorems, are therefore about what the
  pipeline's own sessions do, and `RowsFollowOverlap` about rows that nobody reprocessed.
- Lineage rows, audit columns, metrics, logging, the dead-letter row of `with_retry`.
- Redis and PostgreSQL themselves: a call, a statement or a commit is atomic, and durable
  except for the Redis restart, which may lose everything.
- APScheduler beyond `max_instances=1` and the firing of timers.
- What the data healers move between tables and lists.
- The bot's autotuning, shadow trades, weekly report, cooldown and consecutive-loss guards.
- The alert router: only the test endpoint sends through it. The self-healing
  coordinator: only its tests call it. The incident-bus webhook: one transaction without
  a decision between its statements. Data retention: it never commits. The
  scheduler's reliability policy and the operational watchdog: decisions from a
  snapshot, stateless. Heartbeats: one writer, one atomic replacement. The async runner,
  the pipeline recorder, the execution ledger, VPS cleanup, forward shadow signals: small,
  and their hazards of a kind modelled elsewhere here.
- The rest of the repository, by far the most of its lines: research engines, reports,
  sports and betting models, knowledge and intelligence layers, read-only endpoints,
  migrations. Each computes a result from a snapshot by itself. A model of it would be a
  transcription of arithmetic and string handling, with no interleaving, failure or
  order for TLC to explore; unit tests suit it better. The share of the repository's
  lines that `PROJECT.json` maps is therefore small, about two per cent, though
  it holds the code in which processes meet.

## 7. Plan

Done: all of section 2.

Left, in order of what it would show:

1. The incident-bus webhook next to `MarkProcessed`: whether a re-fired alert is
   offered again, once the code resets its flag.
2. The data healers over `EtlPipeline`: a `failed` row put back to pending while a
   normalizer holds it.
3. Forward shadow signals over `SignalFeed`, when their candle query no longer
   truncates.
