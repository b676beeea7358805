# Personal Fin Hub: TLA+ specifications

TLA+ models of the parts of the Personal Fin Hub backend whose correctness
depends on order, concurrency, failure or long histories of edits, the TLC
configurations that model-check them, and TLAPS proofs of their main
invariants. Paths below are relative to the repository (`backend/...` is in
`src/backend`, documents in `doc/...`).

| Module | What it is |
| --- | --- |
| `CircuitBreaker` | the circuit breaker and the threads calling the market API through it |
| `CashLedger`, `CashLedgerProperties` | transactions, snapshots, adjustments, injections, links, fees of one entity; what they promise |
| `Scheduler` | schedules, jobs, catch-up of missed fires, crashes |
| `Occurrences` | what the scheduler promises, as an abstract ledger of occurrences that `Scheduler` implements |
| `Boot` | the steps before the process serves: daily backup, schema, 28 migrations, backups around them, seeds; kills, restores |
| `Sync` | the price, rate and macro syncs, their single flight, SQLite's one writer |
| `Catalogue` | profiles, entities, assets, definitions, periods, and the references between all rows, with no foreign key enforced |
| `MarketCycle` | the six-state market cycle engine, month by month |
| `TaxablePnl` | first-in-first-out lots, conversion under frozen fiscal rules, the running tax of a year |
| `MC...` | instances of these for TLC; one `.cfg` per run |
| `..._proofs` | theorems and their machine-checked proofs |

```
tlc -config CircuitBreaker_safety.cfg MCCircuitBreaker
tlapm CircuitBreaker_proofs.tla
```

## 1. Inventory

The backend is one FastAPI process over one SQLite file. Its actors are: the
event loop, which runs the `async def` handlers one after the other up to their
awaits; the thread pool that runs `def` handlers and `run_in_executor` calls;
the threads of APScheduler's background scheduler; and, outside the process, the
market API, the clock, the scripts of `scripts/`, and the user who kills or
restarts it. What they share: the database (one writer at a time, sqlite3's
default busy timeout of five seconds), the breaker registry, the single-flight
locks of the syncs, and APScheduler's job store, which lives in memory.

| Component | State | Operations | Interacts with | What is hard, and what makes it correct | Module |
| --- | --- | --- | --- | --- | --- |
| Circuit breaker, API client (`services/api_resilience.py`, `api_client.py`) | `_state`, `_consecutive_failures`, `_opened_at` | `allow_request`, `record_success`, `record_failure`, `_request`, `health_check` | called by the syncs, the routes and the scheduler | answers that arrive after the state they belong to is gone; trips at the threshold, one trial per cooldown, recovers | `CircuitBreaker` |
| Cash ledger (`transaction_svc`, `balance_snapshot_svc`, `transaction_fee_svc`, `transaction_tax_svc`, `transaction_full_svc`) | `transactions`, `balance_snapshots`, `balance_adjustment_links`, `transaction_fees`, `transaction_taxes` | create, update, delete of each, composite requests | written by the API, the scheduler, batches and transfers | long sequences of legal edits; derived rows (adjustments, injections, links) must follow the rows they explain | `CashLedger` |
| Scheduler (`scheduler/scheduler.py`, `schedule_svc`, `schedule_full_svc`) | `schedules`, `schedule_occurrences`, `scheduler_state`; jobs and threads in memory | boot, catch-up, fires, create, edit, delete, shutdown | writes transactions through the ledger | crashes, misfires, a job against a catch-up; no date skipped, none twice | `Scheduler`, `Occurrences` |
| Syncs (`market_sync_svc`, `macro_sync_svc`, `currency_svc`, `price_svc`) | `_sync_lock`, `last_synced_at`, `prices`, `currencies`, macro series | price, rate and macro sync; edits of prices | called by jobs, routes and a script; calls the breaker | single flight on every way out; other writers starve past the busy timeout; stamps and rows that must agree | `Sync` |
| Boot, migrations, backups (`main.py`, `db/connection.py`, `db/migrations`, `backup_svc.py`) | `schema_migrations`, tables, backup files | daily backup, schema, migrations, backups around them, prune, restore, seed | runs before everything else | a crash between two steps; a served database is fully migrated; a good backup survives | `Boot` |
| Profiles, entities, assets, definitions, periods, transfers, batches (`profile_svc`, `entity_svc`, `portfolio_asset_svc`, `fiscal_period_svc`, `tax_catalog_svc`, ...) | rows and the keys they refer to | create, update, delete; a transfer is two transactions | the ledger, the scheduler, the price sync | references resolve only if the checks of thirty endpoints leave no gap | `Catalogue` |
| Market cycle and KPIs (`market_cycle_engine`) | none: replayed on every request | evaluating transitions month by month | reads macro series | evidence held for consecutive months; ties; months revised and repeated | `MarketCycle` |
| Lots, P&L, tax engine (`pnl_rules.py`, `tax_engine.py`, `analytics_svc.py`, `fiscal_*_svc`) | the `fiscal_rule` frozen on sells; tax bases, exemptions | matching, conversion, taxing a fiscal year | reads transactions, rates, periods | rows entered and re-dated in any order, oversold lots, losses that move the running total back over a bracket | `TaxablePnl` |
| Update check (`update_svc`) | a cache under a lock | status | GitHub's API | the fetch is outside the lock: fetches overlap and the one stored last wins | none |
| Other analytics, routes, frontend | none of their own | reports, validation, views | read the rest | not a matter of state | none |

`PROJECT.json` lists every component with its sources and status, and every
hazard with the line at which it bites and the properties that cover it.

## 2. The modules and the code

### CircuitBreaker

One breaker (one `base_url`) and a set of callers.

| Model | Code |
| --- | --- |
| `state`, `failures`, `openAge` | `_state`, `_consecutive_failures`, `now - _opened_at` capped at the cooldown |
| `call[c]` | where a thread is inside `_request` or `health_check`, with its attempt, and whether it is the half-open trial |
| `AllowRequest`, `RecordSuccess`, `RecordFailure` | the locked methods; each is one step because it runs under the lock |
| `Request`, `Answer`, `Retry`, `Succeed`, `Fail`, `Refuse` | the head of a call, the wire, and the branches of `_request` and `health_check` |
| `Tick`, `Flip` | the monotonic clock; the provider going down or up |
| `trialAge`, `lost` | history variables, read by properties only |

`Refuse` is the branch on which `_request` raises for a 404 or another
non-retryable status: no `record_*` call is made there. The state is finite
without a bound on time, since the code compares ages with the cooldown only.
Left out: the length of back-off delays (a retry may come at any time), the
registry of breakers (one instance stands for each), `can_proceed` and the
status snapshot (they change nothing).

### CashLedger

The tables of one entity. A handler is one SQLite transaction, so its
statements are operators from tables to tables (`Created`, `Updated`,
`Deleted`, `Recalculate`, `EnsureCash`, `LinkInjection`, ...), and the actions
`Commit` their composition: `POST /transactions` is
`Commit(Created(DB, t, row, mode))`, trailing recalculation included.

| Model | Code |
| --- | --- |
| `tx`, `snap`, `fee` | rows the client enters |
| `adj` | BALANCE_ADJUSTMENT rows with a `balance_snapshot_id` |
| `inj` | inferred-cash rows, one per pocket and day: the key is the slot <<pocket, 23:59:59 of the day before>> |
| `link`, `dangling` | `balance_adjustment_links`: those whose injection is there, and those whose injection was deleted without them |
| `BalanceAt`, `FlowBefore`, `FeeOut` | `get_balance_at_date` and the two queries under it, with inclusive and exclusive ends as written |
| `Recalculate`, `SetAdjustment` | `_recalculate_adjustments` and the create-or-update of an adjustment |
| `EnsureCash`, `LinkInjection`, `RequiredInjection`, `RefreshInjection` | `_ensure_cash_for_spend`, `_link_injection`, `_required_injection_for_day`, `_refresh_injection` |
| `Reconciled`, `AbandonInjection` | `reconcile_after_fee_change`, the empty interval of its linking query included; where the balance is not negative it deletes the injection and nothing else (`transaction_svc.py:209`), and the `ON DELETE CASCADE` of the links never fires, for no connection enables foreign keys |
| `Create` ... `DeleteAdjustment` | the endpoints |

Time is counted in ticks, `TicksPerDay` to a UTC day. The `InjectionTs` of a row
is on the UTC calendar and `AdjustmentTs` on the profile's, as in the code.

Abstractions: one entity (its rows never meet another's); `total_value` never
null; an `in` stands for the three types that bring cash in and an `out` for the
three that spend; percentage fees are fixed amounts; fees and taxes of a
transaction are one row (both are reconciled by the same function); a rate does
not change over time; `cash_handling` is an argument of the action and not a
column, for an update may send any value. `NoTwin` leaves out two snapshots of a
pocket at the same instant, whose order the queries do not define. Fees
stored on a generated row, editing a generated row through `PUT`, moving a row to another entity, stock splits and
portfolio quantities are not modelled.

### Scheduler

| Model | Code |
| --- | --- |
| `rows`, `nextId`, `occ`, `lastShutdown` | `schedules`, its AUTOINCREMENT, `schedule_occurrences`, `scheduler_state` |
| `made[<<i, d>>]`, `initial` | how many transactions the scheduler made for schedule i and date d; those made by `POST /schedules/full` |
| `closed`, `DeleteEntity` | the schedules whose entity `entity_svc.delete` soft-deleted, which fires and catch-ups skip; schedules do not block that delete, transactions do |
| `jobs`, `threads` | APScheduler's job store; the job threads between firing and writing |
| `main`, `open` | the catch-up running on the main thread; what its connection has inserted and not committed |
| `Boot`, `CatchUp*`, `Finish` | `catch_up_missed_fires`, `catch_up_schedule`, then `init_scheduler`; `CatchUpConflict` and `CatchUpFails` are their exception paths, which roll back and let a boot go on |
| `Create`, `CreateFull`, `Update`, `Delete` | the schedule requests, with `sync_schedule` and, for `Create`, the catch-up |
| `JobStart`, `JobExpire`, `JobWrite`, `JobFails`, `JobMissed` | `execute_schedule` and `_clone_tx`: the reads, the write, an error, a misfire |
| `Tick`, `Shutdown`, `Crash` | the clock with the triggers due at the server's midnight; the end of `lifespan`; a kill |
| `FireDates`, `Triggers` | `_compute_fire_dates`, `_make_trigger` |

While `open` is not empty the catch-up holds SQLite's write lock, and a job
thread can only wait (or fail, `JobFails`). An INVESTMENT_* schedule with an
asset and an amount (`invest`) commits in the middle, after the transaction and
before the occurrence (`scheduler.py:281`); the history variable `invested`
remembers the schedules this can have happened to. Three calendars meet in the
code and in the model: `UtcDay` ends the catch-up, `ServerDay` triggers the jobs,
`ProfileDay` dates the job's transaction.

Abstractions: months have one length (day 31 is never clamped); every schedule
has an entity, a currency and a type; a CUSTOM cron fires daily; the
recalculation of snapshots during catch-up belongs to the ledger and is left
out; the final commit of a catch-up, which holds the write lock by then, is not refused; `Shutdown` drops the job threads in flight.

### Occurrences

What a reader may assume of the scheduler without reading it: dates are posted
in batches, each once and for ever, and a posted date has its one transaction.
`posted`, `entries` and `exempt` are `Scheduler`'s `occ`, `made` and `invested`;
everything uncommitted, jobs, threads, crashes and clocks are invisible.
`KeepsLedger == Ledger!Spec` is both a property of `scheduler_once` and the
theorem `ImplementsOccurrences`.

### Boot

| Model | Code |
| --- | --- |
| `phase`: `down`, `daily`, `schema`, `migrate`, `record`, `pre`, `post`, `seed`, `up` | where `lifespan` is (`main.py`) |
| `db` | the file: `tables`, `recorded` (`schema_migrations`), `ends` (migrations whose `verify()` holds), `narrow` and `scratch` (tables still to widen, a `T_new` left behind), `reshaped` (a seeded tax base the user changed), `rows`, `lag` (distance of timestamps from UTC, in conversions) |
| `files`, `clock` | the backup of each second (the resolution of a name), good or unusable |
| `M001_...` to `M028_...` | the 28 migrations, by kind: guarded statement, rebuild of a table, rebuild until widened, conversion, seed |
| `CreateSchema`, `RunMigration`, `RecordMigration`, `MigrationFails` | `init_db`, `_run_migrations` |
| `OpenBackup`, `CopyBackup`, `BackupFails`, `Pruned`, `CallsBackup` | `create_backup`, `verify_backup`, `prune_backups` and their four callers |
| `Restore`, `Stop`, `Die`, `DieInSchema`, `DieInRebuild` | `scripts/restore.py`, the end of the process, a kill between any two commits |
| `Serve` | the edits of a user that a `verify()` looks at |

The history starts from no database or from one of `Eras`: `<<recorded, run>>`,
the version a release recorded and the version it had really run.
Left out: the repair of a reshaped tax base by hand, `BACKUP_ENABLED = 0`, what
a migration does to the columns of a row (only 020 shows outside, in `lag`),
and bootstraps that recorded 020 without running it.

### Sync

| Model | Code |
| --- | --- |
| `pc[t]`, `todo[t]`, `got[t]` | a run of `sync_prices`, `sync_rates` or `sync_series`: fetching, storing what it fetched, committing |
| `flights` | the module-level `_sync_lock`s; rates have none, a script has its own |
| `db`, `draft`, `writer` | what is committed; what the connection with the write lock sees; who holds it |
| `db.fresh`, `prompt` | `last_synced_at` of today; the runs that started today, since a macro stamp is the time of the start |
| `Start`, `Busy`, `FetchOk`, `FetchFails`, `FetchRaises` | the head of a run, the refused lock, the answer, the error that is noted and the one that ends the run |
| `StoreItem`, `StoreRate`, `LockTimesOut`, `Commit` | one item's rows and stamp, one rate, "database is locked", `conn.commit()` |
| `CreatePrice`, `UpdatePrice`, `DeletePrice`, `ToggleActive` | the user's requests |
| `NextDay`, `Die` | the clock; a kill of the backend, which a script survives |

`db.answer` is a history variable: what the fetch behind an item's last stamp
had returned. A value is `part` when fetched during its day and `final`
afterwards. Left out: the parsing of answers, the windows of a rate back-fill,
the breaker's states (an open circuit is a `FetchFails` or a run that does not
start), the deletion of an asset during a run.

### Catalogue

A row is its key, its profile, the keys it refers to, and the name, type or span of
days a check compares: two entities of a profile may share a name if their types
differ (`db/queries.py:164`). Each endpoint that adds, removes or redirects a reference is one
step, for requests run on the event loop from their first read to their commit;
a job and a price sync read in one step and write in a later one (`held`).
Reading a guard of the model beside the code: `Resolves` is a lookup that
answers 404, `...HasDependents` the queries of the same name that answer 409,
`Fresh` AUTOINCREMENT (a key is never used twice).

Left out: injections (`CashLedger`) with the charges a request may store on them,
which their deletion orphans; occurrences (`Scheduler`); manual values,
splits and tax bases, updates that change no reference, name or span, the
seeded definitions in `Init`, the time conflict of a snapshot. Which entity or
definition id an unchecked column holds does not matter: id 1 stands for it.

### MarketCycle

| Model | Code |
| --- | --- |
| `levels`, `prior` | the last value of policy rate, inflation and real rate, now and a month before |
| `past`, `current` | the readings `_held` looks back on; the one of the month in progress |
| `settled`, `state` | the state the replay had reached before that month, and the one `evaluate()` returns |
| `Month`, `Revise` | a new month; another observation within it |
| `ForwardEdges`, `ReverseEdges`, `Met`, `Held`, `Confirmed`, `Moved` | the transition tables, the signals, held months, triggered transitions, the tie-hold rule |

The code replays all months on every request and stores nothing. A month that is
over no longer changes, so the model keeps what the replay had reached before
the last one. Left out: everything displayed beside the state (metrics,
priorities, watch signals).

### TaxablePnl

| Model | Code |
| --- | --- |
| `rows`, `Enter`, `Edit`, `Delete` | transactions of one asset; a sell freezes the rule of its day |
| `Report`, `todo`, `lots`, `WalkBuy`, `SkipSell`, `BeginSell`, `Take`, `FinishSell` | `compute_fifo`: the rows in the order of time and id, the queue of each entity, a sell that takes from its front |
| `Walkable`, `SkipRow`, `LeftOut` | a row without a total or without a positive quantity, which the walk passes over (`pnl_rules.py:154`) and the sums in SQL count |
| `Progressive`, `Ceiling` | `apply_progressive`; the last band has no end (`NoLimit` for `to_amount = NULL`); a progressive base without bands taxes nothing |
| `Converted` | `convert_sale` under the three rules (`japan`, `latest`, the rate of the sale) |
| `Exempted` | `_apply_exemption` |
| `StartTaxes`, `TaxItem`, `net`, `owed` | the items of a report and `compute_fiscal_year`'s running total through brackets |
| `NetQuantity` | the sums `get_holdings` makes in SQL |

A request may enter such rows: quantity and total are optional and unbounded in
`models.py` and in the schema. Units are numbered in the order of purchase; `used`, `vanished` and `gains` are
history variables. Left out: several assets (they share nothing), proceeds in a
payment currency, missing rates, rounding, splits, withholding and confirmed
taxes.

## 3. What is checked

`expect` is what the run must show: *pass*, or a *violation* of what a document
or comment says by what the code does.

| Run | Properties | Expect | Bounds and why they are enough |
| --- | --- | --- | --- |
| `breaker_safety` | `TypeOK`, `ClosedBelowThreshold`, `HalfOpenAccounted`, `TrialsSpaced` | pass | 3 callers: a trial, a late failure that re-opens, and one more; threshold 2, so that a count can be short of it; 2 attempts, so that a retry is in flight while others trip; cooldown 2, so that a tick may fall short of it |
| `breaker_recovery` | `Recovers` | pass | 2 callers; a healthy provider answers 2xx |
| `ledger_attachment` | `TypeOK`, `InjectionsAttached`, `LinksFund`, `AdjustmentsAnchored`, `SpendsFunded` | pass | 3 transactions, two instants of a day and a later day: two spends can share an injection while a third row moves in or out of it; a snapshot between the days; every mode |
| `ledger_endpoints` | `AttachmentModel` | pass | two pockets, one of them the main currency's, and every transaction, fee and composite endpoint: a spend paid from the other pocket, a fee that moves to another transaction, a spend turned into a manual adjustment, fees that inject into the main pocket or delete a spend's injection there and leave its links; a snapshot before the day, which anchors a pocket and stops its injections |
| `ledger_reconciliation` | `LandsOnTarget` | pass | two snapshots in order and an instant before, between and after them; a profile ahead of UTC by a tick, which puts the adjustment on a day of its own |
| `scheduler_once` | `TypeOK`, `ExactlyOnce`, `BootCatchesUp`, `KeepsLedger` | pass | two schedules, one an investment that ends; days of two ticks and a server west of UTC, so that the three calendars disagree for part of each day; ticks 4 to 7 hold two UTC midnights of catch-up and one server midnight of jobs; entities deleted and replaced, catch-ups that fail, at boot too |
| `boot_safety` | `TypeOK`, `ServesMigrated`, `ServesSchema`, `ServesUtc`, `MigratedIsBackedUp`, `PruneKeepsGood` | pass | all 28 migrations; no database, or one whose bootstrap recorded 008 to 010 without running them, one from just before UTC, a current one; four seconds over two days, so that two backups may share a second or a day; retention 2; two kills, so that a boot that repairs another one's damage dies as well |
| `boot_self_heals` | `SelfHeals` | violation | the same without kills |
| `sync_safety` | `TypeOK`, `OneFlight`, `FreshIsStored`, `NoLockOnNetwork`, `FlightsLand` | pass | two codes, so that one is stored while the other is fetched; a cron and a route for prices, a cron and a script for macro series, a rate job; two days, so that a run crosses midnight; two runs in all (any two overlap) and one edit or kill |
| `catalogue_refs` | `TypeOK`, `RefsResolve`, `DeletedIsEmpty`, `NamesDistinct`, `PeriodsDisjoint` | pass | two names, two types of entity (interchangeable: a symmetry set) and two keys of each table, so that there can be two profiles and two of every kind; five rows ever made, enough for an asset, its market asset, an entity, a transaction and a charge of it; two days, so that periods touch, nest and are open-ended |
| `cycle_safety` | `TypeOK`, `TiesAreMixed`, `FlapsOnlyWhileHiking`, `Settles` | pass | confirmation after two points and a look-back of two, so that points before the state was entered count; eight monthly pairs: the real rate high, low and in between, a month before the policy rate is known, a month without inflation |
| `taxable_report` | `TypeOK`, `FirstInFirstOut`, `HoldingsMatchLots`, `TaxWithinBounds` | pass | any five of ten possible entries at two brokers, a buy without a total and a sell of a negative quantity among them, on four days of two fiscal years: lots split by sells, sells beyond what is held, ties within a day, a loss after and before a gain, an exempted gain, one year with a flat base and one with brackets |

Bounds of the models themselves: `CashLedger` has finite ids and sets of instants
and amounts, and `NoTwin`. `Scheduler` has `MaxId` schedules, the clock's
`FirstTick`..`LastTick`, weeks and months of `WeekDays` and `MonthDays` days, and
`DeleteEntity` is for schedules that have made no
transaction (the others' entities cannot be deleted before their transactions are), and
`MaxCopies` caps copies: an investment schedule can be repeated once per crash or refused
write, and without a cap on those two events `made` would grow for ever.
`Boot` has `LastSecond` and `MaxKills`; `Sync` has `LastDay`, `MaxStarts` (runs)
and `MaxEvents` (edits and kills); `Catalogue` has `MaxId` keys to a table and
`MaxRows` over all tables; `TaxablePnl` has `MaxRows` rows ever entered.
`CircuitBreaker` and `MarketCycle` have no bound besides their constants. The
ledger, sync and catalogue runs disable deadlock checking: a ledger whose ids
are used up, and whose endpoints do not include an edit, really stops, as do
syncs whose bound on runs is reached. In `ledger_reconciliation`, `OrderedSpec`
(of `CashLedgerProperties`) takes snapshots in the order of their instants, as
`doc/calculations/finance.md` describes their use; the section on divergences says what happens otherwise.

What the passing runs say, beyond the formulas:

- *Breaker.* Late answers of calls sent before an outage may re-open the circuit
  but never let trials out closer than a cooldown, never leave a closed circuit
  on a spent counter, and a half-open circuit without a trial in flight has
  always lost one to a refusal. `Recovers` needs `UpAnswers = {"ok"}`: with
  refusals it is false (section 5).
- *Ledger.* No sequence of creates, edits, moves and deletes leaves an injection
  outside the main currency's pocket without a spend, a link to a row that is no
  longer a spend of its day and pocket, a link without its injection but for those a
  fee change leaves in the main currency's pocket, or an adjustment of a snapshot that
  is gone; a spend under the smart default never leaves its pocket below zero
  when no snapshot precedes it; both of two snapshots stay on their amounts.
- *Scheduler.* For a schedule that never was an investment, occurrences and
  transactions are one to one through crashes, refused writes, misfires, edits,
  deletes and a job racing a catch-up for the same date, whichever comes second.
  A boot whose catch-up gets to its end leaves no fire date behind of a schedule whose
  entity is there, also one missed before the last clean shutdown, by a catch-up that
  failed, or while the entity was deleted: the window of the catch-up is the earlier of
  shutdown and start date (`scheduler.py:335`), and the mutant that takes the shutdown
  alone fails.
- *Boot.* Wherever boots were killed, a boot that gets past its migrations has
  every one of them on record and its end-state in place, and no row is served
  in an older release's time; `ServesSchema` needs the migrations themselves,
  which create or fail on what a killed schema script left out, except
  `scheduler_state`. A migrating boot that serves has a good backup of the
  migrated database, and pruning, which counts unusable files too, never
  removes the last good one.
- *Syncs.* A run that finds the lock taken, raises, is refused by the database or
  dies leaves the lock as it must be; what the freshness skip passes over has
  its rows; only a price sync waits for the network with the database locked.
- *Catalogue.* The references of the tables named in `Enforced` resolve within
  their profile without any foreign key; section 5 lists those that do not.
- *Market cycle.* With rates at rest the machine comes to rest; two transitions can be
  confirmed at once in the Hiking and the Cutting Cycle only; a move is taken
  back by the next month between Hiking Cycle and High Real Rates only.
- *Taxes.* Sells take the oldest units of their own entity whatever order rows were
  entered in; the lots a walk leaves are the quantity SQL sums, but for the rows
  the walk passes over, plus what was sold without being held; the tax of a year lies
  between the tax on its net and the tax on its gains.

Each property of a passing run has a mutant, a definition named `X_...` beside
the `X` it breaks, which makes TLC find the property violated.

### Fairness

Three runs use any.

`breaker_recovery`: weak fairness of `Tick` (time passes), of `Answer(c)` (a
request on the wire ends, for the HTTP client has a timeout), of `Finish(c)` (a
thread that has its answer goes on) and of `Request(c, _)` (calls keep coming:
the price and rate jobs are cron jobs and the health route is polled by the
frontend). Nothing is assumed of the provider (`Flip` is not fair), nor of
which caller wins.

`sync_safety`: weak fairness of `Step(t)` of each thread that has begun a run,
for requests have timeouts, sleeps end, and a wait for the database lock ends
after five seconds. No run has to start, nothing has to succeed, and kills are
not excluded.

`cycle_safety`: weak fairness of a new month in which both rates are published.
`Settles` speaks of what is replayed for such months; the code is invoked by
requests, and each gives the state of the model at that time.

The other modules make no liveness claim: in the ledger and the catalogue every
change is complete when its request returns, a report of `TaxablePnl` is one
request, and for the scheduler "a date is made up eventually" is what
`BootCatchesUp` says of the next boot, without fairness; nothing in the code
makes a boot happen, in `Boot` either.

## 4. What is proved

All theorems hold for every value of the constants that the named `ASSUME`s
allow (`BreakerAssumption`, `LedgerAssumption`, `NoRowAssumption`,
`SchedulerAssumption`, `BootAssumption`, `SyncAssumption`,
`CatalogueAssumption`, `CycleAssumption`, `EntriesAssumption`,
`RatesAssumption`, `NoSaleAssumption`), which TLC evaluates on every run.

| Theorem | States | Argument |
| --- | --- | --- |
| `TypeCorrect` | `Spec => []TypeOK` | inductive with `ClosedBelowThreshold`: `failures <= Threshold` survives a failure because a closed circuit is strictly below |
| `ClosedCircuitBelowThreshold` | `[]ClosedBelowThreshold` | the same invariant |
| `TrialsAreSpaced` | `TrialsSpaced` | an open circuit has been open no longer than the last trial is old (`openAge <= trialAge`), so an expired cooldown implies an old trial |
| `HalfOpenIsAccounted` | `[]HalfOpenAccounted` | the trial that leaves is the one that recorded, or is `lost` |
| `LinksAlwaysFund` | `Spec => []LinksFund` | `Sound` below |
| `InjectionsStayAttached` | `[]InjectionsAttached` | `Sound` below |
| `AttachmentModelHolds` | `[]AttachmentModel` | the two together |
| `LedgerTypes` | `Spec => []TypeOK` | `Well` below |
| `AdjustmentsStayAnchored` | `[]AdjustmentsAnchored` when no request re-dates a snapshot, or there is one pocket | `Well` below |
| `FeelessSpendsAreFunded`, `SpendsAreFunded` | `SpendsFunded` for spends without a fee of their own; as the run has it, without the endpoints that enter fees; both under hypotheses discussed below | `Walked` below |
| `SnapshotsLand` | `OrderedSpec => []LandsOnTarget` under hypotheses discussed below | `LandsInv` below |
| `SchedulerTypes` | `Spec => []TypeOK` | `Dated` below |
| `OccurrencesExactlyOnce` | `Spec => []ExactlyOnce` | `IInv` below |
| `BootsCatchUp` | `Spec => BootCatchesUp` | `Booting` below |
| `ImplementsOccurrences` | `Spec => KeepsLedger` | step simulation below |
| `BootsMigrated`, `BootsInUtc` | `[]ServesMigrated`, `[]ServesUtc` | `BootInv` below |
| `BootTypes`, `BootsWhole`, `MigrationsAreBackedUp`, `GoodBackupKept` | `[]TypeOK`, `[]ServesSchema`, `[]MigratedIsBackedUp`, `PruneKeepsGood` | `BackupInv` below |
| `SyncTypes`, `RunsNeverOverlap`, `NetworkWithoutLock`, `FreshMeansStored` | `[]TypeOK`, `[]OneFlight`, `[]NoLockOnNetwork`, `[]FreshIsStored` | `SyncInv` below |
| `CatalogueTypes`, `ReferencesResolve`, `DeletedEntitiesAreEmpty` | `[]TypeOK`, `[]RefsResolve`, `[]DeletedIsEmpty` | `CatalogueInv` below |
| `NamesStayDistinct`, `PeriodsStayDisjoint` | `[]NamesDistinct`, `[]PeriodsDisjoint` | `TidyInv` below |
| `CycleTypes`, `CutsAndHikesNeverTie`, `OnlyHikingFlaps` | `[]TypeOK`, `[]TiesAreMixed`, `FlapsOnlyWhileHiking` when `Triggered >= 2` | `CycleInv` below |
| `WalkInvariant`, `SellsAreFirstInFirstOut` | `[]WalkInv`, `[]FirstInFirstOut` | `WalkInv` below |
| `LotsAreHoldings`, `ReportTypes` | `[]HoldingsMatchLots`, `[]TypeOK` | `HoldInv` below |
| `NetAmountsAreTaxed`, `TaxesStayWithinBounds` | `[]NetIsTaxed`; `[]TaxWithinBounds` when the marginal rate of no base falls | bands below |

*Ledger.* The invariant is stated on tables, not on variables: `Sound(d)` is
`Shape(d)`, `Joined(d)` (a link joins an injection to a spend of its slot; a dangling
one still names a spend of its slot, in the main currency's pocket) and
`HeldBut(d, {})` (every injection outside the main currency's pocket has a link). Each
statement of a handler has a lemma from tables to tables; a handler's lemma
composes them, and `CommitSound` carries the result to the primed variables.
Inside a handler the invariant is broken on purpose: between funding a spend and
linking it, the injection of its slot may have no link. `Pending(d, t)` is that
state, and `LinkingSound` repairs it. `BalanceAt` is never expanded here: the
attachment model is correct whatever balances are. The theorems have no hypothesis on
`MainCurrency`; instead the property says what the code does not keep in that
currency's pocket. A fee injects there and links the row through an empty interval,
and a fee deletes an injection there and keeps its links (section 5). A dangling link
does no harm by itself: ids are never reused, the joins do not meet it, and
`remove_links_for_transaction` takes it away with the spend it names, which is why
that part of `LinksFund` holds.

*Ledger, amounts.* A balance is a sum over finite sets, which is recursive inside
the community modules. What the proofs need of it is proved from its definition:
the recursion has a value on every finite set and only one (`IterationExists`,
`IterationUnique`), so a sum takes any element out (`SumTakes`), is an integer
(`SumIsInt`) and depends on the values in its set only (`SumOfSame`). Induction is
on the cardinality, with a *set* of the sizes for which the statement holds in the
place of the formula (`CountUp`, from the well-foundedness of the naturals, and
`GrowSet`), since an induction theorem with an operator argument cannot be
instantiated. The invariant is `Well(d)`: the rows have their types (`Typed`), a
fee belongs to a stored transaction (`Owned`), and, while no request re-dates a
snapshot or there is one pocket (`PocketsFixed`), an adjustment belongs to a live
snapshot of its pocket and sits at its own instant (`Anchored`). An edit of the
currency alone breaks the last part (section 5), so the hypothesis stays.

*Ledger, funding.* `Walked(d, p, ts)` is the balance from the origin, which is what
`BalanceAt` returns when no snapshot is earlier. Storing a spend takes its cash
out of it (`SpentBalance`), an injection in the slot of the day before puts its
rise in (`InjectedBalance`), and together the pocket ends at zero or above
(`FundedBalance`). The refreshes at the end of a request may rewrite adjustments,
of this pocket too; `RecalculateQuiet` shows that they are later than the spend.
That needs `Anchored` and `DaysApart`: no transaction falls between an adjustment
and its snapshot. Without the latter, entering a spend on the day of a later
snapshot changes the adjustment behind it and the pocket is overdrawn; and the
fee of an edited spend is left out of what it is funded from, hence the
hypothesis on fees. Section 5 has the instances on which TLC finds both. The
run's constants satisfy every hypothesis of `SpendsAreFunded`.

*Ledger, snapshots.* A walk to a snapshot counts what has moved before it since the
origin (`Net`), less what was counted at the snapshot before (`BalanceParts`). Each
statement of a handler is a `Shift`: it changes everything one pocket moved before the
snapshots after some instant by one amount, and nothing else. Only the first snapshot
after that instant feels it, since later ones count from a snapshot that has moved by
as much (`ShiftLands`). Reconciling is the shift by what the balance of the snapshot
lacks, from its adjustment on: it lands the snapshot and disturbs no other, because
adjustments stand between neighbouring snapshots (`SetLands`). Inside a handler
`Settled(d, S)` says that all snapshots land but those of `S`; a statement may add to
`S` the snapshot a refresh will look at (`Touched`), and the refreshes that end the
handler empty it (`SettledStep`, `RefreshSettles`). `LandsInv` is `Well`, `Sound`, no
two snapshots of a pocket at one instant, all landed, and one pocket or no fees.
The hypotheses are about the use made of the ledger:

- no request deletes or re-dates a snapshot, deletes a generated adjustment or
  injection, or moves a fee to another transaction, and none is a manual adjustment;
- there is one pocket, or no deletes and no fees;
- no transaction and no injection of one is at the instant of a snapshot or separated
  from the other by it, and adjustments come after the snapshot before.

Each stands for instances, given in section 5, on which TLC finds the property violated;
the run's constants satisfy them all.

*Scheduler, exactly once.* `ExactlyOnce` alone says nothing of inserts that are
not committed yet. `Batched` says how `open` relates to `occ` and `made` while
the catch-up works: an open occurrence is new, it has an open or committed
transaction, and, for a schedule that never was an investment, the open
transactions are those of the open occurrences and of the row being written.
`Working` ties the program counter to the data, and `InvestedKnown` the history
to the rows. The write lock appears as the guard `~Locked` of `JobWrite`: it is
what keeps an open occurrence new.

*Scheduler, boot.* While the process boots nothing else runs, and `Booting` says
that every due date of every schedule whose entity is there is still to do, open or
stored; at `CatchUpCommit` the first set is empty and the second becomes part of the
third. A catch-up that fails has the date it failed on in `todo`, so a boot that ends with
nothing to do has committed. `BootLists` shows that `Boot`
starts from all due dates, which is where the window of the catch-up matters.

*Scheduler, types.* `Dated` adds to `IInv` what `TypeOK` says of the clock and of
dates: `DatesInCalendar` shows that no offset of a timezone takes the date of
a fire out of the calendar of the model.

*Scheduler, refinement.* A commit (of a job, of a catch-up, or of the middle of an
investment) maps to `Post` of the dates that are new in `occ`; that their
transactions are new and one each is `IInv`. Making a schedule an investment
maps to `Exempt`. Every other action leaves the three mapped variables alone.

*Boot.* `ServesMigrated` by itself says nothing until the migrations are done.
`Progress` adds that while they run, every migration before `next` is on record
with its end-state; only an edit while the process serves, or a restore while it
is down, takes an end-state away, and both send the next boot back to the start.
For `ServesUtc`, `Dates` says of the database and of every backup that rows in
an older release's time mean that 020 is not on record; between 020's apply and
its record the rows are already converted.

*Boot, tables and backups.* `Shaped` says of a database that an end-state in place
means that the tables its migration makes are there; with all 28 in place nothing
is missing but what no migration looks at (`MigratedWhole`), which is
`ServesSchema`. `BackupInv` says of every good backup that its database would
verify again and owes no more conversions than kills have happened (a restore
brings it back), that a good backup means that the database verifies, and that
no file is later than the one being written: that makes a verified copy the
newest, so that pruning, with a retention of one or more, keeps it.

*Syncs.* `FlightInv`: a thread that runs under a lock finds it held, and nobody
else runs under it. `WriterInv`: the writer is a thread that has something to
write. `DataInv`: the soundness of stamps holds of the committed database and of
the draft, and without a writer the two are one; a commit then keeps it.

*Catalogue.* A row never refers to a key that was not issued, keys are unique, and
each enforced reference resolves; the lemmas are about adding a row whose
references resolve, dropping rows to which no kept row refers, and replacing a row
under its key. Each endpoint is one of the three, once its guard has been read
as the hypothesis of the lemma. `held` rows are why `loose` exists. `TidyInv` is
about pairs: two watched rows are `Apart`, by name and type or by span, and a write keeps
that if its row is apart from every row that stays (`TidyWrite`); periods are
never soft-deleted, so that the check of a new one sees them all.

*Market cycle.* `Replayed` says that `state` is what `Moved` makes of
`settled` and the points. A move takes an edge confirmed in the month before,
and the one back is confirmed now. With `Triggered >= 2` both look at the
reading in between, and for every pair but Hiking Cycle and High Real Rates the
two conditions exclude each other there.

*Lots.* `QueuesOrdered`: each queue is in the order of purchase and holds buys the walk has
passed. `SellsOrdered`: the sells matched are older than those to come.
`OldestFirst`: whatever a sell consumed is no younger than what the queue holds.
`Take` removes from the front only, which keeps all three; the rows cannot change during
a walk, since a report is one request.

*Holdings.* `HoldInv` balances each entity at every step of the walk: units in lots
plus units of the sells passed are the units of the buys passed, plus what has
vanished, plus what the sell under way still has to take; rows the walk leaves out are on
neither side. At the end of the walk the rows of an entity are those passed and those
`LeftOut`, over which SQL's sums are two sums, and that is `HoldingsMatchLots`.

*Taxes.* The tax of a stretch is the sum of its widths in each band times the rate
(`Widths`, `Progressives`), so a step of one unit costs the `Marginal` rate at its
foot. For the lower bound, one item adds the tax of its stretch when it rises and
nothing when it falls, which is never less than what it moves the tax on the net;
that holds for any bands. For the upper bound, a stretch begun at a net that losses
have lowered must cost no more than the same stretch on top of all gains (`Climb`),
which is true when marginal rates do not fall (`RatesRise`). The code does not
enforce that on the brackets a user enters (`tax_engine.py:120` sorts them and no
more), so it is a hypothesis of the theorem; the run's brackets satisfy it.

*Model-checked only:* `Recovers`, `FlightsLand` and `Settles`, which are liveness
under fairness and out of the prover's reach. Every other property of the runs that
pass is the conclusion of a theorem.

## 5. Where code and documents disagree

One disagreement has a run, `boot_self_heals`: an edited seeded tax base makes
every later boot fail, against `doc/subsystems/database.md:383`; `PROJECT.json`
quotes both sides. The others were found with the same modules, most of them as
counterexamples to a formula that the module states and no run checks.

### Circuit breaker

| What | Formula, instance |
| --- | --- |
| While a trial is out, the failure of a request sent before the outage re-opens the circuit and a second trial may leave after the cooldown (`api_resilience.py:125`), against "Only one half-open trial is allowed at a time." (`:80`) | `SingleTrial`; three callers, the other constants 1 |
| A trial answered with a 404 or another non-retryable status calls no `record_*` (`api_client.py:87`): the circuit stays half-open and refuses everything until a restart, against "success recovers to CLOSED, failure re-opens" (`api_resilience.py:47`) | `TrialResolves` under the fairness of section 3; one caller, refusals among `UpAnswers` |

### Cash ledger

`LandsOnTarget` also fails when a transaction in one currency is paid from another
pocket and deleted: the pair refreshed is the currency's (`transaction_svc.py:685`,
against `finance.md:358`). `InjectionsAttached` without its exception for the main
currency's pocket fails with the constants of `CashLedger_endpoints.cfg` and one fee: the
interval of the linking query is empty (`transaction_svc.py:229`, against
`finance.md:344`). `dangling = {}` fails with the same constants: a change of fees that
finds the main pocket at zero or above deletes the injection of the day and leaves its
links (`transaction_svc.py:209`, against the `ON DELETE CASCADE` of `schema.sql:106`).
The balance it tests has that injection in it (`:200`), so what is deleted is
cash that a spend still needs.

The following are reproduced on `MCCashLedger` with the constants of
`CashLedger_reconciliation.cfg` changed as given; the property is `LandsOnTarget`
unless another is named.

| What | Where | Constants to change |
| --- | --- | --- |
| Deleting a snapshot leaves the next one on an adjustment computed from it | `balance_snapshot_svc.py:179` | `Targets {1, 4}`, `Ops {"snapshot", "unsnapshot"}` |
| The adjustment of a snapshot moved in time is computed while its row holds the old instant | `balance_snapshot_svc.py:151` | `Ops {"snapshot", "resnapshot"}` |
| The later of two snapshots of one day has its adjustment before the earlier one, where the walk from the earlier one does not meet it | `db/queries.py:1445`, against "the final event of the interval" (`finance.md:290`) | `SnapInstants {6, 7}`, `Ops {"snapshot"}` |
| A snapshot entered behind a later one leaves that one's adjustment as it was computed without it | `balance_snapshot_svc.py:87`, against `finance.md:364` | `SPECIFICATION Spec`, `Ops {"snapshot"}` |
| A transaction after a snapshot of its own day: the injection for it stands before that snapshot, and the refresh is of the next one | `transaction_svc.py:270` | `Instants {3, 7, 15}`, `Ops {"create", "snapshot"}` |
| A snapshot at the very instant of an injection: the walk to it counts the injection, the refresh after the injection passes it by | `transaction_svc.py:270` | `SnapInstants {5, 8}`, `Ops {"create", "snapshot"}` |
| A manual adjustment, which moves cash, refreshes no snapshot | `transaction_svc.py:441`, `:616`, `:684`, against `finance.md:358` | `Kinds {"in", "manual"}`, `Ops {"create", "snapshot"}` |
| Deleting a generated adjustment through the transactions refreshes no snapshot | `transaction_svc.py:684` | `Ops {"snapshot", "delete_generated"}` |
| A fee moved to another transaction: only the new one's snapshots are refreshed | `transaction_fee_svc.py:111`, against `finance.md:353` | `Ops {"create", "snapshot", "fee", "move_fee"}` |
| The conflict check of a new snapshot looks at the currency column, not at the pocket that paid | `db/queries.py:1344`, against `doc/calculations/finance.md:374` | two pockets, `Ops {"create", "snapshot"}`; read off the guard of `CreateSnapshot`, which admits a snapshot before a payment from its pocket; no property is broken by it alone |
| A fee-driven injection overwrites a spend-driven one of the same slot | `transaction_svc.py:212` | those of `CashLedger_attachment.cfg` with two pockets, `MainCurrency = eur`, `Kinds {"out"}`, `Modes {"auto"}`, `Instants {3}`, `Ops {"create", "fee"}`; `[][\A slot \in DOMAIN inj \cap DOMAIN inj' : inj'[slot] >= inj[slot]]_vars` |
| A fee of a transaction in the main currency that was paid from another pocket: the early return leaves the main pocket, which the fee charges, unrefreshed | `transaction_svc.py:187`, against `finance.md:353` | two pockets, `MainCurrency = eur`, `Ops {"create", "fee", "snapshot"}` |
| Spends entered out of order within a day: the injection covers what was recorded so far, not the deepest deficit | `transaction_svc.py:276`, against `finance.md:343` | `Instants {3, 4}`, `Ops {"create"}`, `Modes {"auto"}`, and as the property that the balance at each stored spend is not negative |
| A spend after a snapshot of the same day is funded behind the snapshot, and repeated edits of it grow the injection without bound | `transaction_svc.py:270`, against `finance.md:311` | an instant 7 beside the snapshot at 6, `Ops {"create", "update", "snapshot"}`, and as the property any bound on `inj`; unbounded, so the passing runs avoid it |
| Editing a spend that carries a fee: what it is funded from leaves its own fee out with its row, and the pocket may end below zero by that fee | `db/queries.py:1687`, against `doc/calculations/finance.md:349` | those of `CashLedger_attachment.cfg` with `Ops {"create", "update", "fee"}`; `SpendsFunded` |
| A spend between the adjustment of a later snapshot and that snapshot: recording it lowers the adjustment behind it, which overdraws the pocket it has just been funded in | `transaction_svc.py:276`, against `finance.md:343` | those of `CashLedger_attachment.cfg` with `Instants {6, 7}`, `SnapInstants {8}`; `SpendsFunded` |
| A snapshot whose currency is edited alone keeps an adjustment in the old pocket | `balance_snapshot_svc.py:148`, against `finance.md:335` | two pockets, `Ops {"snapshot", "resnapshot"}`, `AdjustmentsAnchored` |

### Scheduler

- The first date of `POST /schedules/full` is made by the request with no
  occurrence to show for it (`schedule_full_svc.py:35`): the next boot makes it
  again, against "No transaction created" (`workflow.md:735`) and "This eliminates
  double-counting" (`:752`). `OncePerDate` fails with one income schedule, days of
  one tick and one restart.
- A weekly or monthly job fires by its trigger's weekday or day of month from the
  moment it is registered, before its start date (`scheduler.py:433`), against
  "active period" (`doc/uc_4_schedules.md:23`). `WithinPeriod` fails with a weekly
  schedule of a later week.
- `has_schedules_on_or_before`, which `finance.md:375` describes, is called by nothing.
- Re-dating a recurring schedule to a past ONE_OFF gives no trigger, and the old job
  stays registered (`scheduler.py:453`), against `doc/uc_4_schedules.md:71`.
- A job that has read an expired end date removes the job that an edit has just
  registered (`scheduler.py:640`).
- A WEEKLY trigger gives a crontab its weekday with Sunday as 0 (`scheduler.py:433`), and the
  model takes it as meant. APScheduler 3, which is not in the repository, is documented to
  count weekdays from Monday: with that reading every weekly job fires a day late and
  the next boot makes the day it missed as well. The properties checked do not depend on it.
- A catch-up that fails at boot is logged and leaves what it had not committed, dates of
  other schedules included, to the next boot (`scheduler.py:363`). `BootCatchesUp` speaks
  of catch-ups that got to their end.
- QUARTERLY jobs fire in January, April, July and October (`*/3`), whereas the
  catch-up steps three months at a time from the start date.
- A profile's timezone behind the server's dates a fire one day early
  (`scheduler.py:668`), against `doc/uc_8_system_initiated.md:23`.
- An INVESTMENT_* catch-up interrupted between its inner commit and its occurrence is
  repeated (`scheduler.py:281`), against `doc/uc_8_system_initiated.md:185`. This is why
  `ExactlyOnce` speaks of schedules outside `invested`.
- `POST /schedules` with a start date of today is not caught up until the next boot,
  though midnight's trigger has passed.

### Boot

- 020 converts and commits before it is recorded (`connection.py:113`): a kill in between
  shifts every naive timestamp by nine hours again, against the idempotent apply
  of `database.md:335` and `connection.py:74`. `ConvertedOnce` fails with one kill;
  `ServesUtc` says what is left, that no row stays in the older release's time.
- Unless the daily backup ran in the same boot, the backup named pre-migration is taken
  after the migrations (`backup_svc.py:237`), against `backups.md:50`. Hence
  `MigratedIsBackedUp` speaks of the migrated database.
- Two backups of a second share a file; the empty file of a killed backup counts as
  the backup of its day.
- A kill after `CREATE TABLE T_new` in 006, 014, 026 or 027 makes every later boot
  fail on the table that is already there.
- A schema script killed between `schedules` and `scheduler_state` leaves a database
  without `scheduler_state` that is served (the exception in `ServesSchema`).
- A database from before profiles, first started after the hour of the daily backup,
  fails that backup's verification, and so its boot.
- A snapshot whose notes begin with "Auto-" makes 016's `verify()` fail: the next boot
  deletes it and rebuilds injections without links. 023 inserts again what the user deleted.

### Syncs

- A price stored while the market is open is never replaced by its close
  (`market_sync_svc.py:125`): the insert of the next run is swallowed as a
  duplicate, against "upsert price + history into `prices`"
  (`uc_8_system_initiated.md:205`). `ClosesReplace` fails.
- A price sync holds SQLite's write lock from its first row to its commit, through
  requests and sleeps (`market_sync_svc.py:68`); rates that meet that lock are
  dropped after five seconds and reported nowhere (`currency_svc.py:295`,
  against `uc_6_currency.md:47`).
- `scripts/macro_sync.py` promises to force a series; the freshness skip applies to it.
  Its lock is its own process's, so it may overlap a run of the backend, as may
  `POST /currencies/sync` and the rate job, which have no lock.
- UC-54 says of macro series both that history is never overwritten and that revisions
  are caught; a stored value is never changed.
- Deleting a market asset during a run leaves its prices behind.
- `_sync_windows` (`currency_svc.py:211`) drops the last day of a back-fill whose length
  is a multiple of 366 days.

### Catalogue

- The delete of a market asset asks the active profile's portfolio assets only
  (`db/queries.py:473`, `market_asset_svc.py:117`), against `workflow.md:1608`.
  `AssetsHaveMarket` fails with two profiles.
- A charge on the adjustment of a snapshot is orphaned when the snapshot is deleted or
  re-dated (`balance_snapshot_svc.py:179`), and one on an injection when the
  injection is deleted (`transaction_svc.py:209`, `db/queries.py:1580`); an adjustment keeps the entity its
  snapshot had when it was made.
- `workflow.md` (278-285, 1606) says that schedules block the deletion of an entity; the query
  does not look at them (`db/queries.py:182`). It also says that foreign keys are
  the safety net, which no connection enables, and that a transaction's charges
  go with it, where the code answers 409.
- Deleting a profile leaves its fiscal periods and adjustment links
  (`api_endpoints.md:104`), and a job that had read its schedule writes a transaction of no profile.
- Children of splits, manual values and tax bases are orphaned; the ids of fee and tax
  definitions are not checked; deleting a manual value of another profile answers 204.

### Market cycle

- In a resumed hiking cycle the machine alternates between Hiking Cycle and High
  Real Rates every month (`market_cycle_engine.py:595`, `:636`), against the
  "unique, stable target" of `state_engine.md:212`. `StableTarget` fails on
  `MCHikes`; `FlapsOnlyWhileHiking` and its theorem say that nothing else alternates.
- The cause: the months a signal held before the state was entered count. Since
  nothing is stored, a revised month may also make the displayed state jump.

### Lots and taxes

- Any edit of a sell resolves its `fiscal_rule` again (`db/queries.py:975`), and dividends
  resolve theirs when read (`analytics_svc.py:1356`), against "frozen at creation"
  and "never retroactively change past operations, whether sells or dividends"
  (`uc_9_planned.md:87`, `plans/fiscal_rules_pnl_engine.md:21`).
- The report's ruleset is that of the first profile of the table (`analytics_svc.py:1274`),
  and two queries of `get_performance_summary` are not scoped to a profile.
- A sell of more than is held is not refused: what no lot covers vanishes from the walk,
  the quantity in SQL goes negative, and the proceeds are taxed against part of
  their cost. `HoldingsMatchLots` is stated with `vanished` for this reason.
- A buy or sell stored without a total, or with a quantity that is not positive, is
  passed over by the walk (`pnl_rules.py:154`, against "walking all `INVESTMENT_BUY` and
  `INVESTMENT_SELL`" of `finance.md:422`) and summed by the holdings: a buy of 5
  without a total is held and has no lot. `HoldingsMatchLots` takes such rows (`LeftOut`)
  off the sums; without that term it fails on the run's instance with one row.
- A buy of the same instant with a smaller id is matched, against "timestamp < T"
  (`finance.md` 11.1; 17.9 calls exact ties practically impossible).
- With brackets, the tax of a year with losses depends on the order of its items; hence
  the two bounds of `TaxWithinBounds` and no equality. A flat base may owe a negative tax.
- Fiscal year and rule go by the UTC date, not the profile's calendar
  (`timezone_model.md:9`, `:60`); `_to_iso` drops an offset (`timezone_model.md:14`).

## 6. What is not modelled

- *Update check*: a cached look-up nothing depends on.
- *Analytics* other than the taxable P&L and holdings: read-only arithmetic over the
  tables, without state to get wrong.
- *Routes and models*: validation and translation; what a handler does is modelled with
  the service it calls. *Frontend*: presentation.
- *Of the syncs*: what `macro_client` makes of a provider's format, the windows of a
  rate back-fill. *Of the market cycle*: the metrics shown beside the state.
- *Of the assets*: manual values and stock splits. *Of the tax engine*: withholding and
  taxes confirmed by the user, per-definition taxes.
- Database-level atomicity: a request that raises is rolled back by SQLite, so a composite
  request is one step of the models that contain it.

Within the modelled components, section 2 names what is abstracted.

## 7. Plan

Done: the nine models above with their runs, refinement and theorems. The project
keeps to a dozen runs, so that all of them stay part of the routine: a
counterexample that is understood moves to section 5, and its formula stays in its module.

1. `Breaker`, an abstract specification (closed, open until, one owner of the trial)
   that `CircuitBreaker` implements when no call is in flight at the trip; `Sync`
   composed with it.
2. Splits in `TaxablePnl`, then several assets and a payment currency; withholding and
   confirmed taxes.
3. `FireDates` against `Triggers` over all small plans, QUARTERLY being the known exception.
