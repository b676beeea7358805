------------------------------- MODULE Boot -------------------------------
(***************************************************************************)
(* What the process does before it serves (main.py, lifespan), and what    *)
(* happens to its database around that: the backup of the day, the schema, *)
(* the migrations, the backups around them, the seeds                      *)
(* (db/connection.py, db/migrations, services/backup_svc.py, scripts).     *)
(*                                                                         *)
(* A boot is a sequence of steps, each of which commits; the process may   *)
(* be killed between any two, inside the schema script and inside a        *)
(* migration that rebuilds a table.  A boot that raises leaves the process *)
(* down.  Between boots the database may be replaced by a backup, and      *)
(* while the process serves its user edits what the migrations verify.     *)
(*                                                                         *)
(* The database is known by its tables, the migrations on record, the ones *)
(* whose end-state verify() finds, and the distance of its timestamps from *)
(* UTC.  A clock tick is one second, the resolution of a backup's name.    *)
(***************************************************************************)
EXTENDS Integers, Sequences, SequencesExt

CONSTANTS Eras,           \* <<on record, applied>>: how far an old database has come
          DayLength, CronSecond,     \* a day, and the second of BACKUP_CRON in it
          Retention,      \* BACKUP_RETENTION
          LastSecond, MaxKills       \* bounds: the clock, kills of the process

VARIABLES phase,          \* of the process: "down", a step of lifespan, or "up"
          next,           \* the migration _run_migrations has come to
          fresh, applied, dailyRan,  \* lifespan's results of init_db and of the daily backup
          db,             \* the database file
          files,          \* the backup of each second
          target,         \* the second of the backup being written, or NoBackup
          error,          \* what the last boot raised: "none", "backup" or "migration"
          clock, kills

run == <<phase, next, fresh, applied, dailyRan>>
vars == <<run, db, files, target, error, clock, kills>>

-----------------------------------------------------------------------------
(* The schema and the migrations. *)

\* schema.sql, in the order of its statements; executescript commits each.
Schema == << "currencies", "profiles", "entities", "fiscal_exemptions", "market_assets",
             "portfolio_assets", "transactions", "balance_adjustment_links",
             "transaction_fees", "transaction_taxes", "prices", "balance_snapshots",
             "schedules", "scheduler_state", "schedule_occurrences", "stock_splits",
             "manual_values", "fiscal_periods", "tax_catalog", "macro_series" >>
Tables == ToSet(Schema)

\* What a migration does: the tables it raises without, the tables it creates when
\* they are missing, and how it behaves when it runs again:
\*   "guarded"   every statement is guarded or repeatable, or all are one transaction
\*               (022 inserts before it creates its T_new);
\*   "rebuild"   CREATE TABLE T_new, which commits at once and is not guarded, then
\*               copy, drop and rename in one transaction, whether needed or not;
\*   "widen"     the same, only while the CHECK it replaces is there;
\*   "convert"   shifts every timestamp without an offset;
\*   "seed"      inserts the rows whose key is missing and leaves those of a user.
Migration(op, needs, makes) == [op |-> op, needs |-> needs, makes |-> makes]
Guarded(needs, makes) == Migration("guarded", needs, makes)

M001_purchase_date == Guarded({}, {})
M002_backfill_snapshots == Guarded({"transactions"}, {})
M003_stock_splits == Guarded({}, {"stock_splits"})
M004_schedule_asset == Guarded({"schedules"}, {})
M005_manual_values == Guarded({}, {"manual_values"})
M006_transfer_types == Migration("widen", {"transactions"}, {})
M007_schedule_occurrences == Guarded({"transactions"}, {"schedule_occurrences"})
M008_profiles == Guarded({}, {"profiles"})
M009_market_asset_last_synced == Guarded({}, {})
M010_income_category == Guarded({"schedules", "transactions"}, {})
M011_rename_investment_category == Guarded({"transactions"}, {})
M012_fiscal_periods == Guarded({"transactions"}, {"fiscal_periods"})
M013_tax_rates == Guarded({"profiles"}, {})
M014_add_cashback_category == Migration("rebuild", {"transactions", "schedules"}, {})
M015_balance_snapshot_id == Guarded({"transactions"}, {})
M016_consolidate_auto_snapshots == Guarded({}, {})
M017_persist_cash_handling == Guarded({"transactions"}, {"balance_adjustment_links"})
M018_add_entity_main_currency == Guarded({"entities"}, {})
M019_add_profile_timezone == Guarded({"profiles"}, {})
M020_backfill_jst_to_utc == Migration("convert", {}, {})
M021_tax_schema_v2 == Guarded({}, {"tax_catalog"})
M022_drop_tax_type == Guarded({}, {})
M023_seed_tax_catalog == Migration("seed", {"tax_catalog"}, {})
M024_macro_series == Guarded({}, {"macro_series"})
M025_ecb_deposit_rate_source == Guarded({"macro_series"}, {})
M026_official_macro_sources == Migration("widen", {"macro_series"}, {})
M027_usa_policy_rate_source == Migration("widen", {"macro_series"}, {})
M028_usa_10y_yield_source == Guarded({"macro_series"}, {})

Migrations == <<
  M001_purchase_date, M002_backfill_snapshots, M003_stock_splits, M004_schedule_asset,
  M005_manual_values, M006_transfer_types, M007_schedule_occurrences, M008_profiles,
  M009_market_asset_last_synced, M010_income_category, M011_rename_investment_category,
  M012_fiscal_periods, M013_tax_rates, M014_add_cashback_category,
  M015_balance_snapshot_id, M016_consolidate_auto_snapshots, M017_persist_cash_handling,
  M018_add_entity_main_currency, M019_add_profile_timezone, M020_backfill_jst_to_utc,
  M021_tax_schema_v2, M022_drop_tax_type, M023_seed_tax_catalog, M024_macro_series,
  M025_ecb_deposit_rate_source, M026_official_macro_sources,
  M027_usa_policy_rate_source, M028_usa_10y_yield_source >>
Versions == 1 .. Len(Migrations)
Consolidation == 16
Conversion == 20
Catalog == 23

ASSUME BootAssumption ==
  /\ Eras \subseteq Versions \X Versions
  /\ \A era \in Eras : era[2] <= era[1] /\ (era[1] < Conversion \/ era[2] >= Conversion)
  /\ DayLength \in Nat \ {0} /\ CronSecond \in 0 .. DayLength - 1
  /\ Retention \in Nat \ {0} /\ LastSecond \in Nat /\ MaxKills \in Nat

-----------------------------------------------------------------------------
(* The database. *)

Databases ==
  [tables : SUBSET Tables,
   recorded : SUBSET Versions,   \* schema_migrations
   ends : SUBSET Versions,       \* up() has run and verify() still finds what it left
   narrow : SUBSET Versions,     \* the "widen" migrations that still have work to do
   scratch : SUBSET Versions,    \* the ones that left a T_new behind
   reshaped : BOOLEAN,           \* a seeded tax base lost its categories or brackets
   rows : BOOLEAN,               \* there are transactions or snapshots
   lag : -MaxKills .. 1]         \* their timestamps, in steps of JST - UTC after UTC

NoDatabase == [tables |-> {}, recorded |-> {}, ends |-> {}, narrow |-> {}, scratch |-> {},
               reshaped |-> FALSE, rows |-> FALSE, lag |-> 0]

\* The tables migrations up to a version had not created yet.
Unborn(v) == UNION {Migrations[u].makes : u \in {w \in Versions : w > v}}

\* A database an older release left: some migrations on record, not all of them run.
Old(recorded, done) ==
  [tables |-> Tables \ Unborn(done), recorded |-> 1 .. recorded, ends |-> 1 .. done,
   narrow |-> {v \in {6} : v > done}
              \cup {v \in {26, 27} : done \in 24 .. v - 1},
   scratch |-> {}, reshaped |-> FALSE, rows |-> TRUE,
   lag |-> IF done < Conversion THEN 1 ELSE 0]

Rebuilds(v) == \/ Migrations[v].op = "rebuild"
               \/ Migrations[v].op = "widen" /\ v \in db.narrow

\* up() gets through: its tables are there, and no T_new of an attempt before.
\* Mutated form: tables are not needed.
Runs_guarded(v) == Rebuilds(v) => v \notin db.scratch
Runs(v) == /\ Migrations[v].needs \subseteq db.tables
           /\ Rebuilds(v) => v \notin db.scratch

\* What up() commits.  024 creates macro_series with the CHECK that 027 widens.
Migrated(v) ==
  [db EXCEPT !.tables = @ \cup Migrations[v].makes,
             !.ends = IF Migrations[v].op = "seed" /\ db.reshaped THEN @ ELSE @ \cup {v},
             !.narrow = IF v = 24 /\ "macro_series" \notin db.tables
                        THEN @ \cup {27} ELSE @ \ {v},
             !.lag = IF Migrations[v].op = "convert" /\ db.rows THEN @ - 1 ELSE @]

-----------------------------------------------------------------------------
(* Backups. *)

NoFile == [kind |-> "none", db |-> NoDatabase]
Unusable == [kind |-> "unusable", db |-> NoDatabase]
Copy(database) == [kind |-> "good", db |-> database]
Files == {NoFile, Unusable} \cup [kind : {"good"}, db : Databases]
NoBackup == -1
Seconds == 0 .. LastSecond
Day(second) == second \div DayLength
Listed == {s \in Seconds : files[s] # NoFile}
Verified == {s \in Seconds : files[s].kind = "good"}

\* verify_backup reads these three tables.
Verifies == {"profiles", "entities", "transactions"} \subseteq db.tables

\* is_daily_due: any file of the day counts, whatever is in it.
DailyDue == /\ clock % DayLength >= CronSecond
            /\ \A s \in Listed : Day(s) # Day(clock)

\* prune_backups: the newest names stay.
\* Mutated form: the list is taken oldest first.
Pruned_newest(backups) ==
  [s \in Seconds |-> IF Cardinality({t \in Seconds : t < s /\ backups[t] # NoFile}) < Retention
                     THEN backups[s] ELSE NoFile]
Pruned(backups) ==
  [s \in Seconds |-> IF Cardinality({t \in Seconds : t > s /\ backups[t] # NoFile}) < Retention
                     THEN backups[s] ELSE NoFile]

\* When create_backup is called: by startup_daily_backup, twice by migration_backups,
\* by the job of the day, and by scripts/backup.py (here: while the process serves).
\* Mutated form: the daily backup stands for both.
CallsBackup_once ==
  \/ phase = "daily" /\ db.tables # {} /\ DailyDue
  \/ phase \in {"pre", "post"} /\ ~fresh /\ applied /\ ~dailyRan
  \/ phase = "up"
CallsBackup ==
  \/ phase = "daily" /\ db.tables # {} /\ DailyDue
  \/ phase = "pre" /\ ~fresh /\ applied /\ ~dailyRan
  \/ phase = "post" /\ ~fresh /\ applied
  \/ phase = "up"

\* create_backup opens the file of this second, which is empty until the copy commits;
\* a file of the same second keeps its content until then.
OpenBackup ==
  /\ target = NoBackup /\ CallsBackup
  /\ target' = clock
  /\ files' = [files EXCEPT ![clock] = IF @ = NoFile THEN Unusable ELSE @]
  /\ UNCHANGED <<run, db, error, clock, kills>>

\* lifespan goes on after a backup, or after there was none to make.
AfterBackup ==
  IF phase = "daily" THEN "schema"
  ELSE IF phase = "pre" THEN "post" ELSE IF phase = "post" THEN "seed" ELSE phase

\* The copy is verified; the callers prune, except for the first backup of a boot.
CopyBackup ==
  /\ target # NoBackup /\ Verifies
  /\ LET copied == [files EXCEPT ![target] = Copy(db)]
     IN  files' = IF phase \in {"daily", "pre"} THEN copied ELSE Pruned(copied)
  /\ target' = NoBackup
  /\ phase' = AfterBackup /\ dailyRan' = (dailyRan \/ phase = "daily")
  /\ UNCHANGED <<next, fresh, applied, db, error, clock, kills>>

\* A copy that does not verify is removed; the error ends a boot, not a job.
BackupFails ==
  /\ target # NoBackup /\ ~Verifies
  /\ files' = [files EXCEPT ![target] = NoFile]
  /\ target' = NoBackup
  /\ phase' = IF phase = "up" THEN "up" ELSE "down"
  /\ error' = IF phase = "up" THEN error ELSE "backup"
  /\ UNCHANGED <<next, fresh, applied, dailyRan, db, clock, kills>>

NoBackupDue ==
  /\ phase \in {"daily", "pre", "post"} /\ target = NoBackup /\ ~CallsBackup
  /\ phase' = AfterBackup
  /\ UNCHANGED <<next, fresh, applied, dailyRan, db, files, target, error, clock, kills>>

\* scripts/restore.py and restore_from_backup: any file that verifies, once the
\* backend is stopped.
Restore ==
  /\ phase = "down"
  /\ \E s \in Verified : db' = files[s].db
  /\ UNCHANGED <<run, files, target, error, clock, kills>>
-----------------------------------------------------------------------------
(* lifespan. *)

Start ==
  /\ phase = "down"
  /\ phase' = "daily" /\ next' = 1 /\ fresh' = FALSE /\ applied' = FALSE /\ dailyRan' = FALSE
  /\ error' = "none"
  /\ UNCHANGED <<db, files, target, clock, kills>>

\* init_db runs the schema script only on a database without any table.
CreateSchema ==
  /\ phase = "schema"
  /\ fresh' = (db.tables = {})
  /\ db' = IF db.tables = {} THEN [db EXCEPT !.tables = Tables] ELSE db
  /\ phase' = "migrate"
  /\ UNCHANGED <<next, applied, dailyRan, files, target, error, clock, kills>>

\* The process dies inside executescript: what it created so far is committed.
DieInSchema ==
  /\ phase = "schema" /\ db.tables = {} /\ kills < MaxKills
  /\ \E n \in 1 .. Len(Schema) - 1 :
       db' = [db EXCEPT !.tables = ToSet(SubSeq(Schema, 1, n))]
  /\ phase' = "down" /\ kills' = kills + 1
  /\ UNCHANGED <<next, fresh, applied, dailyRan, files, target, error, clock>>

\* _run_migrations: on record and verified.
\* Mutated forms: the record decides; verify decides; 020 never verifies.
Done_recorded(v) == v \in db.recorded
Done_verified(v) == v \in db.ends \/ v = Conversion
Done_never(v) == v \in db.recorded /\ v \in db.ends /\ v # Conversion
Done(v) == v \in db.recorded /\ v \in db.ends

SkipMigrations ==
  /\ phase = "migrate" /\ next \in Versions /\ Done(next)
  /\ \E v \in next + 1 .. Len(Migrations) + 1 :
       /\ v \in Versions => ~Done(v)
       /\ \A u \in next .. v - 1 : Done(u)
       /\ next' = v
  /\ UNCHANGED <<phase, fresh, applied, dailyRan, db, files, target, error, clock, kills>>

RunMigration ==
  /\ phase = "migrate" /\ next \in Versions /\ ~Done(next) /\ Runs(next)
  /\ db' = Migrated(next)
  /\ phase' = "record"
  /\ UNCHANGED <<next, fresh, applied, dailyRan, files, target, error, clock, kills>>

\* The process dies, or the copy raises, after T_new was created.
DieInRebuild ==
  /\ phase = "migrate" /\ next \in Versions /\ ~Done(next) /\ Runs(next) /\ Rebuilds(next)
  /\ kills < MaxKills
  /\ db' = [db EXCEPT !.scratch = @ \cup {next}]
  /\ phase' = "down" /\ kills' = kills + 1
  /\ UNCHANGED <<next, fresh, applied, dailyRan, files, target, error, clock>>

RecordMigration ==
  /\ phase = "record" /\ next \in db.ends
  /\ db' = [db EXCEPT !.recorded = @ \cup {next}]
  /\ applied' = TRUE /\ next' = next + 1 /\ phase' = "migrate"
  /\ UNCHANGED <<fresh, dailyRan, files, target, error, clock, kills>>

\* up() raises, or verify() does not find its end-state.
MigrationFails ==
  /\ \/ phase = "migrate" /\ next \in Versions /\ ~Done(next) /\ ~Runs(next)
     \/ phase = "record" /\ next \notin db.ends
  /\ phase' = "down" /\ error' = "migration"
  /\ UNCHANGED <<next, fresh, applied, dailyRan, db, files, target, clock, kills>>

MigrationsDone ==
  /\ phase = "migrate" /\ next \notin Versions
  /\ phase' = "pre"
  /\ UNCHANGED <<next, fresh, applied, dailyRan, db, files, target, error, clock, kills>>

\* seed_currencies and seed_default_profile; the catch-up that follows is Scheduler's.
Seed ==
  /\ phase = "seed"
  /\ phase' = "up"
  /\ UNCHANGED <<next, fresh, applied, dailyRan, db, files, target, error, clock, kills>>

-----------------------------------------------------------------------------
(* While the process serves: what its user changes of what migrations look at. *)

\* New timestamps are UTC: they do not mix with those of an older release.
Write == db' = [db EXCEPT !.rows = TRUE]

\* delete_tax_base (perhaps the reshaped one), delete_tax_definition,
\* delete_broker_fee_definition.
DeleteSeeded ==
  \E still \in {FALSE, db.reshaped} :
    db' = [db EXCEPT !.ends = @ \ {Catalog}, !.reshaped = still]

\* update_tax_base: any computation, categories and brackets.
ReshapeSeeded == db' = [db EXCEPT !.ends = @ \ {Catalog}, !.reshaped = TRUE]

\* A snapshot whose notes begin with "Auto-".
NoteLikeAuto == db' = [db EXCEPT !.ends = @ \ {Consolidation}, !.rows = TRUE]

Serve ==
  /\ phase = "up"
  /\ Write \/ DeleteSeeded \/ ReshapeSeeded \/ NoteLikeAuto
  /\ UNCHANGED <<run, files, target, error, clock, kills>>

Stop ==
  /\ phase = "up" /\ target = NoBackup
  /\ phase' = "down"
  /\ UNCHANGED <<next, fresh, applied, dailyRan, db, files, target, error, clock, kills>>

Die ==
  /\ phase # "down"
  /\ kills < MaxKills
  /\ phase' = "down" /\ target' = NoBackup /\ kills' = kills + 1
  /\ UNCHANGED <<next, fresh, applied, dailyRan, db, files, error, clock>>

\* Time passes where it is read next: by a backup, or not before the next one.
Tick ==
  /\ phase \in {"down", "daily", "pre", "post", "up"}
  /\ clock < LastSecond /\ clock' = clock + 1
  /\ UNCHANGED <<run, db, files, target, error, kills>>

Init ==
  /\ phase = "down" /\ next = 1 /\ fresh = FALSE /\ applied = FALSE /\ dailyRan = FALSE
  /\ db \in {NoDatabase} \cup {Old(era[1], era[2]) : era \in Eras}
  /\ files = [s \in Seconds |-> NoFile] /\ target = NoBackup
  /\ error = "none" /\ clock = 0 /\ kills = 0

Next ==
  \/ Start \/ OpenBackup \/ CopyBackup \/ BackupFails \/ NoBackupDue \/ Restore
  \/ CreateSchema \/ DieInSchema
  \/ SkipMigrations \/ RunMigration \/ DieInRebuild \/ RecordMigration
  \/ MigrationFails \/ MigrationsDone
  \/ Seed \/ Serve \/ Stop \/ Die \/ Tick

Spec == Init /\ [][Next]_vars

-----------------------------------------------------------------------------
\* Every variable stays in range.
TypeOK ==
  /\ phase \in {"down", "daily", "schema", "migrate", "record", "pre", "post", "seed", "up"}
  /\ next \in 1 .. Len(Migrations) + 1
  /\ fresh \in BOOLEAN /\ applied \in BOOLEAN /\ dailyRan \in BOOLEAN
  /\ db \in Databases
  /\ files \in [Seconds -> Files]
  /\ target \in Seconds \cup {NoBackup}
  /\ error \in {"none", "backup", "migration"}
  /\ clock \in Seconds /\ kills \in 0 .. MaxKills

\* A boot that reaches its backups has every migration on record and verified, however
\* many boots before it died between an apply and its record, raised, were bootstrapped
\* wrongly or had their end-states undone by the user (_run_migrations).
ServesMigrated ==
  phase \in {"pre", "post", "seed"} => Versions \subseteq db.recorded \cap db.ends

\* It has every table of schema.sql too, although a schema script that died is never run
\* again: the migrations need or create all that come late, except scheduler_state.
ServesSchema ==
  phase \in {"pre", "post", "seed", "up"} => Tables \ db.tables \subseteq {"scheduler_state"}

\* No row is served in the wall-clock time of an older release: the conversion is skipped
\* only where it is on record (020's up, and the record, not verify, that decides).
ServesUtc == phase = "up" /\ db.rows => db.lag <= 0

\* Pruning keeps a backup that can be restored: files left by failed or killed backups
\* count as backups but do not push the last good one out (prune_backups).
PruneKeepsGood ==
  [][Verified # {} => \E s \in Seconds : files'[s].kind = "good"]_vars

\* After a boot that migrated an existing database, a backup holds the migrated one
\* (migration_backups).
MigratedIsBackedUp ==
  phase = "seed" /\ applied /\ ~fresh => \E s \in Verified : files[s].db = db

\* What doc/subsystems/database.md promises: a migration whose end-state is missing heals
\* on the next boot, so no boot ends in one.
SelfHeals == error # "migration"

\* What doc/subsystems/database.md promises of up(): running it again changes nothing.
ConvertedOnce == phase = "up" /\ db.rows => db.lag = 0
=============================================================================
