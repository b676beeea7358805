---------------------------- MODULE Boot_proofs ----------------------------
(***************************************************************************)
(* Proofs about Boot, for any set of old databases, any retention and any  *)
(* number of kills: what serves is migrated, whole and in UTC, also after  *)
(* a backup has been restored, and the backups keep what they are for.     *)
(***************************************************************************)
EXTENDS Boot, FiniteSetTheorems, TLAPS

\* The migrations stay opaque; only their number matters.
LEMMA MigrationCount == Len(Migrations) = 28 /\ Versions = 1 .. 28
  BY DEF Migrations, Versions

\* A database whose rows are in JST still has 020 ahead of it.
Dated(d) == /\ DOMAIN d = {"tables", "recorded", "ends", "narrow", "scratch", "reshaped",
                            "rows", "lag"}
            /\ d.lag \in Int /\ d.lag <= 1
            /\ ~d.rows => d.lag <= 0
            /\ Conversion \in d.recorded => d.lag <= 0

\* The types the invariants below need.
Shape ==
  /\ next \in 1 .. 29
  /\ DOMAIN files = Seconds
  /\ clock \in Nat /\ target \in Int

\* The loop of _run_migrations has left nothing behind it.
Progress ==
  /\ phase \in {"daily", "schema"} => next = 1
  /\ phase \in {"migrate", "record"} => \A v \in Versions : v < next => Done(v)
  /\ phase = "record" => next \in Versions
  /\ phase \in {"pre", "post", "seed"} => \A v \in Versions : Done(v)
  /\ phase = "up" => Versions \subseteq db.recorded

\* Databases and backups are dated; one converted but not on record is in UTC.
Dates ==
  /\ Dated(db) /\ \A s \in Seconds : Dated(files[s].db)
  /\ phase = "record" /\ next = Conversion => db.lag <= 0

BootInv == Shape /\ Progress /\ Dates

-----------------------------------------------------------------------------
LEMMA OldDated == \A era \in Eras : Dated(Old(era[1], era[2]))
<1> SUFFICES ASSUME NEW era \in Eras
             PROVE  Dated(Old(era[1], era[2]))
  OBVIOUS
<1>1. /\ era[1] \in 1 .. 28 /\ era[2] \in 1 .. 28
      /\ era[1] < Conversion \/ era[2] >= Conversion
  BY BootAssumption, MigrationCount
<1>2. /\ Old(era[1], era[2]).rows = TRUE
      /\ Old(era[1], era[2]).recorded = 1 .. era[1]
      /\ Old(era[1], era[2]).lag = IF era[2] < Conversion THEN 1 ELSE 0
  BY DEF Old, NoDatabase
<1>3. DOMAIN Old(era[1], era[2]) = {"tables", "recorded", "ends", "narrow", "scratch",
                                    "reshaped", "rows", "lag"}
  BY DEF Old
<1>4. Old(era[1], era[2]).lag \in {0, 1}
  BY <1>2
<1>5. ASSUME Conversion \in Old(era[1], era[2]).recorded
      PROVE  Old(era[1], era[2]).lag = 0
  <2>1. Conversion \in 1 .. era[1]
    BY <1>2, <1>5
  <2>2. ~(era[1] < Conversion)
    BY <1>1, <2>1 DEF Conversion
  <2>3. ~(era[2] < Conversion)
    BY <1>1, <2>2 DEF Conversion
  <2> QED
    BY <1>2, <2>3
<1> QED
  BY <1>2, <1>3, <1>4, <1>5 DEF Dated

LEMMA InitBootInv == Init => BootInv
<1> SUFFICES ASSUME Init
             PROVE  BootInv
  OBVIOUS
<1>1. Dated(NoDatabase)
  BY DEF Dated, NoDatabase, Conversion
<1>2. Dated(db)
  BY <1>1, OldDated DEF Init
<1>3. Shape
  BY DEF Init, Shape, NoBackup
<1>4. Progress /\ Dates
  BY <1>1, <1>2 DEF Init, Progress, Dates, NoFile, Seconds
<1> QED
  BY <1>3, <1>4 DEF BootInv

\* Steps that leave the database, the backups and the loop alone.
LEMMA QuietSteps ==
  ASSUME BootInv, db' = db, files' = files, next' = next, clock' \in Nat, target' \in Int,
         \/ phase' = phase
         \/ phase' = "down"
         \/ phase = "daily" /\ phase' = "schema"
         \/ phase = "pre" /\ phase' = "post"
         \/ phase \in {"pre", "post"} /\ phase' = "seed"
         \/ phase = "seed" /\ phase' = "up"
  PROVE  BootInv'
<1> USE DEF BootInv
<1>1. Shape' /\ Dates'
  BY DEF Shape, Dates, Dated
<1>2. Progress'
  BY DEF Progress, Done
<1> QED
  BY <1>1, <1>2

\* Steps of a backup: what they write is the database or nothing.
LEMMA BackupSteps ==
  ASSUME BootInv, db' = db, next' = next, clock' = clock, target' \in Int,
         DOMAIN files' = Seconds,
         \A s \in Seconds : files'[s] \in {files[s], NoFile, Unusable, Copy(db)},
         \/ phase' = phase
         \/ phase' = "down"
         \/ phase = "daily" /\ phase' = "schema"
         \/ phase = "pre" /\ phase' = "post"
         \/ phase = "post" /\ phase' = "seed"
  PROVE  BootInv'
<1> USE DEF BootInv
<1>1. Shape'
  BY DEF Shape
<1>2. Progress'
  BY DEF Progress, Done
<1>3. \A s \in Seconds : Dated(files'[s].db)
  <2>1. Dated(NoDatabase)
    BY DEF Dated, NoDatabase, Conversion
  <2>2. /\ NoFile.db = NoDatabase /\ Unusable.db = NoDatabase
        /\ Copy(db).db = db
    BY DEF NoFile, Unusable, Copy
  <2> QED
    BY <2>1, <2>2, Zenon DEF Dates
<1>4. Dates'
  BY <1>3 DEF Dates, Dated
<1> QED
  BY <1>1, <1>2, <1>4

LEMMA PrunedFiles ==
  ASSUME NEW backups
  PROVE  /\ DOMAIN Pruned(backups) = Seconds
         /\ \A s \in Seconds : Pruned(backups)[s] \in {backups[s], NoFile}
  BY DEF Pruned

LEMMA NextBootInv == BootInv /\ [Next]_vars => BootInv'
<1> SUFFICES ASSUME BootInv, [Next]_vars
             PROVE  BootInv'
  OBVIOUS
<1>t. next \in 1 .. 29 /\ DOMAIN files = Seconds /\ clock \in Nat /\ target \in Int
  BY DEF BootInv, Shape
<1>1. CASE Start
  <2>1. db' = db /\ files' = files /\ clock' = clock /\ target' = target
        /\ phase' = "daily" /\ next' = 1
    BY <1>1 DEF Start
  <2> QED
    BY <2>1, <1>t DEF BootInv, Shape, Progress, Dates, Dated
<1>2. CASE OpenBackup
  <2>1. /\ db' = db /\ next' = next /\ clock' = clock /\ target' = clock /\ phase' = phase
        /\ files' = [files EXCEPT ![clock] = IF @ = NoFile THEN Unusable ELSE @]
    BY <1>2 DEF OpenBackup, run
  <2>2. /\ DOMAIN files' = Seconds
        /\ \A s \in Seconds : files'[s] \in {files[s], Unusable}
    BY <2>1, <1>t
  <2> QED
    BY <2>1, <2>2, <1>t, BackupSteps
<1>3. CASE CopyBackup
  <2> DEFINE copied == [files EXCEPT ![target] = Copy(db)]
  <2>1. /\ db' = db /\ next' = next /\ clock' = clock /\ target' = NoBackup
        /\ phase' = AfterBackup
        /\ files' = copied \/ files' = Pruned(copied)
    BY <1>3 DEF CopyBackup
  <2>2. /\ DOMAIN copied = Seconds
        /\ \A s \in Seconds : copied[s] \in {files[s], Copy(db)}
    BY <1>t
  <2>3. /\ DOMAIN files' = Seconds
        /\ \A s \in Seconds : files'[s] \in {copied[s], NoFile}
    BY <2>1, <2>2, PrunedFiles
  <2>4. \A s \in Seconds : files'[s] \in {files[s], NoFile, Unusable, Copy(db)}
    BY <2>2, <2>3
  <2>5. \/ phase' = phase
        \/ phase = "daily" /\ phase' = "schema"
        \/ phase = "pre" /\ phase' = "post"
        \/ phase = "post" /\ phase' = "seed"
    BY <2>1 DEF AfterBackup
  <2> QED
    BY <2>1, <2>3, <2>4, <2>5, BackupSteps DEF NoBackup
<1>4. CASE BackupFails
  <2>1. /\ db' = db /\ next' = next /\ clock' = clock /\ target' = NoBackup
        /\ phase' = phase \/ phase' = "down"
        /\ files' = [files EXCEPT ![target] = NoFile]
    BY <1>4 DEF BackupFails
  <2>2. DOMAIN files' = Seconds /\ \A s \in Seconds : files'[s] \in {files[s], NoFile}
    BY <2>1, <1>t
  <2> QED
    BY <2>1, <2>2, BackupSteps DEF NoBackup
<1>5. CASE NoBackupDue
  <2>1. /\ phase \in {"daily", "pre", "post"} /\ phase' = AfterBackup
        /\ db' = db /\ files' = files /\ next' = next /\ clock' = clock /\ target' = target
    BY <1>5 DEF NoBackupDue
  <2> QED
    BY <2>1, <1>t, QuietSteps DEF AfterBackup
<1>6. CASE Restore
  <2>1. PICK s \in Seconds : db' = files[s].db
    BY <1>6 DEF Restore, Verified
  <2>2. phase = "down" /\ phase' = phase /\ next' = next /\ files' = files /\ clock' = clock
        /\ target' = target
    BY <1>6 DEF Restore, run
  <2>3. Dated(files[s].db)
    BY Zenon DEF BootInv, Dates
  <2>4. Dated(db')
    BY <2>1, <2>3
  <2>5. Shape' /\ Progress'
    BY <2>2, <1>t DEF BootInv, Shape, Progress
  <2>6. Dates'
    BY <2>2, <2>4 DEF BootInv, Dates, Dated
  <2> QED
    BY <2>5, <2>6 DEF BootInv
<1>7. CASE CreateSchema
  <2>1. /\ phase = "schema" /\ phase' = "migrate" /\ next' = next /\ files' = files
        /\ clock' = clock /\ target' = target
        /\ db' = db \/ db' = [db EXCEPT !.tables = Tables]
    BY <1>7 DEF CreateSchema
  <2>2. Dated(db')
    BY <2>1 DEF BootInv, Dates, Dated
  <2>3. Shape' /\ Progress'
    BY <2>1, <1>t, MigrationCount DEF BootInv, Shape, Progress
  <2>4. Dates'
    BY <2>1, <2>2 DEF BootInv, Dates, Dated
  <2> QED
    BY <2>3, <2>4 DEF BootInv
<1>8. CASE DieInSchema
  <2>1. /\ phase' = "down" /\ next' = next /\ files' = files /\ clock' = clock
        /\ target' = target
    BY <1>8 DEF DieInSchema
  <2>2. PICK tables : db' = [db EXCEPT !.tables = tables]
    BY <1>8 DEF DieInSchema
  <2>3. Dated(db')
    BY <2>2 DEF BootInv, Dates, Dated
  <2> QED
    BY <2>1, <2>3 DEF BootInv, Shape, Progress, Dates, Dated
<1>9. CASE SkipMigrations
  <2>1. /\ phase = "migrate" /\ phase' = phase /\ db' = db /\ files' = files
        /\ clock' = clock /\ target' = target
    BY <1>9 DEF SkipMigrations
  <2>2. PICK v \in next + 1 .. 29 : next' = v /\ \A u \in next .. v - 1 : Done(u)
    BY <1>9, MigrationCount DEF SkipMigrations
  <2>3. \A u \in Versions : u < next' => Done(u)
    BY <2>1, <2>2, <1>t, MigrationCount DEF BootInv, Progress
  <2>4. next' \in 1 .. 29
    BY <2>2, <1>t
  <2> QED
    BY <2>1, <2>3, <2>4, <1>t DEF BootInv, Shape, Progress, Dates, Dated, Done
<1>10. CASE RunMigration
  <2>1. /\ phase = "migrate" /\ phase' = "record" /\ next' = next /\ files' = files
        /\ clock' = clock /\ target' = target /\ next \in Versions
        /\ ~Done(next) /\ db' = Migrated(next)
    BY <1>10 DEF RunMigration
  <2>2. /\ DOMAIN db' = DOMAIN db /\ db'.recorded = db.recorded /\ db'.rows = db.rows
        /\ \A v \in Versions : v \in db.ends => v \in db'.ends
        /\ db'.lag = IF Migrations[next].op = "convert" /\ db.rows THEN db.lag - 1 ELSE db.lag
    BY <2>1 DEF Migrated, BootInv, Dates, Dated
  <2>3. Dated(db')
    BY <2>2 DEF BootInv, Dates, Dated
  <2>4. next = Conversion => db'.lag <= 0
    <3>1. Migrations[Conversion].op = "convert"
      BY DEF Migrations, Conversion, M020_backfill_jst_to_utc, Migration
    <3> QED
      BY <3>1, <2>2 DEF BootInv, Dates, Dated
  <2>5. \A v \in Versions : v < next => Done(v)'
    BY <2>1, <2>2 DEF BootInv, Progress, Done
  <2> QED
    BY <2>1, <2>3, <2>4, <2>5, <1>t DEF BootInv, Shape, Progress, Dates, Dated
<1>11. CASE DieInRebuild
  <2>1. /\ phase' = "down" /\ next' = next /\ files' = files /\ clock' = clock
        /\ target' = target
    BY <1>11 DEF DieInRebuild
  <2>2. Dated(db')
    BY <1>11 DEF DieInRebuild, BootInv, Dates, Dated
  <2> QED
    BY <2>1, <2>2 DEF BootInv, Shape, Progress, Dates, Dated
<1>12. CASE RecordMigration
  <2>1. /\ phase = "record" /\ phase' = "migrate" /\ next' = next + 1 /\ files' = files
        /\ clock' = clock /\ target' = target /\ next \in db.ends
        /\ db' = [db EXCEPT !.recorded = @ \cup {next}]
    BY <1>12 DEF RecordMigration
  <2>2. next \in Versions
    BY <2>1 DEF BootInv, Progress
  <2>3. /\ DOMAIN db' = DOMAIN db /\ db'.recorded = db.recorded \cup {next}
        /\ db'.ends = db.ends /\ db'.rows = db.rows /\ db'.lag = db.lag
    BY <2>1 DEF BootInv, Dates, Dated
  <2>4. Dated(db')
    BY <2>1, <2>3 DEF BootInv, Dates, Dated
  <2>5. \A v \in Versions : v < next + 1 => Done(v)'
    BY <2>1, <2>2, <2>3, MigrationCount DEF BootInv, Progress, Done
  <2>6. next + 1 \in 1 .. 29
    BY <2>2, MigrationCount
  <2> QED
    BY <2>1, <2>4, <2>5, <2>6, <1>t DEF BootInv, Shape, Progress, Dates, Dated
<1>13. CASE MigrationFails
  <2>1. /\ db' = db /\ files' = files /\ next' = next /\ clock' = clock /\ target' = target
        /\ phase' = "down"
    BY <1>13 DEF MigrationFails
  <2> QED
    BY <2>1, <1>t, QuietSteps
<1>14. CASE MigrationsDone
  <2>1. /\ db' = db /\ files' = files /\ next' = next /\ clock' = clock /\ target' = target
        /\ phase = "migrate" /\ phase' = "pre" /\ next \notin Versions
    BY <1>14 DEF MigrationsDone
  <2>2. \A v \in Versions : Done(v)
    BY <2>1, <1>t, MigrationCount DEF BootInv, Progress
  <2> QED
    BY <2>1, <2>2, <1>t DEF BootInv, Shape, Progress, Dates, Dated, Done
<1>15. CASE Seed
  <2>1. /\ db' = db /\ files' = files /\ next' = next /\ clock' = clock /\ target' = target
        /\ phase = "seed" /\ phase' = "up"
    BY <1>15 DEF Seed
  <2> QED
    BY <2>1, <1>t, QuietSteps
<1>16. CASE Serve
  <2>1. /\ phase = "up" /\ phase' = phase /\ files' = files /\ next' = next
        /\ clock' = clock /\ target' = target
    BY <1>16 DEF Serve, run
  <2>2. /\ DOMAIN db' = DOMAIN db /\ db'.recorded = db.recorded /\ db'.lag = db.lag
        /\ db'.rows = db.rows \/ db'.rows = TRUE
    <3> USE DEF BootInv, Dates, Dated
    <3>1. CASE Write
      BY <3>1 DEF Write
    <3>2. CASE DeleteSeeded
      BY <3>2 DEF DeleteSeeded
    <3>3. CASE ReshapeSeeded
      BY <3>3 DEF ReshapeSeeded
    <3>4. CASE NoteLikeAuto
      BY <3>4 DEF NoteLikeAuto
    <3> QED
      BY <1>16, <3>1, <3>2, <3>3, <3>4 DEF Serve
  <2>3. Conversion \in db.recorded
    BY <2>1, MigrationCount DEF BootInv, Progress, Conversion
  <2>4. Dated(db')
    BY <2>2, <2>3 DEF BootInv, Dates, Dated
  <2> QED
    BY <2>1, <2>2, <2>4, <1>t DEF BootInv, Shape, Progress, Dates, Dated
<1>17. CASE Stop
  <2>1. /\ db' = db /\ files' = files /\ next' = next /\ clock' = clock /\ target' = target
        /\ phase' = "down"
    BY <1>17 DEF Stop
  <2> QED
    BY <2>1, <1>t, QuietSteps
<1>18. CASE Die
  <2>1. /\ db' = db /\ files' = files /\ next' = next /\ clock' = clock /\ target' = NoBackup
        /\ phase' = "down"
    BY <1>18 DEF Die
  <2> QED
    BY <2>1, <1>t, QuietSteps DEF NoBackup
<1>19. CASE Tick
  <2>1. /\ db' = db /\ files' = files /\ next' = next /\ clock' = clock + 1
        /\ target' = target /\ phase' = phase
    BY <1>19 DEF Tick, run
  <2> QED
    BY <2>1, <1>t, QuietSteps
<1>20. CASE UNCHANGED vars
  <2>1. /\ db' = db /\ files' = files /\ next' = next /\ clock' = clock
        /\ target' = target /\ phase' = phase
    BY <1>20 DEF vars, run
  <2> QED
    BY <2>1, <1>t, QuietSteps
<1> QED
  BY <1>1, <1>2, <1>3, <1>4, <1>5, <1>6, <1>7, <1>8, <1>9, <1>10, <1>11, <1>12, <1>13,
     <1>14, <1>15, <1>16, <1>17, <1>18, <1>19, <1>20 DEF Next

THEOREM SpecBootInv == Spec => []BootInv
  BY InitBootInv, NextBootInv, PTL DEF Spec

-----------------------------------------------------------------------------
\* A boot that reaches its backups has every migration on record and verified: the
\* loop of _run_migrations passes over a migration only then.
THEOREM BootsMigrated == Spec => []ServesMigrated
<1>1. BootInv => ServesMigrated
  BY DEF BootInv, Progress, ServesMigrated, Done
<1> QED
  BY <1>1, SpecBootInv, PTL

\* Nothing is served in JST: a database whose conversion is on record was converted,
\* through any kills, restores and repeated conversions.
THEOREM BootsInUtc == Spec => []ServesUtc
<1>1. BootInv => ServesUtc
  BY MigrationCount DEF BootInv, Progress, Dates, Dated, ServesUtc, Conversion
<1> QED
  BY <1>1, SpecBootInv, PTL

-----------------------------------------------------------------------------
(* What the migrations need and make *)

\* The tables of schema.sql up to schedules that no migration makes.
Base == {"currencies", "entities", "fiscal_exemptions", "market_assets", "portfolio_assets",
         "transactions", "transaction_fees", "transaction_taxes", "prices",
         "balance_snapshots", "schedules"}

LEMMA SchemaTables ==
  Tables = Base \cup {"profiles", "balance_adjustment_links", "scheduler_state",
                      "schedule_occurrences", "stock_splits", "manual_values",
                      "fiscal_periods", "tax_catalog", "macro_series"}
  BY DEF Tables, Schema, ToSet, Base

LEMMA MigrationFacts ==
  /\ \A v \in Versions : \A t \in Migrations[v].makes :
       <<t, v>> \in {<<"stock_splits", 3>>, <<"manual_values", 5>>,
                     <<"schedule_occurrences", 7>>, <<"profiles", 8>>,
                     <<"fiscal_periods", 12>>, <<"balance_adjustment_links", 17>>,
                     <<"tax_catalog", 21>>, <<"macro_series", 24>>}
  /\ \A v \in Versions : \A t \in Migrations[v].needs :
       \/ t \in {"transactions", "schedules", "entities"}
       \/ t = "profiles" /\ v \in {13, 19}
       \/ t = "tax_catalog" /\ v = 23
       \/ t = "macro_series" /\ v \in 25 .. 28
  /\ \A v \in Versions : Migrations[v].op = "convert" <=> v = Conversion
  /\ \A v \in Versions : Migrations[v].op = "seed" => v = Catalog
<1> USE DEF Migrations, Guarded, Migration, M001_purchase_date, M002_backfill_snapshots,
      M003_stock_splits, M004_schedule_asset, M005_manual_values, M006_transfer_types,
      M007_schedule_occurrences, M008_profiles, M009_market_asset_last_synced,
      M010_income_category, M011_rename_investment_category, M012_fiscal_periods,
      M013_tax_rates, M014_add_cashback_category, M015_balance_snapshot_id,
      M016_consolidate_auto_snapshots, M017_persist_cash_handling,
      M018_add_entity_main_currency, M019_add_profile_timezone, M020_backfill_jst_to_utc,
      M021_tax_schema_v2, M022_drop_tax_type, M023_seed_tax_catalog, M024_macro_series,
      M025_ecb_deposit_rate_source, M026_official_macro_sources,
      M027_usa_policy_rate_source, M028_usa_10y_yield_source
<1>1. ASSUME NEW v \in Versions, NEW t \in Migrations[v].makes
      PROVE  <<t, v>> \in {<<"stock_splits", 3>>, <<"manual_values", 5>>,
                           <<"schedule_occurrences", 7>>, <<"profiles", 8>>,
                           <<"fiscal_periods", 12>>, <<"balance_adjustment_links", 17>>,
                           <<"tax_catalog", 21>>, <<"macro_series", 24>>}
  BY <1>1, MigrationCount, SMTT(30)
<1>2. ASSUME NEW v \in Versions, NEW t \in Migrations[v].needs
      PROVE  \/ t \in {"transactions", "schedules", "entities"}
             \/ t = "profiles" /\ v \in {13, 19}
             \/ t = "tax_catalog" /\ v = 23
             \/ t = "macro_series" /\ v \in 25 .. 28
  BY <1>2, MigrationCount, SMTT(30)
<1>3. ASSUME NEW v \in Versions
      PROVE  /\ Migrations[v].op = "convert" <=> v = Conversion
             /\ Migrations[v].op = "seed" => v = Catalog
  BY <1>3, MigrationCount, SMTT(30) DEF Conversion, Catalog
<1> HIDE DEF Migrations
<1> QED
  BY <1>1, <1>2, <1>3

\* Every table the schema script may not have reached is one a migration makes.
LEMMA MadeFacts ==
  /\ "transactions" \in Migrations[2].needs /\ "schedules" \in Migrations[4].needs
  /\ "stock_splits" \in Migrations[3].makes /\ "manual_values" \in Migrations[5].makes
  /\ "schedule_occurrences" \in Migrations[7].makes /\ "profiles" \in Migrations[8].makes
  /\ "fiscal_periods" \in Migrations[12].makes
  /\ "balance_adjustment_links" \in Migrations[17].makes
  /\ "tax_catalog" \in Migrations[21].makes /\ "macro_series" \in Migrations[24].makes
  BY DEF Migrations, Guarded, Migration, M002_backfill_snapshots, M003_stock_splits,
     M004_schedule_asset, M005_manual_values, M007_schedule_occurrences, M008_profiles,
     M012_fiscal_periods, M017_persist_cash_handling, M021_tax_schema_v2, M024_macro_series

LEMMA SchemaPrefix ==
  ASSUME NEW n \in 1 .. Len(Schema) - 1
  PROVE  /\ ToSet(SubSeq(Schema, 1, n)) \subseteq Tables
         /\ "schedules" \in ToSet(SubSeq(Schema, 1, n))
              => Base \subseteq ToSet(SubSeq(Schema, 1, n))
<1>1. n \in 1 .. 19
  BY DEF Schema
<1>2. SubSeq(Schema, 1, n) = [i \in 1 .. n |-> Schema[i]]
  BY <1>1 DEF Schema
<1>3. ToSet(SubSeq(Schema, 1, n)) = {Schema[i] : i \in 1 .. n}
  BY <1>1, <1>2 DEF ToSet
<1>4. \A i \in 1 .. n : Schema[i] \in Tables
  BY <1>1 DEF Tables, Schema, ToSet
<1>5. ASSUME NEW i \in 1 .. n, Schema[i] = "schedules" PROVE n >= 13
  BY <1>1, <1>5 DEF Schema
<1>6. n >= 13 => \A t \in Base : \E i \in 1 .. 13 : Schema[i] = t
  BY DEF Schema, Base
<1> QED
  BY <1>1, <1>3, <1>4, <1>5, <1>6

-----------------------------------------------------------------------------
(* What is true of the database and of every backup of it *)

\* Typed; what a migration that ran has left needs is there; the schema script came
\* past schedules or not at all; 020 is only on record where it ran.
Shaped(d) ==
  /\ d \in [tables : SUBSET Tables, recorded : SUBSET Versions, ends : SUBSET Versions,
            narrow : SUBSET Versions, scratch : SUBSET Versions,
            reshaped : BOOLEAN, rows : BOOLEAN, lag : Int]
  /\ d.lag <= 1
  /\ \A v \in d.ends : Migrations[v].needs \cup Migrations[v].makes \subseteq d.tables
  /\ "schedules" \in d.tables => Base \subseteq d.tables
  /\ Conversion \in d.recorded => Conversion \in d.ends

\* Each conversion of the same rows but the first one follows a kill.
Owed(d) == IF Conversion \notin d.recorded /\ d.rows THEN 1 ELSE 0
Lags(d, k) == d.lag >= Owed(d) - k
Verifiable(d) == {"profiles", "entities", "transactions"} \subseteq d.tables
Whole(d) == Tables \ d.tables \subseteq {"scheduler_state"}

LEMMA OldShaped ==
  ASSUME NEW rec \in 1 .. 28, NEW done \in 1 .. 28, done <= rec,
         rec < Conversion \/ done >= Conversion
  PROVE  Shaped(Old(rec, done)) /\ Lags(Old(rec, done), 0)
<1> PICK d : d = Old(rec, done)
  OBVIOUS
<1>1. 1 .. rec \subseteq Versions /\ 1 .. done \subseteq Versions
  BY MigrationCount
<1>e. d.recorded = 1 .. rec /\ d.ends = 1 .. done
  BY DEF Old
<1>2. /\ d.tables = Tables \ Unborn(done)
      /\ d.lag = IF done < Conversion THEN 1 ELSE 0
      /\ d.rows = TRUE /\ d.reshaped = FALSE /\ d.scratch = {}
      /\ d.narrow \subseteq {6, 26, 27}
  BY DEF Old
<1>r. d = [tables |-> d.tables, recorded |-> d.recorded, ends |-> d.ends,
           narrow |-> d.narrow, scratch |-> d.scratch, reshaped |-> d.reshaped,
           rows |-> d.rows, lag |-> d.lag]
  BY DEF Old
<1>3. d \in [tables : SUBSET Tables, recorded : SUBSET Versions, ends : SUBSET Versions,
             narrow : SUBSET Versions, scratch : SUBSET Versions,
             reshaped : BOOLEAN, rows : BOOLEAN, lag : Int]
  <2>1. d.recorded \subseteq Versions /\ d.ends \subseteq Versions
    BY <1>1, <1>e
  <2>2. d.narrow \subseteq Versions /\ d.scratch \subseteq Versions
    BY <1>2, MigrationCount
  <2>3. d.lag \in Int /\ d.tables \subseteq Tables
    BY <1>2
  <2> QED
    BY <1>2, <1>r, <2>1, <2>2, <2>3
<1>4. \A t \in Tables : t \in Unborn(done) <=> \E w \in done + 1 .. 28 : t \in Migrations[w].makes
  BY <1>1, MigrationCount DEF Unborn
<1>5. ASSUME NEW v \in d.ends PROVE Migrations[v].needs \cup Migrations[v].makes \subseteq d.tables
  <2>1. v \in 1 .. done /\ v \in Versions
    BY <1>1, <1>5, <1>e
  <2>2. \A t \in Migrations[v].needs \cup Migrations[v].makes : t \in Tables
    BY <2>1, MigrationFacts, SchemaTables DEF Base
  <2>3. ASSUME NEW t \in Migrations[v].needs \cup Migrations[v].makes,
               NEW w \in done + 1 .. 28, t \in Migrations[w].makes
        PROVE  FALSE
    <3>1. w \in Versions /\ v < w
      BY <1>1, <2>1, MigrationCount
    <3> QED
      BY <2>1, <2>3, <3>1, MigrationFacts
  <2> QED
    BY <1>2, <1>4, <2>2, <2>3
<1>6. Base \subseteq d.tables
  <2>1. ASSUME NEW t \in Base, NEW w \in done + 1 .. 28, t \in Migrations[w].makes PROVE FALSE
    BY <1>1, <2>1, MigrationFacts, MigrationCount DEF Base
  <2> QED
    BY <1>2, <1>4, <2>1, SchemaTables
<1>7. Conversion \in d.recorded => Conversion \in d.ends
  BY <1>e DEF Conversion
<1>8. d.lag <= 1 /\ Lags(d, 0)
  BY <1>e, <1>2 DEF Lags, Owed, Conversion
<1> QED
  BY <1>3, <1>5, <1>6, <1>7, <1>8 DEF Shaped

LEMMA EmptyShaped == Shaped(NoDatabase) /\ Lags(NoDatabase, 0)
  BY DEF Shaped, NoDatabase, Lags, Owed

\* All migrations done, nothing is missing but what they never look at.
LEMMA MigratedWhole ==
  ASSUME NEW d, Shaped(d), Versions \subseteq d.ends
  PROVE  Whole(d) /\ Verifiable(d)
<1>1. \A v \in 1 .. 28 : Migrations[v].needs \subseteq d.tables /\ Migrations[v].makes \subseteq d.tables
  BY MigrationCount DEF Shaped
<1>2. /\ "transactions" \in d.tables /\ "schedules" \in d.tables
      /\ {"stock_splits", "manual_values", "schedule_occurrences", "profiles", "fiscal_periods",
          "balance_adjustment_links", "tax_catalog", "macro_series"} \subseteq d.tables
  BY <1>1, MadeFacts
<1> QED
  BY <1>2, SchemaTables DEF Shaped, Whole, Verifiable, Base

-----------------------------------------------------------------------------
(* Types, the tables served, and the backups *)

Control ==
  /\ phase \in {"down", "daily", "schema", "migrate", "record", "pre", "post", "seed", "up"}
  /\ next \in 1 .. 29
  /\ fresh \in BOOLEAN /\ applied \in BOOLEAN /\ dailyRan \in BOOLEAN
  /\ target \in Seconds \cup {NoBackup}
  /\ error \in {"none", "backup", "migration"}
  /\ clock \in Seconds /\ kills \in 0 .. MaxKills
  /\ target # NoBackup => phase \in {"daily", "pre", "post", "up"}
  /\ target <= clock

\* Between the apply of 020 and its record the database owes no conversion.
Converting == phase = "record" /\ next = Conversion
Current ==
  /\ Shaped(db)
  /\ db.lag >= (IF Converting THEN 0 ELSE Owed(db)) - kills
  /\ Converting => Conversion \in db.ends

\* A backup that is good can be restored and would verify again; so would the
\* database, once there is one.  Nothing is later than the backup being written.
Sound(file, k) ==
  \/ file \in {NoFile, Unusable}
  \/ \E d : file = Copy(d) /\ Shaped(d) /\ Lags(d, k) /\ Verifiable(d)
Stored ==
  /\ files = [s \in Seconds |-> files[s]]
  /\ \A s \in Seconds : Sound(files[s], kills)
  /\ Verified # {} => Verifiable(db)
  /\ \A s \in Seconds : s > clock => files[s] = NoFile
  /\ target # NoBackup => \A s \in Seconds : s > target => files[s] = NoFile

Served == phase \in {"pre", "post", "seed", "up"} => Whole(db)

BackupInv == Control /\ Current /\ Stored /\ Served /\ MigratedIsBackedUp

-----------------------------------------------------------------------------
LEMMA SoundLater ==
  ASSUME NEW file, NEW k \in Nat, NEW l \in Nat, k <= l, Sound(file, k)
  PROVE  Sound(file, l)
<1>1. ASSUME NEW d, Shaped(d), Lags(d, k) PROVE Lags(d, l)
  <2>1. d.lag \in Int
    BY <1>1 DEF Shaped
  <2>2. Owed(d) \in {0, 1}
    BY DEF Owed
  <2> QED
    BY <1>1, <2>1, <2>2 DEF Lags
<1> QED
  BY <1>1 DEF Sound

LEMMA KindFacts ==
  /\ NoFile.kind # "good" /\ Unusable.kind # "good"
  /\ \A d : Copy(d).kind = "good" /\ Copy(d).db = d /\ Copy(d) # NoFile
  BY DEF NoFile, Unusable, Copy

\* Steps that write no backup.
LEMMA StoredKept ==
  ASSUME Control, Stored, files' = files, Verifiable(db) => Verifiable(db'),
         kills' \in Nat, kills' >= kills, clock' \in Nat, clock' >= clock,
         target' \in {target, NoBackup}
  PROVE  Stored'
<1>1. kills \in Nat /\ clock \in Nat
  BY DEF Control, Seconds
<1>2. \A s \in Seconds : Sound(files[s], kills')
  BY <1>1, SoundLater DEF Stored
<1>3. Verified' = Verified
  BY DEF Verified
<1>4. \A s \in Seconds : s > clock' => files[s] = NoFile
  BY <1>1 DEF Stored, Seconds
<1> QED
  BY <1>2, <1>3, <1>4 DEF Stored

\* Steps that leave the database alone, too; what was converted is recorded before
\* the loop goes on, or there was a kill.
LEMMA CurrentKept ==
  ASSUME Control, Current, db' = db, kills' \in Nat, kills' >= kills,
         \/ phase' # "record" /\ (Converting => kills' = kills + 1)
         \/ phase' = phase /\ next' = next
  PROVE  Current'
<1>1. kills \in Nat /\ db.lag \in Int
  BY DEF Control, Current, Shaped
<1>2. Owed(db) \in {0, 1}
  BY DEF Owed
<1>3. CASE phase' # "record" /\ (Converting => kills' = kills + 1)
  BY <1>1, <1>2, <1>3 DEF Current, Converting
<1>4. CASE phase' = phase /\ next' = next
  <2>1. Converting' = Converting
    BY <1>4 DEF Converting
  <2> QED
    BY <1>1, <1>2, <2>1 DEF Current
<1> QED
  BY <1>3, <1>4

LEMMA BackedKept ==
  ASSUME MigratedIsBackedUp, \/ phase' # "seed"
                             \/ ~(applied /\ ~fresh)'
                             \/ UNCHANGED <<phase, applied, fresh, db, files>>
  PROVE  MigratedIsBackedUp'
  BY DEF MigratedIsBackedUp, Verified

\* A write of one second of the backups.
LEMMA StoredWrite ==
  ASSUME Control, Stored, db' = db, kills' = kills, clock' = clock,
         NEW u \in Seconds, u <= clock, target # NoBackup => u <= target, NEW file,
         file \in {NoFile, Unusable} \/ file = files[u] \/ file = Copy(db),
         Sound(file, kills),
         file = Copy(db) => Verifiable(db),
         files' \in {[files EXCEPT ![u] = file], Pruned([files EXCEPT ![u] = file])},
         target' \in {NoBackup, clock}
  PROVE  Stored'
<1> DEFINE written == [files EXCEPT ![u] = file]
<1>1. DOMAIN files = Seconds /\ files' = [s \in Seconds |-> files'[s]]
  BY DEF Stored, Pruned
<1>2. \A s \in Seconds : files'[s] \in {files[s], NoFile} \/ (s = u /\ files'[s] = file)
  BY <1>1, PrunedFiles DEF Stored
<1>3. \A s \in Seconds : Sound(files'[s], kills)
  BY <1>2 DEF Stored, Sound
<1>4. ASSUME NEW s \in Seconds, files'[s].kind = "good" PROVE Verifiable(db)
  <2>1. CASE files'[s] = files[s]
    BY <1>4, <2>1 DEF Stored, Verified
  <2>2. CASE s = u /\ files'[s] = file
    BY <1>4, <2>2, KindFacts DEF Stored, Verified
  <2> QED
    BY <1>2, <1>4, <2>1, <2>2, KindFacts
<1>5. \A s \in Seconds : s > clock => files'[s] = NoFile
  BY <1>2 DEF Stored, Seconds, Control
<1> QED
  BY <1>1, <1>3, <1>4, <1>5 DEF Stored, Verified

\* Pruning keeps a backup no other one is later than.
LEMMA PruneKeepsNewest ==
  ASSUME NEW backups, NEW u \in Seconds, \A s \in Seconds : s > u => backups[s] = NoFile
  PROVE  Pruned(backups)[u] = backups[u]
<1>1. {s \in Seconds : s > u /\ backups[s] # NoFile} = {}
  OBVIOUS
<1>2. Cardinality({s \in Seconds : s > u /\ backups[s] # NoFile}) = 0
  BY <1>1, FS_EmptySet
<1> QED
  BY <1>2, BootAssumption DEF Pruned

\* Steps that write neither the database nor a backup.
LEMMA QuietBackupInv ==
  ASSUME BackupInv, Control', db' = db, files' = files, kills' >= kills, clock' >= clock,
         target' \in {target, NoBackup},
         \/ phase' # "record" /\ (Converting => kills' = kills + 1)
         \/ phase' = phase /\ next' = next,
         phase' \in {"pre", "post", "seed", "up"} => phase \in {"pre", "post", "seed", "up"},
         \/ phase' # "seed"
         \/ ~(applied /\ ~fresh)'
         \/ UNCHANGED <<phase, applied, fresh>>
  PROVE  BackupInv'
<1>1. kills' \in Nat /\ clock' \in Nat
  BY DEF Control, Seconds
<1>2. Current'
  BY <1>1, CurrentKept DEF BackupInv
<1>3. Stored'
  BY <1>1, StoredKept DEF BackupInv
<1>4. Served'
  BY DEF BackupInv, Served
<1>5. MigratedIsBackedUp'
  BY BackedKept DEF BackupInv
<1> QED
  BY <1>2, <1>3, <1>4, <1>5 DEF BackupInv

\* Steps of the database outside of a backup.
LEMMA WriteBackupInv ==
  ASSUME BackupInv, Control', Shaped(db'),
         db'.lag >= (IF Converting' THEN 0 ELSE Owed(db')) - kills',
         Converting' => Conversion \in db'.ends,
         files' = files, kills' >= kills, clock' = clock, target' = target,
         Verifiable(db) => Verifiable(db'),
         phase' \in {"pre", "post", "seed", "up"} => Whole(db'),
         phase' # "seed"
  PROVE  BackupInv'
<1>1. kills' \in Nat /\ clock \in Nat
  BY DEF Control, Seconds, BackupInv
<1>2. Stored'
  BY <1>1, StoredKept DEF BackupInv
<1>3. Current'
  BY DEF Current
<1>4. Served' /\ MigratedIsBackedUp'
  BY DEF Served, MigratedIsBackedUp
<1> QED
  BY <1>2, <1>3, <1>4 DEF BackupInv

LEMMA NextBackupInv == BootInv /\ BackupInv /\ [Next]_vars => BackupInv'
<1> SUFFICES ASSUME BootInv, BackupInv, [Next]_vars PROVE BackupInv'
  OBVIOUS
<1>c. Control /\ Current /\ Stored /\ Served /\ MigratedIsBackedUp
  BY DEF BackupInv
<1>d. Len(Migrations) = 28 /\ Versions = 1 .. 28
  BY MigrationCount
<1>k. kills \in Nat /\ MaxKills \in Nat /\ clock \in Nat /\ LastSecond \in Nat
  BY <1>c, BootAssumption DEF Control, Seconds
<1>s. Shaped(db) /\ Owed(db) \in {0, 1} /\ db.lag \in Int
  BY <1>c DEF Current, Owed, Shaped
<1>1. CASE Start
  <2>1. /\ phase = "down" /\ phase' = "daily" /\ next' = 1
        /\ fresh' \in BOOLEAN /\ applied' \in BOOLEAN /\ dailyRan' \in BOOLEAN
        /\ error' = "none" /\ UNCHANGED <<db, files, target, clock, kills>>
    BY <1>1 DEF Start
  <2>2. Control'
    BY <1>c, <2>1 DEF Control
  <2> QED
    BY <1>k, <2>1, <2>2, QuietBackupInv DEF Converting
<1>2. CASE OpenBackup
  <2> DEFINE file == IF files[clock] = NoFile THEN Unusable ELSE files[clock]
  <2>1. /\ UNCHANGED <<run, db, error, clock, kills>> /\ target = NoBackup /\ target' = clock
        /\ CallsBackup /\ files' = [files EXCEPT ![clock] = file]
    BY <1>2 DEF OpenBackup
  <2>2. clock \in Seconds /\ Sound(files[clock], kills)
    BY <1>c DEF Control, Stored
  <2>3. /\ file \in {NoFile, Unusable} \/ file = files[clock]
        /\ Sound(file, kills)
    BY <2>2 DEF Sound
  <2>4. file = Copy(db) => Verifiable(db)
    <3>1. SUFFICES ASSUME files[clock] = Copy(db) PROVE Verifiable(db)
      BY KindFacts DEF Unusable, Copy
    <3>2. clock \in Verified
      BY <2>2, <3>1, KindFacts DEF Verified
    <3> QED
      BY <1>c, <3>2 DEF Stored
  <2> HIDE DEF file
  <2>5. Stored'
    <3>1. /\ clock <= clock /\ target' \in {NoBackup, clock}
          /\ files' \in {[files EXCEPT ![clock] = file], Pruned([files EXCEPT ![clock] = file])}
          /\ file \in {NoFile, Unusable} \/ file = files[clock] \/ file = Copy(db)
      BY <1>k, <2>1, <2>3
    <3> QED
      BY <1>c, <2>1, <2>2, <2>3, <2>4, <3>1, StoredWrite
  <2>6. phase \in {"daily", "pre", "post", "up"}
    BY <2>1 DEF CallsBackup
  <2>7. Control'
    BY <1>c, <1>k, <2>1, <2>2, <2>6 DEF Control, run
  <2>8. Current'
    BY <1>c, <1>k, <2>1, CurrentKept DEF run
  <2>9. Served' /\ MigratedIsBackedUp'
    BY <1>c, <2>1, <2>6 DEF Served, MigratedIsBackedUp, run
  <2> QED
    BY <2>5, <2>7, <2>8, <2>9 DEF BackupInv
<1>3. CASE CopyBackup
  <2> DEFINE copied == [files EXCEPT ![target] = Copy(db)]
  <2>1. /\ target # NoBackup /\ Verifiable(db) /\ target' = NoBackup /\ phase' = AfterBackup
        /\ UNCHANGED <<next, fresh, applied, db, error, clock, kills>>
        /\ files' = IF phase \in {"daily", "pre"} THEN copied ELSE Pruned(copied)
        /\ dailyRan' = (dailyRan \/ phase = "daily")
    BY <1>3 DEF CopyBackup, Verifies, Verifiable
  <2>2. target \in Seconds /\ phase \in {"daily", "pre", "post", "up"} /\ DOMAIN files = Seconds
    BY <1>c, <2>1 DEF Control, Stored
  <2>3. target <= clock /\ Sound(Copy(db), kills)
    <3>1. phase # "record" /\ Lags(db, kills)
      BY <1>c, <2>2 DEF Current, Converting, Lags
    <3> QED
      BY <1>c, <1>s, <2>1, <3>1 DEF Control, Sound
  <2>4. Stored'
    <3>1. /\ target <= target /\ target' \in {NoBackup, clock}
          /\ files' \in {[files EXCEPT ![target] = Copy(db)],
                         Pruned([files EXCEPT ![target] = Copy(db)])}
      BY <2>1, <2>2 DEF Seconds
    <3> QED
      BY <1>c, <2>1, <2>2, <2>3, <3>1, StoredWrite
  <2>5. phase' \in {"schema", "post", "seed", "up"} /\ (phase' \in {"post", "seed", "up"} => phase \in {"pre", "post", "up"})
    BY <2>1, <2>2 DEF AfterBackup
  <2>6. Control'
    BY <1>c, <1>k, <2>1, <2>5 DEF Control, NoBackup, Seconds
  <2>7. Current'
    BY <1>c, <1>k, <2>1, <2>2, <2>5, CurrentKept DEF Converting
  <2>8. Served'
    BY <1>c, <2>1, <2>5 DEF Served
  <2>9. MigratedIsBackedUp'
    <3>1. SUFFICES ASSUME phase' = "seed" PROVE target \in Verified' /\ files'[target].db = db
      BY <2>1, <2>2 DEF MigratedIsBackedUp
    <3>2. files' = Pruned(copied) /\ copied[target] = Copy(db)
      BY <2>1, <2>2, <3>1 DEF AfterBackup
    <3>3. \A s \in Seconds : s > target => copied[s] = NoFile
      BY <1>c, <2>1, <2>2 DEF Stored, Seconds
    <3>4. Pruned(copied)[target] = copied[target]
      BY <2>2, <3>3, PruneKeepsNewest
    <3> QED
      BY <2>2, <3>2, <3>4, KindFacts DEF Verified
  <2> QED
    BY <2>4, <2>6, <2>7, <2>8, <2>9 DEF BackupInv
<1>4. CASE BackupFails
  <2>1. /\ target # NoBackup /\ ~Verifiable(db) /\ target' = NoBackup
        /\ phase' = IF phase = "up" THEN "up" ELSE "down"
        /\ error' = IF phase = "up" THEN error ELSE "backup"
        /\ files' = [files EXCEPT ![target] = NoFile]
        /\ UNCHANGED <<next, fresh, applied, dailyRan, db, clock, kills>>
    BY <1>4 DEF BackupFails, Verifies, Verifiable
  <2>2. target \in Seconds /\ target <= clock /\ phase # "record"
    BY <1>c, <2>1 DEF Control
  <2>3. Stored'
    <3>1. /\ target <= target /\ target' \in {NoBackup, clock}
          /\ files' \in {[files EXCEPT ![target] = NoFile],
                         Pruned([files EXCEPT ![target] = NoFile])}
      BY <2>1, <2>2 DEF Seconds
    <3>2. NoFile # Copy(db) /\ Sound(NoFile, kills) /\ NoFile \in {NoFile, Unusable}
      BY KindFacts DEF Sound
    <3> QED
      BY <1>c, <2>1, <2>2, <3>1, <3>2, StoredWrite
  <2>4. Control'
    BY <1>c, <1>k, <2>1 DEF Control, NoBackup, Seconds
  <2>5. Current'
    BY <1>c, <1>k, <2>1, <2>2, CurrentKept DEF Converting
  <2>6. Served' /\ MigratedIsBackedUp'
    BY <1>c, <2>1 DEF Served, MigratedIsBackedUp
  <2> QED
    BY <2>3, <2>4, <2>5, <2>6 DEF BackupInv
<1>5. CASE NoBackupDue
  <2>1. /\ phase \in {"daily", "pre", "post"} /\ ~CallsBackup /\ phase' = AfterBackup
        /\ UNCHANGED <<next, fresh, applied, dailyRan, db, files, target, error, clock, kills>>
        /\ target = NoBackup
    BY <1>5 DEF NoBackupDue
  <2>2. /\ phase' \in {"schema", "post", "seed"}
        /\ phase' \in {"post", "seed"} => phase \in {"pre", "post"}
        /\ phase' = "seed" => ~(applied /\ ~fresh)
    BY <2>1 DEF AfterBackup, CallsBackup
  <2>3. Control'
    BY <1>c, <2>1, <2>2 DEF Control
  <2> QED
    BY <1>k, <2>1, <2>2, <2>3, QuietBackupInv DEF Converting
<1>6. CASE Restore
  <2>1. PICK s \in Verified : db' = files[s].db
    BY <1>6 DEF Restore
  <2>2. phase = "down" /\ UNCHANGED <<run, files, target, error, clock, kills>>
    BY <1>6 DEF Restore
  <2>3. PICK d : files[s] = Copy(d) /\ Shaped(d) /\ Lags(d, kills) /\ Verifiable(d)
    BY <1>c, <2>1, KindFacts DEF Stored, Sound, Verified
  <2>4. db' = d
    BY <2>1, <2>3, KindFacts
  <2>5. Control'
    BY <1>c, <2>2 DEF Control, run
  <2>6. ~Converting'
    BY <2>2 DEF Converting, run
  <2> QED
    BY <1>k, <2>2, <2>3, <2>4, <2>5, <2>6, WriteBackupInv DEF run, Lags
<1>7. CASE CreateSchema
  <2>1. /\ phase = "schema" /\ phase' = "migrate"
        /\ db' = IF db.tables = {} THEN [db EXCEPT !.tables = Tables] ELSE db
        /\ fresh' = (db.tables = {})
        /\ UNCHANGED <<next, applied, dailyRan, files, target, error, clock, kills>>
    BY <1>7 DEF CreateSchema
  <2>2. Control'
    BY <1>c, <2>1 DEF Control
  <2>3. Shaped(db') /\ db'.lag = db.lag /\ Owed(db') = Owed(db) /\ (Verifiable(db) => Verifiable(db'))
    <3>1. CASE db.tables # {}
      BY <1>s, <2>1, <3>1
    <3>2. CASE db.tables = {}
      <4>1. \A v \in Versions : Migrations[v].needs \cup Migrations[v].makes \subseteq Tables
        BY MigrationFacts, SchemaTables DEF Base
      <4>2. /\ db'.tables = Tables /\ db'.ends = db.ends /\ db'.recorded = db.recorded
            /\ db'.rows = db.rows /\ db'.lag = db.lag
            /\ db' \in [tables : SUBSET Tables, recorded : SUBSET Versions,
                         ends : SUBSET Versions, narrow : SUBSET Versions,
                         scratch : SUBSET Versions, reshaped : BOOLEAN, rows : BOOLEAN,
                         lag : Int]
        BY <1>s, <2>1, <3>2 DEF Shaped
      <4> QED
        BY <1>s, <3>2, <4>1, <4>2, SchemaTables DEF Shaped, Owed, Verifiable
    <3> QED
      BY <3>1, <3>2
  <2>4. ~Converting' /\ ~Converting
    BY <2>1 DEF Converting
  <2> QED
    BY <1>c, <1>k, <2>1, <2>2, <2>3, <2>4, WriteBackupInv DEF Current
<1>8. CASE DieInSchema
  <2>1. /\ phase = "schema" /\ db.tables = {} /\ kills < MaxKills
        /\ phase' = "down" /\ kills' = kills + 1
        /\ UNCHANGED <<next, fresh, applied, dailyRan, files, target, error, clock>>
    BY <1>8 DEF DieInSchema
  <2>2. PICK n \in 1 .. Len(Schema) - 1 : db' = [db EXCEPT !.tables = ToSet(SubSeq(Schema, 1, n))]
    BY <1>8 DEF DieInSchema
  <2>3. Control'
    BY <1>c, <1>k, <2>1 DEF Control
  <2>4. Shaped(db') /\ db'.lag = db.lag /\ Owed(db') = Owed(db)
    <3> DEFINE S == ToSet(SubSeq(Schema, 1, n))
    <3>1. S \subseteq Tables /\ ("schedules" \in S => Base \subseteq S) /\ db' = [db EXCEPT !.tables = S]
      BY <2>2, SchemaPrefix
    <3> HIDE DEF S
    <3>2. /\ db'.tables = S /\ db'.ends = db.ends /\ db'.recorded = db.recorded
          /\ db'.rows = db.rows /\ db'.lag = db.lag
          /\ db' \in [tables : SUBSET Tables, recorded : SUBSET Versions,
                       ends : SUBSET Versions, narrow : SUBSET Versions,
                       scratch : SUBSET Versions, reshaped : BOOLEAN, rows : BOOLEAN,
                       lag : Int]
      BY <1>s, <3>1 DEF Shaped
    <3> QED
      BY <1>s, <2>1, <3>1, <3>2 DEF Shaped, Owed
  <2>5. ~Converting' /\ ~Converting /\ ~Verifiable(db)
    BY <2>1 DEF Converting, Verifiable
  <2> QED
    BY <1>c, <1>k, <1>s, <2>1, <2>3, <2>4, <2>5, WriteBackupInv DEF Current
<1>9. CASE SkipMigrations
  <2>1. PICK v \in next + 1 .. 29 : next' = v
    BY <1>9, <1>d DEF SkipMigrations
  <2>2. phase = "migrate" /\ UNCHANGED <<phase, fresh, applied, dailyRan, db, files, target, error, clock, kills>>
    BY <1>9 DEF SkipMigrations
  <2>3. next' \in 1 .. 29
    BY <1>c, <2>1 DEF Control
  <2>4. Control'
    BY <1>c, <2>2, <2>3 DEF Control
  <2> QED
    BY <1>k, <2>2, <2>4, QuietBackupInv DEF Converting
<1>10. CASE RunMigration
  <2>1. /\ phase = "migrate" /\ next \in Versions /\ ~Done(next)
        /\ Migrations[next].needs \subseteq db.tables
        /\ db' = Migrated(next) /\ phase' = "record"
        /\ UNCHANGED <<next, fresh, applied, dailyRan, files, target, error, clock, kills>>
    BY <1>10 DEF RunMigration, Runs
  <2>2. Control'
    BY <1>c, <2>1 DEF Control
  <2>3. /\ db'.tables = db.tables \cup Migrations[next].makes
        /\ db'.ends = IF Migrations[next].op = "seed" /\ db.reshaped THEN db.ends
                      ELSE db.ends \cup {next}
        /\ db'.lag = IF Migrations[next].op = "convert" /\ db.rows THEN db.lag - 1 ELSE db.lag
        /\ db'.recorded = db.recorded /\ db'.rows = db.rows
        /\ db'.narrow \subseteq db.narrow \cup {27} /\ db'.scratch = db.scratch
        /\ db'.reshaped = db.reshaped
        /\ DOMAIN db' = DOMAIN db
        /\ db' = [x \in DOMAIN db' |-> db'[x]]
    BY <1>s, <2>1 DEF Migrated, Shaped
  <2>4. /\ Migrations[next].makes \subseteq Tables
        /\ Migrations[next].op = "convert" <=> next = Conversion
        /\ Migrations[next].op = "seed" => next = Catalog
    BY <2>1, MigrationFacts, SchemaTables
  <2>5. next = Conversion => Conversion \notin db.recorded /\ Conversion \in db'.ends
    BY <1>s, <2>1, <2>3, <2>4 DEF Done, Shaped, Catalog, Conversion
  <2>6. db' \in [tables : SUBSET Tables, recorded : SUBSET Versions, ends : SUBSET Versions,
                narrow : SUBSET Versions, scratch : SUBSET Versions,
                reshaped : BOOLEAN, rows : BOOLEAN, lag : Int]
    <3>1. DOMAIN db' = {"tables", "recorded", "ends", "narrow", "scratch", "reshaped", "rows",
                        "lag"}
      BY <1>s, <2>3 DEF Shaped
    <3>2. 27 \in Versions
      BY <1>d
    <3>3. /\ db'.tables \subseteq Tables /\ db'.ends \subseteq Versions
          /\ db'.narrow \subseteq Versions /\ db'.lag \in Int
      BY <1>s, <2>1, <2>3, <2>4, <3>2 DEF Shaped
    <3> QED
      BY <1>s, <2>3, <3>1, <3>3 DEF Shaped
  <2>7. Shaped(db')
    <3>1. \A v \in db'.ends : Migrations[v].needs \cup Migrations[v].makes \subseteq db'.tables
      BY <1>s, <2>1, <2>3 DEF Shaped
    <3>2. "schedules" \in db'.tables => Base \subseteq db'.tables
      <4>1. "schedules" \notin Migrations[next].makes
        BY <2>1, MigrationFacts
      <4> QED
        BY <1>s, <2>3, <4>1 DEF Shaped
    <3>3. Conversion \in db'.recorded => Conversion \in db'.ends
      BY <1>s, <2>3 DEF Shaped
    <3>4. db'.lag <= 1
      BY <1>s, <2>3 DEF Shaped
    <3> QED
      BY <2>6, <3>1, <3>2, <3>3, <3>4 DEF Shaped
  <2>8. db.lag >= Owed(db) - kills
    BY <1>c, <2>1 DEF Current, Converting
  <2>9. db'.lag >= (IF Converting' THEN 0 ELSE Owed(db')) - kills'
    BY <1>k, <1>s, <2>1, <2>3, <2>4, <2>5, <2>8 DEF Owed, Converting
  <2>10. Converting' => Conversion \in db'.ends
    BY <2>1, <2>5 DEF Converting
  <2>11. Verifiable(db) => Verifiable(db')
    BY <2>3 DEF Verifiable
  <2> QED
    BY <1>k, <2>1, <2>2, <2>7, <2>9, <2>10, <2>11, WriteBackupInv
<1>11. CASE DieInRebuild
  <2>1. /\ phase = "migrate" /\ next \in Versions /\ kills < MaxKills
        /\ phase' = "down" /\ kills' = kills + 1
        /\ db' = [db EXCEPT !.scratch = @ \cup {next}]
        /\ UNCHANGED <<next, fresh, applied, dailyRan, files, target, error, clock>>
    BY <1>11 DEF DieInRebuild
  <2>2. Control'
    BY <1>c, <1>k, <2>1 DEF Control
  <2>3. /\ Shaped(db') /\ db'.lag = db.lag /\ Owed(db') = Owed(db)
        /\ Verifiable(db) => Verifiable(db')
    BY <1>s, <2>1 DEF Shaped, Owed, Verifiable
  <2>4. ~Converting' /\ ~Converting
    BY <2>1 DEF Converting
  <2> QED
    BY <1>c, <1>k, <1>s, <2>1, <2>2, <2>3, <2>4, WriteBackupInv DEF Current
<1>12. CASE RecordMigration
  <2>1. /\ phase = "record" /\ phase' = "migrate" /\ next' = next + 1 /\ applied' = TRUE
        /\ next \in db.ends /\ db' = [db EXCEPT !.recorded = @ \cup {next}]
        /\ UNCHANGED <<fresh, dailyRan, files, target, error, clock, kills>>
    BY <1>12 DEF RecordMigration
  <2>2. next \in 1 .. 28
    BY <1>d, <1>s, <2>1 DEF Shaped
  <2>3. Control'
    BY <1>c, <2>1, <2>2 DEF Control
  <2>4. /\ db'.recorded = db.recorded \cup {next} /\ db'.ends = db.ends
        /\ db'.tables = db.tables /\ db'.lag = db.lag /\ db'.rows = db.rows
        /\ db' \in [tables : SUBSET Tables, recorded : SUBSET Versions, ends : SUBSET Versions,
                     narrow : SUBSET Versions, scratch : SUBSET Versions,
                     reshaped : BOOLEAN, rows : BOOLEAN, lag : Int]
    BY <1>d, <1>s, <2>1, <2>2 DEF Shaped
  <2>5. Shaped(db') /\ (Verifiable(db) => Verifiable(db'))
    BY <1>s, <2>1, <2>4 DEF Shaped, Verifiable
  <2>6. db'.lag >= Owed(db') - kills
    <3>1. CASE next = Conversion
      BY <1>c, <2>1, <2>4, <3>1 DEF Current, Converting, Owed
    <3>2. CASE next # Conversion
      BY <1>c, <2>1, <2>4, <3>2 DEF Current, Converting, Owed
    <3> QED
      BY <3>1, <3>2
  <2>7. ~Converting'
    BY <2>1 DEF Converting
  <2> QED
    BY <1>k, <2>1, <2>3, <2>5, <2>6, <2>7, WriteBackupInv
<1>13. CASE MigrationFails
  <2>1. /\ phase = "migrate" \/ (phase = "record" /\ next \notin db.ends)
        /\ phase' = "down" /\ error' = "migration"
        /\ UNCHANGED <<next, fresh, applied, dailyRan, db, files, target, clock, kills>>
    BY <1>13 DEF MigrationFails
  <2>2. Control'
    BY <1>c, <2>1 DEF Control
  <2>3. ~Converting
    BY <1>c, <2>1 DEF Current, Converting
  <2> QED
    BY <1>k, <2>1, <2>2, <2>3, QuietBackupInv
<1>14. CASE MigrationsDone
  <2>1. /\ phase = "migrate" /\ phase' = "pre" /\ next \notin Versions
        /\ UNCHANGED <<next, fresh, applied, dailyRan, db, files, target, error, clock, kills>>
    BY <1>14 DEF MigrationsDone
  <2>2. \A v \in Versions : Done(v)
    BY <1>d, <2>1 DEF BootInv, Progress, Shape
  <2>3. Whole(db)
    BY <1>s, <2>2, MigratedWhole DEF Done
  <2>4. Control'
    BY <1>c, <2>1 DEF Control
  <2>5. ~Converting' /\ ~Converting
    BY <2>1 DEF Converting
  <2> QED
    BY <1>c, <1>k, <2>1, <2>3, <2>4, <2>5, WriteBackupInv DEF Current
<1>15. CASE Seed
  <2>1. /\ phase = "seed" /\ phase' = "up"
        /\ UNCHANGED <<next, fresh, applied, dailyRan, db, files, target, error, clock, kills>>
    BY <1>15 DEF Seed
  <2>2. Control'
    BY <1>c, <2>1 DEF Control
  <2> QED
    BY <1>k, <2>1, <2>2, QuietBackupInv DEF Converting
<1>16. CASE Serve
  <2>1. phase = "up" /\ UNCHANGED <<run, files, target, error, clock, kills>>
    BY <1>16 DEF Serve
  <2>2. Control'
    BY <1>c, <2>1 DEF Control, run
  <2> DEFINE Edits ==
        /\ db'.tables = db.tables /\ db'.recorded = db.recorded /\ db'.lag = db.lag
        /\ db'.ends \subseteq db.ends /\ (Conversion \in db.ends => Conversion \in db'.ends)
        /\ db' \in [tables : SUBSET Tables, recorded : SUBSET Versions, ends : SUBSET Versions,
                     narrow : SUBSET Versions, scratch : SUBSET Versions,
                     reshaped : BOOLEAN, rows : BOOLEAN, lag : Int]
  <2>e. ASSUME NEW ends \in SUBSET db.ends, NEW reshaped \in BOOLEAN, NEW rows \in BOOLEAN,
               db' = [db EXCEPT !.ends = ends, !.reshaped = reshaped, !.rows = rows],
               Conversion \in db.ends => Conversion \in ends
        PROVE  Edits
    BY <1>s, <2>e DEF Shaped
  <2> HIDE DEF Edits
  <2>3. Edits
    <3>1. /\ db.ends \in SUBSET db.ends /\ db.reshaped \in BOOLEAN /\ db.rows \in BOOLEAN
          /\ db.ends \ {Catalog} \in SUBSET db.ends
          /\ db.ends \ {Consolidation} \in SUBSET db.ends
          /\ Catalog # Conversion /\ Consolidation # Conversion
      BY <1>s DEF Shaped, Catalog, Consolidation, Conversion
    <3>2. CASE Write
      <4>1. db' = [db EXCEPT !.ends = db.ends, !.reshaped = db.reshaped, !.rows = TRUE]
        BY <1>s, <3>2 DEF Write, Shaped
      <4> QED
        BY <2>e, <3>1, <4>1
    <3>3. CASE DeleteSeeded
      <4>1. PICK still \in BOOLEAN :
              db' = [db EXCEPT !.ends = @ \ {Catalog}, !.reshaped = still]
        BY <3>1, <3>3 DEF DeleteSeeded
      <4>2. db' = [db EXCEPT !.ends = db.ends \ {Catalog}, !.reshaped = still, !.rows = db.rows]
        BY <1>s, <4>1 DEF Shaped
      <4> QED
        BY <2>e, <3>1, <4>2
    <3>4. CASE ReshapeSeeded
      <4>1. db' = [db EXCEPT !.ends = db.ends \ {Catalog}, !.reshaped = TRUE, !.rows = db.rows]
        BY <1>s, <3>4 DEF ReshapeSeeded, Shaped
      <4> QED
        BY <2>e, <3>1, <4>1
    <3>5. CASE NoteLikeAuto
      <4>1. db' = [db EXCEPT !.ends = db.ends \ {Consolidation}, !.reshaped = db.reshaped,
                             !.rows = TRUE]
        BY <1>s, <3>5 DEF NoteLikeAuto, Shaped
      <4> QED
        BY <2>e, <3>1, <4>1
    <3> QED
      BY <1>16, <3>2, <3>3, <3>4, <3>5 DEF Serve
  <2>4. Shaped(db') /\ (Verifiable(db) => Verifiable(db')) /\ (Whole(db) => Whole(db'))
    BY <1>s, <2>3 DEF Edits, Shaped, Verifiable, Whole
  <2>5. Conversion \in db.recorded
    BY <1>d, <2>1 DEF BootInv, Progress, Conversion
  <2>6. ~Converting' /\ db'.lag >= Owed(db') - kills
    BY <1>c, <2>1, <2>3, <2>5 DEF Edits, Converting, Current, Owed, run
  <2> QED
    BY <1>c, <1>k, <2>1, <2>2, <2>4, <2>6, WriteBackupInv DEF run, Served
<1>17. CASE Stop
  <2>1. /\ phase = "up" /\ target = NoBackup /\ phase' = "down"
        /\ UNCHANGED <<next, fresh, applied, dailyRan, db, files, target, error, clock, kills>>
    BY <1>17 DEF Stop
  <2>2. Control'
    BY <1>c, <2>1 DEF Control
  <2> QED
    BY <1>k, <2>1, <2>2, QuietBackupInv DEF Converting
<1>18. CASE Die
  <2>1. /\ kills < MaxKills /\ phase' = "down" /\ target' = NoBackup /\ kills' = kills + 1
        /\ UNCHANGED <<next, fresh, applied, dailyRan, db, files, error, clock>>
    BY <1>18 DEF Die
  <2>2. Control'
    BY <1>c, <1>k, <2>1 DEF Control, NoBackup
  <2> QED
    BY <1>k, <2>1, <2>2, QuietBackupInv
<1>19. CASE Tick
  <2>1. /\ phase \in {"down", "daily", "pre", "post", "up"}
        /\ clock < LastSecond /\ clock' = clock + 1
        /\ UNCHANGED <<run, db, files, target, error, kills>>
    BY <1>19 DEF Tick
  <2>2. Control'
    BY <1>c, <1>k, <2>1 DEF Control, run, Seconds, NoBackup
  <2> QED
    BY <1>k, <2>1, <2>2, QuietBackupInv DEF run
<1>20. CASE UNCHANGED vars
  <2>1. UNCHANGED <<phase, next, fresh, applied, dailyRan, db, files, target, error, clock, kills>>
    BY <1>20 DEF vars, run
  <2>2. Control'
    BY <1>c, <2>1 DEF Control
  <2> QED
    BY <1>k, <2>1, <2>2, QuietBackupInv
<1> QED
  BY <1>1, <1>2, <1>3, <1>4, <1>5, <1>6, <1>7, <1>8, <1>9, <1>10, <1>11, <1>12, <1>13,
     <1>14, <1>15, <1>16, <1>17, <1>18, <1>19, <1>20 DEF Next

LEMMA InitBackupInv == Init => BackupInv
<1> SUFFICES ASSUME Init PROVE BackupInv
  OBVIOUS
<1>1. Shaped(db) /\ Lags(db, 0)
  <2>1. ASSUME NEW era \in Eras PROVE Shaped(Old(era[1], era[2])) /\ Lags(Old(era[1], era[2]), 0)
    <3>1. /\ era[1] \in 1 .. 28 /\ era[2] \in 1 .. 28 /\ era[2] <= era[1]
          /\ era[1] < Conversion \/ era[2] >= Conversion
      BY BootAssumption, MigrationCount
    <3> QED
      BY <3>1, OldShaped
  <2> QED
    BY <2>1, EmptyShaped DEF Init
<1>2. Control
  <2>1. /\ phase = "down" /\ next = 1
        /\ fresh \in BOOLEAN /\ applied \in BOOLEAN /\ dailyRan \in BOOLEAN
        /\ target = NoBackup /\ error = "none" /\ clock = 0 /\ kills = 0
    BY DEF Init
  <2>2. 0 \in Seconds /\ 0 \in 0 .. MaxKills /\ NoBackup <= 0
    BY BootAssumption DEF Seconds, NoBackup
  <2> QED
    BY <2>1, <2>2 DEF Control
<1>3. Current
  BY <1>1 DEF Init, Current, Converting, Lags
<1>4. \A s \in Seconds : files[s] = NoFile
  BY DEF Init
<1>5. files = [s \in Seconds |-> files[s]]
  BY DEF Init
<1>6. Stored
  BY <1>4, <1>5, KindFacts DEF Init, Stored, Sound, Verified
<1>7. Served /\ MigratedIsBackedUp
  BY DEF Init, Served, MigratedIsBackedUp
<1> QED
  BY <1>2, <1>3, <1>6, <1>7 DEF BackupInv

THEOREM SpecBackupInv == Spec => []BackupInv
  BY InitBackupInv, NextBackupInv, SpecBootInv, PTL DEF Spec

LEMMA ShapedTypes ==
  ASSUME NEW d, Shaped(d), NEW k \in 0 .. MaxKills, d.lag >= -k PROVE d \in Databases
<1>1. d.lag \in -MaxKills .. 1
  <2>1. d.lag \in Int /\ d.lag <= 1 /\ k \in Int /\ k <= MaxKills /\ MaxKills \in Int
    BY BootAssumption DEF Shaped
  <2> QED
    BY <2>1
<1> QED
  BY <1>1 DEF Shaped, Databases

\* Every variable stays in range; in particular the timestamps of no database and no
\* backup are ever shifted more often than the process was killed.
THEOREM BootTypes == Spec => []TypeOK
<1>1. ASSUME BackupInv PROVE TypeOK
  <2>1. kills \in Nat /\ Owed(db) \in {0, 1} /\ db.lag \in Int /\ Shaped(db)
    BY <1>1 DEF BackupInv, Control, Current, Owed, Shaped
  <2>2. db \in Databases
    <3>1. db.lag >= -kills
      BY <1>1, <2>1 DEF BackupInv, Current
    <3> QED
      BY <1>1, <2>1, <3>1, ShapedTypes DEF BackupInv, Control
  <2>3. ASSUME NEW s \in Seconds PROVE files[s] \in Files
    <3>1. CASE files[s] \in {NoFile, Unusable}
      BY <3>1 DEF Files
    <3>2. ASSUME NEW d, files[s] = Copy(d), Shaped(d), Lags(d, kills) PROVE files[s] \in Files
      <4>1. d.lag \in Int /\ Owed(d) \in {0, 1}
        BY <3>2 DEF Shaped, Owed
      <4>2. d.lag >= -kills
        BY <2>1, <3>2, <4>1 DEF Lags
      <4>3. d \in Databases
        BY <1>1, <3>2, <4>2, ShapedTypes DEF BackupInv, Control
      <4> QED
        BY <3>2, <4>3 DEF Files, Copy
    <3> QED
      BY <1>1, <3>1, <3>2 DEF BackupInv, Stored, Sound
  <2>4. files \in [Seconds -> Files]
    BY <1>1, <2>3 DEF BackupInv, Stored
  <2> QED
    BY <1>1, <2>2, <2>4, MigrationCount DEF BackupInv, Control, TypeOK
<1> QED
  BY <1>1, SpecBackupInv, PTL

\* A boot that reaches its backups has every table of schema.sql but perhaps the one
\* no migration looks at, also when an earlier boot died inside the schema script.
THEOREM BootsWhole == Spec => []ServesSchema
<1>1. BackupInv => ServesSchema
  BY DEF BackupInv, Served, Whole, ServesSchema
<1> QED
  BY <1>1, SpecBackupInv, PTL

\* The backup after the migrations is of the migrated database and survives its own
\* pruning: no file is later than it, whatever the retention.
THEOREM MigrationsAreBackedUp == Spec => []MigratedIsBackedUp
<1>1. BackupInv => MigratedIsBackedUp
  BY DEF BackupInv
<1> QED
  BY <1>1, SpecBackupInv, PTL

\* No step leaves the user without a backup that can be restored where there was one:
\* a failed backup only takes a file away while the database would not verify, and then
\* no good file exists; pruning takes older files first.
THEOREM GoodBackupKept == Spec => PruneKeepsGood
<1>1. ASSUME BackupInv, [Next]_vars, Verified # {}
      PROVE  \E s \in Seconds : files'[s].kind = "good"
  <2>1. Control /\ Stored /\ Verifiable(db)
    BY <1>1 DEF BackupInv, Stored
  <2>2. PICK g \in Seconds : files[g].kind = "good"
    BY <1>1 DEF Verified
  <2>3. DOMAIN files = Seconds
    BY <2>1 DEF Stored
  <2>4. CASE files' = files
    BY <2>2, <2>4
  <2>5. CASE OpenBackup
    <3>1. files' = [files EXCEPT ![clock] = IF @ = NoFile THEN Unusable ELSE @]
      BY <2>5 DEF OpenBackup
    <3>2. files'[g] = files[g]
      BY <2>2, <2>3, <3>1, KindFacts
    <3> QED
      BY <2>2, <3>2
  <2>6. CASE CopyBackup
    <3> DEFINE copied == [files EXCEPT ![target] = Copy(db)]
    <3>1. /\ target # NoBackup
          /\ files' = IF phase \in {"daily", "pre"} THEN copied ELSE Pruned(copied)
      BY <2>6 DEF CopyBackup
    <3>2. target \in Seconds
      BY <2>1, <3>1 DEF Control
    <3>3. copied[target] = Copy(db)
      BY <2>3, <3>2
    <3>4. \A s \in Seconds : s > target => copied[s] = NoFile
      BY <2>1, <2>3, <3>1, <3>2 DEF Stored, Seconds
    <3>5. Pruned(copied)[target] = copied[target]
      BY <3>2, <3>4, PruneKeepsNewest
    <3>6. files'[target] = Copy(db)
      BY <3>1, <3>3, <3>5
    <3> QED
      BY <3>2, <3>6, KindFacts
  <2>7. CASE BackupFails
    BY <2>1, <2>7 DEF BackupFails, Verifies, Verifiable
  <2> QED
    BY <1>1, <2>4, <2>5, <2>6, <2>7 DEF Next, vars, run, Start, NoBackupDue, Restore, CreateSchema,
       DieInSchema, SkipMigrations, RunMigration, DieInRebuild, RecordMigration,
       MigrationFails, MigrationsDone, Seed, Serve, Stop, Die, Tick
<1> QED
  BY <1>1, SpecBackupInv, PTL DEF Spec, PruneKeepsGood

=============================================================================
