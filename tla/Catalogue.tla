----------------------------- MODULE Catalogue -----------------------------
(***************************************************************************)
(* The rows a user keeps and the references between them: profiles,        *)
(* entities, market and portfolio assets, prices, exemptions, fiscal       *)
(* periods, tax and broker fee definitions, transactions with their fees   *)
(* and taxes, balance snapshots and schedules.  No foreign key is enforced *)
(* by the database (connection.py never sets the pragma), so a reference   *)
(* is as good as the checks of the services that write and delete rows.    *)
(*                                                                         *)
(* A request runs on the event loop from its first read to its commit, so  *)
(* it is one step.  The scheduler and the price sync run in threads of     *)
(* their own: they read a row in one step and insert what they made of it  *)
(* in a later one.                                                         *)
(*                                                                         *)
(* A row is its key, the profile it belongs to, the keys it refers to, and *)
(* the name, type or span of days a check compares; amounts, dates and     *)
(* texts are left out.  A row is loose when no service keeps its           *)
(* references: a thread wrote it, or it is a charge of an adjustment,      *)
(* which goes with its snapshot whatever refers to it.  Two kinds of row   *)
(* are left to other modules: injections (CashLedger), with the charges a  *)
(* user may put on one and deleting it orphans, and schedule occurrences   *)
(* (Scheduler).                                                            *)
(***************************************************************************)
EXTENDS Integers, FiniteSets

CONSTANTS
  Names,       \* names of profiles and entities, slugs of tax definitions
  EntityTypes, \* what an entity is, besides its name
  Codes,       \* market codes
  MaxDay,      \* fiscal periods are spans of the days 1..MaxDay
  MaxId,       \* bound: keys of one table
  MaxRows      \* bound: keys handed out over all tables

ASSUME CatalogueAssumption ==
  /\ "Default" \in Names
  /\ MaxDay \in Nat /\ MaxId \in Nat \ {0} /\ MaxRows \in Nat

VARIABLES
  db,       \* the rows
  issued,   \* every key ever handed out: sqlite_sequence
  held      \* the row a background thread has read and not used yet

vars == <<db, issued, held>>

Tables ==
  {"profiles", "entities", "market_assets", "portfolio_assets", "prices",
   "fiscal_exemptions", "fiscal_periods", "tax_definitions",
   "broker_fee_definitions", "transactions", "transaction_fees",
   "transaction_taxes", "balance_snapshots", "schedules"}

Ids == 1..MaxId
Keys == (Tables \X Ids) \cup ({"market_assets"} \X Codes)

\* The profile of a row every profile shares.
Shared == <<"profiles", 0>>

NoName == ""
NoType == ""
\* A period without end date ends on date.max.
Forever == MaxDay + 1
Spans == (1..MaxDay) \X (1..Forever)
NoSpan == <<0, 0>>

Row(k, p) ==
  [key |-> k, owner |-> p, refs |-> {}, name |-> NoName, type |-> NoType, span |-> NoSpan,
   live |-> TRUE, loose |-> FALSE]
Rows ==
  [key : Keys, owner : Keys \cup {Shared}, refs : SUBSET Keys,
   name : Names \cup {NoName}, type : EntityTypes \cup {NoType}, span : Spans \cup {NoSpan},
   live : BOOLEAN, loose : BOOLEAN]

KeysOf(S) == {r.key : r \in S}
Of(t) == {r \in db : r.key[1] = t}
Profiles == KeysOf(Of("profiles"))

\* What a query of the active profile returns.
Seen(p, t) == {r \in Of(t) : r.live /\ r.owner \in {p, Shared}}
Found(p, t) == KeysOf(Seen(p, t))

AtMostOne(S) == {{}} \cup {{s} : s \in S}

\* Slip: AUTOINCREMENT lost in a rebuild of the table, numbers come back.
Fresh_counted(t, used) == {t} \X (Ids \cap {1 + Cardinality(Of(t))})

\* AUTOINCREMENT: the first number the table has never handed out.
Fresh(t, used) ==
  {k \in {t} \X Ids : k \notin used /\ \A n \in 1..(k[2] - 1) : <<t, n>> \in used}

Insert(rows) ==
  /\ Cardinality(issued) < MaxRows
  /\ db' = db \cup rows
  /\ issued' = issued \cup KeysOf(rows)
  /\ UNCHANGED held
Replace(r, s) ==
  /\ db' = (db \ {r}) \cup {s}
  /\ UNCHANGED <<issued, held>>
Remove(rows) ==
  /\ db' = db \ rows
  /\ UNCHANGED <<issued, held>>

\* The rows of table t that profile p sees and that refer to key k.
Referring(p, t, k) == {r \in Of(t) : r.owner \in {p, Shared} /\ k \in r.refs}

-----------------------------------------------------------------------------
(* Profiles *)

CreateProfile(n) ==
  /\ \A r \in Of("profiles") : r.name # n
  /\ \E k \in Fresh("profiles", issued) : Insert({[Row(k, Shared) EXCEPT !.name = n]})

RenameProfile(r, n) ==
  /\ r \in Of("profiles")
  /\ n = r.name \/ \A s \in Of("profiles") : s.name # n
  /\ Replace(r, [r EXCEPT !.name = n])

ProfileTables ==
  {"transaction_fees", "transaction_taxes", "balance_snapshots", "schedules",
   "transactions", "portfolio_assets", "entities", "fiscal_exemptions"}

DeleteProfile(p) ==
  /\ p \in Of("profiles")
  /\ Of("profiles") # {p}
  /\ Remove({p} \cup {r \in db : r.key[1] \in ProfileTables /\ r.owner = p.key})

-----------------------------------------------------------------------------
(* Entities *)

EntityExists(p, n, y) == \E e \in Seen(p, "entities") : e.name = n /\ e.type = y

\* Slip: the snapshots and their adjustments are forgotten.
EntityHasDependents_spends(p, k) ==
  {r \in Referring(p, "transactions", k) : \A f \in r.refs : f[1] # "balance_snapshots"} # {}

EntityHasDependents(p, k) ==
  Referring(p, "transactions", k) \cup Referring(p, "balance_snapshots", k) # {}

CreateEntity(p, n, y) ==
  /\ ~EntityExists(p, n, y)
  /\ \E k \in Fresh("entities", issued) : Insert({[Row(k, p) EXCEPT !.name = n, !.type = y]})

\* Slip: an edit of the type alone is not compared.
RenamesEntity_by_name(p, e, n, y) == n = e.name \/ ~EntityExists(p, n, y)

RenamesEntity(p, e, n, y) == (n = e.name /\ y = e.type) \/ ~EntityExists(p, n, y)

UpdateEntity(p, e, n, y) ==
  /\ e \in Seen(p, "entities")
  /\ RenamesEntity(p, e, n, y)
  /\ Replace(e, [e EXCEPT !.name = n, !.type = y])

DeleteEntity(p, e) ==
  /\ e \in Seen(p, "entities")
  /\ ~EntityHasDependents(p, e.key)
  /\ Replace(e, [e EXCEPT !.live = FALSE])

-----------------------------------------------------------------------------
(* Market assets and prices, which all profiles share *)

MarketAssetHasDependents(p, k) ==
  Referring(p, "portfolio_assets", k) \cup Referring(p, "prices", k) # {}

CreateMarketAsset(c) ==
  /\ <<"market_assets", c>> \notin KeysOf(db)
  /\ Insert({Row(<<"market_assets", c>>, Shared)})

DeleteMarketAsset(p, m) ==
  /\ m \in Seen(p, "market_assets")
  /\ ~MarketAssetHasDependents(p, m.key)
  /\ Remove({m})

CreatePrice(p, m) ==
  /\ m \in Found(p, "market_assets")
  /\ \E k \in Fresh("prices", issued) : Insert({[Row(k, Shared) EXCEPT !.refs = {m}]})

UpdatePrice(p, r, m) ==
  /\ r \in Seen(p, "prices")
  /\ m \in Found(p, "market_assets")
  /\ Replace(r, [r EXCEPT !.refs = {m}, !.loose = FALSE])

DeletePrice(p, r) == r \in Seen(p, "prices") /\ Remove({r})

-----------------------------------------------------------------------------
(* Portfolio assets, exemptions and fiscal periods *)

\* Slip: schedules are counted in the place of transactions.
PortfolioAssetHasDependents_schedules(p, k) == Referring(p, "schedules", k) # {}

PortfolioAssetHasDependents(p, k) == Referring(p, "transactions", k) # {}

CreatePortfolioAsset(p, m) ==
  /\ m \in Found(p, "market_assets")
  /\ \E k \in Fresh("portfolio_assets", issued) : Insert({[Row(k, p) EXCEPT !.refs = {m}]})

UpdatePortfolioAsset(p, a, m) ==
  /\ a \in Seen(p, "portfolio_assets")
  /\ m \in Found(p, "market_assets")
  /\ Replace(a, [a EXCEPT !.refs = {m}])

DeletePortfolioAsset(p, a) ==
  /\ a \in Seen(p, "portfolio_assets")
  /\ ~PortfolioAssetHasDependents(p, a.key)
  /\ Remove({a})

CreateExemption(p) == \E k \in Fresh("fiscal_exemptions", issued) : Insert({Row(k, p)})

FiscalExemptionHasDependents(p, k) == Referring(p, "transactions", k) # {}

DeleteExemption(p, x) ==
  /\ x \in Seen(p, "fiscal_exemptions")
  /\ ~FiscalExemptionHasDependents(p, x.key)
  /\ Remove({x})

\* Slip: periods that share only the day one ends on are taken for disjoint.
Overlaps_strict(p, s, edited) ==
  \E r \in Seen(p, "fiscal_periods") :
    r.key # edited /\ s[1] < r.span[2] /\ r.span[1] < s[2]

\* _overlaps_existing: against every period of the profile but the edited one.
Overlaps(p, s, edited) ==
  \E r \in Seen(p, "fiscal_periods") :
    r.key # edited /\ s[1] <= r.span[2] /\ r.span[1] <= s[2]

CreatePeriod(p, s) ==
  \E k \in Fresh("fiscal_periods", issued) :
    ~Overlaps(p, s, k) /\ Insert({[Row(k, p) EXCEPT !.span = s]})

UpdatePeriod(p, r, s) ==
  /\ r \in Seen(p, "fiscal_periods")
  /\ ~Overlaps(p, s, r.key)
  /\ Replace(r, [r EXCEPT !.span = s])

DeletePeriod(p, r) == r \in Seen(p, "fiscal_periods") /\ Remove({r})

-----------------------------------------------------------------------------
(* The tax catalogue, which all profiles share *)

DefinitionInUse(t, k) == \E r \in Of(t) : k \in r.refs

CreateTaxDefinition(n) ==
  /\ \A r \in Of("tax_definitions") : r.name # n
  /\ \E k \in Fresh("tax_definitions", issued) : Insert({[Row(k, Shared) EXCEPT !.name = n]})

UpdateTaxDefinition(r, n) ==
  /\ r \in Of("tax_definitions")
  /\ \A s \in Of("tax_definitions") : s.name = n => s.key = r.key
  /\ Replace(r, [r EXCEPT !.name = n])

DeleteTaxDefinition(r) ==
  /\ r \in Of("tax_definitions")
  /\ ~DefinitionInUse("transaction_taxes", r.key)
  /\ Remove({r})

CreateFeeDefinition ==
  \E k \in Fresh("broker_fee_definitions", issued) : Insert({Row(k, Shared)})

DeleteFeeDefinition(r) ==
  /\ r \in Of("broker_fee_definitions")
  /\ ~DefinitionInUse("transaction_fees", r.key)
  /\ Remove({r})

-----------------------------------------------------------------------------
(* Transactions, fees and taxes *)

\* _resolve_fks: an entity, maybe a portfolio asset, maybe an exemption.
Resolved(p) ==
  {{e} \cup a \cup x : e \in Found(p, "entities"),
                       a \in AtMostOne(Found(p, "portfolio_assets")),
                       x \in AtMostOne(Found(p, "fiscal_exemptions"))}

CreateTransaction(p, refs) ==
  /\ refs \in Resolved(p)
  /\ \E k \in Fresh("transactions", issued) : Insert({[Row(k, p) EXCEPT !.refs = refs]})

\* An adjustment keeps the snapshot it belongs to.
UpdateTransaction(p, r, refs) ==
  /\ r \in Seen(p, "transactions")
  /\ refs \in Resolved(p)
  /\ Replace(r, [r EXCEPT !.refs = refs \cup {k \in r.refs : k[1] = "balance_snapshots"},
                          !.loose = FALSE])

TransactionHasDependents(p, k) ==
  Referring(p, "transaction_fees", k) \cup Referring(p, "transaction_taxes", k) # {}

DeleteTransaction(p, r) ==
  /\ r \in Seen(p, "transactions")
  /\ ~TransactionHasDependents(p, r.key)
  /\ Remove({r})

\* A batch, or a transfer: two transactions, and for a transfer maybe a fee
\* of the first, committed together or not at all.
CreateTwo(p, refs1, refs2, withFee) ==
  /\ {refs1, refs2} \subseteq Resolved(p)
  /\ \E k1 \in Fresh("transactions", issued) :
     \E k2 \in Fresh("transactions", issued \cup {k1}) :
     \E f \in Fresh("transaction_fees", issued) :
       Insert({[Row(k1, p) EXCEPT !.refs = refs1], [Row(k2, p) EXCEPT !.refs = refs2]}
              \cup {r \in {[Row(f, p) EXCEPT !.refs = {k1}]} : withFee})

\* The child tables and the catalogue table their definition is looked for in;
\* nothing checks that the definition exists, and number 1 stands for any.
Charges == {<<"transaction_fees", "broker_fee_definitions">>,
            <<"transaction_taxes", "tax_definitions">>}

OfAdjustment(t) == \E r \in db : r.key = t /\ \E k \in r.refs : k[1] = "balance_snapshots"

Charge(r, t, def) == [r EXCEPT !.refs = {t} \cup def, !.loose = OfAdjustment(t)]

CreateCharge(p, c, t, def) ==
  /\ t \in Found(p, "transactions")
  /\ \E k \in Fresh(c[1], issued) : Insert({Charge(Row(k, p), t, def)})

UpdateCharge(p, c, r, t, def) ==
  /\ r \in Seen(p, c[1])
  /\ t \in Found(p, "transactions")
  /\ Replace(r, Charge(r, t, def))

DeleteCharge(p, c, r) == r \in Seen(p, c[1]) /\ Remove({r})

-----------------------------------------------------------------------------
(* Balance snapshots, each with the adjustment that makes it hold *)

Adjustments(p, e, k) == {r \in Of("transactions") : r.owner = p /\ {e, k} \subseteq r.refs}

CreateSnapshot(p, e) ==
  /\ e \in Found(p, "entities")
  /\ \E k \in Fresh("balance_snapshots", issued), a \in Fresh("transactions", issued) :
       Insert({[Row(k, p) EXCEPT !.refs = {e}], [Row(a, p) EXCEPT !.refs = {e, k}]})

\* A new amount or timestamp drops the adjustment of the old entity and writes
\* one at the new entity unless it has one; otherwise the adjustment stays.
UpdateSnapshot(p, r, e, changed) ==
  /\ r \in Seen(p, "balance_snapshots")
  /\ e \in Found(p, "entities")
  /\ LET old  == UNION {Adjustments(p, f, r.key) : f \in r.refs}
         kept == IF changed THEN db \ old ELSE db
     IN  \E a \in Fresh("transactions", issued) :
           LET new == IF changed /\ Adjustments(p, e, r.key) \ old = {}
                      THEN {[Row(a, p) EXCEPT !.refs = {e, r.key}]} ELSE {}
           IN  /\ Cardinality(issued) < MaxRows
               /\ db' = (kept \ {r}) \cup {[r EXCEPT !.refs = {e}]} \cup new
               /\ issued' = issued \cup KeysOf(new)
               /\ UNCHANGED held

DeleteSnapshot(p, r) ==
  /\ r \in Seen(p, "balance_snapshots")
  /\ Remove({r} \cup UNION {Adjustments(p, f, r.key) : f \in r.refs})

-----------------------------------------------------------------------------
(* Schedules *)

\* The entity is looked up, the portfolio asset is not: number 1 stands for any.
ScheduleRefs(p) ==
  {e \cup a : e \in AtMostOne(Found(p, "entities")),
              a \in AtMostOne({<<"portfolio_assets", 1>>})}

CreateSchedule(p, refs) ==
  /\ refs \in ScheduleRefs(p)
  /\ \E k \in Fresh("schedules", issued) : Insert({[Row(k, p) EXCEPT !.refs = refs]})

UpdateSchedule(p, r, refs) ==
  /\ r \in Seen(p, "schedules")
  /\ refs \in ScheduleRefs(p)
  /\ Replace(r, [r EXCEPT !.refs = refs])

DeleteSchedule(p, r) == r \in Seen(p, "schedules") /\ Remove({r})

-----------------------------------------------------------------------------
(* The threads: a schedule that fires, the price sync *)

\* _clone_tx up to the check of the entity, for any profile.
ReadSchedule(r) ==
  /\ held = {}
  /\ r \in Of("schedules")
  /\ \E e \in Of("entities") : e.live /\ e.key \in r.refs
  /\ held' = {r}
  /\ UNCHANGED <<db, issued>>

\* The raw insert of the transaction, in the profile the schedule had.
FireSchedule(r, k) ==
  /\ r \in held /\ r.key[1] = "schedules"
  /\ k \in Fresh("transactions", issued)
  /\ Cardinality(issued) < MaxRows
  /\ db' = db \cup {[Row(k, r.owner) EXCEPT !.refs = r.refs, !.loose = TRUE]}
  /\ issued' = issued \cup {k}
  /\ held' = {}

ReadTarget(m) ==
  /\ held = {}
  /\ m \in Of("market_assets")
  /\ held' = {m}
  /\ UNCHANGED <<db, issued>>

StorePrice(m, k) ==
  /\ m \in held /\ m.key[1] = "market_assets"
  /\ k \in Fresh("prices", issued)
  /\ Cardinality(issued) < MaxRows
  /\ db' = db \cup {[Row(k, Shared) EXCEPT !.refs = {m.key}, !.loose = TRUE]}
  /\ issued' = issued \cup {k}
  /\ held' = {}

\* The job fails, or the process is stopped before the insert.
DropJob == held # {} /\ held' = {} /\ UNCHANGED <<db, issued>>

-----------------------------------------------------------------------------
DefaultProfile == <<"profiles", 1>>

\* What the first boot leaves, less the seeded definitions: they are rows like
\* those a request creates, and a user may delete them.
Seeds == {[Row(DefaultProfile, Shared) EXCEPT !.name = "Default"]}

Init ==
  /\ db = Seeds
  /\ issued = KeysOf(Seeds)
  /\ held = {}

SharedNext ==
  \/ \E n \in Names : CreateProfile(n) \/ CreateTaxDefinition(n)
  \/ \E r \in db, n \in Names : RenameProfile(r, n) \/ UpdateTaxDefinition(r, n)
  \/ \E r \in db : DeleteProfile(r) \/ DeleteTaxDefinition(r) \/ DeleteFeeDefinition(r)
  \/ CreateFeeDefinition
  \/ \E c \in Codes : CreateMarketAsset(c)

HoldingsNext(p) ==
  \/ \E n \in Names, y \in EntityTypes :
       CreateEntity(p, n, y) \/ \E e \in db : UpdateEntity(p, e, n, y)
  \/ \E m \in KeysOf(db) :
       \/ CreatePrice(p, m)
       \/ CreatePortfolioAsset(p, m)
       \/ \E r \in db : UpdatePrice(p, r, m) \/ UpdatePortfolioAsset(p, r, m)
  \/ \E s \in Spans : CreatePeriod(p, s) \/ \E r \in db : UpdatePeriod(p, r, s)
  \/ CreateExemption(p)
  \/ \E r \in db :
       \/ DeleteEntity(p, r)
       \/ DeleteMarketAsset(p, r)
       \/ DeletePrice(p, r)
       \/ DeletePortfolioAsset(p, r)
       \/ DeleteExemption(p, r)
       \/ DeletePeriod(p, r)

MovementsNext(p) ==
  \/ \E refs \in Resolved(p) :
       \/ CreateTransaction(p, refs)
       \/ \E r \in db : UpdateTransaction(p, r, refs)
       \/ \E refs2 \in Resolved(p), withFee \in BOOLEAN : CreateTwo(p, refs, refs2, withFee)
  \/ \E c \in Charges, t \in KeysOf(db) :
     \E def \in AtMostOne({<<c[2], 1>>}) :
       CreateCharge(p, c, t, def) \/ \E r \in db : UpdateCharge(p, c, r, t, def)
  \/ \E e \in KeysOf(db) :
       \/ CreateSnapshot(p, e)
       \/ \E r \in db, changed \in BOOLEAN : UpdateSnapshot(p, r, e, changed)
  \/ \E refs \in ScheduleRefs(p) :
       CreateSchedule(p, refs) \/ \E r \in db : UpdateSchedule(p, r, refs)
  \/ \E r \in db :
       \/ DeleteTransaction(p, r)
       \/ \E c \in Charges : DeleteCharge(p, c, r)
       \/ DeleteSnapshot(p, r)
       \/ DeleteSchedule(p, r)

JobsNext ==
  \/ \E r \in db : ReadSchedule(r) \/ ReadTarget(r)
  \/ \E r \in held, k \in Keys : FireSchedule(r, k) \/ StorePrice(r, k)
  \/ DropJob

Next ==
  \/ SharedNext
  \/ \E p \in Profiles : HoldingsNext(p) \/ MovementsNext(p)
  \/ JobsNext

Spec == Init /\ [][Next]_vars

-----------------------------------------------------------------------------
(* Properties *)

\* Rows have their types, no two rows of a table share a key, and a numbered
\* row has a number the table has handed out.
TypeOK ==
  /\ db \subseteq Rows
  /\ issued \subseteq Keys
  /\ held \subseteq Rows
  /\ \A r, s \in db : r.key = s.key => r = s
  /\ KeysOf(db) \subseteq issued

\* References whose target the services look up on every write and refuse to
\* delete while it is referred to.  A schedule refers to its entity even when
\* that is soft-deleted.
Enforced ==
  {<<"transactions", "entities">>, <<"transactions", "portfolio_assets">>,
   <<"transactions", "fiscal_exemptions">>, <<"transaction_fees", "transactions">>,
   <<"transaction_taxes", "transactions">>, <<"balance_snapshots", "entities">>,
   <<"schedules", "entities">>, <<"prices", "market_assets">>}

Resolves(r, k) == \E s \in db : s.key = k /\ s.owner = r.owner

\* Without foreign keys in the database, after every sequence of requests and
\* jobs each enforced reference of a row a request wrote leads to a row that
\* is there and belongs to the same profile: the dependents checks of the
\* delete functions, the lookups of the write functions and the deletion of a
\* whole profile leave no gap between them.
RefsResolve ==
  \A r \in db : ~r.loose =>
    \A k \in r.refs : <<r.key[1], k[1]>> \in Enforced => Resolves(r, k)

\* An entity that was soft-deleted, and so can no longer be opened, holds no
\* transaction or balance snapshot a request wrote: no money disappears from
\* the screens with the account it is on.
DeletedIsEmpty ==
  \A e \in Of("entities") : ~e.live =>
    \A r \in Of("transactions") \cup Of("balance_snapshots") :
      e.key \in r.refs => r.loose

\* No two profiles and no two definitions have the same name, and no two live
\* entities of a profile the same name and type, whatever was renamed, retyped,
\* deleted or created again.
NamesDistinct ==
  \A t \in {"profiles", "tax_definitions", "entities"} :
    \A r, s \in Of(t) :
      r.live /\ s.live /\ r.owner = s.owner /\ r.name = s.name /\ r.type = s.type => r = s

\* At most one fiscal period of a profile contains a day, so that the rule
\* get_fiscal_period_at finds for a sale is the only one: also when a period
\* ends before it starts, which nothing refuses.
PeriodsDisjoint ==
  \A r, s \in Of("fiscal_periods") :
    \A d \in 1..Forever :
      /\ r.owner = s.owner
      /\ r.span[1] <= d /\ d <= r.span[2]
      /\ s.span[1] <= d /\ d <= s.span[2]
      => r = s

\* Every portfolio asset and every price has its market asset.  The delete of a
\* market asset asks the active profile's portfolio assets only.
AssetsHaveMarket ==
  \A a \in Of("portfolio_assets") : a.refs \subseteq KeysOf(Of("market_assets"))

=============================================================================
