----------------------------- MODULE CashLedger -----------------------------
(***************************************************************************)
(* The cash ledger of one entity: transactions, balance snapshots, the     *)
(* adjustments that reconcile a snapshot, the inferred-cash injections     *)
(* that fund unexplained spends, the links between the two, and fees.      *)
(* (backend/services/transaction_svc.py, balance_snapshot_svc.py,          *)
(* transaction_fee_svc.py, transaction_full_svc.py and the balance queries *)
(* of backend/db/queries.py.)                                              *)
(*                                                                         *)
(* A handler is one SQLite transaction: it works on a copy d of the tables *)
(* and commits the result, so the statements of a handler are operators    *)
(* from tables to tables, and an action is Commit of their composition.    *)
(*                                                                         *)
(* Time is a number of ticks, TicksPerDay to the UTC day; the last tick of *)
(* a day is its 23:59:59.  The profile's clock runs TzShift ticks ahead.   *)
(***************************************************************************)
EXTENDS Integers, FiniteSets, FiniteSetsExt, Functions

CONSTANTS
    TxIds,         \* ids of transactions entered by the client; \subseteq Nat
    SnapIds,       \* ids of balance snapshots
    Pockets,       \* currencies; a pocket is the entity's cash in one of them
    MainCurrency,  \* the entity's main_currency: a pocket, or NoCurrency
    NoCurrency,
    Rate,          \* stored rate of each currency to MainCurrency, 0 if none
    TicksPerDay,
    TzShift,
    Instants,      \* when the client's transactions may happen
    SnapInstants,  \* when the client's snapshots may be taken
    Amounts,       \* cash amounts of transactions and fees
    Targets,       \* amounts of snapshots
    Kinds,         \* kinds of transaction the client enters
    Modes,         \* cash_handling values the client sends
    Ops,           \* endpoints the client uses
    NoRow          \* an id without a row

\* "in"     INCOME, INVESTMENT_SELL, TRANSFER_IN
\* "out"    SPEND_TYPES: INVESTMENT_BUY, MONEY_OUT, TRANSFER_OUT
\* "manual" a BALANCE_ADJUSTMENT entered by hand
AllKinds == {"in", "out", "manual"}
\* "auto" stands for NULL, the smart default decided at record time.
AllModes == {"auto", "debit", "inject"}

ASSUME LedgerAssumption ==
    /\ TxIds \subseteq Nat
    /\ IsFiniteSet(TxIds) /\ IsFiniteSet(SnapIds)
    /\ NoCurrency \notin Pockets
    /\ MainCurrency \in Pockets \cup {NoCurrency}
    /\ TicksPerDay \in Nat \ {0, 1}
    /\ TzShift \in Int /\ Rate \in [Pockets -> Nat]
    /\ Instants \subseteq Int /\ SnapInstants \subseteq Int
    /\ Amounts \subseteq Nat \ {0} /\ Targets \subseteq Int
    /\ Kinds \subseteq AllKinds /\ Modes \subseteq AllModes

VARIABLES
    tx,        \* transactions: id -> row, without the generated adjustments
    snap,      \* balance_snapshots: id -> row
    adj,       \* adjustments with a balance_snapshot_id: <<snapshot, currency>> -> row
    inj,       \* injected adjustments: <<currency, timestamp>> -> total_value
    link,      \* balance_adjustment_links: pairs <<slot of an injection, tx id>>
    dangling,  \* those of them whose injection was deleted: its id never comes back
    fee        \* transaction_fees and transaction_taxes: tx id -> row

vars == <<tx, snap, adj, inj, link, dangling, fee>>

\* pocket is COALESCE(payment_currency, currency), and cash what the row moves
\* there: gross_amount when the two differ, otherwise total_value.  The
\* cash_handling column is an argument of the actions: an update that omits
\* it reuses the stored value, and one that sends it may send any.
TxRows == [kind : Kinds, cur : Pockets, pocket : Pockets, ts : Instants, cash : Amounts]
SnapRows == [cur : Pockets, ts : SnapInstants, amount : Targets]
FeeRows == [cur : Pockets, amount : Amounts]

ASSUME NoRowAssumption == NoRow \notin TxRows \cup SnapRows \cup FeeRows

DB == [tx |-> tx, snap |-> snap, adj |-> adj, inj |-> inj,
       link |-> link, dangling |-> dangling, fee |-> fee]

Commit(d) ==
    /\ tx' = d.tx
    /\ snap' = d.snap
    /\ adj' = d.adj
    /\ inj' = d.inj
    /\ link' = d.link
    /\ dangling' = d.dangling
    /\ fee' = d.fee

Without(f, keys) == [k \in DOMAIN f \ keys |-> f[k]]
With(f, key, value) == [k \in DOMAIN f \cup {key} |-> IF k = key THEN value ELSE f[k]]

Live(d) == {t \in TxIds : d.tx[t] # NoRow}
Snapshots(d, p) == {s \in SnapIds : d.snap[s] # NoRow /\ d.snap[s].cur = p}

-----------------------------------------------------------------------------
(* The calendar.                                                           *)

DayStart(ts) == (ts \div TicksPerDay) * TicksPerDay

\* (timestamp - 1 day) 23:59:59, on the UTC calendar.
InjectionTs(ts) == DayStart(ts) - 1

\* adjustment_timestamp: 23:59:59 of the day before the snapshot on the
\* profile's calendar, as a UTC instant.
AdjustmentTs(ts) == DayStart(ts + TzShift) - 1 - TzShift

Slot(row) == <<row.pocket, InjectionTs(row.ts)>>

-----------------------------------------------------------------------------
(* Balances.  The exclude_* arguments of the queries are tables with the   *)
(* excluded rows left out.                                                 *)

NoTx(d, t) == [d EXCEPT !.tx[t] = NoRow]
NoAdjustment(d, s) == [d EXCEPT !.adj = Without(d.adj, {s} \X Pockets)]
NoInjection(d, slot) == [d EXCEPT !.inj = Without(d.inj, {slot})]

Signed(row) == IF row.kind = "out" THEN -row.cash ELSE row.cash

\* Everything that moved in pocket p before ts.
FlowBefore(d, p, ts) ==
    LET moved == [t \in Live(d) |-> Signed(d.tx[t])]
        adjusted == [k \in DOMAIN d.adj |-> d.adj[k].amount]
    IN  SumFunctionOnSet(moved, {t \in Live(d) : d.tx[t].pocket = p /\ d.tx[t].ts < ts})
        + SumFunctionOnSet(adjusted, {k \in DOMAIN d.adj : k[2] = p /\ d.adj[k].ts < ts})
        + SumFunctionOnSet(d.inj, {k \in DOMAIN d.inj : k[1] = p /\ k[2] < ts})

\* What one fee or tax row takes from pocket p, where p is the main currency,
\* or any pocket of an entity without one.
Charge(row, p) ==
    IF row.cur = p THEN row.amount
    ELSE IF MainCurrency # NoCurrency THEN row.amount * Rate[row.cur]
    ELSE 0

\* compute_fee_cash_out_at: fees of transactions up to and including ts.
FeeOut(d, p, ts) ==
    IF MainCurrency \notin {NoCurrency, p} THEN 0
    ELSE LET charged == [t \in {u \in Live(d) : d.fee[u] # NoRow} |-> Charge(d.fee[t], p)]
         IN  SumFunctionOnSet(charged, {t \in DOMAIN charged : d.tx[t].ts <= ts})

SnapsBefore(d, p, ts) == {s \in Snapshots(d, p) : d.snap[s].ts < ts}
SnapsAfter(d, p, ts) == {s \in Snapshots(d, p) : d.snap[s].ts > ts}
Latest(d, S) == CHOOSE s \in S : \A r \in S : d.snap[r].ts <= d.snap[s].ts
Earliest(d, S) == CHOOSE s \in S : \A r \in S : d.snap[s].ts <= d.snap[r].ts

\* get_balance_at_date: from the previous snapshot's amount when there is
\* one, otherwise from the origin.  Only the walk from the origin looks at
\* inclusive_end.
BalanceAt(d, p, ts, inclusive) ==
    IF SnapsBefore(d, p, ts) = {}
    THEN FlowBefore(d, p, IF inclusive THEN ts + 1 ELSE ts) - FeeOut(d, p, ts)
    ELSE LET s == d.snap[Latest(d, SnapsBefore(d, p, ts))]
         IN  s.amount + FlowBefore(d, p, ts) - FlowBefore(d, p, s.ts)
             - (FeeOut(d, p, ts) - FeeOut(d, p, s.ts))

-----------------------------------------------------------------------------
(* Reconciling snapshots.                                                  *)

\* The amount that makes the ledger land on `target` at ts.
Reconciling(d, p, s, ts, target) == target - BalanceAt(NoAdjustment(d, s), p, ts, TRUE)

\* Update the adjustment of snapshot s in pocket p, or create it.
SetAdjustment(d, p, s, ts, amount) ==
    LET key == <<s, p>>
        at == IF key \in DOMAIN d.adj THEN d.adj[key].ts ELSE AdjustmentTs(ts)
    IN  [d EXCEPT !.adj = With(d.adj, key, [ts |-> at, amount |-> amount])]

\* _recalculate_adjustments: refresh the first snapshot after ts.
Recalculate(d, p, ts) ==
    IF SnapsAfter(d, p, ts) = {} THEN d
    ELSE LET s == Earliest(d, SnapsAfter(d, p, ts))
             row == d.snap[s]
         IN  SetAdjustment(d, p, s, row.ts, Reconciling(d, p, s, row.ts, row.amount))

-----------------------------------------------------------------------------
(* Injections.                                                             *)

\* Mutated forms: injects a negative shortfall; replaces the day's injection
\* instead of adding to it.
EnsureCash_unguarded(d, seen, row, mode) ==
    IF mode = "debit" THEN d
    ELSE [d EXCEPT !.inj = With(d.inj, Slot(row), row.cash - BalanceAt(seen, row.pocket, row.ts, TRUE))]
EnsureCash_replaces(d, seen, row, mode) ==
    LET anchored == SnapsBefore(d, row.pocket, InjectionTs(row.ts)) # {}
        needed == row.cash - BalanceAt(seen, row.pocket, row.ts, TRUE)
    IN  IF mode = "debit" \/ (anchored /\ mode # "inject") \/ needed <= 0 THEN d
        ELSE [d EXCEPT !.inj = With(d.inj, Slot(row), needed)]

\* _ensure_cash_for_spend.  `seen` is the tables the balance is measured on.
EnsureCash(d, seen, row, mode) ==
    LET anchored == SnapsBefore(d, row.pocket, InjectionTs(row.ts)) # {}
        needed == row.cash - BalanceAt(seen, row.pocket, row.ts, TRUE)
        held == IF Slot(row) \in DOMAIN d.inj THEN d.inj[Slot(row)] ELSE 0
    IN  IF mode = "debit" \/ (anchored /\ mode # "inject") \/ needed <= 0 THEN d
        ELSE [d EXCEPT !.inj = With(d.inj, Slot(row), held + needed)]

\* _link_injection: attach spend t to the injection of its day, if any.
LinkInjection(d, t) ==
    IF Slot(d.tx[t]) \in DOMAIN d.inj
    THEN [d EXCEPT !.link = d.link \cup {<<Slot(d.tx[t]), t>>}]
    ELSE d

\* _required_injection_for_day: the deepest deficit of the day that follows
\* the slot, walking its rows in time order from the opening balance.  Rows
\* of one instant come in the order of their ids.
RequiredInjection(d, slot) ==
    LET p == slot[1]
        day == slot[2] + 1
        opening == BalanceAt(NoInjection(d, slot), p, day, FALSE)
        rows == {t \in Live(d) : /\ d.tx[t].pocket = p
                                 /\ d.tx[t].kind \in {"in", "out"}
                                 /\ DayStart(d.tx[t].ts) = day}
        upTo(t) == {u \in rows : \/ d.tx[u].ts < d.tx[t].ts
                                 \/ (d.tx[u].ts = d.tx[t].ts /\ u <= t)}
        flow == [t \in rows |-> Signed(d.tx[t])]
        running(t) == opening + SumFunctionOnSet(flow, upTo(t))
    IN  Max({0} \cup {-running(t) : t \in {u \in rows : d.tx[u].kind = "out"}})

\* The injection goes with its links.
DropInjection(d, slot) ==
    [d EXCEPT !.inj = Without(d.inj, {slot}), !.link = {l \in d.link : l[1] # slot}]

\* delete_transaction alone: no connection enables foreign keys, so the links stay.
AbandonInjection(d, slot) ==
    [DropInjection(d, slot) EXCEPT !.dangling = d.dangling \cup {l \in d.link : l[1] = slot}]

\* A join with transactions: it meets no link whose injection is gone.
LinksOf(d, t) == {slot \in DOMAIN d.inj : <<slot, t>> \in d.link}

\* Mutated form: removes the links that LinksOf meets.
Unlinked_by_join(d, t) == [d EXCEPT !.link = {l \in d.link : l[2] # t}]

\* remove_links_for_transaction
Unlinked(d, t) ==
    [d EXCEPT !.link = {l \in d.link : l[2] # t}, !.dangling = {l \in d.dangling : l[2] # t}]

\* _refresh_injection, without transaction t.
RefreshInjection(d, slot, t) ==
    LET required == RequiredInjection(NoTx(d, t), slot)
    IN  IF (\A l \in d.link : l[1] # slot) \/ required <= 0
        THEN DropInjection(d, slot)
        ELSE [d EXCEPT !.inj = With(d.inj, slot, required)]

-----------------------------------------------------------------------------
(* transaction_svc                                                         *)

IsSpend(row) == row.kind = "out"

\* cash_handling means nothing for the other kinds.
ModesOf(row) == IF IsSpend(row) THEN Modes ELSE {"auto"}

\* create
Created(d, t, row, mode) ==
    LET funded == IF IsSpend(row) THEN EnsureCash(d, d, row, mode) ELSE d
        stored == [funded EXCEPT !.tx[t] = row]
        linked == IF IsSpend(row) THEN LinkInjection(stored, t) ELSE stored
    IN  IF row.kind = "manual" THEN linked ELSE Recalculate(linked, row.pocket, row.ts)

\* Mutated form: refreshes the injection but keeps the link.
Detached_keeps_link(d, t, old) ==
    IF ~IsSpend(old) \/ LinksOf(d, t) = {} THEN d
    ELSE RefreshInjection(d, CHOOSE slot \in LinksOf(d, t) : TRUE, t)

\* The part of update that detaches the edited spend from its injection.  A
\* spend has at most one: by LinksFund its link leads to its own slot.
Detached(d, t, old) ==
    IF ~IsSpend(old) THEN d
    ELSE IF LinksOf(d, t) = {} THEN Unlinked(d, t)
    ELSE RefreshInjection(Unlinked(d, t), CHOOSE slot \in LinksOf(d, t) : TRUE, t)

\* The part of update that attaches it again, as row.
Reattached(d, t, row, mode) ==
    IF IsSpend(row) THEN LinkInjection(EnsureCash(d, NoTx(d, t), row, mode), t) ELSE d

\* Mutated form: refreshes only the snapshot after the new instant.
RecalculateBoth_forgets_old(d, old, row) ==
    IF row.kind = "manual" THEN d ELSE Recalculate(d, row.pocket, row.ts)

\* The end of update: refresh the snapshots after the new row and, if it
\* moved, after the old one.
RecalculateBoth(d, old, row) ==
    IF row.kind = "manual" THEN d
    ELSE IF old.pocket = row.pocket /\ old.ts = row.ts THEN Recalculate(d, row.pocket, row.ts)
    ELSE Recalculate(Recalculate(d, row.pocket, row.ts), old.pocket, old.ts)

\* update
Updated(d, t, row, mode) ==
    LET old == d.tx[t]
        stored == Detached([d EXCEPT !.tx[t] = row], t, old)
    IN  RecalculateBoth(Reattached(stored, t, row, mode), old, row)

\* Mutated form: leaves an injection whose last spend is gone.
Deleted_keeps_injection(d, t) ==
    LET old == d.tx[t]
        gone == NoTx(Unlinked(d, t), t)
    IN  IF old.kind = "manual" THEN gone ELSE Recalculate(gone, old.cur, old.ts)

\* delete: refreshes the pocket of the row's currency, which is not the one
\* the row was paid from when the two differ.
Deleted(d, t) ==
    LET old == d.tx[t]
        gone == NoTx(Unlinked(d, t), t)
        orphans == {slot \in LinksOf(d, t) : \A l \in gone.link : l[1] # slot}
        swept == IF IsSpend(old) THEN [gone EXCEPT !.inj = Without(gone.inj, orphans)] ELSE gone
    IN  IF old.kind = "manual" THEN swept ELSE Recalculate(swept, old.cur, old.ts)

\* reconcile_after_fee_change
Reconciled(d, t) ==
    LET row == d.tx[t]
        own == Recalculate(d, row.pocket, row.ts)
        main == Recalculate(own, MainCurrency, row.ts)
        slot == <<MainCurrency, InjectionTs(row.ts)>>
        anchored == SnapsBefore(main, MainCurrency, InjectionTs(row.ts)) # {}
        balance == BalanceAt(main, MainCurrency, row.ts, TRUE)
    IN  IF row.kind = "manual" THEN d
        ELSE IF MainCurrency \in {NoCurrency, row.cur} THEN own
        ELSE IF anchored THEN main
        ELSE IF balance >= 0 THEN AbandonInjection(main, slot)
        \* The query that should link the new row selects an empty interval.
        ELSE [main EXCEPT !.inj = With(main.inj, slot, -balance)]

FeeStored(d, t, f) == Reconciled([d EXCEPT !.fee[t] = f], t)

\* The loop of update_full over the new fees: none, or one.
FeeReplaced(d, t, f) == IF f = NoRow THEN d ELSE FeeStored(d, t, f)

-----------------------------------------------------------------------------
(* The endpoints.                                                          *)

Fresh(t) == tx[t] = NoRow

\* POST /transactions
Create(t, row, mode) ==
    /\ "create" \in Ops
    /\ Fresh(t)
    /\ Commit(Created(DB, t, row, mode))

\* PUT /transactions/{id}
Update(t, row, mode) ==
    /\ "update" \in Ops
    /\ ~Fresh(t)
    /\ Commit(Updated(DB, t, row, mode))

\* DELETE /transactions/{id}: refused while fees or taxes reference the row.
Delete(t) ==
    /\ "delete" \in Ops
    /\ ~Fresh(t)
    /\ fee[t] = NoRow
    /\ Commit(Deleted(DB, t))

\* POST /transactions/full
CreateFull(t, row, mode, f) ==
    /\ "full" \in Ops
    /\ Fresh(t)
    /\ Commit(FeeStored(Created(DB, t, row, mode), t, f))

\* PUT /transactions/{id}/full: the fees are deleted, stored again one by one
\* and the transaction is reconciled once more at the end.
UpdateFull(t, row, mode, f) ==
    /\ "full" \in Ops
    /\ ~Fresh(t)
    /\ LET bare == [Updated(DB, t, row, mode) EXCEPT !.fee[t] = NoRow]
       IN  Commit(Reconciled(FeeReplaced(bare, t, f), t))

\* POST /transaction-fees, POST /transaction-taxes
CreateFee(t, f) ==
    /\ "fee" \in Ops
    /\ ~Fresh(t)
    /\ fee[t] = NoRow
    /\ Commit(FeeStored(DB, t, f))

\* PUT /transaction-fees/{id}: the body may name another transaction u; only
\* that one is reconciled.
UpdateFee(t, u, f) ==
    /\ "fee" \in Ops
    /\ fee[t] # NoRow
    /\ ~Fresh(u)
    /\ u = t \/ ("move_fee" \in Ops /\ fee[u] = NoRow)
    /\ Commit(FeeStored([DB EXCEPT !.fee[t] = NoRow], u, f))

\* DELETE /transaction-fees/{id}
DeleteFee(t) ==
    /\ "fee" \in Ops
    /\ fee[t] # NoRow
    /\ Commit(FeeStored(DB, t, NoRow))

\* Bound of the model: two snapshots of a pocket never share an instant, for
\* the queries leave the order of such rows open.
NoTwin(s, row) == \A r \in Snapshots(DB, row.cur) : r = s \/ snap[r].ts # row.ts

\* POST /balance-snapshots.  _check_conflicts looks for transactions recorded
\* in the currency, whatever pocket they were paid from.
CreateSnapshot(s, row) ==
    /\ "snapshot" \in Ops
    /\ snap[s] = NoRow
    /\ NoTwin(s, row)
    /\ ~\E t \in Live(DB) : tx[t].cur = row.cur /\ tx[t].ts >= row.ts /\ tx[t].kind # "manual"
    /\ LET d == [DB EXCEPT !.snap[s] = row]
       IN  Commit(SetAdjustment(d, row.cur, s, row.ts,
                                Reconciling(d, row.cur, s, row.ts, row.amount)))

\* PUT /balance-snapshots/{id}.  The adjustment is rebuilt only when the
\* instant or the amount changes, and before the snapshot row is updated.
UpdateSnapshot(s, row) ==
    /\ "resnapshot" \in Ops
    /\ snap[s] # NoRow
    /\ NoTwin(s, row)
    /\ LET old == snap[s]
           bare == [DB EXCEPT !.adj = Without(adj, {<<s, old.cur>>})]
           rebuilt == SetAdjustment(bare, row.cur, s, row.ts,
                                    Reconciling(bare, row.cur, s, row.ts, row.amount))
           d == IF old.ts # row.ts \/ old.amount # row.amount THEN rebuilt ELSE DB
       IN  Commit([d EXCEPT !.snap[s] = row])

\* Mutated form: the snapshot goes, its adjustment stays.
DeleteSnapshot_keeps_adjustment(s) ==
    /\ "unsnapshot" \in Ops
    /\ snap[s] # NoRow
    /\ Commit([DB EXCEPT !.snap[s] = NoRow])

\* DELETE /balance-snapshots/{id}
DeleteSnapshot(s) ==
    /\ "unsnapshot" \in Ops
    /\ snap[s] # NoRow
    /\ Commit([DB EXCEPT !.adj = Without(adj, {<<s, snap[s].cur>>}), !.snap[s] = NoRow])

\* DELETE /transactions/{id} of a generated row: no refresh follows.
DeleteInjection(slot) ==
    /\ "delete_generated" \in Ops
    /\ Commit(DropInjection(DB, slot))

DeleteAdjustment(key) ==
    /\ "delete_generated" \in Ops
    /\ Commit([DB EXCEPT !.adj = Without(adj, {key})])

-----------------------------------------------------------------------------
Init ==
    /\ tx = [t \in TxIds |-> NoRow]
    /\ snap = [s \in SnapIds |-> NoRow]
    /\ adj = <<>>
    /\ inj = <<>>
    /\ link = {} /\ dangling = {}
    /\ fee = [t \in TxIds |-> NoRow]

TxNext(t) ==
    \/ \E row \in TxRows : \E mode \in ModesOf(row) : Create(t, row, mode) \/ Update(t, row, mode)
    \/ Delete(t)

FeeNext(t) ==
    \/ \E row \in TxRows, f \in FeeRows \cup {NoRow} : \E mode \in ModesOf(row) :
         \/ f # NoRow /\ CreateFull(t, row, mode, f)
         \/ UpdateFull(t, row, mode, f)
    \/ \E f \in FeeRows : CreateFee(t, f)
    \/ \E u \in TxIds, f \in FeeRows : UpdateFee(t, u, f)
    \/ DeleteFee(t)

SnapNext(s) ==
    \/ \E row \in SnapRows : CreateSnapshot(s, row) \/ UpdateSnapshot(s, row)
    \/ DeleteSnapshot(s)

GeneratedNext ==
    \/ \E slot \in DOMAIN inj : DeleteInjection(slot)
    \/ \E key \in DOMAIN adj : DeleteAdjustment(key)

Next ==
    \/ \E t \in TxIds : TxNext(t) \/ FeeNext(t)
    \/ \E s \in SnapIds : SnapNext(s)
    \/ GeneratedNext

Spec == Init /\ [][Next]_vars
=============================================================================
