----------------------------- MODULE TaxablePnl -----------------------------
(***************************************************************************)
(* Profit and tax of one portfolio asset: the buys, sells and dividends    *)
(* that requests store in any order, the walk of compute_fifo over them    *)
(* lot by lot, the conversion of each sale under its frozen fiscal rule,   *)
(* its exemption, and the walk of compute_fiscal_year through the brackets *)
(* of each year.  (backend/services/pnl_rules.py, tax_engine.py,           *)
(* analytics_svc.py.)                                                      *)
(*                                                                         *)
(* The report reads the rows once, so no edit comes between its steps.     *)
(* Time is counted in days; amounts are whole and stand for rounded ones.  *)
(* A request may leave a row's quantity or total out, and may enter any    *)
(* number; 0 also stands for a quantity left out, which SQL sums count as  *)
(* nothing and the walk leaves out like any other that is not positive.    *)
(* Units of the asset are numbered per entity in the order of their        *)
(* purchase: a lot is an interval of them.  The numbers (start, used) and  *)
(* vanished, gains are history variables that the code does not keep.      *)
(***************************************************************************)
EXTENDS Integers, Sequences, FiniteSets, FiniteSetsExt, Functions

CONSTANTS
  Entities,    \* entity ids of the holdings
  Times,       \* the days rows can be dated
  Entries,     \* what a request can enter
  MaxRows,     \* how many rows are ever entered
  RuleAt,      \* the rule a sell of a day freezes: its period's or the profile's
  Ruleset,     \* the report's ruleset, for sells that froze none
  Rate,        \* the display currency's rate of each day
  Exemption,   \* [rate, limit, fixed] of the exemption rows may be linked to
  Bases,       \* its tax bases, [since, categories, progressive, bands, flat]
  YearLength,  \* days of a fiscal year
  NoRule, NoSale,
  NoTotal,     \* the total_value of a row that was stored without one
  NoLimit      \* the upper end of a band that has none

Kinds == {"buy", "sell", "dividend"}

ASSUME EntriesAssumption ==
  /\ Entities \subseteq Int /\ Times \subseteq Nat
  /\ MaxRows \in Nat /\ YearLength \in Nat \ {0}
  /\ \A e \in Entries :
       /\ e.kind \in Kinds /\ e.entity \in Entities /\ e.at \in Times
       /\ e.qty \in Int /\ e.total \in Int \cup {NoTotal} /\ e.exempt \in BOOLEAN

ASSUME RatesAssumption ==
  /\ Times # {} /\ IsFiniteSet(Times) /\ IsFiniteSet(Bases)
  /\ Rate \in [Times -> Nat]
  /\ Exemption \in [rate : Nat, limit : Nat, fixed : Nat]
  /\ \A b \in Bases :
       /\ b.since \in Int /\ b.progressive \in BOOLEAN
       /\ b.flat \in Nat /\ IsFiniteSet(b.bands)
       /\ b.bands \subseteq [from : Nat, to : Nat \cup {NoLimit}, rate : Nat]

Year(t) == t \div YearLength

Years == {Year(t) : t \in Times}

\* The rows requests store, and what the walk makes of them.
Stores == [id : 1 .. MaxRows, op : Entries, rule : {RuleAt[t] : t \in Times} \cup {NoRule}]

Matchings ==
  [row : Stores, need : Nat, taken : Seq([buy : Stores, start : Nat, qty : Nat \ {0}])]

ASSUME NoSaleAssumption == NoSale \notin Matchings

VARIABLES
  rows,      \* the transactions stored
  nextId,
  phase,     \* "idle", or what the report is doing: "walk" or "tax"
  todo,      \* the rows compute_fifo has still to walk
  lots,      \* its queues, per entity
  selling,   \* the sell it is matching
  sales,     \* the sales it has matched
  used,      \* units consumed per entity
  vanished,  \* units sold per entity that no lot covered
  items,     \* what compute_fiscal_year has still to tax
  net,       \* running_total per year
  owed,      \* tax per year
  gains      \* the gross gains of a year, losses and exemptions left out

ledger == <<rows, nextId>>
walk == <<todo, lots, selling, sales, used, vanished>>
taxes == <<items, net, owed, gains>>
vars == <<rows, nextId, phase, todo, lots, selling, sales, used, vanished,
          items, net, owed, gains>>

Empty == [e \in Entities |-> <<>>]

Zero(S) == [x \in S |-> 0]

Init ==
  /\ rows = {} /\ nextId = 1 /\ phase = "idle"
  /\ todo = {} /\ lots = Empty /\ selling = NoSale /\ sales = {}
  /\ used = Zero(Entities) /\ vanished = Zero(Entities)
  /\ items = {} /\ net = Zero(Years) /\ owed = Zero(Years) /\ gains = Zero(Years)

\* The rule is frozen with the row, for sells only.
Stored(id, op) ==
  [id |-> id, op |-> op, rule |-> IF op.kind = "sell" THEN RuleAt[op.at] ELSE NoRule]

\* POST, PUT and DELETE /transactions.
Enter(op) ==
  /\ phase = "idle" /\ nextId <= MaxRows
  /\ rows' = rows \cup {Stored(nextId, op)} /\ nextId' = nextId + 1
  /\ UNCHANGED <<phase, walk, taxes>>

Edit(r, op) ==
  /\ phase = "idle"
  /\ rows' = (rows \ {r}) \cup {Stored(r.id, op)}
  /\ UNCHANGED <<nextId, phase, walk, taxes>>

Delete(r) ==
  /\ phase = "idle"
  /\ rows' = rows \ {r}
  /\ UNCHANGED <<nextId, phase, walk, taxes>>

-----------------------------------------------------------------------------
\* compute_fifo: rows by entity, timestamp and id.
Before(r, s) ==
  \/ r.op.entity < s.op.entity
  \/ r.op.entity = s.op.entity /\ r.op.at < s.op.at
  \/ r.op.entity = s.op.entity /\ r.op.at = s.op.at /\ r.id < s.id

Report ==
  /\ phase = "idle" /\ phase' = "walk"
  /\ todo' = {r \in rows : r.op.kind \in {"buy", "sell"}}
  /\ UNCHANGED <<ledger, lots, selling, sales, used, vanished, taxes>>

\* A bug: the rows of an entity in the order they were entered in.
IsNext_as_entered(r) ==
  /\ phase = "walk" /\ selling = NoSale
  /\ \A s \in todo \ {r} :
       r.op.entity < s.op.entity \/ (r.op.entity = s.op.entity /\ r.id < s.id)

IsNext(r) ==
  /\ phase = "walk" /\ selling = NoSale
  /\ \A s \in todo \ {r} : Before(r, s)

\* The number of the next unit an entity buys.
Bought(e) ==
  IF lots[e] = <<>> THEN used[e]
  ELSE lots[e][Len(lots[e])].start + lots[e][Len(lots[e])].qty

Lot(r) == [buy |-> r, start |-> Bought(r.op.entity), qty |-> r.op.qty]

\* Rows without a positive quantity or without a total are left out.
Walkable(r) == r.op.qty > 0 /\ r.op.total # NoTotal

SkipRow(r) ==
  /\ IsNext(r) /\ ~Walkable(r)
  /\ todo' = todo \ {r}
  /\ UNCHANGED <<ledger, phase, lots, selling, sales, used, vanished, taxes>>

WalkBuy(r) ==
  /\ IsNext(r) /\ Walkable(r) /\ r.op.kind = "buy"
  /\ todo' = todo \ {r}
  /\ lots' = [lots EXCEPT ![r.op.entity] = Append(@, Lot(r))]
  /\ UNCHANGED <<ledger, phase, selling, sales, used, vanished, taxes>>

\* A sell that finds an empty queue is left out of the report.
SkipSell(r) ==
  /\ IsNext(r) /\ Walkable(r) /\ r.op.kind = "sell" /\ lots[r.op.entity] = <<>>
  /\ todo' = todo \ {r}
  /\ vanished' = [vanished EXCEPT ![r.op.entity] = @ + r.op.qty]
  /\ UNCHANGED <<ledger, phase, lots, selling, sales, used, taxes>>

BeginSell(r) ==
  /\ IsNext(r) /\ Walkable(r) /\ r.op.kind = "sell" /\ lots[r.op.entity] # <<>>
  /\ todo' = todo \ {r}
  /\ selling' = [row |-> r, need |-> r.op.qty, taken |-> <<>>]
  /\ UNCHANGED <<ledger, phase, lots, sales, used, vanished, taxes>>

Lesser(a, b) == IF a < b THEN a ELSE b

Greater(a, b) == IF a < b THEN b ELSE a

\* A bug: a lot matched exactly stays in the queue, with nothing left of it.
Take_keeps_empty ==
  LET e == selling.row.op.entity
      lot == Head(lots[e])
      part == Lesser(lot.qty, selling.need)
  IN  /\ selling # NoSale /\ selling.need > 0 /\ lots[e] # <<>>
      /\ selling' = [selling EXCEPT !.need = @ - part,
                                    !.taken = Append(@, [lot EXCEPT !.qty = part])]
      /\ lots' = [lots EXCEPT ![e] =
           [@ EXCEPT ![1] = [@ EXCEPT !.start = @ + part, !.qty = @ - part]]]
      /\ used' = [used EXCEPT ![e] = @ + part]
      /\ UNCHANGED <<ledger, phase, todo, sales, vanished, taxes>>

\* A bug: a lot leaves the queue whole when only a part of it was sold.
Take_whole_lots ==
  LET e == selling.row.op.entity
      lot == Head(lots[e])
      part == Lesser(lot.qty, selling.need)
  IN  /\ selling # NoSale /\ selling.need > 0 /\ lots[e] # <<>>
      /\ selling' = [selling EXCEPT !.need = @ - part,
                                    !.taken = Append(@, [lot EXCEPT !.qty = part])]
      /\ lots' = [lots EXCEPT ![e] = Tail(@)]
      /\ used' = [used EXCEPT ![e] = @ + part]
      /\ UNCHANGED <<ledger, phase, todo, sales, vanished, taxes>>

\* One lot of the front, or the part of it that is needed.
Take ==
  LET e == selling.row.op.entity
      lot == Head(lots[e])
      part == Lesser(lot.qty, selling.need)
      rest == [lot EXCEPT !.start = @ + part, !.qty = @ - part]
  IN  /\ selling # NoSale /\ selling.need > 0 /\ lots[e] # <<>>
      /\ selling' = [selling EXCEPT !.need = @ - part,
                                    !.taken = Append(@, [lot EXCEPT !.qty = part])]
      /\ lots' = [lots EXCEPT ![e] =
           IF part >= lot.qty THEN Tail(@) ELSE [@ EXCEPT ![1] = rest]]
      /\ used' = [used EXCEPT ![e] = @ + part]
      /\ UNCHANGED <<ledger, phase, todo, sales, vanished, taxes>>

\* What the queue did not cover is forgotten; the proceeds are the whole sale's.
FinishSell ==
  LET e == selling.row.op.entity IN
  /\ selling # NoSale /\ (selling.need = 0 \/ lots[e] = <<>>)
  /\ sales' = sales \cup {[row |-> selling.row, taken |-> selling.taken]}
  /\ vanished' = [vanished EXCEPT ![e] = @ + selling.need]
  /\ selling' = NoSale
  /\ UNCHANGED <<ledger, phase, todo, lots, used, taxes>>

-----------------------------------------------------------------------------
\* convert_sale: proceeds of the day of the sale, or of the latest rate; costs
\* of that day too, or, under Japan's rule, of the day of each purchase.
RuleOf(r) == IF r.rule = NoRule THEN Ruleset ELSE r.rule

SaleRate(r) == IF RuleOf(r) = "latest" THEN Rate[Max(Times)] ELSE Rate[r.op.at]

CostRate(r, lot) == IF RuleOf(r) = "japan" THEN Rate[lot.buy.op.at] ELSE SaleRate(r)

CostOf(r, lot) == lot.qty * (lot.buy.op.total \div lot.buy.op.qty) * CostRate(r, lot)

Converted(s) ==
  s.row.op.total * SaleRate(s.row)
    - SumFunction([i \in DOMAIN s.taken |-> CostOf(s.row, s.taken[i])])

\* _apply_exemption: gains only, a capped percentage and a fixed allowance.
Exempted(r, gross) ==
  Lesser(gross, Lesser((gross * Exemption.rate) \div 100, Exemption.limit)
                  + Exemption.fixed * Rate[r.op.at])

Taxable(r, gross) ==
  IF r.op.exempt /\ gross > 0 THEN gross - Exempted(r, gross) ELSE gross

\* resolve_tax_base: the latest base that is in force.
InForce(y) == {b \in Bases : b.since <= y}

BaseOf(y) == CHOOSE b \in InForce(y) : \A c \in InForce(y) : c.since <= b.since

Ceiling(b, to) == IF b.to = NoLimit THEN to ELSE Lesser(to, b.to)

Progressive(bands, from, to) ==
  SumFunction([b \in bands |-> Greater(0, Ceiling(b, to) - Greater(from, b.from)) * b.rate])

\* The tax between two positions of the running total; none where a progressive
\* base has no bands, or a flat one no rate.
TaxBetween(y, from, to) ==
  LET base == BaseOf(y) IN
  IF base.progressive THEN Progressive(base.bands, from, to) ELSE (to - from) * base.flat

Taxed(y, r) == InForce(y) # {} /\ r.op.kind \in BaseOf(y).categories

Item(r, gross) == [row |-> r, gross |-> gross]

\* total_value or 0.0
Total(op) == IF op.total = NoTotal THEN 0 ELSE op.total

StartTaxes ==
  /\ phase = "walk" /\ todo = {} /\ selling = NoSale /\ phase' = "tax"
  /\ items' = {Item(s.row, Converted(s)) : s \in sales}
         \cup {Item(r, Total(r.op) * Rate[r.op.at]) : r \in {d \in rows : d.op.kind = "dividend"}}
  /\ UNCHANGED <<ledger, walk, net, owed, gains>>

\* Years in order, in a year by timestamp; sorting is stable, so what shares a
\* timestamp stays in the order it was collected in, sells before dividends.
Precedes(i, j) ==
  LET r == i.row  s == j.row IN
  \/ r.op.at < s.op.at
  \/ /\ r.op.at = s.op.at
     /\ \/ r.op.kind = "sell" /\ s.op.kind = "dividend"
        \/ r.op.kind = "sell" /\ s.op.kind = "sell" /\ Before(r, s)
        \/ r.op.kind = "dividend" /\ s.op.kind = "dividend" /\ r.id < s.id

\* A bug: every item is taxed from the lowest bracket up.
TaxItem_from_zero(i) ==
  LET y == Year(i.row.op.at)
      amount == Taxable(i.row, i.gross)
  IN  /\ phase = "tax" /\ \A j \in items \ {i} : Precedes(i, j)
      /\ items' = items \ {i}
      /\ IF Taxed(y, i.row)
         THEN /\ owed' = [owed EXCEPT ![y] = @ + TaxBetween(y, 0, amount)]
              /\ net' = [net EXCEPT ![y] = @ + amount]
              /\ gains' = [gains EXCEPT ![y] = @ + Greater(0, i.gross)]
         ELSE UNCHANGED <<owed, net, gains>>
      /\ UNCHANGED <<ledger, phase, walk>>

\* A loss moves the position back; the tax already counted stays.
TaxItem(i) ==
  LET y == Year(i.row.op.at)
      to == net[y] + Taxable(i.row, i.gross)
  IN  /\ phase = "tax" /\ \A j \in items \ {i} : Precedes(i, j)
      /\ items' = items \ {i}
      /\ IF Taxed(y, i.row)
         THEN /\ owed' = [owed EXCEPT ![y] = @ + TaxBetween(y, net[y], to)]
              /\ net' = [net EXCEPT ![y] = to]
              /\ gains' = [gains EXCEPT ![y] = @ + Greater(0, i.gross)]
         ELSE UNCHANGED <<owed, net, gains>>
      /\ UNCHANGED <<ledger, phase, walk>>

Answer ==
  /\ phase = "tax" /\ items = {} /\ phase' = "idle"
  /\ lots' = Empty /\ sales' = {} /\ used' = Zero(Entities) /\ vanished' = Zero(Entities)
  /\ net' = Zero(Years) /\ owed' = Zero(Years) /\ gains' = Zero(Years)
  /\ UNCHANGED <<ledger, todo, selling, items>>

Next ==
  \/ \E op \in Entries : Enter(op) \/ \E r \in rows : Edit(r, op)
  \/ \E r \in rows : Delete(r)
  \/ Report
  \/ \E r \in todo : SkipRow(r) \/ WalkBuy(r) \/ SkipSell(r) \/ BeginSell(r)
  \/ Take
  \/ FinishSell
  \/ StartTaxes
  \/ \E i \in items : TaxItem(i)
  \/ Answer

Spec == Init /\ [][Next]_vars

-----------------------------------------------------------------------------
\* The sums of get_holdings and get_holdings_by_entity, over the rows they read.
NetQuantity(S) ==
  LET Quantity(kind) == SumFunction([r \in {q \in S : q.op.kind = kind} |-> r.op.qty])
  IN  Quantity("buy") - Quantity("sell")

RowsAt(e) == {r \in rows : r.op.entity = e}

\* Rows that were entered without a positive quantity or without a total.
LeftOut(e) == {r \in RowsAt(e) : r.op.qty <= 0 \/ r.op.total = NoTotal}

LotQuantity(e) == SumFunction([i \in DOMAIN lots[e] |-> lots[e][i].qty])

Matched ==
  sales \cup {[row |-> s.row, taken |-> s.taken] : s \in {selling} \ {NoSale}}

WalkableRows == {r \in rows : Walkable(r)}

Pieces == [buy : WalkableRows, start : Nat, qty : Nat \ {0}]

Sales == [row : WalkableRows, taken : Seq(Pieces)]

TypeOK ==
  /\ rows \subseteq Stores
  /\ nextId \in 1 .. MaxRows + 1
  /\ \A r, s \in rows : r.id = s.id => r = s
  /\ phase \in {"idle", "walk", "tax"}
  /\ todo \subseteq rows
  /\ lots \in [Entities -> Seq(Pieces)]
  /\ sales \subseteq Sales
  /\ selling = NoSale \/ /\ selling.need \in Nat
                         /\ [row |-> selling.row, taken |-> selling.taken] \in Sales
  /\ used \in [Entities -> Nat] /\ vanished \in [Entities -> Nat]
  /\ items \subseteq [row : rows, gross : Int]
  /\ net \in [Years -> Int] /\ owed \in [Years -> Int] /\ gains \in [Years -> Nat]

\* First in, first out, per entity (doc/calculations/finance.md, 10 and 11):
\* a sell consumes units bought before it at its own entity, a later sell never
\* consumes older units than an earlier one, and no unit is left that is older
\* than one consumed, whatever the order rows were entered and re-dated in.
FirstInFirstOut ==
  \A s \in Matched : \A i \in DOMAIN s.taken :
    LET b == s.taken[i].buy  e == s.row.op.entity IN
    /\ b.op.entity = e /\ Before(b, s.row)
    /\ \A t \in Matched : \A j \in DOMAIN t.taken :
         t.row.op.entity = e /\ Before(s.row, t.row) => ~Before(t.taken[j].buy, b)
    /\ \A j \in DOMAIN lots[e] : ~Before(lots[e][j].buy, b)

\* The two ways the program counts what is held differ by two things only: rows
\* without a positive quantity or a total, which the SQL sums count and compute_fifo
\* leaves out, and units sold without being held, which the walk forgets.
HoldingsMatchLots ==
  phase = "tax" =>
    \A e \in Entities :
      LotQuantity(e) = NetQuantity(RowsAt(e)) - NetQuantity(LeftOut(e)) + vanished[e]

\* Taxing item by item in the order of time never asks for less than the tax on
\* the year's net amount, nor for more than the tax on its gains alone: no item
\* is taxed twice or lost between brackets, and exemptions only lower the tax.
NetIsTaxed == \A y \in Years : InForce(y) # {} => TaxBetween(y, 0, net[y]) <= owed[y]

OnlyGainsAreTaxed ==
  \A y \in Years : InForce(y) # {} => owed[y] <= TaxBetween(y, 0, gains[y])

TaxWithinBounds == NetIsTaxed /\ OnlyGainsAreTaxed
=============================================================================
